----------------------------- MODULE WalletLock -----------------------------
(***************************************************************************)
(* How long an encrypted wallet stays unlocked (rpcwallet.cpp, wallet.cpp):*)
(* walletpassphrase unlocks it and starts a ThreadCleanWalletPassphrase    *)
(* that is to lock it again; walletlock locks it at once;                  *)
(* walletpassphrasechange locks it, and unlocks it again if it was.        *)
(*                                                                         *)
(* The calls run one at a time, under cs_main and cs_wallet.  The timer    *)
(* threads take only cs_nWalletUnlockTime, and sleep outside it, so they   *)
(* run between any two steps of walletpassphrasechange, which derives keys *)
(* for a good part of a second between them.                               *)
(*                                                                         *)
(* Points in time are kept as what is left until then, at least 0.         *)
(***************************************************************************)
EXTENDS Integers

CONSTANTS
    Timer,       \* as many ThreadCleanWalletPassphrase as run at once
    MaxTimeout,  \* the longest <timeout>
    NoTime       \* nWalletUnlockTime = 0: no time set; no timer

ASSUME TimeAssumption == MaxTimeout \in Nat \ {0} /\ NoTime \notin Nat /\ NoTime \notin Timer

VARIABLES
    locked,            \* is vMasterKey empty?
    nWalletUnlockTime, \* NoTime, or what is left until then
    thread,            \* [Timer -> state of the thread]
    wait,              \* [Timer -> <timeout>, then what is left until nMyWakeTime or of the sleep]
    change,            \* where walletpassphrasechange is
    fWasLocked         \* ... and what it found

\* History, read by no action.
VARIABLES
    latest,            \* the timer of the last walletpassphrase, or NoTime
    owed,              \* what is left of the time it asked for, once its timer runs
    relit              \* did a timer lock the wallet under a walletpassphrasechange?

timers       == <<thread, wait>>
timerHistory == <<latest, owed, relit>>
timerVars    == <<locked, nWalletUnlockTime, timers, change, fWasLocked, timerHistory>>

Time == 0 .. MaxTimeout

TimerTypeOK ==
    /\ locked \in BOOLEAN
    /\ nWalletUnlockTime \in Time \cup {NoTime}
    /\ thread \in [Timer -> {"none", "new", "enter", "asleep"}]
    /\ wait \in [Timer -> Time]
    /\ change \in {"none", "begun", "locked", "unlocked"}
    /\ fWasLocked \in BOOLEAN
    /\ latest \in Timer \cup {NoTime} /\ owed \in Time /\ relit \in BOOLEAN

\* An encrypted wallet after the start of the program.
TimerInit ==
    /\ locked = TRUE /\ nWalletUnlockTime = NoTime
    /\ thread = [t \in Timer |-> "none"] /\ wait = [t \in Timer |-> 0]
    /\ change = "none" /\ fWasLocked = FALSE
    /\ latest = NoTime /\ owed = 0 /\ relit = FALSE

-----------------------------------------------------------------------------
(* The calls.                                                              *)

\* The right passphrase: unlocked, and a timer on its way.  A wrong one and an
\* unlocked wallet are errors that change nothing.  (fWalletUnlockStakingOnly, which
\* it sets too, is read only by later calls, to refuse them.)
walletpassphrase(t, timeout) ==
    /\ change = "none" /\ locked
    /\ thread[t] = "none"
    /\ locked' = FALSE
    /\ thread' = [thread EXCEPT ![t] = "new"]
    /\ wait' = [wait EXCEPT ![t] = timeout]
    /\ latest' = t /\ owed' = 0
    /\ UNCHANGED <<nWalletUnlockTime, change, fWasLocked, relit>>

walletlock ==
    /\ change = "none"
    /\ locked' = TRUE
    /\ nWalletUnlockTime' = NoTime
    /\ latest' = NoTime /\ owed' = 0 /\ relit' = FALSE
    /\ UNCHANGED <<timers, change, fWasLocked>>

\* ChangeWalletPassphrase looks whether the wallet is locked ...
ChangeBegin ==
    /\ change = "none"
    /\ change' = "begun" /\ fWasLocked' = locked
    /\ UNCHANGED <<locked, nWalletUnlockTime, timers, timerHistory>>

\* ... locks it ...
ChangeLock ==
    /\ change = "begun"
    /\ change' = "locked" /\ locked' = TRUE
    /\ UNCHANGED <<nWalletUnlockTime, timers, fWasLocked, timerHistory>>

\* ... unlocks it, if the old passphrase was right ...
ChangeUnlock ==
    /\ change = "locked"
    /\ change' = "unlocked" /\ locked' = FALSE
    /\ UNCHANGED <<nWalletUnlockTime, timers, fWasLocked, timerHistory>>

\* ... and otherwise returns: the wallet stays locked, the time set.
ChangeRefused ==
    /\ change = "locked"
    /\ change' = "none"
    /\ latest' = NoTime /\ owed' = 0 /\ relit' = FALSE
    /\ UNCHANGED <<locked, nWalletUnlockTime, timers, fWasLocked>>

\* Mutant: the wallet is left as the change needed it.
RelockNever == UNCHANGED locked

\* With the new passphrase in place, "if (fWasLocked) Lock()".
Relock == locked' = (locked \/ fWasLocked)

ChangeEnd ==
    /\ change = "unlocked"
    /\ change' = "none" /\ Relock
    /\ UNCHANGED <<nWalletUnlockTime, timers, fWasLocked, timerHistory>>

-----------------------------------------------------------------------------
(* ThreadCleanWalletPassphrase.                                            *)

\* It works out nMyWakeTime, before it enters the critical section.
SetWakeTime(t) ==
    /\ thread[t] = "new"
    /\ thread' = [thread EXCEPT ![t] = "enter"]
    /\ owed' = IF t = latest THEN wait[t] ELSE owed
    /\ UNCHANGED <<locked, nWalletUnlockTime, wait, change, fWasLocked, latest, relit>>

\* The later one of two times.
Later(time, mine) == IF time < mine THEN mine ELSE time

\* Another timer is at work: see that it waits long enough.
Extend(t) ==
    /\ thread[t] = "enter" /\ nWalletUnlockTime # NoTime
    /\ nWalletUnlockTime' = Later(nWalletUnlockTime, wait[t])
    /\ thread' = [thread EXCEPT ![t] = "none"]
    /\ wait' = [wait EXCEPT ![t] = 0]
    /\ UNCHANGED <<locked, change, fWasLocked, timerHistory>>

\* The time is up: "nWalletUnlockTime = 0; pwalletMain->Lock()".
TimeUp(t) ==
    /\ nWalletUnlockTime' = NoTime /\ locked' = TRUE
    /\ thread' = [thread EXCEPT ![t] = "none"]
    /\ wait' = [wait EXCEPT ![t] = 0]
    /\ relit' = (change \in {"begun", "locked"} /\ ~fWasLocked)
    /\ latest' = NoTime /\ owed' = 0
    /\ UNCHANGED <<change, fWasLocked>>

Sleep(t, time) ==
    /\ nWalletUnlockTime' = time
    /\ thread' = [thread EXCEPT ![t] = "asleep"]
    /\ wait' = [wait EXCEPT ![t] = time]
    /\ UNCHANGED <<locked, change, fWasLocked, timerHistory>>

\* The first timer sets the time and goes to sleep, if there is any time at all.
StartTimer(t) ==
    /\ thread[t] = "enter" /\ nWalletUnlockTime = NoTime
    /\ IF wait[t] = 0 THEN TimeUp(t) ELSE Sleep(t, wait[t])

\* Mutant: a timer that wakes locks the wallet, whatever time is set by now.
WakeRegardless(t) == /\ thread[t] = "asleep" /\ wait[t] = 0
                     /\ nWalletUnlockTime # NoTime
                     /\ TimeUp(t)

\* Mutant: the timeout is counted from each time the timer wakes.
WakeStartsAnew(t) == /\ thread[t] = "asleep" /\ wait[t] = 0
                     /\ nWalletUnlockTime # NoTime
                     /\ Sleep(t, MaxTimeout)

\* Back in the critical section: on with the sleep if the time was put off.
Wake(t) == /\ thread[t] = "asleep" /\ wait[t] = 0
           /\ nWalletUnlockTime # NoTime
           /\ IF nWalletUnlockTime = 0 THEN TimeUp(t) ELSE Sleep(t, nWalletUnlockTime)

\* ... and away, if the wallet was locked meanwhile.
WakeInVain(t) ==
    /\ thread[t] = "asleep" /\ wait[t] = 0
    /\ nWalletUnlockTime = NoTime
    /\ thread' = [thread EXCEPT ![t] = "none"]
    /\ UNCHANGED <<locked, nWalletUnlockTime, wait, change, fWasLocked, timerHistory>>

\* Time passes.  A <timeout> does not run before its thread does.
Left(n) == IF n = NoTime \/ n = 0 THEN n ELSE n - 1

Tick == /\ nWalletUnlockTime' = Left(nWalletUnlockTime)
        /\ wait' = [t \in Timer |-> IF thread[t] = "new" THEN wait[t] ELSE Left(wait[t])]
        /\ owed' = Left(owed)
        /\ UNCHANGED <<locked, thread, change, fWasLocked, latest, relit>>

-----------------------------------------------------------------------------
Call == \/ \E t \in Timer, timeout \in Time : walletpassphrase(t, timeout)
        \/ walletlock \/ ChangeBegin
Change == ChangeLock \/ ChangeUnlock \/ ChangeRefused \/ ChangeEnd
Clean(t) == SetWakeTime(t) \/ Extend(t) \/ StartTimer(t) \/ Wake(t) \/ WakeInVain(t)

TimerNext == Call \/ Change \/ (\E t \in Timer : Clean(t)) \/ Tick

\* Threads that can go on do, and so does the clock.  Nobody has to make a call.
TimerSpec ==
    /\ TimerInit /\ [][TimerNext]_timerVars
    /\ WF_timerVars(Tick) /\ WF_timerVars(Change) /\ \A t \in Timer : WF_timerVars(Clean(t))

-----------------------------------------------------------------------------
(* Properties.                                                             *)

\* A timer is on its way, or asleep with a time set.
Timed == \/ \E t \in Timer : thread[t] \in {"new", "enter"}
         \/ nWalletUnlockTime # NoTime /\ \E t \in Timer : thread[t] = "asleep"

\* An unlocked wallet has a timer that will lock it, whatever other timers,
\* walletlock and changes of the passphrase have come in between, unless a timer
\* has locked it under a walletpassphrasechange that found it unlocked.
UnlockedIsTimed == TimerTypeOK /\ (~locked /\ change = "none" /\ ~relit => Timed)

\* No timer locks the wallet before the time is over that the last
\* walletpassphrase asked for, once its own timer is running.
NotCutShort ==
    [][\A t \in Timer : thread[t] = "asleep" /\ TimeUp(t)
          => latest = NoTime \/ thread[latest] \in {"new", "enter"} \/ owed = 0]_timerVars

\* An unlocked wallet is locked in the end, with the same exception.
LockedInTheEnd == ~locked ~> locked \/ relit

\* The help of walletpassphrase: it "stores the wallet decryption key in memory for
\* <timeout> seconds", that is until a timer has done its work.
StoredForTimeout == ~locked /\ change = "none" => Timed
=============================================================================
