------------------------------- MODULE Sprout -------------------------------
(***************************************************************************)
(* Sprouting (miner.cpp: ThreadStakeMiner, CheckStake; main.cpp: SignBlock;*)
(* wallet.cpp: CreateBeanStake; kernel.cpp): a thread of low priority      *)
(* makes a block template, looks for a second at which a bean of the       *)
(* wallet meets the target, and hands a signed block to ProcessBlock.      *)
(*                                                                         *)
(* It reads pindexBest five times without cs_main, while blocks come in    *)
(* and go, the wallet sends its bean elsewhere or takes the mark off that  *)
(* says it is spent, and the clock, which peers adjust, moves on or back.  *)
(* Only the last step runs under cs_main.                                  *)
(*                                                                         *)
(* One bean stands for the wallet; its transaction is as young as its      *)
(* block allows, which is the worst case for its weight, and deep enough   *)
(* to stay in the chain.  The first second of a search to meet the target  *)
(* is chosen anew for each.  A transaction is its nTime; the latest one    *)
(* stands for all the template takes from the pool.                        *)
(***************************************************************************)
EXTENDS Integers, FiniteSets, FiniteSetsExt

CONSTANTS
    MaxTime,   \* bound: the last second
    MaxTip,    \* bound: the last block
    Window,    \* nMaxStakeSearchInterval
    MinAge,    \* nStakeMinAge
    Drift,     \* FutureDrift
    Limits,    \* bound: the first times a block may have
    Beans      \* bound: the times of the bean's block

ASSUME SproutAssumption ==
    /\ MaxTime \in Nat /\ MaxTip \in Nat
    /\ Window \in Nat \ {0} /\ MinAge \in Nat /\ Drift \in Nat
    /\ Limits \subseteq 0 .. MaxTime /\ Beans \subseteq Int

Time == 0 .. MaxTime

VARIABLES
    now,       \* GetAdjustedTime()
    tip,       \* pindexBest
    earliest,  \* the first time a block after it may have: its past time limit + 1,
               \* or ten minutes before its own time if that is later
    bean,      \* the time of the bean's block
    spent,     \* the wallet's mark: the bean is spent
    inPool,    \* does a transaction of the pool spend it?
    onChain,   \* what of the best chain spends it
    seen,      \* setStakeSeen: the times of the bean's sprouts
    last,      \* nLastBeanStakeSearchTime
    pc,        \* where the thread is
    block,     \* hashPrevBlock, times of the transactions, is the bean's among them?, nTime
    search,    \* CreateBeanStake: pindexPrev, nSearchTime, n
    kernels    \* the second that meets the target, if there is one

\* History: the seconds hashed in vain since a block was made; what became of the
\* last block; has the mark been taken off a bean that something spends; has a
\* sprout of the bean been disconnected; has the clock gone back since the
\* template was begun.
VARIABLES tried, outcome, cleared, replaced, wentBack

chain == <<tip, earliest, onChain, seen, replaced>>
purse == <<bean, spent, inPool, cleared>>
clock == <<now, wentBack>>
miner == <<last, pc, block, search, kernels, tried, outcome>>
vars  == <<chain, purse, clock, miner>>

NoBlock  == [prev |-> 0, txs |-> {}, spends |-> FALSE, time |-> 0]
NoSearch == [prev |-> 0, time |-> 0, n |-> 0]

TypeOK ==
    /\ now \in Time /\ tip \in 0 .. MaxTip + 1 /\ earliest \in Time /\ last \in Time
    /\ bean \in Int /\ spent \in BOOLEAN /\ inPool \in BOOLEAN
    /\ onChain \in {"no", "tx", "sprout"} /\ seen \subseteq Time
    /\ pc \in {"wait", "collect", "sign", "search", "found", "fail", "time", "check"}
    /\ block \in [prev : 0 .. MaxTip + 1, txs : SUBSET Time, spends : BOOLEAN, time : Time]
    /\ search \in [prev : 0 .. MaxTip + 1, time : Time, n : 0 .. Window]
    /\ kernels \subseteq Time /\ tried \subseteq Time
    /\ outcome \in {"none", "stale", "duplicate", "future", "young", "invalid", "twice", "accepted"}
    /\ cleared \in BOOLEAN /\ replaced \in BOOLEAN /\ wentBack \in BOOLEAN

\* The thread has called SignBlock once.  The time of a block may be ahead of
\* ours.
Init ==
    /\ now = 0 /\ tip = 0 /\ earliest = 0
    /\ bean \in Beans /\ spent = FALSE
    /\ inPool = FALSE /\ onChain = "no" /\ seen = {}
    /\ last = 0 /\ pc = "wait"
    /\ block = NoBlock /\ search = NoSearch /\ kernels = {}
    /\ tried = {} /\ outcome = "none"
    /\ cleared = FALSE /\ replaced = FALSE /\ wentBack = FALSE

-----------------------------------------------------------------------------
(* What goes on around the thread.                                         *)

Clock == /\ now' \in {now - 1, now + 1} \cap Time
         /\ wentBack' = (wentBack \/ (pc # "wait" /\ now' < now))
         /\ UNCHANGED <<chain, purse, miner>>

\* CommitTransaction, under both locks: the bean is marked as spent and the
\* transaction enters the pool, unless another one of the pool or of the chain
\* spends the bean.
Send ==
    /\ ~spent /\ spent' = TRUE
    /\ inPool' = (inPool \/ onChain = "no")
    /\ UNCHANGED <<bean, cleared, chain, clock, miner>>

\* The mark is taken off by WalletUpdateSpent when a block with the bean's own
\* transaction is connected or read again, by FixSpentBeans, and by a
\* reorganisation that is given up after DisableTransaction.
Unmark ==
    /\ spent /\ spent' = FALSE
    /\ cleared' = (cleared \/ inPool \/ onChain # "no")
    /\ UNCHANGED <<bean, inPool, chain, clock, miner>>

\* A block or a reorganisation.  It may contain the transaction that spends the
\* bean; or it disconnects that one, which goes back to the pool, or the sprout,
\* whose bean DisableTransaction marks as unspent.
NewBlock ==
    /\ tip < MaxTip /\ tip' = tip + 1
    /\ earliest' \in Limits
    /\ \/ UNCHANGED <<spent, inPool, onChain, cleared, replaced>>
       \/ /\ inPool /\ onChain = "no"
          /\ onChain' = "tx" /\ inPool' = FALSE /\ spent' = TRUE
          /\ UNCHANGED <<cleared, replaced>>
       \/ /\ onChain = "tx"
          /\ onChain' = "no" /\ inPool' = TRUE
          /\ UNCHANGED <<spent, cleared, replaced>>
       \/ /\ onChain = "sprout"
          /\ onChain' = "no" /\ replaced' = TRUE
          /\ spent' = FALSE /\ cleared' = (cleared \/ inPool)
          /\ UNCHANGED inPool
    /\ UNCHANGED <<bean, seen, clock, miner>>

-----------------------------------------------------------------------------
(* ThreadStakeMiner.                                                       *)

\* The wallet is not locked, there are peers and the chain is up to date.
\* CreateNewBlock takes pindexBest before it takes cs_main.
StartTemplate ==
    /\ pc = "wait" /\ tip <= MaxTip
    /\ block' = [NoBlock EXCEPT !.prev = tip, !.time = now]
    /\ pc' = "collect" /\ outcome' = "none" /\ wentBack' = FALSE
    /\ UNCHANGED <<chain, purse, now, last, search, kernels, tried>>

\* "Collect memory pool transactions into the block": none is later than the
\* beanbase transaction, and what the best chain spends is left out.  (The time
\* is SignBlock's to set.)
Collect ==
    /\ pc = "collect"
    /\ \E txs \in {{}} \cup {{t} : t \in {u \in Time : u <= block.time /\ u <= now}},
          spends \in {FALSE, inPool /\ onChain = "no"} :
         block' = [block EXCEPT !.txs = txs, !.spends = spends, !.time = 0]
    /\ pc' = "sign"
    /\ UNCHANGED <<chain, purse, clock, last, search, kernels, tried, outcome>>

\* Mutant: at its time, not at the end of the window.
OldEnoughNow(time) == bean + MinAge <= time

\* CreateBeanStake takes the bean if it is not marked as spent, and old enough for
\* the whole window.
OldEnough(time) == bean + MinAge <= time - Window

\* Mutant: a bean that is spent.
BeanSpentOrNot(time) == OldEnough(time)

BeanForWindow(time) == ~spent /\ OldEnough(time)

\* SignBlock, with a beansprout transaction of this moment.
StartSearch ==
    /\ pc = "sign"
    /\ IF now <= last
         THEN /\ pc' = "wait" /\ block' = NoBlock
              /\ UNCHANGED <<search, kernels>>
         ELSE /\ search' = [prev |-> tip, time |-> now, n |-> 0]
              /\ \/ pc' = "fail" /\ UNCHANGED kernels  \* the balance is all reserved
                 \/ /\ BeanForWindow(now) /\ pc' = "search"
                    /\ kernels' = {} \/ \E t \in Time : t > now - Window /\ t <= now /\ kernels' = {t}
              /\ UNCHANGED block
    /\ UNCHANGED <<chain, purse, clock, last, tried, outcome>>

\* Mutant: one more second.
InWindowAndOne == search.n <= (IF search.time - last < Window THEN search.time - last ELSE Window)

\* The loop of CreateBeanStake, back from nSearchTime.
InWindow == search.n < (IF search.time - last < Window THEN search.time - last ELSE Window)

txTime == search.time - search.n

\* GetWeight of the bean, below nStakeMaxAge.
GetWeight(begin, end) == end - begin - MinAge

\* CheckStakeKernelHash
MeetsTarget(t) == bean <= t /\ bean + MinAge <= t /\ t \in kernels

HashKernel ==
    /\ pc = "search" /\ InWindow /\ search.prev = tip
    /\ IF MeetsTarget(txTime)
         THEN pc' = "found" /\ tried' = {} /\ UNCHANGED search
         ELSE /\ search' = [search EXCEPT !.n = @ + 1]
              /\ tried' = tried \cup {txTime}
              /\ UNCHANGED pc
    /\ UNCHANGED <<chain, purse, clock, last, block, kernels, outcome>>

EndSearch ==
    /\ pc = "search" /\ ~(InWindow /\ search.prev = tip)
    /\ pc' = "fail"
    /\ UNCHANGED <<chain, purse, clock, last, block, search, kernels, tried, outcome>>

\* The key, which a locked wallet does not give, the other inputs, the reward,
\* the signature; and "make sure beansprout would meet timestamp protocol".
FinishBeanStake ==
    /\ pc = "found"
    /\ \/ pc' = "fail"
       \/ txTime >= earliest /\ pc' = "time"
    /\ UNCHANGED <<chain, purse, clock, last, block, search, kernels, tried, outcome>>

\* "we have to make sure that we have no future timestamps in our transactions
\* set": nTime is the latest of them by then.
SetTime ==
    /\ pc = "time"
    /\ LET time == Max({earliest, txTime} \cup block.txs)
       IN  block' = [block EXCEPT !.time = time, !.txs = {t \in @ : t <= time}]
    /\ pc' = "check"
    /\ UNCHANGED <<chain, purse, clock, last, search, kernels, tried, outcome>>

\* SignBlock returns false.
Fail ==
    /\ pc = "fail" /\ pc' = "wait" /\ last' = search.time
    /\ block' = NoBlock /\ search' = NoSearch /\ kernels' = {}
    /\ UNCHANGED <<chain, purse, clock, tried, outcome>>

\* CheckBlock and AcceptBlock, of what a template and a search may get wrong.
Timely == /\ block.time = txTime                       \* CheckBeanStakeTimestamp
          /\ \A t \in block.txs : t <= block.time
          /\ block.time >= earliest

Young == \E t \in block.txs : t > txTime

\* ConnectInputs: is the bean spent in the chain, or twice in the block?
SpentTwice == block.spends \/ onChain # "no"

\* ProcessBlock, up to the block's entry into the index, and on to ConnectBlock.
Verdict ==
    IF txTime \in seen THEN "duplicate"
    ELSE IF block.time > now + Drift THEN "future"
    ELSE IF Young THEN "young"
    ELSE IF ~Timely THEN "invalid"
    ELSE IF SpentTwice THEN "twice"
    ELSE "accepted"

\* CheckStake: CheckProofOfStake, and under cs_main the rest.  A block that does
\* not connect has entered the index, and its sprout setStakeSeen.
CheckStake ==
    /\ pc = "check" /\ pc' = "wait"
    /\ outcome' = IF ~MeetsTarget(txTime) THEN "invalid"
                  ELSE IF block.prev # tip THEN "stale" ELSE Verdict
    /\ seen' = IF outcome' \in {"twice", "accepted"} THEN seen \cup {txTime} ELSE seen
    /\ IF outcome' = "accepted"
         THEN tip' = tip + 1 /\ earliest' \in Limits /\ onChain' = "sprout" /\ spent' = TRUE
         ELSE UNCHANGED <<tip, earliest, onChain, spent>>
    /\ block' = NoBlock /\ search' = NoSearch /\ kernels' = {}
    /\ UNCHANGED <<bean, inPool, cleared, replaced, clock, last, tried>>

MinerStep == StartTemplate \/ Collect \/ StartSearch \/ HashKernel \/ EndSearch
               \/ FinishBeanStake \/ SetTime \/ Fail \/ CheckStake

Next == Clock \/ NewBlock \/ Send \/ Unmark \/ MinerStep

Spec == Init /\ [][Next]_vars

-----------------------------------------------------------------------------
\* A block that gets past the check for a stale one is valid, whatever moved
\* between the five readings of pindexBest and whenever the wallet sent the
\* bean, except for one with a transaction younger than the kernel that was
\* found.  It spends the bean twice only if its mark was taken off too early,
\* is a duplicate only if the bean's sprout has been disconnected besides, and
\* is in the future only if the clock went back while it was made.
SproutValid ==
    /\ outcome # "invalid"
    /\ outcome = "twice" => cleared
    /\ outcome = "duplicate" => cleared \/ replaced
    /\ outcome = "future" => wentBack

\* Between two blocks that are made no second is hashed twice, though the
\* clock may go back; and a search that ends in vain on the tip it began with
\* has left out no second since the one before, as far as the window reaches.
EachSecondOnce ==
    [][/\ pc = "search" /\ search'.n > search.n => txTime \notin tried
       /\ pc = "search" /\ pc' = "fail" /\ tip = search.prev
            => \A t \in last + 1 .. search.time : t > search.time - Window => t \in tried]_vars

\* The seconds of a search are all late enough for CheckStakeKernelHash, and
\* the weight that it multiplies with the target is never negative.  (And every
\* variable keeps its type.)
WeightNotNegative ==
    /\ TypeOK
    /\ pc = "search" /\ InWindow => txTime >= bean + MinAge /\ GetWeight(bean, txTime) >= 0
=============================================================================
