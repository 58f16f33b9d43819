---------------------------- MODULE Sprout_proofs ----------------------------
(***************************************************************************)
(* The sprouting thread, for every window, age and clock: a block that is  *)
(* not stale when it is checked is valid, but for a mark taken off, a      *)
(* sprout disconnected or a clock gone back; the weight of a kernel is     *)
(* never negative; and no second is hashed twice or left out.              *)
(***************************************************************************)
EXTENDS Sprout, WellFoundedInduction, TLAPS

\* The template builds on a block that was the best one, below the bound.
Templated == pc # "wait" => block.prev <= tip /\ block.prev <= MaxTip

\* A bean that something spends is marked, unless its mark has been taken off; and
\* what spends it in a template spends it still.
Marked ==
    /\ inPool \/ onChain # "no" => spent \/ cleared
    /\ block.spends => inPool \/ onChain = "tx"

\* A search takes a bean that was not marked as spent.
Unmarked ==
    /\ pc \in {"search", "found", "time", "check"}
    /\ block.spends \/ (block.prev = tip /\ onChain # "no")
    => cleared

\* A second of the bean in setStakeSeen is that of its sprout in the chain, or of one
\* that did not connect or is no longer there.
SeenWhy == seen # {} => cleared \/ replaced \/ onChain = "sprout"

\* The times a block is made of were not ahead of the clock.
Clocked ==
    \/ wentBack
    \/ /\ pc = "collect" => block.time <= now
       /\ pc \in {"sign", "search", "found", "time"} => \A t \in block.txs : t <= now
       /\ pc \in {"search", "found", "time", "check"} => search.time <= now
       /\ pc = "check" /\ block.prev = tip => block.time <= now

\* A search covers the seconds since the last one, for which the bean is old
\* enough; one that ends well has stopped at a second that meets the target.
Searching ==
    /\ pc \in {"search", "found", "time", "check", "fail"} => last < search.time
    /\ pc \in {"search", "found", "time", "check"} =>
         /\ OldEnough(search.time)
         /\ search.n <= search.time - last /\ search.n <= Window
    /\ pc \in {"found", "time", "check"} => InWindow /\ MeetsTarget(txTime)

\* Hashed are seconds of earlier searches, and of this one those after txTime:
\* these without exception.
Hashed ==
    /\ \A t \in tried : t <= last \/ (pc \in {"search", "fail"} /\ txTime < t /\ t <= search.time)
    /\ pc = "search" => \A t \in Time : txTime < t /\ t <= search.time => t \in tried

\* The time of the kernel was allowed on the block the template builds on, if
\* that one is the best block still.
InTime == pc = "time" /\ block.prev = tip => txTime >= earliest

\* What CheckStake is given.
Ready == pc = "check" /\ block.prev = tip => Timely \/ Young

\* The inductive invariant.
Inv ==
    /\ TypeOK /\ Templated /\ Marked /\ Unmarked /\ SeenWhy /\ Clocked
    /\ Searching /\ Hashed /\ InTime /\ Ready /\ SproutValid
-----------------------------------------------------------------------------

\* A set of times has a latest one, which Max picks (the std::max of SignBlock over
\* the times of the block's transactions).
LEMMA LatestTime ==
  ASSUME NEW S, S \subseteq Time, S # {}
  PROVE  Max(S) \in S /\ \A t \in S : t <= Max(S)
<1> DEFINE R == {ss \in Nat \X Nat : ss[1] < ss[2]}
           T == {MaxTime - t : t \in S}
<1>1. T \subseteq Nat /\ T # {}
  <2>1. \A t \in S : MaxTime - t \in Nat
    BY SproutAssumption DEF Time
  <2> QED BY <2>1
<1>2. \E x \in T : \A y \in T : ~(<<y, x>> \in R)
  <2> HIDE DEF R, T
  <2>1. IsWellFoundedOn(R, Nat)
    BY NatLessThanWellFounded DEF R, OpToRel
  <2> QED BY <1>1, <2>1, WFMin
<1>3. PICK m \in S : \A y \in T : ~(<<y, MaxTime - m>> \in R)
  BY <1>2
<1>4. ASSUME NEW t \in S PROVE m >= t
  <2>1. t \in Nat /\ m \in Nat /\ MaxTime - t \in Nat /\ MaxTime - m \in Nat /\ MaxTime - t \in T
    BY SproutAssumption DEF Time
  <2>2. ~(MaxTime - t < MaxTime - m)
    BY <1>3, <2>1
  <2> QED BY <2>1, <2>2, SproutAssumption
<1>5. Max(S) \in S /\ \A t \in S : Max(S) >= t
  BY <1>4 DEF Max
<1> QED BY <1>5 DEF Time

\* While a kernel is at hand, its second is a time after the last search
\* (the loop of CreateBeanStake).
LEMMA KernelTime ==
  ASSUME TypeOK, Searching, pc \in {"search", "found", "time", "check"}, InWindow
  PROVE  /\ txTime \in Time /\ last < txTime /\ txTime <= search.time
         /\ search.n < Window /\ search.n < search.time - last
<1>1. last \in Nat /\ search.n \in Nat /\ search.time \in Time /\ last < search.time
  BY DEF TypeOK, Searching, Time
<1>2. search.n < Window /\ search.n < search.time - last
  BY <1>1, SproutAssumption DEF InWindow, Time
<1> QED BY <1>1, <1>2, SproutAssumption DEF txTime, Time

\* The clock leaves the thread where it is; a step back is remembered.
LEMMA ClockKeeps == Inv /\ Clock => Inv'
<1> SUFFICES ASSUME Inv, Clock PROVE Inv'
  OBVIOUS
<1> USE SproutAssumption
<1>1. /\ UNCHANGED <<tip, earliest, onChain, seen, replaced, bean, spent, inPool, cleared>>
      /\ UNCHANGED <<last, pc, block, search, kernels, tried, outcome>>
  BY DEF Clock, chain, purse, miner
<1>2. now' \in Time /\ wentBack' \in BOOLEAN /\ (wentBack => wentBack')
      /\ (pc # "wait" /\ ~wentBack' => now <= now')
  <2>1. now \in Int /\ now' \in Time /\ now' \in Int
    BY DEF Clock, Inv, TypeOK, Time
  <2>2. wentBack' = (wentBack \/ (pc # "wait" /\ now' < now))
    BY DEF Clock
  <2>3. wentBack' \in BOOLEAN /\ (wentBack => wentBack')
    BY <2>2, Zenon
  <2>4. ~wentBack' /\ pc # "wait" => ~(now' < now)
    BY <2>2, Zenon
  <2>5. ~(now' < now) => now <= now'
    BY <2>1
  <2> QED BY <2>1, <2>3, <2>4, <2>5
<1>3. TypeOK'
  BY <1>1, <1>2 DEF Inv, TypeOK
<1>4. Templated' /\ Marked' /\ Unmarked' /\ SeenWhy' /\ InTime' /\ SproutValid'
  BY <1>1, <1>2 DEF Inv, Templated, Marked, Unmarked, SeenWhy, InTime, SproutValid, txTime
<1>5. Searching' /\ Hashed' /\ Ready'
  BY <1>1 DEF Inv, Searching, Hashed, Ready, Timely, Young, InWindow, MeetsTarget, OldEnough, txTime
<1>6. Clocked'
  <2> SUFFICES ASSUME ~wentBack', pc # "wait"
               PROVE  /\ pc = "collect" => block.time <= now'
                      /\ pc \in {"sign", "search", "found", "time"} => \A t \in block.txs : t <= now'
                      /\ pc \in {"search", "found", "time", "check"} => search.time <= now'
                      /\ pc = "check" /\ block.prev = tip => block.time <= now'
    BY <1>1 DEF Clocked
  <2>1. now \in Int /\ now' \in Int /\ now <= now' /\ ~wentBack
    BY <1>2 DEF Inv, TypeOK, Time
  <2>2. block.time \in Int /\ search.time \in Int /\ block.txs \subseteq Int
    BY DEF Inv, TypeOK, Time
  <2> QED BY <2>1, <2>2 DEF Inv, Clocked
<1> QED BY <1>3, <1>4, <1>5, <1>6 DEF Inv

\* The wallet's own sending marks the bean, and what takes a mark off is remembered.
LEMMA PurseKeeps == Inv /\ (Send \/ Unmark) => Inv'
<1> SUFFICES ASSUME Inv, Send \/ Unmark PROVE Inv'
  OBVIOUS
<1>1. /\ UNCHANGED <<tip, earliest, onChain, seen, replaced, bean, now, wentBack>>
      /\ UNCHANGED <<last, pc, block, search, kernels, tried, outcome>>
  BY DEF Send, Unmark, chain, clock, miner
<1>2. TypeOK'
  <2>1. spent' \in BOOLEAN /\ inPool' \in BOOLEAN /\ cleared' \in BOOLEAN
    BY Zenon DEF Send, Unmark, Inv, TypeOK
  <2> QED BY <1>1, <2>1 DEF Inv, TypeOK
<1>3. Templated' /\ Clocked' /\ InTime'
  BY <1>1 DEF Inv, Templated, Clocked, InTime, txTime
<1>4. Searching' /\ Hashed' /\ Ready'
  BY <1>1 DEF Inv, Searching, Hashed, Ready, Timely, Young, InWindow, MeetsTarget, OldEnough, txTime
<1>5. (inPool => inPool') /\ (cleared => cleared')
  <2>1. CASE Send
    <3>1. cleared' = cleared /\ inPool' = (inPool \/ onChain = "no")
      BY <2>1 DEF Send
    <3> QED BY <3>1, Zenon
  <2>2. CASE Unmark
    <3>1. inPool' = inPool /\ cleared' = (cleared \/ inPool \/ onChain # "no")
      BY <2>2 DEF Unmark
    <3> QED BY <3>1, Zenon
  <2> QED BY <2>1, <2>2
<1>6. Marked'
  <2>1. CASE Send
    <3>1. spent'
      BY <2>1, Zenon DEF Send
    <3> QED BY <1>1, <1>5, <3>1, Zenon DEF Inv, Marked
  <2>2. CASE Unmark
    <3>1. inPool' = inPool /\ (inPool \/ onChain # "no" => cleared')
      BY <2>2, Zenon DEF Unmark
    <3> QED BY <1>1, <3>1, Zenon DEF Inv, Marked
  <2> QED BY <2>1, <2>2
<1>7. Unmarked' /\ SeenWhy' /\ SproutValid'
  BY <1>1, <1>5 DEF Inv, Unmarked, SeenWhy, SproutValid
<1> QED BY <1>2, <1>3, <1>4, <1>6, <1>7 DEF Inv

\* Once another block is the best one, the template no longer builds on the best.
LEMMA NewBlockKeeps == Inv /\ NewBlock => Inv'
<1> SUFFICES ASSUME Inv, NewBlock PROVE Inv'
  OBVIOUS
<1> USE SproutAssumption
<1>1. /\ UNCHANGED <<seen, bean, now, wentBack>> /\ tip' = tip + 1 /\ tip < MaxTip
      /\ UNCHANGED <<last, pc, block, search, kernels, tried, outcome>>
  BY DEF NewBlock, clock, miner
<1>2. /\ earliest' \in Time /\ spent' \in BOOLEAN /\ inPool' \in BOOLEAN /\ cleared' \in BOOLEAN
      /\ replaced' \in BOOLEAN /\ onChain' \in {"no", "tx", "sprout"}
  BY DEF NewBlock, Inv, TypeOK, Time
<1>3. TypeOK'
  <2>1. tip' \in 0 .. MaxTip + 1
    BY <1>1 DEF Inv, TypeOK
  <2> QED BY <1>1, <1>2, <2>1 DEF Inv, TypeOK
<1>4. Templated' /\ (pc # "wait" => block.prev # tip')
  <2>1. tip \in Int /\ block.prev \in Int
    BY DEF Inv, TypeOK
  <2> QED BY <1>1, <2>1 DEF Inv, Templated
<1>5. Clocked' /\ InTime' /\ Ready'
  BY <1>1, <1>4 DEF Inv, Clocked, InTime, Ready
<1>6. Searching' /\ Hashed'
  BY <1>1 DEF Inv, Searching, Hashed, InWindow, MeetsTarget, OldEnough, txTime
<1>7. /\ (cleared => cleared') /\ (replaced => replaced')
      /\ (inPool \/ onChain = "tx" => inPool' \/ onChain' = "tx")
  BY DEF NewBlock, Inv, TypeOK
<1>8. Marked'
  BY <1>1, <1>7 DEF NewBlock, Inv, Marked, TypeOK
<1>9. Unmarked'
  BY <1>1, <1>4, <1>7 DEF Inv, Unmarked
<1>10. SeenWhy' /\ SproutValid'
  BY <1>1, <1>7 DEF NewBlock, Inv, SeenWhy, SproutValid
<1> QED BY <1>3, <1>4, <1>5, <1>6, <1>8, <1>9, <1>10 DEF Inv

\* CreateNewBlock begins on the best block, at the time of now.
LEMMA StartTemplateKeeps == Inv /\ StartTemplate => Inv'
<1> SUFFICES ASSUME Inv, StartTemplate PROVE Inv'
  OBVIOUS
<1> USE SproutAssumption
<1>1. /\ UNCHANGED <<tip, earliest, onChain, seen, replaced, bean, spent, inPool, cleared, now>>
      /\ UNCHANGED <<last, search, kernels, tried>>
  BY DEF StartTemplate, chain, purse
<1>2. pc = "wait" /\ pc' = "collect" /\ outcome' = "none" /\ wentBack' = FALSE
  BY DEF StartTemplate
<1>3. block' = [prev |-> tip, txs |-> {}, spends |-> FALSE, time |-> now]
  BY DEF StartTemplate, NoBlock
<1>4. TypeOK'
  BY <1>1, <1>2, <1>3 DEF Inv, TypeOK
<1>5. Templated' /\ Clocked'
  BY <1>1, <1>2, <1>3 DEF StartTemplate, Inv, TypeOK, Templated, Clocked, Time
<1>6. Marked' /\ Unmarked' /\ SeenWhy' /\ SproutValid'
  BY <1>1, <1>2, <1>3 DEF Inv, Marked, Unmarked, SeenWhy, SproutValid
<1>7. Searching' /\ InTime' /\ Ready'
  BY <1>2, <1>3 DEF Searching, InTime, Ready
<1>8. Hashed'
  BY <1>1, <1>2 DEF Inv, Hashed
<1> QED BY <1>4, <1>5, <1>6, <1>7, <1>8 DEF Inv

\* The pool's transactions, one that spends the bean perhaps among them.
LEMMA CollectKeeps == Inv /\ Collect => Inv'
<1> SUFFICES ASSUME Inv, Collect PROVE Inv'
  OBVIOUS
<1> USE SproutAssumption
<1>1. /\ UNCHANGED <<tip, earliest, onChain, seen, replaced, bean, spent, inPool, cleared, now, wentBack>>
      /\ UNCHANGED <<last, search, kernels, tried, outcome>>
  BY DEF Collect, chain, purse, clock
<1>2. pc = "collect" /\ pc' = "sign"
  BY DEF Collect
<1>3. PICK txs \in SUBSET {t \in Time : t <= now}, spends \in {FALSE, inPool /\ onChain = "no"} :
        block' = [block EXCEPT !.txs = txs, !.spends = spends, !.time = 0]
  <2>1. \A t \in {u \in Time : u <= block.time /\ u <= now} : {t} \in SUBSET {u \in Time : u <= now}
    OBVIOUS
  <2>2. {} \in SUBSET {u \in Time : u <= now}
    OBVIOUS
  <2>3. PICK txs \in {{}} \cup {{t} : t \in {u \in Time : u <= block.time /\ u <= now}},
             spends \in {FALSE, inPool /\ onChain = "no"} :
          block' = [block EXCEPT !.txs = txs, !.spends = spends, !.time = 0]
    BY DEF Collect
  <2>4. txs \in SUBSET {u \in Time : u <= now}
    BY <2>1, <2>2
  <2> QED BY <2>3, <2>4
<1>4. /\ block'.prev = block.prev /\ block'.txs = txs /\ block'.spends = spends
      /\ block' \in [prev : 0 .. MaxTip + 1, txs : SUBSET Time, spends : BOOLEAN, time : Time]
  <2>1. block \in [prev : 0 .. MaxTip + 1, txs : SUBSET Time, spends : BOOLEAN, time : Time]
    BY DEF Inv, TypeOK
  <2>2. spends \in BOOLEAN
    BY <1>3, Zenon
  <2>3. 0 \in Time /\ txs \in SUBSET Time
    BY DEF Time
  <2> QED BY <1>3, <2>1, <2>2, <2>3
<1>5. TypeOK'
  BY <1>1, <1>2, <1>4 DEF Inv, TypeOK
<1>6. Templated' /\ Marked' /\ Clocked'
  BY <1>1, <1>2, <1>3, <1>4 DEF Inv, Templated, Marked, Clocked
<1>7. Unmarked' /\ SeenWhy' /\ SproutValid'
  BY <1>1, <1>2 DEF Inv, Unmarked, SeenWhy, SproutValid
<1>8. Searching' /\ InTime' /\ Ready'
  BY <1>1, <1>2 DEF Inv, Searching, InTime, Ready
<1>9. Hashed'
  BY <1>1, <1>2 DEF Inv, Hashed
<1> QED BY <1>5, <1>6, <1>7, <1>8, <1>9 DEF Inv

\* SignBlock looks no further back than its last search, and only for a bean that
\* is not marked as spent.
LEMMA StartSearchKeeps == Inv /\ StartSearch => Inv'
<1> SUFFICES ASSUME Inv, StartSearch PROVE Inv'
  OBVIOUS
<1> USE SproutAssumption
<1>1. /\ UNCHANGED <<tip, earliest, onChain, seen, replaced, bean, spent, inPool, cleared, now, wentBack>>
      /\ UNCHANGED <<last, tried, outcome>> /\ pc = "sign"
  BY DEF StartSearch, chain, purse, clock
<1>2. InTime' /\ Ready' /\ SproutValid' /\ SeenWhy'
  BY <1>1 DEF StartSearch, Inv, InTime, Ready, SproutValid, SeenWhy
<1>3. \A t \in tried : t <= last
  BY <1>1 DEF Inv, Hashed
<1>4. CASE now <= last
  <2>1. pc' = "wait" /\ block' = NoBlock /\ UNCHANGED <<search, kernels>>
    BY <1>4 DEF StartSearch
  <2>2. TypeOK'
    BY <1>1, <2>1 DEF Inv, TypeOK, NoBlock, Time
  <2>3. Templated' /\ Marked' /\ Unmarked' /\ Clocked' /\ Searching' /\ Hashed'
    BY <1>1, <1>3, <2>1 DEF Inv, Templated, Marked, Unmarked, Clocked, Searching, Hashed, NoBlock
  <2> QED BY <1>2, <2>2, <2>3 DEF Inv
<1>5. CASE ~(now <= last)
  <2>1. search' = [prev |-> tip, time |-> now, n |-> 0] /\ UNCHANGED block
    BY <1>5 DEF StartSearch
  <2>2. now \in Nat /\ last \in Nat /\ last < now /\ now \in Time
    BY <1>5 DEF Inv, TypeOK, Time
  <2>3. Marked'
    BY <1>1, <2>1 DEF Inv, Marked
  <2>4. CASE pc' = "fail" /\ UNCHANGED kernels
    <3>1. TypeOK'
      BY <1>1, <2>1, <2>4 DEF Inv, TypeOK
    <3>2. Templated' /\ Unmarked' /\ Clocked' /\ Searching' /\ Hashed'
      BY <1>1, <1>3, <2>1, <2>2, <2>4 DEF Inv, Templated, Unmarked, Clocked, Searching, Hashed
    <3> QED BY <1>2, <2>3, <3>1, <3>2 DEF Inv
  <2>5. CASE BeanForWindow(now) /\ pc' = "search" /\ kernels' \subseteq Time
    <3>1. TypeOK'
      BY <1>1, <2>1, <2>5 DEF Inv, TypeOK
    <3>2. Templated' /\ Unmarked'
      BY <1>1, <2>1, <2>5 DEF Inv, Templated, Marked, Unmarked, BeanForWindow
    <3>3. Searching' /\ Clocked'
      BY <1>1, <2>1, <2>2, <2>5 DEF Inv, Searching, Clocked, BeanForWindow, OldEnough
    <3>4. Hashed'
      BY <1>1, <1>3, <2>1, <2>2, <2>5 DEF Hashed, txTime, Time
    <3> QED BY <1>2, <2>3, <3>1, <3>2, <3>3, <3>4 DEF Inv
  <2> QED BY <1>5, <2>4, <2>5 DEF StartSearch
<1> QED BY <1>4, <1>5

\* One second of the loop of CreateBeanStake.
LEMMA HashKernelKeeps == Inv /\ HashKernel => Inv'
<1> SUFFICES ASSUME Inv, HashKernel PROVE Inv'
  OBVIOUS
<1> USE SproutAssumption
<1>1. /\ UNCHANGED <<tip, earliest, onChain, seen, replaced, bean, spent, inPool, cleared, now, wentBack>>
      /\ UNCHANGED <<last, block, kernels, outcome>> /\ pc = "search" /\ InWindow
  BY DEF HashKernel, chain, purse, clock
<1>2. /\ txTime \in Time /\ last < txTime /\ txTime <= search.time
      /\ search.n < Window /\ search.n < search.time - last
  BY <1>1, KernelTime DEF Inv
<1>3. /\ search \in [prev : 0 .. MaxTip + 1, time : Time, n : 0 .. Window]
      /\ last \in Nat /\ search.n \in Nat /\ search.time \in Nat
  BY DEF Inv, TypeOK, Time
<1>4. pc' \in {"found", "search"} /\ InTime' /\ Ready' /\ SproutValid'
  BY <1>1 DEF HashKernel, Inv, InTime, Ready, SproutValid
<1>5. Templated' /\ Marked' /\ Unmarked' /\ SeenWhy'
  BY <1>1, <1>4 DEF Inv, Templated, Marked, Unmarked, SeenWhy
<1>8. Clocked'
  <2>1. search'.time = search.time
    BY <1>3 DEF HashKernel
  <2> QED BY <1>1, <1>4, <2>1 DEF Inv, Clocked
<1>6. CASE MeetsTarget(txTime)
  <2>1. pc' = "found" /\ tried' = {} /\ UNCHANGED search
    BY <1>6 DEF HashKernel
  <2>2. TypeOK'
    BY <1>1, <2>1 DEF Inv, TypeOK
  <2>3. Searching' /\ Hashed'
    BY <1>1, <1>6, <2>1 DEF Inv, Searching, Hashed, OldEnough, InWindow, MeetsTarget, txTime
  <2> QED BY <1>4, <1>5, <1>8, <2>2, <2>3 DEF Inv
<1>7. CASE ~MeetsTarget(txTime)
  <2>1. pc' = "search" /\ search' = [search EXCEPT !.n = @ + 1] /\ tried' = tried \cup {txTime}
    BY <1>1, <1>7 DEF HashKernel
  <2>2. search'.n = search.n + 1 /\ search'.time = search.time /\ txTime' = txTime - 1
    BY <1>3, <2>1 DEF txTime
  <2>3. search' \in [prev : 0 .. MaxTip + 1, time : Time, n : 0 .. Window]
    BY <1>2, <1>3, <2>1
  <2>4. TypeOK'
    BY <1>1, <1>2, <2>1, <2>3 DEF Inv, TypeOK
  <2>5. Searching'
    BY <1>1, <1>2, <1>3, <2>1, <2>2 DEF Inv, Searching, OldEnough
  <2>6. Hashed'
    <3>1. ASSUME NEW t \in tried' PROVE t <= last \/ (txTime' < t /\ t <= search.time)
      BY <1>1, <1>2, <2>1, <2>2, <3>1 DEF Inv, Hashed, TypeOK, Time
    <3>2. ASSUME NEW t \in Time, txTime' < t, t <= search.time PROVE t \in tried'
      <4>1. t = txTime \/ txTime < t
        BY <1>2, <2>2, <3>2 DEF Time
      <4> QED BY <1>1, <2>1, <3>2, <4>1 DEF Inv, Hashed
    <3> QED BY <1>1, <2>1, <2>2, <3>1, <3>2 DEF Hashed
  <2> QED BY <1>4, <1>5, <1>8, <2>4, <2>5, <2>6 DEF Inv
<1> QED BY <1>6, <1>7

\* The loop is over, or another block has come.
LEMMA EndSearchKeeps == Inv /\ EndSearch => Inv'
<1> SUFFICES ASSUME Inv, EndSearch PROVE Inv'
  OBVIOUS
<1>1. /\ UNCHANGED <<tip, earliest, onChain, seen, replaced, bean, spent, inPool, cleared, now, wentBack>>
      /\ UNCHANGED <<last, block, search, kernels, tried, outcome>>
      /\ pc = "search" /\ pc' = "fail"
  BY DEF EndSearch, chain, purse, clock
<1>2. TypeOK'
  BY <1>1 DEF Inv, TypeOK
<1>3. Templated' /\ Searching' /\ InTime' /\ Ready' /\ SproutValid'
  BY <1>1 DEF Inv, Templated, Searching, InTime, Ready, SproutValid
<1>4. Marked' /\ Unmarked' /\ SeenWhy' /\ Clocked'
  BY <1>1 DEF Inv, Marked, Unmarked, SeenWhy, Clocked
<1>5. Hashed'
  BY <1>1 DEF Inv, Hashed, txTime
<1> QED BY <1>2, <1>3, <1>4, <1>5 DEF Inv

\* The rest of CreateBeanStake: the time is allowed on the best block of now, which is
\* the one below the template or a later one.
LEMMA FinishBeanStakeKeeps == Inv /\ FinishBeanStake => Inv'
<1> SUFFICES ASSUME Inv, FinishBeanStake PROVE Inv'
  OBVIOUS
<1>1. /\ UNCHANGED <<tip, earliest, onChain, seen, replaced, bean, spent, inPool, cleared, now, wentBack>>
      /\ UNCHANGED <<last, block, search, kernels, tried, outcome>>
      /\ pc = "found" /\ pc' \in {"fail", "time"} /\ (pc' = "time" => txTime >= earliest)
  BY DEF FinishBeanStake, chain, purse, clock
<1>2. TypeOK'
  BY <1>1 DEF Inv, TypeOK
<1>3. Templated' /\ Ready' /\ SproutValid'
  BY <1>1 DEF Inv, Templated, Ready, SproutValid
<1>4. Searching' /\ InTime'
  BY <1>1 DEF Inv, Searching, OldEnough, InWindow, MeetsTarget, InTime, txTime
<1>5. Hashed'
  BY <1>1 DEF Inv, Hashed
<1>6. Marked' /\ Unmarked' /\ SeenWhy' /\ Clocked'
  BY <1>1 DEF Inv, Marked, Unmarked, SeenWhy, Clocked
<1> QED BY <1>2, <1>3, <1>4, <1>5, <1>6 DEF Inv

\* The time of the block is the latest of its transactions and of the past time limit:
\* that of the kernel, unless a transaction is later.
LEMMA SetTimeKeeps == Inv /\ SetTime => Inv'
<1> SUFFICES ASSUME Inv, SetTime PROVE Inv'
  OBVIOUS
<1> USE SproutAssumption
<1> DEFINE S == {earliest, txTime} \cup block.txs
           time == Max(S)
<1>1. /\ UNCHANGED <<tip, earliest, onChain, seen, replaced, bean, spent, inPool, cleared, now, wentBack>>
      /\ UNCHANGED <<last, search, kernels, tried, outcome>>
      /\ pc = "time" /\ pc' = "check"
  BY DEF SetTime, chain, purse, clock
<1>2. block' = [block EXCEPT !.time = time, !.txs = {t \in block.txs : t <= time}]
  BY DEF SetTime
<1>3. block \in [prev : 0 .. MaxTip + 1, txs : SUBSET Time, spends : BOOLEAN, time : Time]
  BY DEF Inv, TypeOK
<1>4. txTime \in Time /\ earliest \in Time /\ block.txs \subseteq Time
  BY <1>1, <1>3, KernelTime DEF Inv, Searching, TypeOK
<1>5. time \in S /\ time \in Time /\ \A t \in S : t <= time
  <2>1. S \subseteq Time /\ S # {}
    BY <1>4
  <2> HIDE DEF S
  <2> QED BY <2>1, LatestTime
<1> HIDE DEF time
<1>6. /\ block'.prev = block.prev /\ block'.txs = block.txs
      /\ block'.spends = block.spends /\ block'.time = time
  <2>1. {t \in block.txs : t <= time} = block.txs
    BY <1>5
  <2> QED BY <1>2, <1>3, <2>1
<1>7. TypeOK'
  <2>1. block' \in [prev : 0 .. MaxTip + 1, txs : SUBSET Time, spends : BOOLEAN, time : Time]
    BY <1>2, <1>3, <1>5
  <2> QED BY <1>1, <2>1 DEF Inv, TypeOK
<1>8. Templated' /\ Marked' /\ Unmarked' /\ SeenWhy' /\ InTime' /\ SproutValid'
  BY <1>1, <1>6 DEF Inv, Templated, Marked, Unmarked, SeenWhy, InTime, SproutValid
<1>9. Searching' /\ Hashed'
  BY <1>1 DEF Inv, Searching, OldEnough, InWindow, MeetsTarget, Hashed, txTime
<1>10. Ready'
  <2> SUFFICES ASSUME block.prev = tip, ~Young' PROVE Timely'
    BY <1>1, <1>6 DEF Ready
  <2>1. txTime >= earliest
    BY <1>1 DEF Inv, InTime
  <2>2. \A t \in block.txs : t <= txTime
    BY <1>1, <1>4, <1>6 DEF Young, txTime, Time
  <2>3. time = txTime
    BY <1>4, <1>5, <2>1, <2>2 DEF Time
  <2>4. txTime' = txTime
    BY <1>1 DEF txTime
  <2> QED BY <1>1, <1>5, <1>6, <2>1, <2>2, <2>3, <2>4 DEF Timely
<1>11. Clocked'
  <2> SUFFICES ASSUME ~wentBack PROVE search.time <= now /\ (block.prev = tip => time <= now)
    BY <1>1, <1>6 DEF Clocked
  <2>1. search.time <= now /\ \A t \in block.txs : t <= now
    BY <1>1 DEF Inv, Clocked
  <2>2. ASSUME block.prev = tip PROVE time <= now
    <3>1. txTime <= search.time /\ txTime >= earliest
      BY <1>1, <2>2, KernelTime DEF Inv, Searching, InTime
    <3>2. now \in Int /\ search.time \in Int /\ txTime \in Int /\ earliest \in Int
      BY <1>4 DEF Inv, TypeOK, Time
    <3>3. txTime <= now /\ earliest <= now
      BY <2>1, <3>1, <3>2
    <3> QED BY <1>5, <2>1, <3>3
  <2> QED BY <2>1, <2>2
<1> QED BY <1>7, <1>8, <1>9, <1>10, <1>11 DEF Inv

\* SignBlock gives up: the next search begins where this one did.
LEMMA FailKeeps == Inv /\ Fail => Inv'
<1> SUFFICES ASSUME Inv, Fail PROVE Inv'
  OBVIOUS
<1> USE SproutAssumption
<1>1. /\ UNCHANGED <<tip, earliest, onChain, seen, replaced, bean, spent, inPool, cleared, now, wentBack>>
      /\ UNCHANGED <<tried, outcome>> /\ pc = "fail" /\ pc' = "wait"
      /\ last' = search.time /\ block' = NoBlock /\ search' = NoSearch /\ kernels' = {}
  BY DEF Fail, chain, purse, clock
<1>2. TypeOK'
  BY <1>1 DEF Inv, TypeOK, NoBlock, NoSearch, Time
<1>3. Templated' /\ Marked' /\ Unmarked' /\ SeenWhy' /\ Clocked'
  BY <1>1 DEF Inv, Templated, Marked, Unmarked, SeenWhy, Clocked, NoBlock
<1>5. Searching' /\ InTime' /\ Ready' /\ SproutValid'
  BY <1>1 DEF Inv, Searching, InTime, Ready, SproutValid
<1>4. Hashed'
  <2>1. pc' = "wait"
    BY <1>1
  <2>2. \A t \in tried : t <= search.time
    BY <1>1 DEF Inv, Hashed, Searching, TypeOK, Time
  <2> QED BY <1>1, <2>1, <2>2 DEF Hashed
<1> QED BY <1>2, <1>3, <1>4, <1>5 DEF Inv

\* ProcessBlock is given a block that is stale, or good, or has a younger transaction;
\* or its bean was marked as spent no longer, or the clock has gone back.
LEMMA CheckStakeKeeps == Inv /\ CheckStake => Inv'
<1> SUFFICES ASSUME Inv, CheckStake PROVE Inv'
  OBVIOUS
<1> USE SproutAssumption
<1>1. /\ UNCHANGED <<bean, inPool, cleared, replaced, now, wentBack, last, tried>>
      /\ pc = "check" /\ pc' = "wait"
      /\ block' = NoBlock /\ search' = NoSearch /\ kernels' = {}
  BY DEF CheckStake, clock
<1>2. MeetsTarget(txTime) /\ txTime \in Time
  BY <1>1, KernelTime DEF Inv, Searching
<1>3. \/ outcome' = "stale"
      \/ block.prev = tip /\ outcome' = Verdict
  BY <1>2 DEF CheckStake
<1>4. /\ outcome' \in {"stale", "duplicate", "future", "young", "twice", "accepted"}
      /\ SproutValid'
  <2>1. CASE outcome' = "stale"
    BY <2>1 DEF SproutValid
  <2>2. CASE block.prev = tip /\ outcome' = Verdict
    <3>1. Verdict \in {"duplicate", "future", "young", "twice", "accepted"}
      BY <1>1, <2>2 DEF Verdict, Inv, Ready
    <3>2. Verdict = "twice" => cleared
      <4>1. Verdict = "twice" => SpentTwice
        BY DEF Verdict
      <4> QED BY <1>1, <2>2, <4>1 DEF SpentTwice, Inv, Unmarked
    <3>3. Verdict = "duplicate" => cleared \/ replaced
      <4>1. Verdict = "duplicate" => seen # {}
        BY DEF Verdict
      <4>2. onChain = "sprout" => cleared
        BY <1>1, <2>2 DEF Inv, Unmarked
      <4> QED BY <4>1, <4>2 DEF Inv, SeenWhy
    <3>4. Verdict = "future" => wentBack
      <4>1. Verdict = "future" => block.time > now + Drift
        BY DEF Verdict
      <4>2. block.time <= now => ~(block.time > now + Drift)
        BY DEF Inv, TypeOK, Time
      <4> QED BY <1>1, <2>2, <4>1, <4>2 DEF Inv, Clocked
    <3> QED BY <1>1, <2>2, <3>1, <3>2, <3>3, <3>4 DEF SproutValid
  <2> QED BY <1>3, <2>1, <2>2
<1>5. /\ tip' \in 0 .. MaxTip + 1 /\ earliest' \in Time /\ seen' \subseteq Time
      /\ onChain' \in {"no", "tx", "sprout"} /\ spent' \in BOOLEAN
  <2>1. tip' \in 0 .. MaxTip + 1
    BY <1>1 DEF CheckStake, Inv, TypeOK, Templated
  <2>2. earliest' \in Time /\ onChain' \in {"no", "tx", "sprout"} /\ spent' \in BOOLEAN
    BY DEF CheckStake, Inv, TypeOK, Time
  <2>3. seen' \subseteq Time
    BY <1>2 DEF CheckStake, Inv, TypeOK
  <2> QED BY <2>1, <2>2, <2>3
<1>6. TypeOK'
  <2>1. NoBlock \in [prev : 0 .. MaxTip + 1, txs : SUBSET Time, spends : BOOLEAN, time : Time]
        /\ NoSearch \in [prev : 0 .. MaxTip + 1, time : Time, n : 0 .. Window]
    BY DEF NoBlock, NoSearch, Time
  <2> QED BY <1>1, <1>4, <1>5, <2>1 DEF Inv, TypeOK
<1>7. Templated' /\ Unmarked' /\ Clocked' /\ Searching' /\ InTime' /\ Ready'
  BY <1>1 DEF Templated, Unmarked, Clocked, Searching, InTime, Ready, NoBlock
<1>8. Hashed'
  BY <1>1 DEF Inv, Hashed
<1>9. CASE outcome' = "accepted"
  <2>1. onChain' = "sprout" /\ spent' = TRUE
    BY <1>9 DEF CheckStake
  <2>2. Marked' /\ SeenWhy'
    BY <1>1, <2>1 DEF Marked, SeenWhy, NoBlock
  <2> QED BY <1>4, <1>6, <1>7, <1>8, <2>2 DEF Inv
<1>10. CASE outcome' # "accepted"
  <2>1. onChain' = onChain /\ spent' = spent /\ (seen' = seen \/ outcome' = "twice")
    BY <1>10 DEF CheckStake
  <2>2. Marked' /\ SeenWhy'
    BY <1>1, <1>4, <2>1 DEF Inv, Marked, SeenWhy, SproutValid, NoBlock
  <2> QED BY <1>4, <1>6, <1>7, <1>8, <2>2 DEF Inv
<1> QED BY <1>9, <1>10
-----------------------------------------------------------------------------

\* The invariant holds in every state.
LEMMA Invariant == Spec => []Inv
<1>1. Init => Inv
  <2> SUFFICES ASSUME Init PROVE Inv
    OBVIOUS
  <2>1. TypeOK
    <3>1. NoBlock \in [prev : 0 .. MaxTip + 1, txs : SUBSET Time, spends : BOOLEAN, time : Time]
          /\ NoSearch \in [prev : 0 .. MaxTip + 1, time : Time, n : 0 .. Window]
      BY SproutAssumption DEF NoBlock, NoSearch, Time
    <3>2. 0 \in Time /\ 0 \in 0 .. MaxTip + 1 /\ bean \in Int
      BY SproutAssumption DEF Init, Time
    <3> QED BY <3>1, <3>2 DEF Init, TypeOK
  <2>2. Templated /\ Marked /\ Unmarked /\ SeenWhy /\ Clocked
    BY DEF Init, Templated, Marked, Unmarked, SeenWhy, Clocked, NoBlock
  <2>3. Searching /\ Hashed /\ InTime /\ Ready /\ SproutValid
    BY DEF Init, Searching, Hashed, InTime, Ready, SproutValid
  <2> QED BY <2>1, <2>2, <2>3 DEF Inv
<1>2. Inv /\ [Next]_vars => Inv'
  <2> SUFFICES ASSUME Inv, [Next]_vars PROVE Inv'
    OBVIOUS
  <2>1. CASE UNCHANGED vars
    <3>1. /\ UNCHANGED <<tip, earliest, onChain, seen, replaced, bean, spent, inPool, cleared, now, wentBack>>
          /\ UNCHANGED <<last, pc, block, search, kernels, tried, outcome>>
      BY <2>1 DEF vars, chain, purse, clock, miner
    <3>2. TypeOK' /\ Templated' /\ Marked' /\ Unmarked' /\ SeenWhy' /\ Clocked'
      BY <3>1 DEF Inv, TypeOK, Templated, Marked, Unmarked, SeenWhy, Clocked
    <3>3. Searching' /\ Hashed' /\ InTime' /\ Ready' /\ SproutValid'
      BY <3>1 DEF Inv, Searching, Hashed, InTime, Ready, SproutValid, Timely, Young, OldEnough, InWindow,
         MeetsTarget, txTime
    <3> QED BY <3>2, <3>3 DEF Inv
  <2> QED BY <2>1, ClockKeeps, PurseKeeps, NewBlockKeeps, StartTemplateKeeps, CollectKeeps, StartSearchKeeps, HashKernelKeeps,
             EndSearchKeeps, FinishBeanStakeKeeps, SetTimeKeeps, FailKeeps, CheckStakeKeeps
          DEF Next, MinerStep
<1> QED BY <1>1, <1>2, PTL DEF Spec

\* A block that CheckStake does not find stale is valid or has a transaction younger
\* than its kernel, whatever moved between the five readings of pindexBest; unless
\* the bean's mark was taken off too early, its sprout was disconnected, or the
\* clock went back.
THEOREM SproutsAreValid == Spec => []SproutValid
<1>1. Inv => SproutValid
  BY DEF Inv
<1> QED BY <1>1, Invariant, PTL

\* The weight that CheckStakeKernelHash multiplies with the target is never negative
\* for a second that CreateBeanStake tries.
THEOREM WeightStaysNotNegative == Spec => []WeightNotNegative
<1>1. Inv => WeightNotNegative
  <2> SUFFICES ASSUME Inv, pc = "search", InWindow
               PROVE  txTime >= bean + MinAge /\ GetWeight(bean, txTime) >= 0
    BY DEF Inv, WeightNotNegative
  <2>1. search.n < Window
    BY KernelTime DEF Inv
  <2>2. bean + MinAge <= search.time - Window
    BY DEF Inv, Searching, OldEnough
  <2>3. bean \in Int /\ MinAge \in Int /\ Window \in Int /\ search.n \in Int /\ search.time \in Int
    BY SproutAssumption DEF Inv, TypeOK, Time
  <2> QED BY <2>1, <2>2, <2>3 DEF txTime, GetWeight
<1> QED BY <1>1, Invariant, PTL

\* CreateBeanStake hashes no second twice between two blocks that are made, and a
\* search in vain on an unchanged tip leaves out none (nLastBeanStakeSearchTime).
THEOREM SecondsHashedOnce == Spec => EachSecondOnce
<1> DEFINE Step ==
      /\ pc = "search" /\ search'.n > search.n => txTime \notin tried
      /\ pc = "search" /\ pc' = "fail" /\ tip = search.prev
           => \A t \in last + 1 .. search.time : t > search.time - Window => t \in tried
<1>1. Inv /\ [Next]_vars => [Step]_vars
  <2> SUFFICES ASSUME Inv, Next, pc = "search"
               PROVE  /\ search'.n > search.n => txTime \notin tried
                      /\ pc' = "fail" /\ tip = search.prev
                           => \A t \in last + 1 .. search.time : t > search.time - Window => t \in tried
    OBVIOUS
  <2>0. search.n \in Int /\ last \in Nat /\ search.time \in Time /\ search.time \in Nat /\ tried \subseteq Time
    BY SproutAssumption DEF Inv, TypeOK, Time
  <2>1. CASE Clock \/ NewBlock \/ Send \/ Unmark
    BY <2>0, <2>1 DEF Clock, NewBlock, Send, Unmark, miner
  <2>2. CASE HashKernel
    <3>1. txTime \in Time /\ last < txTime
      BY <2>2, KernelTime DEF Inv, HashKernel
    <3>2. txTime \notin tried
      BY <2>0, <3>1 DEF Inv, Hashed, Time
    <3> QED BY <2>2, <3>2 DEF HashKernel
  <2>3. CASE EndSearch
    <3>1. UNCHANGED search
      BY <2>3 DEF EndSearch
    <3>2. ASSUME tip = search.prev, NEW t \in last + 1 .. search.time, t > search.time - Window
          PROVE  t \in tried
      <4>1. ~InWindow
        BY <2>3, <3>2 DEF EndSearch
      <4>2. txTime < t /\ t <= search.time /\ t \in Time
        BY <2>0, <3>2, <4>1, SproutAssumption DEF InWindow, txTime, Time
      <4> QED BY <4>2 DEF Inv, Hashed
    <3> QED BY <2>0, <3>1, <3>2
  <2> QED BY <2>1, <2>2, <2>3 DEF Next, MinerStep, StartTemplate, Collect, StartSearch, FinishBeanStake,
             SetTime, Fail, CheckStake
<1> QED BY <1>1, Invariant, PTL DEF Spec, EachSecondOnce
=============================================================================
