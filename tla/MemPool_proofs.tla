--------------------------- MODULE MemPool_proofs ---------------------------
(***************************************************************************)
(* The maps of the memory pool and of the orphan transactions stay in      *)
(* agreement, and chain, index, pool, wallet and the miner's template stay *)
(* in step, for all trees of blocks, transactions and limits.              *)
(*                                                                         *)
(* The loops over transactions and blocks are folds.  The first part shows *)
(* that a fold is a run of single steps, so that what every step keeps the *)
(* fold keeps (UpTo); the lemmas ...Steps say it of each loop.  The second *)
(* part is one transaction (ConnectOne, DisconnectOne), the third one      *)
(* block (ConnectBlockKeeps, DisconnectBlockKeeps), the fourth a whole     *)
(* reorganisation (ReorganizedKeeps): it leaves exactly the index of the   *)
(* new chain.  The rest is about the maps of the pool, and the actions.    *)
(***************************************************************************)
EXTENDS MemPool, WellFoundedInduction, FiniteSetTheorems, TLAPS

-----------------------------------------------------------------------------
(* Induction, and folds as runs of steps.                                  *)

\* Every nonempty set of natural numbers has a least one.
LEMMA LeastExists ==
  ASSUME NEW S, S \subseteq Nat, S # {}
  PROVE  \E n \in S : \A m \in S : n <= m
<1> DEFINE R == {ss \in Nat \X Nat : ss[1] < ss[2]}
<1>1. IsWellFoundedOn(R, Nat)
  BY NatLessThanWellFounded DEF OpToRel
<1>2. \E x \in S : \A y \in S : ~ (<<y, x>> \in R)
  <2> HIDE DEF R
  <2> QED BY <1>1, WFMin
<1>3. PICK x \in S : \A y \in S : ~ (y < x)
  BY <1>2
<1> QED BY <1>3

\* Induction up to n, on the set of the numbers for which something holds.
LEMMA UpTo ==
  ASSUME NEW n \in Nat, NEW S, 0 \in S, \A i \in 1 .. n : i - 1 \in S => i \in S
  PROVE  \A i \in 0 .. n : i \in S
<1> SUFFICES ASSUME ~(\A i \in 0 .. n : i \in S) PROVE FALSE
  OBVIOUS
<1> DEFINE B == {i \in 0 .. n : i \notin S}
<1>1. B \subseteq Nat /\ B # {}
  OBVIOUS
<1>2. PICK k \in B : \A m \in B : k <= m
  BY <1>1, LeastExists
<1>3. k \in 0 .. n /\ k # 0 /\ k - 1 \in 0 .. n /\ k - 1 \notin B
  BY <1>2
<1> QED BY <1>2, <1>3

\* A nonempty set of positions has a greatest one, which Max picks.
LEMMA MaxOf ==
  ASSUME NEW n \in Nat, NEW S, S \subseteq 1 .. n, S # {}
  PROVE  Max(S) \in S /\ \A m \in S : m <= Max(S)
<1> DEFINE T == {k \in 0 .. n : n - k \in S}
<1>1. T \subseteq Nat
  OBVIOUS
<1>2. ASSUME NEW m \in S PROVE m \in Int /\ n - m \in T
  <2>1. m \in 1 .. n /\ n - (n - m) = m
    BY <1>2
  <2> QED BY <2>1
<1>3. T # {}
  BY <1>2
<1>4. PICK k \in T : \A m \in T : k <= m
  BY <1>1, <1>3, LeastExists
<1>5. n - k \in S /\ k \in Int
  BY <1>4
<1>6. \A m \in S : n - k >= m
  <2> TAKE m \in S
  <2>1. k <= n - m /\ m \in Int
    BY <1>2, <1>4
  <2> QED BY <1>5, <2>1
<1>7. Max(S) \in S /\ \A m \in S : Max(S) >= m
  BY <1>5, <1>6 DEF Max
<1> QED BY <1>7, <1>2

\* The greatest of the first i positions is i.
LEMMA MaxUpTo ==
  ASSUME NEW i \in Nat \ {0}
  PROVE  Max(1 .. i) = i /\ (1 .. i) \ {i} = 1 .. i - 1 /\ 1 .. i # {}
<1>1. Max(1 .. i) \in 1 .. i /\ \A m \in 1 .. i : m <= Max(1 .. i)
  <2>1. 1 .. i # {} /\ i \in Nat
    OBVIOUS
  <2> QED BY <2>1, MaxOf
<1>2. Max(1 .. i) = i
  <2>1. i \in 1 .. i
    OBVIOUS
  <2>2. i <= Max(1 .. i) /\ Max(1 .. i) <= i /\ Max(1 .. i) \in Int
    BY <1>1, <2>1
  <2> QED BY <2>2
<1>3. \A m : m \in (1 .. i) \ {i} <=> m \in 1 .. i - 1
  OBVIOUS
<1>4. (1 .. i) \ {i} = 1 .. i - 1
  BY <1>3
<1>5. i \in 1 .. i
  OBVIOUS
<1> QED BY <1>2, <1>4, <1>5

\* f is the fold of F over s, from base, on the subsets of 1 .. k, as the Folds
\* module defines it.
Solves(f, k, base, F, s) ==
  \A S \in SUBSET (1 .. k) :
     f[S] = IF S = {} THEN base ELSE F[<<f[S \ {Max(S)}], s[Max(S)]>>]

\* Such a fold exists: by induction on k.
LEMMA FoldExists ==
  ASSUME NEW D, NEW base \in D, NEW E, NEW s \in Seq(E), NEW F \in [D \X E -> D]
  PROVE  \E f \in [SUBSET (1 .. Len(s)) -> D] : Solves(f, Len(s), base, F, s)
<1> DEFINE N == Len(s)
           G == {k \in Nat : \E f \in [SUBSET (1 .. k) -> D] : Solves(f, k, base, F, s)}
<1>1. 0 \in G
  <2>1. 1 .. 0 = {}
    OBVIOUS
  <2> DEFINE f == [S \in SUBSET (1 .. 0) |-> base]
  <2>2. f \in [SUBSET (1 .. 0) -> D]
    OBVIOUS
  <2>3. ASSUME NEW S \in SUBSET (1 .. 0) PROVE f[S] = base /\ S = {}
    BY <2>1
  <2> HIDE DEF f
  <2>4. Solves(f, 0, base, F, s)
    BY <2>3 DEF Solves
  <2> QED BY <2>2, <2>4
<1>2. ASSUME NEW i \in 1 .. N, i - 1 \in G PROVE i \in G
  <2>1. PICK f \in [SUBSET (1 .. i - 1) -> D] : Solves(f, i - 1, base, F, s)
    BY <1>2
  <2> DEFINE g == [S \in SUBSET (1 .. i) |-> IF i \in S THEN F[<<f[S \ {i}], s[i]>>] ELSE f[S]]
  <2>2. s[i] \in E /\ i \in Nat /\ i \in Int
    BY <1>2
  <2>3. ASSUME NEW S \in SUBSET (1 .. i), i \in S PROVE S \ {i} \in SUBSET (1 .. i - 1) /\ Max(S) = i
    <3>1. Max(S) \in S /\ \A m \in S : m <= Max(S)
      BY <2>2, <2>3, MaxOf
    <3>2. Max(S) \in 1 .. i /\ i <= Max(S)
      BY <2>3, <3>1
    <3>3. Max(S) = i
      BY <2>2, <3>2
    <3>4. \A m \in S \ {i} : m \in 1 .. i - 1
      BY <2>2
    <3> QED BY <3>3, <3>4
  <2>4. ASSUME NEW S \in SUBSET (1 .. i), i \notin S PROVE S \in SUBSET (1 .. i - 1)
    BY <2>2, <2>4
  <2>5. g \in [SUBSET (1 .. i) -> D]
    <3>1. ASSUME NEW S \in SUBSET (1 .. i) PROVE (IF i \in S THEN F[<<f[S \ {i}], s[i]>>] ELSE f[S]) \in D
      <4>1. CASE i \in S
        <5>1. f[S \ {i}] \in D
          BY <2>3, <4>1
        <5>2. <<f[S \ {i}], s[i]>> \in D \X E
          BY <2>2, <5>1
        <5> QED BY <4>1, <5>2
      <4>2. CASE i \notin S
        BY <2>4, <4>2
      <4> QED BY <4>1, <4>2
    <3> QED BY <3>1
  <2>6. Solves(g, i, base, F, s)
    <3> SUFFICES ASSUME NEW S \in SUBSET (1 .. i)
                 PROVE  g[S] = IF S = {} THEN base ELSE F[<<g[S \ {Max(S)}], s[Max(S)]>>]
      BY DEF Solves
    <3>1. CASE i \in S
      <4>1. S \ {i} \in SUBSET (1 .. i - 1) /\ Max(S) = i /\ S # {}
        BY <2>3, <3>1
      <4>2. S \ {i} \in SUBSET (1 .. i) /\ i \notin S \ {i}
        OBVIOUS
      <4>3. g[S \ {i}] = f[S \ {i}]
        BY <4>2
      <4>4. g[S] = F[<<f[S \ {i}], s[i]>>]
        BY <3>1
      <4> HIDE DEF g
      <4> QED BY <4>1, <4>3, <4>4
    <3>2. CASE i \notin S
      <4>1. S \in SUBSET (1 .. i - 1)
        BY <2>4, <3>2
      <4>2. f[S] = IF S = {} THEN base ELSE F[<<f[S \ {Max(S)}], s[Max(S)]>>]
        BY <2>1, <4>1 DEF Solves
      <4>3. g[S] = f[S]
        BY <3>2
      <4>4. S \ {Max(S)} \in SUBSET (1 .. i) /\ i \notin S \ {Max(S)}
        BY <3>2
      <4>5. g[S \ {Max(S)}] = f[S \ {Max(S)}]
        BY <4>4
      <4> HIDE DEF g
      <4> QED BY <4>2, <4>3, <4>5
    <3> QED BY <3>1, <3>2
  <2> HIDE DEF g
  <2> QED BY <2>2, <2>5, <2>6
<1>3. N \in Nat
  OBVIOUS
<1>4. \A i \in 0 .. N : i \in G
  <2> HIDE DEF G
  <2> QED BY <1>1, <1>2, <1>3, UpTo
<1>5. N \in 0 .. N
  BY <1>3
<1>6. N \in G
  BY <1>4, <1>5
<1> QED BY <1>6

\* The last element that a set of positions leads to.
LEMMA LastOf ==
  ASSUME NEW E, NEW s \in Seq(E), NEW S \in SUBSET (1 .. Len(s)), S # {}
  PROVE  s[Max(S)] \in E /\ S \ {Max(S)} \in SUBSET (1 .. Len(s))
<1>1. Len(s) \in Nat
  OBVIOUS
<1>2. Max(S) \in S
  BY <1>1, MaxOf
<1>3. Max(S) \in 1 .. Len(s)
  BY <1>2
<1>4. s[Max(S)] \in E
  BY <1>3
<1> QED BY <1>4

\* h is such a fold as far as its values are in D.
Unfolds(h, base, D, F, s) ==
  /\ h[{}] = base
  /\ \A S \in SUBSET (1 .. Len(s)) :
        S # {} /\ h[S \ {Max(S)}] \in D => h[S] = F[<<h[S \ {Max(S)}], s[Max(S)]>>]

\* r is the fold of F over s step by step, from base to last.
Run(r, base, last, F, s) ==
  /\ r[0] = base /\ r[Len(s)] = last
  /\ \A i \in 1 .. Len(s) : r[i] = F[<<r[i - 1], s[i]>>]

\* A fold, one element at a time.
LEMMA FoldSteps ==
  ASSUME NEW D, NEW q \in D, NEW E, NEW s \in Seq(E), NEW F \in [D \X E -> D],
         NEW h, Unfolds(h, q, D, F, s)
  PROVE  \E r \in [0 .. Len(s) -> D] : Run(r, q, h[1 .. Len(s)], F, s)
<1>0. Len(s) \in Nat
  OBVIOUS
<1>1. 1 .. 0 = {}
  OBVIOUS
<1>2. ASSUME NEW i \in 1 .. Len(s), h[1 .. i - 1] \in D
      PROVE  h[1 .. i] = F[<<h[1 .. i - 1], s[i]>>]
  <2>1. Max(1 .. i) = i /\ (1 .. i) \ {i} = 1 .. i - 1 /\ 1 .. i # {}
    BY SMTT(30), MaxUpTo
  <2>2. 1 .. i \in SUBSET (1 .. Len(s))
    BY <1>0
  <2> QED BY <1>2, <2>1, <2>2 DEF Unfolds
<1> DEFINE G == {j \in 0 .. Len(s) : h[1 .. j] \in D}
<1>3. 0 \in G
  BY <1>0, <1>1 DEF Unfolds
<1>4. ASSUME NEW i \in 1 .. Len(s), i - 1 \in G PROVE i \in G
  <2>1. h[1 .. i - 1] \in D /\ s[i] \in E
    BY <1>4
  <2>2. <<h[1 .. i - 1], s[i]>> \in D \X E
    BY <2>1
  <2> QED BY <1>2, <2>1, <2>2
<1> HIDE DEF G
<1>5. \A i \in 0 .. Len(s) : i \in G
  BY <1>0, <1>3, <1>4, UpTo
<1>6. \A i \in 0 .. Len(s) : h[1 .. i] \in D
  BY <1>5 DEF G
<1> DEFINE r == [i \in 0 .. Len(s) |-> h[1 .. i]]
<1>7. r \in [0 .. Len(s) -> D] /\ r[0] = q /\ r[Len(s)] = h[1 .. Len(s)]
  BY <1>0, <1>1, <1>6 DEF Unfolds
<1>8. ASSUME NEW i \in 1 .. Len(s) PROVE r[i] = F[<<r[i - 1], s[i]>>]
  BY <1>2, <1>6
<1> HIDE DEF r
<1>9. Run(r, q, h[1 .. Len(s)], F, s)
  BY <1>7, <1>8 DEF Run
<1> QED BY <1>7, <1>9

\* Folding one more element is one more step.
LEMMA OneMore ==
  ASSUME NEW E, NEW s \in Seq(E), NEW t \in E, NEW u, u = Append(s, t), NEW F,
         NEW r1, NEW r2, NEW q, NEW x1, NEW x2, Run(r1, q, x1, F, s), Run(r2, q, x2, F, u)
  PROVE  x2 = F[<<x1, t>>]
<1> USE DEF Run
<1>0. /\ Len(s) \in Nat /\ Len(u) = Len(s) + 1 /\ u[Len(s) + 1] = t
      /\ \A i \in 1 .. Len(s) : u[i] = s[i]
  OBVIOUS
<1> DEFINE G == {i \in 0 .. Len(s) : r2[i] = r1[i]}
<1>1. 0 \in G
  BY <1>0
<1>2. ASSUME NEW i \in 1 .. Len(s), i - 1 \in G PROVE i \in G
  <2>1. r2[i - 1] = r1[i - 1] /\ i \in 1 .. Len(u)
    BY <1>0, <1>2
  <2>2. r2[i] = F[<<r2[i - 1], u[i]>>] /\ r1[i] = F[<<r1[i - 1], s[i]>>]
    BY <2>1
  <2> QED BY <1>0, <2>1, <2>2
<1> HIDE DEF G
<1>3. Len(s) \in 0 .. Len(s)
  BY <1>0
<1>4. Len(s) \in G
  BY <1>0, <1>1, <1>2, <1>3, UpTo
<1>5. r2[Len(s)] = r1[Len(s)]
  BY <1>4 DEF G
<1>6. Len(s) + 1 \in 1 .. Len(u) /\ Len(s) + 1 - 1 = Len(s)
  BY <1>0
<1>7. r2[Len(s) + 1] = F[<<r2[Len(s) + 1 - 1], u[Len(s) + 1]>>]
  BY <1>6
<1>8. r2[Len(s) + 1] = x2 /\ r1[Len(s)] = x1 /\ u[Len(s) + 1] = t
  BY <1>0
<1> QED BY <1>5, <1>6, <1>7, <1>8

-----------------------------------------------------------------------------
\* The index, the wallet and a work state, by their types.
Place == Block \cup {Memory}
IndexType == [Tx -> Entry \cup {NoEntry}]
WalletType == [Tx -> Block \cup {Loose, Unknown}]
WorkType == [ok : BOOLEAN, idx : IndexType, wallet : WalletType]

\* Marking outputs keeps the index an index.
LEMMA MarkType ==
  ASSUME NEW idx \in IndexType, NEW t \in Tx
  PROVE  MarkSpent(idx, t) \in IndexType /\ MarkUnspent(idx, t) \in IndexType
<1>1. ASSUME NEW u \in Tx PROVE SpentBy(t, u) \subseteq Nat
  BY TxAssumption DEF SpentBy
<1>2. ASSUME NEW e \in Entry, NEW S \in SUBSET Nat
      PROVE  [e EXCEPT !.spent = @ \cup S] \in Entry /\ [e EXCEPT !.spent = @ \ S] \in Entry
  BY DEF Entry
<1>3. ASSUME NEW u \in Tx, idx[u] # NoEntry
      PROVE  /\ [idx[u] EXCEPT !.spent = @ \cup SpentBy(t, u)] \in Entry
             /\ [idx[u] EXCEPT !.spent = @ \ SpentBy(t, u)] \in Entry
  <2>1. idx[u] \in Entry
    BY <1>3 DEF IndexType
  <2> QED BY <1>1, <1>2, <2>1
<1> QED BY <1>3 DEF MarkSpent, MarkUnspent, IndexType

\* DisconnectInputs leads from work states to work states ...
LEMMA DisconnectType ==
  ASSUME NEW q \in WorkType, NEW t \in Tx
  PROVE  DisconnectInputs(q, t) \in WorkType
<1>1. q.idx \in IndexType /\ q.wallet \in WalletType
  BY DEF WorkType
<1>2. Withdraw(q.idx, t) \in IndexType
  BY <1>1, MarkType DEF Withdraw, IndexType
<1> QED BY <1>1, <1>2 DEF DisconnectInputs, Work, WorkType

\* DisconnectBlock, transaction by transaction.
LEMMA DisconnectSteps ==
  ASSUME NEW q \in WorkType, NEW s \in Seq(Tx)
  PROVE  \E r \in [0 .. Len(s) -> WorkType] :
           /\ r[0] = q /\ r[Len(s)] = FoldLeft(DisconnectInputs, q, s)
           /\ \A i \in 1 .. Len(s) : r[i] = DisconnectInputs(r[i - 1], s[i])
<1> DEFINE F == [z \in WorkType \X Tx |-> DisconnectInputs(z[1], z[2])]
           P(f) == f = [S \in SUBSET DOMAIN s |->
                          IF S = {} THEN q ELSE LET x == Max(S) IN DisconnectInputs(f[S \ {x}], s[x])]
           h == CHOOSE f : P(f)
<1>0. DOMAIN s = 1 .. Len(s) /\ \A x \in WorkType : \A y \in Tx : F[<<x, y>>] = DisconnectInputs(x, y)
  OBVIOUS
<1>1. F \in [WorkType \X Tx -> WorkType]
  BY DisconnectType
<1> HIDE DEF F
<1>2. PICK g \in [SUBSET (1 .. Len(s)) -> WorkType] : Solves(g, Len(s), q, F, s)
  BY <1>1, FoldExists
<1>3. P(g)
  <2>1. ASSUME NEW S \in SUBSET (1 .. Len(s))
        PROVE  g[S] = IF S = {} THEN q ELSE DisconnectInputs(g[S \ {Max(S)}], s[Max(S)])
    <3>1. ASSUME S # {} PROVE g[S \ {Max(S)}] \in WorkType /\ s[Max(S)] \in Tx
      BY <3>1, LastOf
    <3> QED BY <1>0, <1>2, <3>1 DEF Solves
  <2> QED BY <1>0, <2>1
<1>4. P(h)
  <2> HIDE DEF P
  <2> QED BY <1>3
<1>5. FoldLeft(DisconnectInputs, q, s) = h[1 .. Len(s)]
  BY <1>0 DEF FoldLeft, MapThenFoldSet
<1> HIDE DEF h
<1>6. ASSUME NEW S \in SUBSET (1 .. Len(s))
      PROVE  h[S] = IF S = {} THEN q ELSE DisconnectInputs(h[S \ {Max(S)}], s[Max(S)])
  BY <1>0, <1>4
<1> HIDE DEF P
<1>7. ASSUME NEW S \in SUBSET (1 .. Len(s)), S # {}, h[S \ {Max(S)}] \in WorkType
      PROVE  h[S] = F[<<h[S \ {Max(S)}], s[Max(S)]>>]
  <2>1. s[Max(S)] \in Tx
    BY <1>7, LastOf
  <2> QED BY <1>0, <1>6, <1>7, <2>1
<1>8. PICK r \in [0 .. Len(s) -> WorkType] :
        /\ r[0] = q /\ r[Len(s)] = h[1 .. Len(s)]
        /\ \A i \in 1 .. Len(s) : r[i] = F[<<r[i - 1], s[i]>>]
  <2>1. Unfolds(h, q, WorkType, F, s)
    BY <1>6, <1>7 DEF Unfolds
  <2>2. PICK r \in [0 .. Len(s) -> WorkType] : Run(r, q, h[1 .. Len(s)], F, s)
    BY <1>1, <2>1, FoldSteps
  <2> QED BY <2>2 DEF Run
<1>9. ASSUME NEW i \in 1 .. Len(s) PROVE r[i] = DisconnectInputs(r[i - 1], s[i])
  <2>1. r[i - 1] \in WorkType /\ s[i] \in Tx
    OBVIOUS
  <2> QED BY <1>0, <1>8, <2>1
<1> QED BY <1>5, <1>8, <1>9

\* ... and so does a step of ConnectBlock.
LEMMA ConnectTxType ==
  ASSUME NEW old \in IndexType, NEW p \in Place, NEW tip, NEW h,
         NEW q \in WorkType, NEW t \in Tx
  PROVE  ConnectTx(old, p, tip, h, q, t) \in WorkType
<1>1. q.idx \in IndexType /\ q.wallet \in WalletType
  BY DEF WorkType
<1>2. NewEntry(p) \in Entry
  BY DEF NewEntry, Entry, Place
<1>3. Enter(q.idx, t, p) \in IndexType
  BY <1>1, <1>2, MarkType DEF Enter, IndexType
<1> QED BY <1>1, <1>3 DEF ConnectTx, Work, WorkType

\* ConnectBlock, transaction by transaction.
LEMMA ConnectSteps ==
  ASSUME NEW p \in Place, NEW tip \in Block, NEW n \in Nat,
         NEW q \in WorkType, NEW s \in Seq(Tx)
  PROVE  \E r \in [0 .. Len(s) -> WorkType] :
           /\ r[0] = q /\ r[Len(s)] = ConnectAll(q, s, p, tip, n)
           /\ \A i \in 1 .. Len(s) : r[i] = ConnectTx(q.idx, p, tip, n, r[i - 1], s[i])
<1> DEFINE F == [z \in WorkType \X Tx |-> ConnectTx(q.idx, p, tip, n, z[1], z[2])]
           P(f) == f = [S \in SUBSET DOMAIN s |->
                          IF S = {} THEN q ELSE LET x == Max(S) IN ConnectTx(q.idx, p, tip, n, f[S \ {x}], s[x])]
           h == CHOOSE f : P(f)
<1>0. /\ DOMAIN s = 1 .. Len(s)
      /\ \A x \in WorkType : \A y \in Tx : F[<<x, y>>] = ConnectTx(q.idx, p, tip, n, x, y)
  OBVIOUS
<1>a. q.idx \in IndexType
  BY DEF WorkType
<1>1. F \in [WorkType \X Tx -> WorkType]
  BY <1>a, ConnectTxType
<1> HIDE DEF F
<1>2. PICK g \in [SUBSET (1 .. Len(s)) -> WorkType] : Solves(g, Len(s), q, F, s)
  BY <1>1, FoldExists
<1>3. P(g)
  <2>1. ASSUME NEW S \in SUBSET (1 .. Len(s))
        PROVE  g[S] = IF S = {} THEN q ELSE ConnectTx(q.idx, p, tip, n, g[S \ {Max(S)}], s[Max(S)])
    <3>1. ASSUME S # {} PROVE g[S \ {Max(S)}] \in WorkType /\ s[Max(S)] \in Tx
      BY <3>1, LastOf
    <3> QED BY <1>0, <1>2, <3>1 DEF Solves
  <2> QED BY <1>0, <2>1
<1>4. P(h)
  <2> HIDE DEF P
  <2> QED BY <1>3
<1>5. ConnectAll(q, s, p, tip, n) = h[1 .. Len(s)]
  BY <1>0 DEF ConnectAll, FoldLeft, MapThenFoldSet
<1> HIDE DEF h
<1>6. ASSUME NEW S \in SUBSET (1 .. Len(s))
      PROVE  h[S] = IF S = {} THEN q ELSE ConnectTx(q.idx, p, tip, n, h[S \ {Max(S)}], s[Max(S)])
  BY <1>0, <1>4
<1> HIDE DEF P
<1>7. ASSUME NEW S \in SUBSET (1 .. Len(s)), S # {}, h[S \ {Max(S)}] \in WorkType
      PROVE  h[S] = F[<<h[S \ {Max(S)}], s[Max(S)]>>]
  <2>1. s[Max(S)] \in Tx
    BY <1>7, LastOf
  <2> QED BY <1>0, <1>6, <1>7, <2>1
<1>8. PICK r \in [0 .. Len(s) -> WorkType] :
        /\ r[0] = q /\ r[Len(s)] = h[1 .. Len(s)]
        /\ \A i \in 1 .. Len(s) : r[i] = F[<<r[i - 1], s[i]>>]
  <2>1. Unfolds(h, q, WorkType, F, s)
    BY <1>6, <1>7 DEF Unfolds
  <2>2. PICK r \in [0 .. Len(s) -> WorkType] : Run(r, q, h[1 .. Len(s)], F, s)
    BY <1>1, <2>1, FoldSteps
  <2> QED BY <2>2 DEF Run
<1>9. ASSUME NEW i \in 1 .. Len(s) PROVE r[i] = ConnectTx(q.idx, p, tip, n, r[i - 1], s[i])
  <2>1. r[i - 1] \in WorkType /\ s[i] \in Tx
    OBVIOUS
  <2> QED BY <1>0, <1>8, <2>1
<1> QED BY <1>5, <1>8, <1>9

-----------------------------------------------------------------------------
(* One transaction.                                                        *)

\* No two of the transactions T spend the same output, and all they spend is theirs.
Once(T) ==
    \A t \in T : /\ \A u \in T \ {t} : vin[t] \cap vin[u] = {}
                 /\ \A o \in vin[t] : o[1] \in T /\ o[2] \in Outputs(o[1])

\* The index has the transactions T, with the outputs that T spends.
IndexIs(idx, T) ==
    /\ {t \in Tx : idx[t] # NoEntry} = T
    /\ \A t \in T : idx[t].spent = UNION {SpentBy(u, t) : u \in T}

\* An output is spent by t exactly if it is among its inputs.
LEMMA SpentByInput ==
  ASSUME NEW t \in Tx, NEW u, NEW n
  PROVE  n \in SpentBy(t, u) <=> <<u, n>> \in vin[t]
<1>1. \A o \in vin[t] : o = <<o[1], o[2]>>
  BY TxAssumption
<1> QED BY <1>1 DEF SpentBy

\* An output that a transaction of T spends is marked.
LEMMA InputIsMarked ==
  ASSUME NEW T \in SUBSET Tx, Once(T), NEW idx, IndexIs(idx, T),
         NEW u \in T, NEW o \in vin[u]
  PROVE  o[1] \in T /\ idx[o[1]] # NoEntry /\ o[2] \in idx[o[1]].spent
<1>1. o[1] \in T /\ o = <<o[1], o[2]>>
  BY TxAssumption DEF Once
<1>2. o[2] \in SpentBy(u, o[1])
  BY <1>1, SpentByInput
<1>3. idx[o[1]].spent = UNION {SpentBy(w, o[1]) : w \in T}
  BY <1>1 DEF IndexIs
<1>4. idx[o[1]] # NoEntry
  BY <1>1 DEF IndexIs
<1> QED BY <1>1, <1>2, <1>3, <1>4

\* What ConnectTx asks of a transaction t that is not in the index yet.
MayConnect(idx, t) ==
    t \notin Base => \A o \in vin[t] : /\ idx[o[1]] # NoEntry /\ o[2] \in Outputs(o[1])
                                       /\ o[2] \notin idx[o[1]].spent

\* A transaction that ConnectInputs lets pass is new, or a beanbase.
LEMMA ConnectedIsNew ==
  ASSUME NEW T \in SUBSET Tx, Once(T), NEW idx, IndexIs(idx, T),
         NEW t \in Tx \ Base, MayConnect(idx, t)
  PROVE  t \notin T
<1> SUFFICES ASSUME t \in T PROVE FALSE
  OBVIOUS
<1>1. PICK o \in vin[t] : TRUE
  BY InputsAssumption
<1> QED BY <1>1, InputIsMarked DEF MayConnect

\* MarkSpent and MarkUnspent, entry by entry.
LEMMA MarkedAt ==
  ASSUME NEW idx \in IndexType, NEW t \in Tx, NEW u \in Tx
  PROVE  /\ idx[u] = NoEntry => MarkSpent(idx, t)[u] = NoEntry /\ MarkUnspent(idx, t)[u] = NoEntry
         /\ idx[u] # NoEntry =>
              /\ MarkSpent(idx, t)[u] # NoEntry /\ MarkSpent(idx, t)[u].pos = idx[u].pos
              /\ MarkSpent(idx, t)[u].spent = idx[u].spent \cup SpentBy(t, u)
              /\ MarkUnspent(idx, t)[u] # NoEntry /\ MarkUnspent(idx, t)[u].pos = idx[u].pos
              /\ MarkUnspent(idx, t)[u].spent = idx[u].spent \ SpentBy(t, u)
<1>1. CASE idx[u] = NoEntry
  BY <1>1 DEF MarkSpent, MarkUnspent
<1>2. CASE idx[u] # NoEntry
  <2>1. idx[u] \in Entry
    BY <1>2 DEF IndexType
  <2>2. /\ MarkSpent(idx, t)[u] = [idx[u] EXCEPT !.spent = @ \cup SpentBy(t, u)]
        /\ MarkUnspent(idx, t)[u] = [idx[u] EXCEPT !.spent = @ \ SpentBy(t, u)]
    BY <1>2 DEF MarkSpent, MarkUnspent
  <2>3. SpentBy(t, u) \subseteq Nat
    BY TxAssumption DEF SpentBy
  <2>4. MarkSpent(idx, t)[u] \in Entry /\ MarkUnspent(idx, t)[u] \in Entry
    BY <2>1, <2>2, <2>3 DEF Entry
  <2>5. MarkSpent(idx, t)[u] # NoEntry /\ MarkUnspent(idx, t)[u] # NoEntry
    BY <2>4, EntryAssumption
  <2> QED BY <1>2, <2>1, <2>2, <2>5 DEF Entry
<1> QED BY <1>1, <1>2

\* Connecting one transaction.
LEMMA ConnectOne ==
  ASSUME NEW T \in SUBSET Tx, Once(T), NEW idx \in IndexType, IndexIs(idx, T),
         NEW t \in Tx, t \notin T, MayConnect(idx, t), NEW p \in Place,
         NEW new, new = Enter(idx, t, p)
  PROVE  /\ Once(T \cup {t}) /\ IndexIs(new, T \cup {t})
         /\ new[t].pos = p /\ \A u \in T : new[u].pos = idx[u].pos
<1>1. ASSUME NEW o \in vin[t]
      PROVE  /\ o[1] \in T /\ o[2] \in Outputs(o[1]) /\ o[2] \notin idx[o[1]].spent
             /\ o = <<o[1], o[2]>>
  <2>1. o \in Tx \X Nat /\ t \notin Base
    BY TxAssumption
  <2> QED BY <2>1 DEF MayConnect, IndexIs
<1>2. ASSUME NEW u \in T PROVE vin[t] \cap vin[u] = {}
  <2> SUFFICES ASSUME NEW o \in vin[t], o \in vin[u] PROVE FALSE
    OBVIOUS
  <2>1. o[2] \in idx[o[1]].spent
    BY InputIsMarked
  <2> QED BY <1>1, <2>1
<1>3. Once(T \cup {t})
  BY <1>1, <1>2 DEF Once
<1>4. new[t] = NewEntry(p) /\ \A u \in Tx \ {t} : new[u] = MarkSpent(idx, t)[u]
  BY MarkType DEF Enter, IndexType
<1>5. NewEntry(p) # NoEntry /\ NewEntry(p).pos = p /\ NewEntry(p).spent = {}
  <2>1. NewEntry(p) \in Entry
    BY DEF NewEntry, Entry, Place
  <2> QED BY <2>1, EntryAssumption DEF NewEntry
<1>6. \A u \in Tx : idx[u] # NoEntry <=> u \in T
  BY DEF IndexIs
<1>7. {u \in Tx : new[u] # NoEntry} = T \cup {t}
  BY <1>4, <1>5, <1>6, MarkedAt
<1>8. ASSUME NEW u \in T
      PROVE  new[u].pos = idx[u].pos /\ new[u].spent = UNION {SpentBy(w, u) : w \in T \cup {t}}
  <2>1. new[u].pos = idx[u].pos /\ new[u].spent = idx[u].spent \cup SpentBy(t, u)
    BY <1>4, <1>6, MarkedAt
  <2> QED BY <2>1 DEF IndexIs
<1>9. UNION {SpentBy(w, t) : w \in T \cup {t}} = {}
  <2> SUFFICES ASSUME NEW w \in T \cup {t}, NEW n \in SpentBy(w, t) PROVE FALSE
    OBVIOUS
  <2>1. <<t, n>> \in vin[w]
    BY SpentByInput
  <2>2. <<t, n>>[1] = t
    OBVIOUS
  <2> QED BY <1>1, <2>1, <2>2 DEF Once
<1>10. IndexIs(new, T \cup {t})
  BY <1>4, <1>5, <1>7, <1>8, <1>9 DEF IndexIs
<1> QED BY <1>3, <1>4, <1>5, <1>8, <1>10

\* Disconnecting one transaction is the inverse.
LEMMA DisconnectOne ==
  ASSUME NEW T \in SUBSET Tx, NEW t \in Tx, t \notin T, Once(T),
         NEW V, V = T \cup {t}, Once(V), NEW idx \in IndexType, IndexIs(idx, V),
         NEW new, new = Withdraw(idx, t)
  PROVE  IndexIs(new, T) /\ \A u \in T : new[u].pos = idx[u].pos
<1>1. new[t] = NoEntry /\ \A u \in Tx \ {t} : new[u] = MarkUnspent(idx, t)[u]
  BY MarkType DEF Withdraw, IndexType
<1>2. \A u \in Tx : idx[u] # NoEntry <=> u \in T \cup {t}
  BY DEF IndexIs
<1>3. {u \in Tx : new[u] # NoEntry} = T
  BY <1>1, <1>2, MarkedAt
<1>4. ASSUME NEW u \in T
      PROVE  new[u].pos = idx[u].pos /\ new[u].spent = UNION {SpentBy(w, u) : w \in T}
  <2>1. new[u].pos = idx[u].pos /\ new[u].spent = idx[u].spent \ SpentBy(t, u)
    BY <1>1, <1>2, MarkedAt
  <2>2. ASSUME NEW w \in T, NEW n \in SpentBy(w, u) PROVE n \notin SpentBy(t, u)
    <3>1. <<u, n>> \in vin[w]
      BY <2>2, SpentByInput
    <3>2. <<u, n>> \notin vin[t]
      BY <3>1 DEF Once
    <3> QED BY <3>2, SpentByInput
  <2>3. idx[u].spent = UNION {SpentBy(w, u) : w \in T \cup {t}}
    BY DEF IndexIs
  <2> QED BY <2>1, <2>2, <2>3
<1> QED BY <1>3, <1>4 DEF IndexIs

-----------------------------------------------------------------------------
(* One block.                                                              *)

\* The transactions of the chain that ends in b; genesis is not connected.
TxIn(b) == UNION {TxOf(a) : a \in Chain[b] \ {Genesis}}

\* Those before b and the first i of b.
Before(b, i) == TxIn(Parent[b]) \cup {vtx[b][j] : j \in 1 .. i}

\* The transactions of b spend nothing twice, and each is new when it comes.
Stacked(b, n) == /\ \A i \in 0 .. n : Once(Before(b, i))
                 /\ \A i \in 1 .. n : vtx[b][i] \notin Before(b, i - 1)
Sane(b) == \A a \in Chain[b] \ {Genesis} : Stacked(a, Len(vtx[a]))

\* Every entry is at a block of the chain that has the transaction ...
Placed(idx, b) == \A t \in TxIn(b) : idx[t].pos \in Chain[b] \ {Genesis} /\ t \in TxOf(idx[t].pos)

\* ... and the wallet knows it there.
Followed(q, b) == \A t \in Mine \cap TxIn(b) : q.wallet[t] = q.idx[t].pos

\* A work state in which the blocks up to b are connected.
InForce(q, b) == IndexIs(q.idx, TxIn(b)) /\ Placed(q.idx, b) /\ Sane(b)

\* A block adds itself and its transactions to the chain of its parent.
LEMMA ParentFacts ==
  ASSUME NEW b \in Block \ {Genesis}
  PROVE  /\ Parent[b] \in Block /\ b \notin Chain[Parent[b]]
         /\ Chain[b] = Chain[Parent[b]] \cup {b}
         /\ Height[Parent[b]] = Height[b] - 1
         /\ TxIn(b) = TxIn(Parent[b]) \cup TxOf(b)
<1>1. Parent[b] \in Block /\ Chain[b] = Chain[Parent[b]] \cup {b}
  BY TreeAssumption, ChainAssumption
<1>2. Height[b] = Height[Parent[b]] + 1 /\ Height[b] \in Nat /\ Height[Parent[b]] \in Nat
  BY <1>1, TreeAssumption, TrustAssumption
<1>3. b \notin Chain[Parent[b]]
  <2> SUFFICES ASSUME b \in Chain[Parent[b]] PROVE FALSE
    OBVIOUS
  <2>1. b # Parent[b]
    BY <1>2
  <2>2. Height[b] < Height[Parent[b]]
    BY <1>1, <2>1, TrustAssumption
  <2> QED BY <1>2, <2>2
<1>4. TxIn(b) = TxIn(Parent[b]) \cup TxOf(b)
  BY <1>1 DEF TxIn
<1> QED BY <1>1, <1>2, <1>3, <1>4

\* The transactions of a block and of its chain are transactions.
LEMMA TxTypes ==
  ASSUME NEW b \in Block
  PROVE  /\ TxOf(b) \subseteq Tx /\ TxIn(b) \subseteq Tx /\ Len(vtx[b]) \in Nat
         /\ DOMAIN vtx[b] = 1 .. Len(vtx[b]) /\ \A i \in 1 .. Len(vtx[b]) : vtx[b][i] \in Tx
<1>1. ASSUME NEW a \in Block PROVE TxOf(a) \subseteq Tx /\ vtx[a] \in Seq(Tx)
  BY TxAssumption DEF TxOf
<1>2. Chain[b] \subseteq Block
  BY TreeAssumption
<1> QED BY <1>1, <1>2 DEF TxIn

\* From the transactions before b to those up to b, one by one.
LEMMA BeforeFacts ==
  ASSUME NEW b \in Block \ {Genesis}
  PROVE  /\ Before(b, 0) = TxIn(Parent[b]) /\ Before(b, Len(vtx[b])) = TxIn(b)
         /\ \A i \in 0 .. Len(vtx[b]) : Before(b, i) \subseteq Tx
         /\ \A i \in 1 .. Len(vtx[b]) : Before(b, i) = Before(b, i - 1) \cup {vtx[b][i]}
<1>1. 1 .. 0 = {} /\ Len(vtx[b]) \in Nat
  BY TxTypes
<1>2. Before(b, 0) = TxIn(Parent[b])
  BY <1>1 DEF Before
<1>3. Before(b, Len(vtx[b])) = TxIn(b)
  BY ParentFacts, TxTypes DEF Before, TxOf
<1>4. \A i \in 0 .. Len(vtx[b]) : Before(b, i) \subseteq Tx
  <2> TAKE i \in 0 .. Len(vtx[b])
  <2>1. \A j \in 1 .. i : j \in 1 .. Len(vtx[b])
    BY <1>1
  <2> QED BY <2>1, ParentFacts, TxTypes DEF Before
<1>5. \A i \in 1 .. Len(vtx[b]) : Before(b, i) = Before(b, i - 1) \cup {vtx[b][i]}
  <2> TAKE i \in 1 .. Len(vtx[b])
  <2>1. 1 .. i = (1 .. i - 1) \cup {i}
    BY <1>1
  <2> QED BY <2>1 DEF Before
<1> QED BY <1>2, <1>3, <1>4, <1>5

\* Along a sane chain nothing is spent twice.
LEMMA SaneIsOnce ==
  ASSUME NEW b \in Block, Sane(b)
  PROVE  Once(TxIn(b))
<1>1. CASE b = Genesis
  BY <1>1, ChainAssumption DEF TxIn, Once
<1>2. CASE b # Genesis
  <2>1. Stacked(b, Len(vtx[b])) /\ Len(vtx[b]) \in 0 .. Len(vtx[b])
    BY <1>2, ChainAssumption, TxTypes DEF Sane
  <2> QED BY <1>2, <2>1, BeforeFacts DEF Stacked
<1> QED BY <1>1, <1>2

\* No chain has a beanbase twice.
LEMMA BaseIsNew ==
  ASSUME NEW b \in Block \ {Genesis}, NEW i \in 1 .. Len(vtx[b]), vtx[b][i] \in Base
  PROVE  vtx[b][i] \notin Before(b, i - 1)
<1>1. ASSUME NEW j \in 1 .. i - 1 PROVE vtx[b][i] # vtx[b][j]
  <2>1. j \in DOMAIN vtx[b] /\ i \in DOMAIN vtx[b] /\ i # j
    BY TxTypes
  <2> QED BY <2>1, UniqueAssumption
<1>2. ASSUME vtx[b][i] \in TxIn(Parent[b]) PROVE FALSE
  <2>1. PICK a \in Chain[Parent[b]] : vtx[b][i] \in TxOf(a)
    BY <1>2 DEF TxIn
  <2>2. a \in Chain[b] /\ a # b /\ a \in Block
    BY <2>1, ParentFacts, TreeAssumption
  <2>3. PICK j \in DOMAIN vtx[a] : vtx[b][i] = vtx[a][j]
    BY <2>1 DEF TxOf
  <2>4. i \in DOMAIN vtx[b]
    BY TxTypes
  <2> QED BY <2>2, <2>3, <2>4, UniqueAssumption
<1> QED BY <1>1, <1>2 DEF Before

\* ConnectBlock, after i transactions.
Ahead(x, b, i, old) ==
    x.ok => /\ IndexIs(x.idx, Before(b, i)) /\ Stacked(b, i)
            /\ \A t \in Before(b, i) :
                  x.idx[t].pos = IF t \in TxIn(Parent[b]) THEN old[t].pos ELSE b

\* One more transaction of the block is connected.
LEMMA AheadStep ==
  ASSUME NEW b \in Block \ {Genesis}, NEW i \in 1 .. Len(vtx[b]), NEW old \in IndexType,
         NEW n, NEW x \in WorkType, Ahead(x, b, i - 1, old),
         NEW y, y = ConnectTx(old, b, b, n, x, vtx[b][i])
  PROVE  Ahead(y, b, i, old)
<1> SUFFICES ASSUME y.ok
             PROVE  /\ IndexIs(y.idx, Before(b, i)) /\ Stacked(b, i)
                    /\ \A u \in Before(b, i) :
                          y.idx[u].pos = IF u \in TxIn(Parent[b]) THEN old[u].pos ELSE b
  BY DEF Ahead
<1> DEFINE t == vtx[b][i]
           T == Before(b, i - 1)
<1>0. i - 1 \in 0 .. Len(vtx[b]) /\ i - 1 \in 0 .. i - 1 /\ i \in Nat /\ t \in Tx
  BY TxTypes
<1>1. /\ x.ok
      /\ t \notin Base => ~InputsMissing(x.idx, {}, t) /\ ConnectsInputs(x.idx, t, b, n)
      /\ y.idx = Enter(x.idx, t, b)
  BY DEF ConnectTx, Work
<1>2. /\ IndexIs(x.idx, T) /\ Stacked(b, i - 1) /\ x.idx \in IndexType
      /\ \A u \in T : x.idx[u].pos = IF u \in TxIn(Parent[b]) THEN old[u].pos ELSE b
  BY <1>1 DEF Ahead, WorkType
<1>3. T \in SUBSET Tx /\ Once(T) /\ Before(b, i) = T \cup {t} /\ TxIn(Parent[b]) \subseteq T
  BY <1>0, <1>2, BeforeFacts DEF Stacked, Before
<1>4. MayConnect(x.idx, t)
  BY <1>1 DEF MayConnect, InputsMissing, ConnectsInputs, PrevoutInvalid
<1>5. t \notin T
  <2>1. CASE t \in Base
    BY <2>1, BaseIsNew
  <2>2. CASE t \notin Base
    <3> HIDE DEF t, T
    <3> QED BY <1>0, <1>2, <1>3, <1>4, <2>2, ConnectedIsNew
  <2> QED BY <2>1, <2>2
<1>6. /\ Once(T \cup {t}) /\ IndexIs(y.idx, T \cup {t})
      /\ y.idx[t].pos = b /\ \A u \in T : y.idx[u].pos = x.idx[u].pos
  <2>1. t \in Tx /\ t \notin T /\ b \in Place
    BY <1>0, <1>5 DEF Place
  <2>2. PICK old1 \in IndexType : old1 = x.idx
    BY <1>2
  <2>3. PICK new1 : new1 = y.idx
    OBVIOUS
  <2>4. new1 = Enter(old1, t, b) /\ IndexIs(old1, T) /\ MayConnect(old1, t)
    BY <1>1, <1>2, <1>4, <2>2, <2>3
  <2> HIDE DEF t, T
  <2>5. /\ Once(T \cup {t}) /\ IndexIs(new1, T \cup {t})
        /\ new1[t].pos = b /\ \A u \in T : new1[u].pos = old1[u].pos
    BY <1>3, <2>1, <2>4, ConnectOne
  <2> QED BY <2>2, <2>3, <2>5
<1>7. Stacked(b, i)
  <2>1. \A j \in 0 .. i : j \in 0 .. i - 1 \/ j = i
    BY <1>0
  <2>2. \A j \in 1 .. i : j \in 1 .. i - 1 \/ j = i
    BY <1>0
  <2> QED BY <1>2, <1>3, <1>5, <1>6, <2>1, <2>2 DEF Stacked
<1>8. ASSUME NEW u \in Before(b, i)
      PROVE  y.idx[u].pos = IF u \in TxIn(Parent[b]) THEN old[u].pos ELSE b
  BY <1>2, <1>3, <1>5, <1>6
<1> QED BY <1>3, <1>6, <1>7, <1>8

\* ConnectBlock on top of its parent.
LEMMA ConnectBlockKeeps ==
  ASSUME NEW b \in Block \ {Genesis}, NEW q \in WorkType, InForce(q, Parent[b]),
         NEW x, x = ConnectBlock(q, b), x.ok
  PROVE  /\ x \in WorkType /\ q.ok /\ InForce(x, b)
         /\ Followed(q, Parent[b]) => Followed(x, b)
<1> DEFINE N == Len(vtx[b])
<1>0. /\ vtx[b] \in Seq(Tx) /\ N \in Nat /\ q.idx \in IndexType /\ q.wallet \in WalletType
      /\ b \in Place /\ b \in Block /\ Parent[b] \in Block
  BY TxAssumption, ParentFacts DEF WorkType, Place
<1>1. PICK r \in [0 .. N -> WorkType] :
        /\ r[0] = q /\ r[N] = ConnectAll(q, vtx[b], b, b, Height[b])
        /\ \A i \in 1 .. N : r[i] = ConnectTx(q.idx, b, b, Height[b], r[i - 1], vtx[b][i])
  <2> PICK s \in Seq(Tx) : s = vtx[b]
    BY <1>0
  <2> PICK n \in Nat : n = Height[b]
    BY TreeAssumption
  <2> PICK p \in Place : p = b
    BY <1>0
  <2>1. \E r \in [0 .. Len(s) -> WorkType] :
           /\ r[0] = q /\ r[Len(s)] = ConnectAll(q, s, p, b, n)
           /\ \A i \in 1 .. Len(s) : r[i] = ConnectTx(q.idx, p, b, n, r[i - 1], s[i])
    BY SMTT(30), ConnectSteps
  <2>2. N = Len(s)
    OBVIOUS
  <2> QED BY <2>1, <2>2
<1>2. q.ok /\ r[N].ok /\ x = Work(TRUE, r[N].idx, SyncBlock(q.wallet, b))
  <2>1. CASE q.ok /\ b \in BlockOk /\ r[N].ok
    BY <1>1, <2>1 DEF ConnectBlock
  <2>2. CASE ~(q.ok /\ b \in BlockOk /\ r[N].ok)
    BY <1>1, <2>2 DEF ConnectBlock, Work
  <2> QED BY <2>1, <2>2
<1>3. Ahead(r[N], b, N, q.idx)
  <2> DEFINE G == {i \in 0 .. N : Ahead(r[i], b, i, q.idx)}
  <2>1. 0 \in G
    <3>1. Before(b, 0) = TxIn(Parent[b]) /\ Once(TxIn(Parent[b])) /\ IndexIs(q.idx, TxIn(Parent[b]))
      BY <1>0, BeforeFacts, SaneIsOnce DEF InForce
    <3>2. Stacked(b, 0)
      BY <3>1 DEF Stacked
    <3> QED BY <1>0, <1>1, <3>1, <3>2 DEF Ahead
  <2>2. \A i \in 1 .. N : i - 1 \in G => i \in G
    <3> SUFFICES ASSUME NEW i \in 1 .. N, i - 1 \in G PROVE i \in G
      OBVIOUS
    <3>1. Ahead(r[i - 1], b, i - 1, q.idx) /\ r[i - 1] \in WorkType
      OBVIOUS
    <3>2. r[i] = ConnectTx(q.idx, b, b, Height[b], r[i - 1], vtx[b][i])
      BY <1>1
    <3>3. Ahead(r[i], b, i, q.idx)
      BY <1>0, <3>1, <3>2, AheadStep
    <3> QED BY <3>3
  <2> HIDE DEF G
  <2>3. \A i \in 0 .. N : i \in G
    BY <1>0, <2>1, <2>2, UpTo
  <2> QED BY <1>0, <2>3 DEF G
<1>4. /\ IndexIs(x.idx, TxIn(b)) /\ Stacked(b, N)
      /\ \A t \in TxIn(b) : x.idx[t].pos = IF t \in TxIn(Parent[b]) THEN q.idx[t].pos ELSE b
  BY <1>2, <1>3, BeforeFacts DEF Ahead, Work
<1>5. ASSUME NEW t \in TxIn(b)
      PROVE  x.idx[t].pos \in Chain[b] \ {Genesis} /\ t \in TxOf(x.idx[t].pos)
  <2>1. CASE t \in TxIn(Parent[b])
    <3>1. q.idx[t].pos \in Chain[Parent[b]] \ {Genesis} /\ t \in TxOf(q.idx[t].pos)
      BY <2>1 DEF InForce, Placed
    <3> QED BY <1>4, <2>1, <3>1, ParentFacts
  <2>2. CASE t \notin TxIn(Parent[b])
    <3>1. t \in TxOf(b) /\ x.idx[t].pos = b /\ b \in Chain[b]
      BY <1>4, <2>2, ParentFacts
    <3> QED BY <3>1
  <2> QED BY <2>1, <2>2
<1>6. Sane(b)
  BY <1>4, ParentFacts DEF Sane, InForce
<1>7. x \in WorkType
  <2>1. SyncBlock(q.wallet, b) \in WalletType
    BY <1>0 DEF SyncBlock, WalletType
  <2>2. r[N] \in WorkType
    BY <1>0
  <2>3. r[N].idx \in IndexType
    BY <2>2 DEF WorkType
  <2> QED BY <1>2, <2>1, <2>3 DEF Work, WorkType
<1>8. ASSUME Followed(q, Parent[b]), NEW t \in Mine \cap TxIn(b)
      PROVE  x.wallet[t] = x.idx[t].pos
  <2>1. x.wallet[t] = IF t \in TxOf(b) THEN b ELSE q.wallet[t]
    BY <1>2, TxAssumption DEF Work, SyncBlock
  <2>2. CASE t \in TxOf(b)
    <3>1. PICK i \in 1 .. N : t = vtx[b][i]
      BY <2>2, TxTypes DEF TxOf
    <3>2. t \notin TxIn(Parent[b])
      BY <1>4, <3>1 DEF Stacked, Before
    <3> QED BY <1>4, <2>1, <2>2, <3>2
  <2>3. CASE t \notin TxOf(b)
    <3>1. t \in TxIn(Parent[b])
      BY <2>3, ParentFacts
    <3> QED BY <1>4, <1>8, <2>1, <2>3, <3>1 DEF Followed
  <2> QED BY <2>2, <2>3
<1> QED BY <1>2, <1>4, <1>5, <1>6, <1>7, <1>8 DEF InForce, Placed, Followed

\* DisconnectBlock, with the first i transactions left.
Behind(x, b, i, q) ==
    x.ok => /\ q.ok /\ x.wallet = q.wallet /\ IndexIs(x.idx, Before(b, i))
            /\ \A t \in Before(b, i) : x.idx[t].pos = q.idx[t].pos

\* One more transaction of the block is disconnected.
LEMMA BehindStep ==
  ASSUME NEW b \in Block \ {Genesis}, NEW i \in 1 .. Len(vtx[b]), Stacked(b, Len(vtx[b])),
         NEW q \in WorkType, NEW x \in WorkType, Behind(x, b, i, q),
         NEW y, y = DisconnectInputs(x, vtx[b][i])
  PROVE  Behind(y, b, i - 1, q)
<1> SUFFICES ASSUME y.ok
             PROVE  /\ q.ok /\ y.wallet = q.wallet /\ IndexIs(y.idx, Before(b, i - 1))
                    /\ \A u \in Before(b, i - 1) : y.idx[u].pos = q.idx[u].pos
  BY DEF Behind
<1> DEFINE t == vtx[b][i]
           T == Before(b, i - 1)
<1>0. i - 1 \in 0 .. Len(vtx[b]) /\ i \in 0 .. Len(vtx[b]) /\ t \in Tx
  BY TxTypes
<1>1. x.ok /\ y.idx = Withdraw(x.idx, t) /\ y.wallet = x.wallet
  BY DEF DisconnectInputs, Work
<1>2. T \in SUBSET Tx /\ Before(b, i) = T \cup {t} /\ Once(T) /\ Once(T \cup {t}) /\ t \notin T
  <2>1. T \in SUBSET Tx /\ Before(b, i) = T \cup {t}
    BY <1>0, BeforeFacts
  <2>2. Once(T)
    BY <1>0 DEF Stacked
  <2>3. Once(Before(b, i))
    BY <1>0 DEF Stacked
  <2>4. t \notin T
    <3>1. \A j \in 1 .. Len(vtx[b]) : vtx[b][j] \notin Before(b, j - 1)
      BY DEF Stacked
    <3> QED BY <3>1
  <2> QED BY <2>1, <2>2, <2>3, <2>4
<1>3. q.ok /\ x.wallet = q.wallet /\ IndexIs(x.idx, T \cup {t}) /\ x.idx \in IndexType
  BY <1>1, <1>2 DEF Behind, WorkType
<1>4. \A u \in T : x.idx[u].pos = q.idx[u].pos
  BY <1>1, <1>2 DEF Behind
<1>5. IndexIs(y.idx, T) /\ \A u \in T : y.idx[u].pos = x.idx[u].pos
  <2>1. PICK old1 \in IndexType : old1 = x.idx
    BY <1>3
  <2>2. PICK new1 : new1 = y.idx
    OBVIOUS
  <2>3. new1 = Withdraw(old1, t) /\ IndexIs(old1, T \cup {t})
    BY <1>1, <1>3, <2>1, <2>2
  <2>4. PICK V : V = T \cup {t}
    OBVIOUS
  <2>5. Once(V) /\ IndexIs(old1, V)
    BY <1>2, <2>3, <2>4
  <2> HIDE DEF t, T
  <2>6. IndexIs(new1, T) /\ \A u \in T : new1[u].pos = old1[u].pos
    BY <1>0, <1>2, <2>3, <2>4, <2>5, DisconnectOne
  <2> QED BY <2>1, <2>2, <2>6
<1> QED BY <1>1, <1>3, <1>4, <1>5

\* DisconnectBlock leads from work states to work states ...
LEMMA DisconnectBlockType ==
  ASSUME NEW q \in WorkType, NEW b \in Block
  PROVE  DisconnectBlock(q, b) \in WorkType
<1>1. Reverse(vtx[b]) \in Seq(Tx)
  BY TxTypes DEF Reverse
<1>2. PICK s \in Seq(Tx) : s = Reverse(vtx[b])
  BY <1>1
<1>3. PICK r \in [0 .. Len(s) -> WorkType] : r[Len(s)] = FoldLeft(DisconnectInputs, q, s)
  BY DisconnectSteps
<1>4. Len(s) \in 0 .. Len(s)
  OBVIOUS
<1> QED BY <1>2, <1>3, <1>4 DEF DisconnectBlock

\* DisconnectBlock of the last block that is connected.
LEMMA DisconnectBlockKeeps ==
  ASSUME NEW b \in Block \ {Genesis}, NEW q \in WorkType, InForce(q, b),
         NEW x, x = DisconnectBlock(q, b), x.ok
  PROVE  /\ q.ok /\ InForce(x, Parent[b])
         /\ Followed(q, b) => Followed(x, Parent[b])
<1> DEFINE N == Len(vtx[b])
<1>0. /\ N \in Nat /\ Stacked(b, N) /\ IndexIs(q.idx, TxIn(b)) /\ Placed(q.idx, b) /\ Sane(b)
      /\ Parent[b] \in Block /\ TxIn(Parent[b]) \subseteq TxIn(b)
  BY TxTypes, ParentFacts, ChainAssumption DEF InForce, Sane
<1>1. PICK s \in Seq(Tx) : s = Reverse(vtx[b])
  <2>1. vtx[b] \in Seq(Tx)
    BY TxAssumption
  <2>2. Reverse(vtx[b]) \in Seq(Tx)
    BY <2>1 DEF Reverse
  <2> QED BY <2>2
<1>2. Len(s) = N /\ \A i \in 1 .. N : s[i] = vtx[b][N - i + 1]
  BY <1>0, <1>1 DEF Reverse
<1>3. PICK r \in [0 .. Len(s) -> WorkType] :
        /\ r[0] = q /\ r[Len(s)] = FoldLeft(DisconnectInputs, q, s)
        /\ \A i \in 1 .. Len(s) : r[i] = DisconnectInputs(r[i - 1], s[i])
  BY DisconnectSteps
<1>4. x = r[N]
  BY <1>1, <1>2, <1>3 DEF DisconnectBlock
<1>5. Behind(r[N], b, 0, q)
  <2> DEFINE G == {i \in 0 .. N : Behind(r[i], b, N - i, q)}
  <2>1. 0 \in G
    <3>1. Before(b, N - 0) = TxIn(b)
      BY <1>0, BeforeFacts
    <3> QED BY <1>0, <1>3, <3>1 DEF Behind
  <2>2. \A i \in 1 .. N : i - 1 \in G => i \in G
    <3> SUFFICES ASSUME NEW i \in 1 .. N, i - 1 \in G PROVE i \in G
      OBVIOUS
    <3>1. PICK j \in 1 .. Len(vtx[b]) : j = N - i + 1
      BY <1>0
    <3>2. Behind(r[i - 1], b, j, q) /\ r[i - 1] \in WorkType /\ N - i = j - 1
      BY <1>0, <1>2, <3>1
    <3>3. r[i] = DisconnectInputs(r[i - 1], vtx[b][j])
      BY <1>2, <1>3, <3>1
    <3>4. Behind(r[i], b, j - 1, q)
      BY <1>0, <3>2, <3>3, BehindStep
    <3> QED BY SMTT(30), <3>2, <3>4
  <2> HIDE DEF G
  <2>3. \A i \in 0 .. N : i \in G
    BY <1>0, <2>1, <2>2, UpTo
  <2> QED BY <1>0, <2>3 DEF G
<1>6. /\ q.ok /\ x.wallet = q.wallet /\ IndexIs(x.idx, TxIn(Parent[b]))
      /\ \A t \in TxIn(Parent[b]) : x.idx[t].pos = q.idx[t].pos
  BY <1>4, <1>5, BeforeFacts DEF Behind
<1>7. ASSUME NEW t \in TxIn(Parent[b])
      PROVE  x.idx[t].pos \in Chain[Parent[b]] \ {Genesis} /\ t \in TxOf(x.idx[t].pos)
  <2>1. q.idx[t].pos \in Chain[b] \ {Genesis} /\ t \in TxOf(q.idx[t].pos)
    BY <1>0 DEF Placed
  <2>2. q.idx[t].pos # b
    <3> SUFFICES ASSUME t \in TxOf(b) PROVE FALSE
      BY <2>1
    <3>1. PICK i \in 1 .. N : t = vtx[b][i]
      BY TxTypes DEF TxOf
    <3> QED BY <1>0, <3>1 DEF Stacked, Before
  <2> QED BY <1>6, <2>1, <2>2, ParentFacts
<1>8. Sane(Parent[b])
  BY <1>0, ParentFacts DEF Sane
<1>9. Followed(q, b) => Followed(x, Parent[b])
  BY <1>0, <1>6 DEF Followed
<1> QED BY <1>6, <1>7, <1>8, <1>9 DEF InForce, Placed

\* DisconnectBlock does not make up for a failure before it.
LEMMA DisconnectBlockOk ==
  ASSUME NEW q \in WorkType, NEW b \in Block, DisconnectBlock(q, b).ok
  PROVE  q.ok
<1>1. PICK s \in Seq(Tx) : s = Reverse(vtx[b])
  <2>1. vtx[b] \in Seq(Tx)
    BY TxAssumption
  <2>2. Reverse(vtx[b]) \in Seq(Tx)
    BY <2>1 DEF Reverse
  <2> QED BY <2>2
<1>2. PICK r \in [0 .. Len(s) -> WorkType] :
        /\ r[0] = q /\ r[Len(s)] = FoldLeft(DisconnectInputs, q, s)
        /\ \A i \in 1 .. Len(s) : r[i] = DisconnectInputs(r[i - 1], s[i])
  BY DisconnectSteps
<1> DEFINE G == {i \in 0 .. Len(s) : r[i].ok => q.ok}
<1>3. 0 \in G
  BY <1>2
<1>4. ASSUME NEW i \in 1 .. Len(s), i - 1 \in G PROVE i \in G
  <2>1. PICK y \in WorkType : y = r[i - 1]
    BY <1>2
  <2>2. DisconnectInputs(y, s[i]).ok => y.ok
    BY DEF DisconnectInputs, Work
  <2> QED BY <1>2, <1>4, <2>1, <2>2
<1> HIDE DEF G
<1>5. Len(s) \in Nat /\ Len(s) \in 0 .. Len(s)
  OBVIOUS
<1>6. Len(s) \in G
  BY <1>3, <1>4, <1>5, UpTo
<1>7. r[Len(s)].ok => q.ok
  BY <1>6 DEF G
<1> QED BY <1>1, <1>2, <1>7 DEF DisconnectBlock

\* ... and so does ConnectBlock.
LEMMA ConnectBlockType ==
  ASSUME NEW q \in WorkType, NEW b \in Block
  PROVE  ConnectBlock(q, b) \in WorkType
<1>1. vtx[b] \in Seq(Tx) /\ q.idx \in IndexType /\ q.wallet \in WalletType /\ b \in Place
  BY TxAssumption DEF WorkType, Place
<1>2. ConnectAll(q, vtx[b], b, b, Height[b]) \in WorkType
  <2>1. PICK s \in Seq(Tx) : s = vtx[b]
    BY <1>1
  <2>2. PICK n \in Nat : n = Height[b]
    BY TreeAssumption
  <2>3. PICK r \in [0 .. Len(s) -> WorkType] : r[Len(s)] = ConnectAll(q, s, b, b, n)
    BY <1>1, ConnectSteps
  <2>4. Len(s) \in 0 .. Len(s)
    OBVIOUS
  <2> QED BY <2>1, <2>2, <2>3, <2>4
<1>3. ConnectAll(q, vtx[b], b, b, Height[b]).idx \in IndexType
  BY <1>2 DEF WorkType
<1>4. SyncBlock(q.wallet, b) \in WalletType
  BY <1>1 DEF SyncBlock, WalletType
<1> QED BY <1>1, <1>3, <1>4 DEF ConnectBlock, Work, WorkType

-----------------------------------------------------------------------------
(* A reorganisation.                                                       *)

\* The shorter branch is disconnected block by block ...
LEMMA DisconnectBlocksSteps ==
  ASSUME NEW q \in WorkType, NEW s \in Seq(Block)
  PROVE  \E r \in [0 .. Len(s) -> WorkType] :
           /\ r[0] = q /\ r[Len(s)] = FoldLeft(DisconnectBlock, q, s)
           /\ \A i \in 1 .. Len(s) : r[i] = DisconnectBlock(r[i - 1], s[i])
<1> DEFINE F == [z \in WorkType \X Block |-> DisconnectBlock(z[1], z[2])]
           P(f) == f = [S \in SUBSET DOMAIN s |->
                          IF S = {} THEN q ELSE LET x == Max(S) IN DisconnectBlock(f[S \ {x}], s[x])]
           h == CHOOSE f : P(f)
<1>0. DOMAIN s = 1 .. Len(s) /\ \A x \in WorkType : \A y \in Block : F[<<x, y>>] = DisconnectBlock(x, y)
  OBVIOUS
<1>1. F \in [WorkType \X Block -> WorkType]
  BY DisconnectBlockType
<1> HIDE DEF F
<1>2. PICK g \in [SUBSET (1 .. Len(s)) -> WorkType] : Solves(g, Len(s), q, F, s)
  BY <1>1, FoldExists
<1>3. P(g)
  <2>1. ASSUME NEW S \in SUBSET (1 .. Len(s))
        PROVE  g[S] = IF S = {} THEN q ELSE DisconnectBlock(g[S \ {Max(S)}], s[Max(S)])
    <3>1. ASSUME S # {} PROVE g[S \ {Max(S)}] \in WorkType /\ s[Max(S)] \in Block
      BY <3>1, LastOf
    <3> QED BY <1>0, <1>2, <3>1 DEF Solves
  <2> QED BY <1>0, <2>1
<1>4. P(h)
  <2> HIDE DEF P
  <2> QED BY <1>3
<1>5. FoldLeft(DisconnectBlock, q, s) = h[1 .. Len(s)]
  BY <1>0 DEF FoldLeft, MapThenFoldSet
<1> HIDE DEF h
<1>6. ASSUME NEW S \in SUBSET (1 .. Len(s))
      PROVE  h[S] = IF S = {} THEN q ELSE DisconnectBlock(h[S \ {Max(S)}], s[Max(S)])
  BY <1>0, <1>4
<1> HIDE DEF P
<1>7. ASSUME NEW S \in SUBSET (1 .. Len(s)), S # {}, h[S \ {Max(S)}] \in WorkType
      PROVE  h[S] = F[<<h[S \ {Max(S)}], s[Max(S)]>>]
  <2>1. s[Max(S)] \in Block
    BY <1>7, LastOf
  <2> QED BY <1>0, <1>6, <1>7, <2>1
<1>8. PICK r \in [0 .. Len(s) -> WorkType] :
        /\ r[0] = q /\ r[Len(s)] = h[1 .. Len(s)]
        /\ \A i \in 1 .. Len(s) : r[i] = F[<<r[i - 1], s[i]>>]
  <2>1. Unfolds(h, q, WorkType, F, s)
    BY <1>6, <1>7 DEF Unfolds
  <2>2. PICK r \in [0 .. Len(s) -> WorkType] : Run(r, q, h[1 .. Len(s)], F, s)
    BY <1>1, <2>1, FoldSteps
  <2> QED BY <2>2 DEF Run
<1>9. ASSUME NEW i \in 1 .. Len(s) PROVE r[i] = DisconnectBlock(r[i - 1], s[i])
  <2>1. r[i - 1] \in WorkType /\ s[i] \in Block
    OBVIOUS
  <2> QED BY <1>0, <1>8, <2>1
<1> QED BY <1>5, <1>8, <1>9

\* ... and the longer one connected.
LEMMA ConnectBlocksSteps ==
  ASSUME NEW q \in WorkType, NEW s \in Seq(Block)
  PROVE  \E r \in [0 .. Len(s) -> WorkType] :
           /\ r[0] = q /\ r[Len(s)] = FoldLeft(ConnectBlock, q, s)
           /\ \A i \in 1 .. Len(s) : r[i] = ConnectBlock(r[i - 1], s[i])
<1> DEFINE F == [z \in WorkType \X Block |-> ConnectBlock(z[1], z[2])]
           P(f) == f = [S \in SUBSET DOMAIN s |->
                          IF S = {} THEN q ELSE LET x == Max(S) IN ConnectBlock(f[S \ {x}], s[x])]
           h == CHOOSE f : P(f)
<1>0. DOMAIN s = 1 .. Len(s) /\ \A x \in WorkType : \A y \in Block : F[<<x, y>>] = ConnectBlock(x, y)
  OBVIOUS
<1>1. F \in [WorkType \X Block -> WorkType]
  BY ConnectBlockType
<1> HIDE DEF F
<1>2. PICK g \in [SUBSET (1 .. Len(s)) -> WorkType] : Solves(g, Len(s), q, F, s)
  BY <1>1, FoldExists
<1>3. P(g)
  <2>1. ASSUME NEW S \in SUBSET (1 .. Len(s))
        PROVE  g[S] = IF S = {} THEN q ELSE ConnectBlock(g[S \ {Max(S)}], s[Max(S)])
    <3>1. ASSUME S # {} PROVE g[S \ {Max(S)}] \in WorkType /\ s[Max(S)] \in Block
      BY <3>1, LastOf
    <3> QED BY <1>0, <1>2, <3>1 DEF Solves
  <2> QED BY <1>0, <2>1
<1>4. P(h)
  <2> HIDE DEF P
  <2> QED BY <1>3
<1>5. FoldLeft(ConnectBlock, q, s) = h[1 .. Len(s)]
  BY <1>0 DEF FoldLeft, MapThenFoldSet
<1> HIDE DEF h
<1>6. ASSUME NEW S \in SUBSET (1 .. Len(s))
      PROVE  h[S] = IF S = {} THEN q ELSE ConnectBlock(h[S \ {Max(S)}], s[Max(S)])
  BY <1>0, <1>4
<1> HIDE DEF P
<1>7. ASSUME NEW S \in SUBSET (1 .. Len(s)), S # {}, h[S \ {Max(S)}] \in WorkType
      PROVE  h[S] = F[<<h[S \ {Max(S)}], s[Max(S)]>>]
  <2>1. s[Max(S)] \in Block
    BY <1>7, LastOf
  <2> QED BY <1>0, <1>6, <1>7, <2>1
<1>8. PICK r \in [0 .. Len(s) -> WorkType] :
        /\ r[0] = q /\ r[Len(s)] = h[1 .. Len(s)]
        /\ \A i \in 1 .. Len(s) : r[i] = F[<<r[i - 1], s[i]>>]
  <2>1. Unfolds(h, q, WorkType, F, s)
    BY <1>6, <1>7 DEF Unfolds
  <2>2. PICK r \in [0 .. Len(s) -> WorkType] : Run(r, q, h[1 .. Len(s)], F, s)
    BY <1>1, <2>1, FoldSteps
  <2> QED BY <2>2 DEF Run
<1>9. ASSUME NEW i \in 1 .. Len(s) PROVE r[i] = ConnectBlock(r[i - 1], s[i])
  <2>1. r[i - 1] \in WorkType /\ s[i] \in Block
    OBVIOUS
  <2> QED BY <1>0, <1>8, <2>1
<1> QED BY <1>5, <1>8, <1>9

\* Two blocks of one chain at one height are one.
LEMMA SameHeight ==
  ASSUME NEW t \in Block, NEW a \in Chain[t], NEW c \in Chain[t], Height[a] = Height[c]
  PROVE  a = c
<1>1. a \in Block /\ c \in Block /\ Height[a] \in Nat
  BY TreeAssumption
<1>2. c \in Chain[a]
  BY <1>1, ChainAssumption
<1> QED BY <1>1, <1>2, TrustAssumption

\* Down from t there is a block at every height as far as any block f of its chain.
LEMMA AtHeightFacts ==
  ASSUME NEW t \in Block, NEW f \in Chain[t], NEW h \in Height[f] .. Height[t]
  PROVE  /\ AtHeight(t, h) \in Chain[t] /\ AtHeight(t, h) \in Block
         /\ Height[AtHeight(t, h)] = h /\ f \in Chain[AtHeight(t, h)]
<1> DEFINE S == {b \in Chain[t] : Height[b] >= h}
           H == {Height[b] : b \in S}
<1>0. Chain[t] \subseteq Block /\ t \in Chain[t] /\ Height \in [Block -> Nat] /\ h \in Nat
  BY TreeAssumption, ChainAssumption
<1>1. H \subseteq Nat /\ Height[t] \in H
  BY <1>0
<1>2. PICK n \in H : \A m \in H : n <= m
  BY <1>1, LeastExists
<1>3. PICK b \in S : Height[b] = n
  BY <1>2
<1>4. b \in Block /\ b \in Chain[t] /\ Height[b] >= h /\ Height[b] \in Nat /\ f \in Block /\ Height[f] \in Nat
  BY <1>0, <1>3
<1>5. Height[b] = h
  <2> SUFFICES ASSUME Height[b] # h PROVE FALSE
    OBVIOUS
  <2>1. Height[b] > h /\ Height[f] <= h
    BY <1>0, <1>4
  <2>2. f \in Chain[b] /\ f # b
    BY <1>4, <2>1, ChainAssumption
  <2>3. b # Genesis
    BY <2>2, ChainAssumption
  <2>4. Parent[b] \in Block /\ Height[Parent[b]] = Height[b] - 1 /\ Parent[b] \in Chain[b]
    BY <1>4, <2>3, ParentFacts, ChainAssumption
  <2>5. Parent[b] \in Chain[t]
    BY <1>4, <2>4, ChainAssumption
  <2>6. Parent[b] \in S
    BY <1>0, <1>4, <2>1, <2>4, <2>5
  <2>7. n <= Height[Parent[b]]
    BY <1>2, <2>6
  <2> QED BY <1>3, <1>4, <2>4, <2>7
<1>6. AtHeight(t, h) \in Chain[t] /\ Height[AtHeight(t, h)] = h
  BY <1>4, <1>5 DEF AtHeight
<1>7. AtHeight(t, h) \in Block /\ Height[f] <= Height[AtHeight(t, h)]
  BY <1>0, <1>4, <1>6
<1>8. f \in Chain[AtHeight(t, h)]
  BY <1>6, <1>7, ChainAssumption
<1> QED BY <1>6, <1>7, <1>8

\* pprev leads to the one below.
LEMMA AtHeightBelow ==
  ASSUME NEW t \in Block, NEW f \in Chain[t], NEW h \in Height[f] + 1 .. Height[t]
  PROVE  AtHeight(t, h) # Genesis /\ Parent[AtHeight(t, h)] = AtHeight(t, h - 1)
<1> DEFINE b == AtHeight(t, h)
           c == AtHeight(t, h - 1)
<1>0. Height[f] \in Nat /\ Height[t] \in Nat /\ f \in Block
  BY TreeAssumption
<1>1. h \in Height[f] .. Height[t] /\ h - 1 \in Height[f] .. Height[t] /\ h # Height[f] /\ h \in Nat
  BY <1>0
<1>2. b \in Chain[t] /\ b \in Block /\ Height[b] = h /\ f \in Chain[b]
  BY <1>1, AtHeightFacts
<1>3. c \in Chain[t] /\ Height[c] = h - 1
  BY <1>1, AtHeightFacts
<1> HIDE DEF b, c
<1>4. b # Genesis
  BY <1>1, <1>2, ChainAssumption
<1>5. Parent[b] \in Chain[b] /\ Height[Parent[b]] = h - 1
  BY <1>2, <1>4, ParentFacts, ChainAssumption
<1>6. Parent[b] \in Chain[t]
  BY <1>2, <1>5, ChainAssumption
<1> QED BY <1>3, <1>4, <1>5, <1>6, SameHeight DEF b, c

\* The top and the bottom of the way down.
LEMMA AtHeightEnds ==
  ASSUME NEW t \in Block, NEW f \in Chain[t]
  PROVE  /\ Height[f] \in Nat /\ Height[t] \in Nat /\ Height[f] <= Height[t]
         /\ AtHeight(t, Height[t]) = t /\ AtHeight(t, Height[f]) = f
<1>1. Height[f] \in Nat /\ Height[t] \in Nat /\ t \in Chain[t] /\ f \in Block
  BY TreeAssumption, ChainAssumption
<1>2. Height[f] <= Height[t]
  BY <1>1, TrustAssumption
<1>3. Height[f] \in Height[f] .. Height[t] /\ Height[t] \in Height[f] .. Height[t]
  BY <1>1, <1>2
<1>4. AtHeight(t, Height[t]) \in Chain[t] /\ Height[AtHeight(t, Height[t])] = Height[t]
  BY <1>3, AtHeightFacts
<1>5. AtHeight(t, Height[f]) \in Chain[t] /\ Height[AtHeight(t, Height[f])] = Height[f]
  BY <1>3, AtHeightFacts
<1> QED BY <1>1, <1>2, <1>4, <1>5, SameHeight

\* The fork is shared, and everything shared is at or below it.
LEMMA ForkFacts ==
  ASSUME NEW s \in Block, NEW t \in Block
  PROVE  /\ Fork(s, t) \in Chain[s] /\ Fork(s, t) \in Chain[t]
         /\ \A c \in Chain[s] \cap Chain[t] : Height[c] <= Height[Fork(s, t)]
<1> DEFINE S == Chain[s] \cap Chain[t]
           H == {n \in Nat : \E c \in S : n = Height[s] - Height[c]}
<1>0. S \subseteq Block /\ Genesis \in S
  BY TreeAssumption, ChainAssumption
<1>1. ASSUME NEW c \in S PROVE Height[s] - Height[c] \in H /\ Height[c] \in Nat /\ Height[s] \in Nat
  <2>1. Height[c] \in Nat /\ Height[s] \in Nat /\ Height[c] <= Height[s]
    BY AtHeightEnds
  <2> QED BY <2>1
<1>2. H \subseteq Nat /\ H # {}
  BY <1>0, <1>1
<1>3. PICK n \in H : \A m \in H : n <= m
  BY <1>2, LeastExists
<1>4. PICK f \in S : n = Height[s] - Height[f]
  BY <1>3
<1>5. \A c \in S : Height[c] <= Height[f]
  <2> TAKE c \in S
  <2>1. Height[s] - Height[f] <= Height[s] - Height[c] /\ Height[f] \in Nat
    BY <1>1, <1>3, <1>4
  <2> QED BY <1>1, <2>1
<1> HIDE DEF H
<1> QED BY <1>4, <1>5 DEF Fork

\* vDisconnect leads down from the best block to the fork.
LEMMA WayDown ==
  ASSUME NEW s \in Block, NEW t \in Block, NEW f, f = Fork(s, t)
  PROVE  /\ vDisconnect(s, t) \in Seq(Block) /\ Len(vDisconnect(s, t)) = Height[s] - Height[f]
         /\ f \in Chain[s] /\ Height[s] - Height[f] \in Nat /\ Height[s] \in Nat /\ Height[f] \in Nat
         /\ \A i \in 1 .. Height[s] - Height[f] :
               /\ vDisconnect(s, t)[i] = AtHeight(s, Height[s] + 1 - i)
               /\ Height[s] + 1 - i \in Height[f] + 1 .. Height[s]
<1>1. f \in Chain[s]
  BY ForkFacts
<1>2. Height[f] \in Nat /\ Height[s] \in Nat /\ Height[f] <= Height[s]
  BY <1>1, AtHeightEnds
<1>3. PICK n \in Nat : n = Height[s] - Height[f]
  BY <1>2
<1>4. vDisconnect(s, t) = [i \in 1 .. n |-> AtHeight(s, Height[s] + 1 - i)]
  BY <1>3 DEF vDisconnect
<1>5. ASSUME NEW i \in 1 .. n
      PROVE  Height[s] + 1 - i \in Height[f] + 1 .. Height[s] /\ AtHeight(s, Height[s] + 1 - i) \in Block
  <2>1. PICK h \in Height[f] + 1 .. Height[s] : h = Height[s] + 1 - i
    BY <1>2, <1>3
  <2>2. h \in Height[f] .. Height[s]
    BY <1>2
  <2>3. AtHeight(s, h) \in Block
    BY <1>1, <2>2, AtHeightFacts
  <2> QED BY <2>1, <2>3
<1>6. vDisconnect(s, t) \in [1 .. n -> Block]
  BY <1>4, <1>5
<1>7. vDisconnect(s, t) \in Seq(Block) /\ Len(vDisconnect(s, t)) = n
  BY <1>6
<1> QED BY <1>1, <1>2, <1>3, <1>4, <1>5, <1>7

\* vConnect leads up from the fork to the new best block.
LEMMA WayUp ==
  ASSUME NEW s \in Block, NEW t \in Block, NEW f, f = Fork(s, t)
  PROVE  /\ vConnect(s, t) \in Seq(Block) /\ Len(vConnect(s, t)) = Height[t] - Height[f]
         /\ f \in Chain[t] /\ Height[t] - Height[f] \in Nat /\ Height[t] \in Nat /\ Height[f] \in Nat
         /\ \A i \in 1 .. Height[t] - Height[f] :
               /\ vConnect(s, t)[i] = AtHeight(t, Height[f] + i)
               /\ Height[f] + i \in Height[f] + 1 .. Height[t]
<1>1. f \in Chain[t]
  BY ForkFacts
<1>2. Height[f] \in Nat /\ Height[t] \in Nat /\ Height[f] <= Height[t]
  BY <1>1, AtHeightEnds
<1>3. PICK n \in Nat : n = Height[t] - Height[f]
  BY <1>2
<1>4. vConnect(s, t) = [i \in 1 .. n |-> AtHeight(t, Height[f] + i)]
  BY <1>3 DEF vConnect
<1>5. ASSUME NEW i \in 1 .. n
      PROVE  Height[f] + i \in Height[f] + 1 .. Height[t] /\ AtHeight(t, Height[f] + i) \in Block
  <2>1. PICK h \in Height[f] + 1 .. Height[t] : h = Height[f] + i
    BY <1>2, <1>3
  <2>2. h \in Height[f] .. Height[t]
    BY <1>2
  <2>3. AtHeight(t, h) \in Block
    BY <1>1, <2>2, AtHeightFacts
  <2> QED BY <2>1, <2>3
<1>6. vConnect(s, t) \in [1 .. n -> Block]
  BY <1>4, <1>5
<1>7. vConnect(s, t) \in Seq(Block) /\ Len(vConnect(s, t)) = n
  BY <1>6
<1> QED BY <1>1, <1>2, <1>3, <1>4, <1>5, <1>7

\* The reorganisation of q, whose best block is best, has got to b in y.
Reached(y, b, q, best) == y.ok => InForce(y, b) /\ (Followed(q, best) => Followed(y, b))

\* One block down.
LEMMA StepDown ==
  ASSUME NEW b \in Block \ {Genesis}, NEW best, NEW q, NEW x \in WorkType,
         Reached(x, b, q, best), NEW y, y = DisconnectBlock(x, b)
  PROVE  Reached(y, Parent[b], q, best)
<1> SUFFICES ASSUME y.ok PROVE InForce(y, Parent[b]) /\ (Followed(q, best) => Followed(y, Parent[b]))
  BY DEF Reached
<1>1. x.ok
  BY DisconnectBlockOk
<1>2. InForce(x, b) /\ (Followed(q, best) => Followed(x, b))
  BY <1>1 DEF Reached
<1> QED BY <1>2, DisconnectBlockKeeps

\* One block up.
LEMMA StepUp ==
  ASSUME NEW b \in Block \ {Genesis}, NEW best, NEW q, NEW x \in WorkType,
         Reached(x, Parent[b], q, best), NEW y, y = ConnectBlock(x, b)
  PROVE  Reached(y, b, q, best)
<1> SUFFICES ASSUME y.ok PROVE InForce(y, b) /\ (Followed(q, best) => Followed(y, b))
  BY DEF Reached
<1>1. x.ok
  BY DEF ConnectBlock, Work
<1>2. InForce(x, Parent[b]) /\ (Followed(q, best) => Followed(x, Parent[b]))
  BY <1>1 DEF Reached
<1> QED BY <1>2, ConnectBlockKeeps

\* Down to the fork.
LEMMA DownToFork ==
  ASSUME NEW best \in Block, NEW new \in Block, NEW q \in WorkType, InForce(q, best),
         NEW x, x = FoldLeft(DisconnectBlock, q, vDisconnect(best, new))
  PROVE  x \in WorkType /\ Reached(x, Fork(best, new), q, best)
<1>1. PICK f : f = Fork(best, new)
  OBVIOUS
<1>2. PICK s \in Seq(Block) : s = vDisconnect(best, new)
  BY <1>1, WayDown
<1>3. PICK n \in Nat : n = Len(s)
  OBVIOUS
<1>4. /\ n = Height[best] - Height[f] /\ f \in Chain[best] /\ Height[best] \in Nat /\ Height[f] \in Nat
      /\ \A i \in 1 .. n : /\ s[i] = AtHeight(best, Height[best] + 1 - i)
                           /\ Height[best] + 1 - i \in Height[f] + 1 .. Height[best]
  BY ZenonT(60), <1>1, <1>2, <1>3, WayDown
<1>5. PICK r \in [0 .. n -> WorkType] :
        /\ r[0] = q /\ r[n] = FoldLeft(DisconnectBlock, q, s)
        /\ \A i \in 1 .. n : r[i] = DisconnectBlock(r[i - 1], s[i])
  BY <1>3, DisconnectBlocksSteps
<1> DEFINE G == {i \in 0 .. n : Reached(r[i], AtHeight(best, Height[best] - i), q, best)}
<1>6. 0 \in G
  <2>1. AtHeight(best, Height[best]) = best /\ Height[best] - 0 = Height[best]
    BY <1>4, AtHeightEnds
  <2> QED BY <1>5, <2>1 DEF Reached
<1>7. ASSUME NEW i \in 1 .. n, i - 1 \in G PROVE i \in G
  <2>1. PICK h \in Height[f] + 1 .. Height[best] : h = Height[best] + 1 - i
    BY <1>4
  <2>2. h = Height[best] - (i - 1) /\ h - 1 = Height[best] - i /\ h \in Height[f] .. Height[best]
    BY SMTT(30), <1>4, <2>1
  <2>3. PICK b : b = AtHeight(best, h)
    OBVIOUS
  <2>4. b \in Block \ {Genesis} /\ Parent[b] = AtHeight(best, h - 1)
    BY <1>4, <2>2, <2>3, AtHeightFacts, AtHeightBelow
  <2>5. PICK y \in WorkType : y = r[i - 1]
    BY <1>5
  <2>6. Reached(y, b, q, best)
    BY <1>7, <2>2, <2>3, <2>5
  <2>7. r[i] = DisconnectBlock(y, b)
    BY <1>4, <1>5, <2>1, <2>3, <2>5
  <2>8. Reached(r[i], Parent[b], q, best)
    BY <2>4, <2>6, <2>7, StepDown
  <2> QED BY <2>2, <2>4, <2>8
<1> HIDE DEF G
<1>8. n \in 0 .. n
  OBVIOUS
<1>9. n \in G
  BY <1>6, <1>7, <1>8, UpTo
<1>10. Height[best] - n = Height[f] /\ AtHeight(best, Height[f]) = f
  BY <1>4, AtHeightEnds
<1> QED BY <1>1, <1>2, <1>5, <1>8, <1>9, <1>10 DEF G

\* Up to the new best block.
LEMMA UpFromFork ==
  ASSUME NEW best \in Block, NEW new \in Block, NEW q \in WorkType, NEW z \in WorkType,
         Reached(z, Fork(best, new), q, best),
         NEW x, x = FoldLeft(ConnectBlock, z, vConnect(best, new))
  PROVE  x \in WorkType /\ Reached(x, new, q, best)
<1>1. PICK f : f = Fork(best, new)
  OBVIOUS
<1>2. PICK s \in Seq(Block) : s = vConnect(best, new)
  BY <1>1, WayUp
<1>3. PICK n \in Nat : n = Len(s)
  OBVIOUS
<1>4. /\ n = Height[new] - Height[f] /\ f \in Chain[new] /\ Height[new] \in Nat /\ Height[f] \in Nat
      /\ \A i \in 1 .. n : /\ s[i] = AtHeight(new, Height[f] + i)
                           /\ Height[f] + i \in Height[f] + 1 .. Height[new]
  <2>1. n = Height[new] - Height[f] /\ f \in Chain[new] /\ Height[new] \in Nat /\ Height[f] \in Nat
    BY <1>1, <1>2, <1>3, WayUp
  <2>2. ASSUME NEW i \in 1 .. n
        PROVE  s[i] = AtHeight(new, Height[f] + i) /\ Height[f] + i \in Height[f] + 1 .. Height[new]
    BY <1>1, <1>2, <2>1, WayUp
  <2> QED BY <2>1, <2>2
<1>5. PICK r \in [0 .. n -> WorkType] :
        /\ r[0] = z /\ r[n] = FoldLeft(ConnectBlock, z, s)
        /\ \A i \in 1 .. n : r[i] = ConnectBlock(r[i - 1], s[i])
  BY <1>3, ConnectBlocksSteps
<1> DEFINE G == {i \in 0 .. n : Reached(r[i], AtHeight(new, Height[f] + i), q, best)}
<1>6. 0 \in G
  <2>1. AtHeight(new, Height[f]) = f /\ Height[f] + 0 = Height[f]
    BY <1>4, AtHeightEnds
  <2> QED BY <1>1, <1>5, <2>1
<1>7. ASSUME NEW i \in 1 .. n, i - 1 \in G PROVE i \in G
  <2>1. PICK h \in Height[f] + 1 .. Height[new] : h = Height[f] + i
    BY <1>4
  <2>2. h - 1 = Height[f] + (i - 1) /\ h \in Height[f] .. Height[new]
    BY <1>4, <2>1
  <2>3. PICK b : b = AtHeight(new, h)
    OBVIOUS
  <2>4. b \in Block \ {Genesis} /\ Parent[b] = AtHeight(new, h - 1)
    BY <1>4, <2>2, <2>3, AtHeightFacts, AtHeightBelow
  <2>5. PICK y \in WorkType : y = r[i - 1]
    BY <1>5
  <2>6. Reached(y, Parent[b], q, best)
    BY <1>7, <2>2, <2>4, <2>5
  <2>7. r[i] = ConnectBlock(y, b)
    BY <1>4, <1>5, <2>1, <2>3, <2>5
  <2>8. Reached(r[i], b, q, best)
    BY <2>4, <2>6, <2>7, StepUp
  <2> QED BY <2>1, <2>3, <2>8
<1> HIDE DEF G
<1>8. n \in 0 .. n
  OBVIOUS
<1>9. n \in G
  BY <1>6, <1>7, <1>8, UpTo
<1>10. Height[f] + n = Height[new] /\ AtHeight(new, Height[new]) = new
  BY <1>4, AtHeightEnds
<1> QED BY <1>2, <1>5, <1>8, <1>9, <1>10 DEF G

\* A reorganisation that succeeds leaves the index of the new chain, however many
\* blocks it disconnects and connects, and the wallet has followed if it had before.
LEMMA ReorganizedKeeps ==
  ASSUME NEW best \in Block, NEW new \in Block, NEW q \in WorkType, InForce(q, best),
         NEW x, x = Reorganized(q, best, new)
  PROVE  x \in WorkType /\ Reached(x, new, q, best)
<1>1. PICK z : z = FoldLeft(DisconnectBlock, q, vDisconnect(best, new))
  OBVIOUS
<1>2. z \in WorkType /\ Reached(z, Fork(best, new), q, best)
  BY <1>1, DownToFork
<1>3. x = FoldLeft(ConnectBlock, z, vConnect(best, new))
  BY <1>1 DEF Reorganized
<1> QED BY <1>2, <1>3, UpFromFork

-----------------------------------------------------------------------------
(* The maps of the pool and of the orphans.                                *)

\* Adding a transaction whose inputs nobody in the pool spends keeps the pool linked.
LEMMA AddKeepsLinked ==
  ASSUME PoolLinked, NEW t, vin[t] \cap DOMAIN mapNextTx = {}, AddUnchecked(t)
  PROVE  PoolLinked'
<1>1. DOMAIN mapNextTx' = DOMAIN mapNextTx \cup vin[t]
  BY DEF AddUnchecked
<1>2. UNION {vin[u] : u \in mapTx'} = (UNION {vin[u] : u \in mapTx}) \cup vin[t]
  BY DEF AddUnchecked
<1>3. ASSUME NEW u \in mapTx', NEW o \in vin[u] PROVE mapNextTx'[o] = u
  <2>1. CASE u = t
    BY <2>1, <1>3 DEF AddUnchecked
  <2>2. CASE u # t
    <3>1. u \in mapTx /\ o \in DOMAIN mapNextTx /\ mapNextTx[o] = u
      BY <2>2, <1>3 DEF AddUnchecked, PoolLinked
    <3>2. o \notin vin[t]
      BY <3>1
    <3> QED BY <3>1, <3>2 DEF AddUnchecked
  <2> QED BY <2>1, <2>2
<1> QED BY <1>1, <1>2, <1>3 DEF PoolLinked

\* Removing any set of transactions keeps the pool linked.
LEMMA RemoveKeepsLinked ==
  ASSUME PoolLinked, NEW S, RemoveSet(S)
  PROVE  PoolLinked'
<1> DEFINE freed == UNION {vin[t] : t \in S \cap mapTx}
<1>1. DOMAIN mapNextTx' = DOMAIN mapNextTx \ freed
  BY DEF RemoveSet
<1>2. ASSUME NEW u \in mapTx', NEW o \in vin[u]
      PROVE  o \in DOMAIN mapNextTx /\ mapNextTx[o] = u /\ o \notin freed
  <2>1. u \in mapTx /\ u \notin S
    BY <1>2 DEF RemoveSet
  <2>2. o \in DOMAIN mapNextTx /\ mapNextTx[o] = u
    BY <2>1, <1>2 DEF PoolLinked
  <2>3. ASSUME NEW w \in S \cap mapTx, o \in vin[w] PROVE FALSE
    BY <2>1, <2>2, <2>3 DEF PoolLinked
  <2> QED BY <2>2, <2>3
<1>3. ASSUME NEW o \in DOMAIN mapNextTx \ freed PROVE \E u \in mapTx' : o \in vin[u]
  <2>1. PICK u \in mapTx : o \in vin[u]
    BY <1>3 DEF PoolLinked
  <2>2. u \notin S
    BY <1>3, <2>1
  <2> QED BY <2>1, <2>2 DEF RemoveSet
<1>4. DOMAIN mapNextTx' = UNION {vin[u] : u \in mapTx'}
  BY <1>1, <1>2, <1>3
<1>5. \A u \in mapTx' : \A o \in vin[u] : mapNextTx'[o] = u
  BY <1>2 DEF RemoveSet
<1> QED BY <1>4, <1>5 DEF PoolLinked

\* What does not touch the pool's two maps keeps them linked.
LEMMA SameKeepsLinked == PoolLinked /\ UNCHANGED pool => PoolLinked'
BY DEF PoolLinked, pool

\* mapNextTx has the inputs of the pool's transactions and nothing else, through
\* every accept, every block and every reorganisation.
THEOREM PoolStaysLinked == Spec => []PoolLinked
<1>1. Init => PoolLinked
  BY DEF Init, PoolLinked
<1>2. PoolLinked /\ [Next]_vars => PoolLinked'
  <2> SUFFICES ASSUME PoolLinked, [Next]_vars PROVE PoolLinked'
    OBVIOUS
  <2>1. CASE TxMessage
    <3>1. PICK t \in Tx : ReceiveTx(t) \/ HoldOrphan(t) \/ SendRawTransaction(t)
      BY <2>1 DEF TxMessage
    <3>2. CASE ReceiveTx(t)
      BY <3>2, AddKeepsLinked DEF ReceiveTx, Acceptable, PassesEarlyChecks
    <3>3. CASE HoldOrphan(t)
      BY <3>3, SameKeepsLinked DEF HoldOrphan
    <3>4. CASE SendRawTransaction(t)
      BY <3>4, AddKeepsLinked DEF SendRawTransaction, Acceptable, PassesEarlyChecks
    <3> QED BY <3>1, <3>2, <3>3, <3>4
  <2>2. CASE OrphanLoop
    <3>1. CASE NextInQueue \/ EraseOrphans
      BY <3>1, SameKeepsLinked DEF NextInQueue, EraseOrphans
    <3>2. ASSUME NEW t \in Tx, AcceptOrphan(t) PROVE PoolLinked'
      BY <3>2, AddKeepsLinked DEF AcceptOrphan, Acceptable, PassesEarlyChecks
    <3>3. ASSUME NEW t \in Tx, RefuseOrphan(t) PROVE PoolLinked'
      BY <3>3, SameKeepsLinked DEF RefuseOrphan
    <3> QED BY <2>2, <3>1, <3>2, <3>3 DEF OrphanLoop
  <2>3. CASE BlockMessage
    <3>1. PICK b \in Block : \/ IndexBlock(b) \/ ExtendBest(b) \/ ExtendFails(b)
                             \/ Reorganize(b) \/ ReorganizeFails(b)
      BY <2>3 DEF BlockMessage
    <3>2. CASE ExtendBest(b)
      BY <3>2, RemoveKeepsLinked DEF ExtendBest
    <3>3. CASE ~ExtendBest(b)
      <4>1. UNCHANGED pool
        BY <3>1, <3>3 DEF IndexBlock, ExtendFails, Reorganize, ReorganizeFails
      <4> QED BY <4>1, SameKeepsLinked
    <3> QED BY <3>2, <3>3
  <2>4. CASE ReorgLoop
    <3>1. CASE Resurrect
      <4>1. CASE PassesEarlyChecks(Head(vResurrect))
        BY <3>1, <4>1, AddKeepsLinked DEF Resurrect, PassesEarlyChecks
      <4>2. CASE ~PassesEarlyChecks(Head(vResurrect))
        BY <3>1, <4>2, SameKeepsLinked DEF Resurrect
      <4> QED BY <4>1, <4>2
    <3>2. CASE DeleteRedundant
      BY <3>2, RemoveKeepsLinked DEF DeleteRedundant
    <3>3. CASE ResurrectDone \/ ReorganizeDone
      BY <3>3, SameKeepsLinked DEF ResurrectDone, ReorganizeDone
    <3> QED BY <2>4, <3>1, <3>2, <3>3 DEF ReorgLoop
  <2>5. CASE Miner
    BY <2>5, SameKeepsLinked DEF Miner, ReadBest, StartCollecting, Pick, Collected
  <2>6. CASE UNCHANGED vars
    BY <2>6, SameKeepsLinked DEF vars
  <2> QED BY <2>1, <2>2, <2>3, <2>4, <2>5, <2>6 DEF Next
<1> QED BY <1>1, <1>2, PTL DEF Spec

-----------------------------------------------------------------------------
(* The orphans.                                                            *)

\* The parts of OrphansFiled about the two maps.
Filed(S, byPrev) ==
    /\ \A t \in S : \A p \in PrevOf(t) : p \in DOMAIN byPrev /\ t \in byPrev[p]
    /\ \A p \in DOMAIN byPrev : \A t \in byPrev[p] : t \in S /\ p \in PrevOf(t)

\* OrphansFiled, made inductive: there are finitely many orphans, and outside
\* the loop of the "tx" handler none is left to be tried.
OrphanInv == /\ Filed(mapOrphanTransactions, mapOrphanTransactionsByPrev)
             /\ IsFiniteSet(mapOrphanTransactions)
             /\ Cardinality(mapOrphanTransactions) <= MaxOrphans
             /\ todo \subseteq mapOrphanTransactions
             /\ pc # "tx" => todo = {}

\* Erasing orphans keeps the rest filed.
LEMMA ErasedFiled ==
  ASSUME NEW S, NEW byPrev, Filed(S, byPrev), NEW E
  PROVE  Filed(S \ E, Erased(byPrev, E))
<1> DEFINE touched == UNION {PrevOf(t) : t \in E}
           gone == {p \in DOMAIN byPrev : p \in touched /\ byPrev[p] \subseteq E}
           after == [p \in DOMAIN byPrev \ gone |-> byPrev[p] \ E]
<1>1. Erased(byPrev, E) = after
  BY DEF Erased
<1>2. ASSUME NEW t \in S \ E, NEW p \in PrevOf(t) PROVE p \in DOMAIN after /\ t \in after[p]
  BY <1>2 DEF Filed
<1>3. ASSUME NEW p \in DOMAIN after, NEW t \in after[p] PROVE t \in S \ E /\ p \in PrevOf(t)
  BY <1>3 DEF Filed
<1> HIDE DEF after
<1> QED BY <1>1, <1>2, <1>3 DEF Filed

\* AddOrphanTx files the new orphan under each of its inputs.
LEMMA AddedFiled ==
  ASSUME NEW t, Filed(mapOrphanTransactions, mapOrphanTransactionsByPrev)
  PROVE  Filed(mapOrphanTransactions \cup {t}, ByPrevWith(t))
BY DEF Filed, ByPrevWith

\* LimitOrphanTxSize: taking one orphan out of too many leaves no more than the limit.
LEMMA EvictOne ==
  ASSUME NEW S, IsFiniteSet(S), Cardinality(S) <= MaxOrphans, NEW t, t \notin S,
         NEW E, E \in IF OverLimit(S \cup {t}) THEN {{e} : e \in S \cup {t}} ELSE {{}}
  PROVE  /\ IsFiniteSet((S \cup {t}) \ E)
         /\ Cardinality((S \cup {t}) \ E) <= MaxOrphans
<1> DEFINE held == S \cup {t}
<1>1. IsFiniteSet(held) /\ Cardinality(held) = Cardinality(S) + 1 /\ Cardinality(S) \in Nat
  BY FS_AddElement, FS_CardinalityType
<1>2. ASSUME OverLimit(held) PROVE IsFiniteSet(held \ E) /\ Cardinality(held \ E) <= MaxOrphans
  <2>1. PICK e \in held : E = {e}
    BY <1>2
  <2>2. IsFiniteSet(held \ {e}) /\ Cardinality(held \ {e}) = Cardinality(held) - 1
    BY <1>1, <2>1, FS_RemoveElement
  <2> HIDE DEF held
  <2>3. Cardinality(held \ {e}) = Cardinality(S)
    BY <1>1, <2>2
  <2> QED BY <2>1, <2>2, <2>3
<1>3. ASSUME ~OverLimit(held) PROVE IsFiniteSet(held \ E) /\ Cardinality(held \ E) <= MaxOrphans
  <2>1. E = {}
    BY <1>3
  <2> HIDE DEF held
  <2>2. held \ E = held
    BY <2>1
  <2>3. Cardinality(held) \in Nat
    BY <1>1
  <2>4. Cardinality(held) <= MaxOrphans
    BY <1>3, <2>3, PoolAssumption DEF OverLimit
  <2> QED BY <1>1, <2>2, <2>4
<1> QED BY <1>2, <1>3

\* What touches neither the orphans nor the loop keeps the invariant.
LEMMA SameKeepsOrphans ==
  OrphanInv /\ UNCHANGED <<orphans, todo>> /\ (pc' = "tx" <=> pc = "tx") => OrphanInv'
BY DEF OrphanInv, orphans

\* The invariant says what the run checks.
LEMMA OrphanInvFiled == OrphanInv => OrphansFiled
BY DEF OrphanInv, OrphansFiled, Filed

\* The orphan transactions are filed exactly under their inputs, the loop of the
\* "tx" handler tries orphans only, and there are never more than the limit.
THEOREM OrphansStayFiled == Spec => []OrphansFiled
<1>1. Init => OrphanInv
  BY PoolAssumption, FS_EmptySet DEF Init, OrphanInv, Filed
<1>2. OrphanInv /\ [Next]_vars => OrphanInv'
  <2> SUFFICES ASSUME OrphanInv, [Next]_vars PROVE OrphanInv'
    OBVIOUS
  <2>1. CASE TxMessage
    <3>1. PICK t \in Tx : ReceiveTx(t) \/ HoldOrphan(t) \/ SendRawTransaction(t)
      BY <2>1 DEF TxMessage
    <3>2. CASE ReceiveTx(t)
      BY <3>2 DEF ReceiveTx, OrphanInv, orphans
    <3>3. CASE HoldOrphan(t)
      <4> DEFINE held == mapOrphanTransactions \cup {t}
      <4>1. PICK E \in IF OverLimit(held) THEN {{e} : e \in held} ELSE {{}} :
                /\ mapOrphanTransactions' = held \ E
                /\ mapOrphanTransactionsByPrev' = Erased(ByPrevWith(t), E)
        BY <3>3 DEF HoldOrphan
      <4>2. Filed(held \ E, Erased(ByPrevWith(t), E))
        BY AddedFiled, ErasedFiled DEF OrphanInv
      <4>3. t \notin mapOrphanTransactions
        BY <3>3 DEF HoldOrphan
      <4>4. IsFiniteSet(held \ E) /\ Cardinality(held \ E) <= MaxOrphans
        BY <4>1, <4>3, EvictOne DEF OrphanInv
      <4>5. todo' = {} /\ pc' = "idle"
        BY <3>3 DEF HoldOrphan, OrphanInv, txloop
      <4> QED BY <4>1, <4>2, <4>4, <4>5 DEF OrphanInv
    <3>4. CASE SendRawTransaction(t)
      BY <3>4, SameKeepsOrphans DEF SendRawTransaction, txloop
    <3> QED BY <3>1, <3>2, <3>3, <3>4
  <2>2. CASE OrphanLoop
    <3>1. CASE NextInQueue
      <4> DEFINE p == Head(vWorkQueue)
                 D == DOMAIN mapOrphanTransactionsByPrev
      <4>1. /\ mapOrphanTransactionsByPrev' =
                  [r \in D \cup {p} |-> IF r \in D THEN mapOrphanTransactionsByPrev[r] ELSE {}]
            /\ mapOrphanTransactions' = mapOrphanTransactions
            /\ todo' = IF p \in D THEN mapOrphanTransactionsByPrev[p] ELSE {}
            /\ pc = "tx" /\ pc' = pc
        BY <3>1 DEF NextInQueue
      <4>2. Filed(mapOrphanTransactions, mapOrphanTransactionsByPrev)'
        BY <4>1 DEF Filed, OrphanInv
      <4>3. todo' \subseteq mapOrphanTransactions
        BY <4>1 DEF Filed, OrphanInv
      <4> QED BY <4>1, <4>2, <4>3 DEF OrphanInv
    <3>2. CASE EraseOrphans
      <4> DEFINE E == vEraseQueue \cap mapOrphanTransactions
      <4>1. /\ mapOrphanTransactions' = mapOrphanTransactions \ E
            /\ mapOrphanTransactionsByPrev' = Erased(mapOrphanTransactionsByPrev, E)
            /\ todo' = {}
        BY <3>2 DEF EraseOrphans
      <4>2. Filed(mapOrphanTransactions, mapOrphanTransactionsByPrev)'
        BY <4>1, ErasedFiled DEF OrphanInv
      <4>3. /\ IsFiniteSet(mapOrphanTransactions \ E)
            /\ Cardinality(mapOrphanTransactions \ E) <= Cardinality(mapOrphanTransactions)
            /\ Cardinality(mapOrphanTransactions \ E) \in Nat
            /\ Cardinality(mapOrphanTransactions) \in Nat
        BY FS_Difference, FS_Subset, FS_CardinalityType DEF OrphanInv
      <4> HIDE DEF E
      <4>4. Cardinality(mapOrphanTransactions \ E) <= MaxOrphans
        BY <4>3, PoolAssumption DEF OrphanInv
      <4> QED BY <4>1, <4>2, <4>3, <4>4 DEF OrphanInv
    <3>3. ASSUME NEW t \in Tx, AcceptOrphan(t) \/ RefuseOrphan(t) PROVE OrphanInv'
      BY <3>3 DEF AcceptOrphan, RefuseOrphan, OrphanInv, orphans
    <3> QED BY <2>2, <3>1, <3>2, <3>3 DEF OrphanLoop
  <2>3. CASE BlockMessage
    <3>1. UNCHANGED <<orphans, todo>> /\ pc = "idle" /\ pc' # "tx"
      BY <2>3 DEF BlockMessage, IndexBlock, ExtendBest, ExtendFails, Reorganize,
                  ReorganizeFails, IsFork, Arrives, txloop
    <3> QED BY <3>1, SameKeepsOrphans
  <2>4. CASE ReorgLoop
    BY <2>4, SameKeepsOrphans DEF ReorgLoop, Resurrect, ResurrectDone, DeleteRedundant,
                                  ReorganizeDone, txloop
  <2>5. CASE Miner
    BY <2>5, SameKeepsOrphans DEF Miner, ReadBest, StartCollecting, Pick, Collected, txloop
  <2>6. CASE UNCHANGED vars
    BY <2>6, SameKeepsOrphans DEF vars, txloop
  <2> QED BY <2>1, <2>2, <2>3, <2>4, <2>5, <2>6 DEF Next
<1> QED BY <1>1, <1>2, OrphanInvFiled, PTL DEF Spec

-----------------------------------------------------------------------------
(* The lists that Reorganize and CreateNewBlock build.                     *)

Lists == Seq(Tx)

\* What is pushed to a list of transactions leaves one.
LEMMA PushLooseType ==
  ASSUME NEW q \in Lists, NEW t \in Tx
  PROVE  PushLoose(q, t) \in Lists
BY DEF PushLoose, Lists

\* So do the transactions of a block.
LEMMA PushTxType ==
  ASSUME NEW q \in Lists, NEW b \in Block
  PROVE  PushTxOf(q, b) \in Lists
<1>1. vtx[b] \in Seq(Tx)
  BY TxAssumption
<1> QED BY <1>1 DEF PushTxOf, Lists

\* mapTestPool is an index.
LEMMA EnterType ==
  ASSUME NEW q \in IndexType, NEW t \in Tx
  PROVE  AddToTestPool(q, t) \in IndexType
<1>1. NewEntry(Memory) \in Entry
  BY DEF NewEntry, Entry
<1> QED BY <1>1, MarkType DEF AddToTestPool, Enter, IndexType

\* mapTestPool, transaction by transaction.
LEMMA TestPoolSteps ==
  ASSUME NEW q \in IndexType, NEW s \in Seq(Tx)
  PROVE  \E r \in [0 .. Len(s) -> IndexType] :
           /\ r[0] = q /\ r[Len(s)] = FoldLeft(AddToTestPool, q, s)
           /\ \A i \in 1 .. Len(s) : r[i] = AddToTestPool(r[i - 1], s[i])
<1> DEFINE F == [z \in IndexType \X Tx |-> AddToTestPool(z[1], z[2])]
           P(f) == f = [S \in SUBSET DOMAIN s |->
                          IF S = {} THEN q ELSE LET x == Max(S) IN AddToTestPool(f[S \ {x}], s[x])]
           h == CHOOSE f : P(f)
<1>0. DOMAIN s = 1 .. Len(s) /\ \A x \in IndexType : \A y \in Tx : F[<<x, y>>] = AddToTestPool(x, y)
  OBVIOUS
<1>1. F \in [IndexType \X Tx -> IndexType]
  BY EnterType
<1> HIDE DEF F
<1>2. PICK g \in [SUBSET (1 .. Len(s)) -> IndexType] : Solves(g, Len(s), q, F, s)
  BY <1>1, FoldExists
<1>3. P(g)
  <2>1. ASSUME NEW S \in SUBSET (1 .. Len(s))
        PROVE  g[S] = IF S = {} THEN q ELSE AddToTestPool(g[S \ {Max(S)}], s[Max(S)])
    <3>1. ASSUME S # {} PROVE g[S \ {Max(S)}] \in IndexType /\ s[Max(S)] \in Tx
      BY <3>1, LastOf
    <3> QED BY <1>0, <1>2, <3>1 DEF Solves
  <2> QED BY <1>0, <2>1
<1>4. P(h)
  <2> HIDE DEF P
  <2> QED BY <1>3
<1>5. FoldLeft(AddToTestPool, q, s) = h[1 .. Len(s)]
  BY <1>0 DEF FoldLeft, MapThenFoldSet
<1> HIDE DEF h
<1>6. ASSUME NEW S \in SUBSET (1 .. Len(s))
      PROVE  h[S] = IF S = {} THEN q ELSE AddToTestPool(h[S \ {Max(S)}], s[Max(S)])
  BY <1>0, <1>4
<1> HIDE DEF P
<1>7. ASSUME NEW S \in SUBSET (1 .. Len(s)), S # {}, h[S \ {Max(S)}] \in IndexType
      PROVE  h[S] = F[<<h[S \ {Max(S)}], s[Max(S)]>>]
  <2>1. s[Max(S)] \in Tx
    BY <1>7, LastOf
  <2> QED BY <1>0, <1>6, <1>7, <2>1
<1>8. PICK r \in [0 .. Len(s) -> IndexType] :
        /\ r[0] = q /\ r[Len(s)] = h[1 .. Len(s)]
        /\ \A i \in 1 .. Len(s) : r[i] = F[<<r[i - 1], s[i]>>]
  <2>1. Unfolds(h, q, IndexType, F, s)
    BY <1>6, <1>7 DEF Unfolds
  <2>2. PICK r \in [0 .. Len(s) -> IndexType] : Run(r, q, h[1 .. Len(s)], F, s)
    BY <1>1, <2>1, FoldSteps
  <2> QED BY <2>2 DEF Run
<1>9. ASSUME NEW i \in 1 .. Len(s) PROVE r[i] = AddToTestPool(r[i - 1], s[i])
  <2>1. r[i - 1] \in IndexType /\ s[i] \in Tx
    OBVIOUS
  <2> QED BY <1>0, <1>8, <2>1
<1> QED BY <1>5, <1>8, <1>9

\* The inner loop of what Reorganize pushes to vResurrect ...
LEMMA LooseSteps ==
  ASSUME NEW q \in Lists, NEW s \in Seq(Tx)
  PROVE  \E r \in [0 .. Len(s) -> Lists] :
           /\ r[0] = q /\ r[Len(s)] = FoldLeft(PushLoose, q, s)
           /\ \A i \in 1 .. Len(s) : r[i] = PushLoose(r[i - 1], s[i])
<1> DEFINE F == [z \in Lists \X Tx |-> PushLoose(z[1], z[2])]
           P(f) == f = [S \in SUBSET DOMAIN s |->
                          IF S = {} THEN q ELSE LET x == Max(S) IN PushLoose(f[S \ {x}], s[x])]
           h == CHOOSE f : P(f)
<1>0. DOMAIN s = 1 .. Len(s) /\ \A x \in Lists : \A y \in Tx : F[<<x, y>>] = PushLoose(x, y)
  OBVIOUS
<1>1. F \in [Lists \X Tx -> Lists]
  BY PushLooseType
<1> HIDE DEF F
<1>2. PICK g \in [SUBSET (1 .. Len(s)) -> Lists] : Solves(g, Len(s), q, F, s)
  BY <1>1, FoldExists
<1>3. P(g)
  <2>1. ASSUME NEW S \in SUBSET (1 .. Len(s))
        PROVE  g[S] = IF S = {} THEN q ELSE PushLoose(g[S \ {Max(S)}], s[Max(S)])
    <3>1. ASSUME S # {} PROVE g[S \ {Max(S)}] \in Lists /\ s[Max(S)] \in Tx
      BY <3>1, LastOf
    <3> QED BY <1>0, <1>2, <3>1 DEF Solves
  <2> QED BY <1>0, <2>1
<1>4. P(h)
  <2> HIDE DEF P
  <2> QED BY <1>3
<1>5. FoldLeft(PushLoose, q, s) = h[1 .. Len(s)]
  BY <1>0 DEF FoldLeft, MapThenFoldSet
<1> HIDE DEF h
<1>6. ASSUME NEW S \in SUBSET (1 .. Len(s))
      PROVE  h[S] = IF S = {} THEN q ELSE PushLoose(h[S \ {Max(S)}], s[Max(S)])
  BY <1>0, <1>4
<1> HIDE DEF P
<1>7. ASSUME NEW S \in SUBSET (1 .. Len(s)), S # {}, h[S \ {Max(S)}] \in Lists
      PROVE  h[S] = F[<<h[S \ {Max(S)}], s[Max(S)]>>]
  <2>1. s[Max(S)] \in Tx
    BY <1>7, LastOf
  <2> QED BY <1>0, <1>6, <1>7, <2>1
<1>8. PICK r \in [0 .. Len(s) -> Lists] :
        /\ r[0] = q /\ r[Len(s)] = h[1 .. Len(s)]
        /\ \A i \in 1 .. Len(s) : r[i] = F[<<r[i - 1], s[i]>>]
  <2>1. Unfolds(h, q, Lists, F, s)
    BY <1>6, <1>7 DEF Unfolds
  <2>2. PICK r \in [0 .. Len(s) -> Lists] : Run(r, q, h[1 .. Len(s)], F, s)
    BY <1>1, <2>1, FoldSteps
  <2> QED BY <2>2 DEF Run
<1>9. ASSUME NEW i \in 1 .. Len(s) PROVE r[i] = PushLoose(r[i - 1], s[i])
  <2>1. r[i - 1] \in Lists /\ s[i] \in Tx
    OBVIOUS
  <2> QED BY <1>0, <1>8, <2>1
<1> QED BY <1>5, <1>8, <1>9

\* A block pushes its transactions, but beanbases and beanstakes.
LEMMA LooseOfBlock ==
  ASSUME NEW q \in Lists, NEW b \in Block
  PROVE  /\ PushLooseOf(q, b) \in Lists
         /\ ToSet(PushLooseOf(q, b)) \subseteq ToSet(q) \cup (TxOf(b) \ Base)
<1>1. PICK s \in Seq(Tx) : s = vtx[b]
  BY TxAssumption
<1>2. PICK n \in Nat : n = Len(s)
  OBVIOUS
<1>3. PICK r \in [0 .. n -> Lists] :
        /\ r[0] = q /\ r[n] = FoldLeft(PushLoose, q, s)
        /\ \A i \in 1 .. n : r[i] = PushLoose(r[i - 1], s[i])
  BY <1>2, LooseSteps
<1> DEFINE G == {i \in 0 .. n : ToSet(r[i]) \subseteq ToSet(q) \cup (TxOf(b) \ Base)}
<1>4. 0 \in G
  BY <1>3
<1>5. ASSUME NEW i \in 1 .. n, i - 1 \in G PROVE i \in G
  <2>1. PICK x \in Lists : x = r[i - 1]
    BY <1>3
  <2>2. PICK t \in Tx : t = s[i]
    BY <1>2
  <2>3. t \in TxOf(b)
    BY <1>1, <1>2, <2>2 DEF TxOf
  <2>4. ToSet(PushLoose(x, t)) \subseteq ToSet(x) \cup ({t} \ Base)
    BY DEF PushLoose, ToSet, Lists
  <2> QED BY <1>3, <1>5, <2>1, <2>2, <2>3, <2>4
<1> HIDE DEF G
<1>6. n \in 0 .. n
  OBVIOUS
<1>7. n \in G
  BY <1>4, <1>5, <1>6, UpTo
<1>8. PushLooseOf(q, b) = r[n]
  BY <1>1, <1>3 DEF PushLooseOf
<1> QED BY <1>3, <1>6, <1>7, <1>8 DEF G

\* ... and the outer one.
LEMMA LooseBlockSteps ==
  ASSUME NEW q \in Lists, NEW s \in Seq(Block)
  PROVE  \E r \in [0 .. Len(s) -> Lists] :
           /\ r[0] = q /\ r[Len(s)] = FoldLeft(PushLooseOf, q, s)
           /\ \A i \in 1 .. Len(s) : r[i] = PushLooseOf(r[i - 1], s[i])
<1> DEFINE F == [z \in Lists \X Block |-> PushLooseOf(z[1], z[2])]
           P(f) == f = [S \in SUBSET DOMAIN s |->
                          IF S = {} THEN q ELSE LET x == Max(S) IN PushLooseOf(f[S \ {x}], s[x])]
           h == CHOOSE f : P(f)
<1>0. DOMAIN s = 1 .. Len(s) /\ \A x \in Lists : \A y \in Block : F[<<x, y>>] = PushLooseOf(x, y)
  OBVIOUS
<1>1. F \in [Lists \X Block -> Lists]
  BY LooseOfBlock
<1> HIDE DEF F
<1>2. PICK g \in [SUBSET (1 .. Len(s)) -> Lists] : Solves(g, Len(s), q, F, s)
  BY <1>1, FoldExists
<1>3. P(g)
  <2>1. ASSUME NEW S \in SUBSET (1 .. Len(s))
        PROVE  g[S] = IF S = {} THEN q ELSE PushLooseOf(g[S \ {Max(S)}], s[Max(S)])
    <3>1. ASSUME S # {} PROVE g[S \ {Max(S)}] \in Lists /\ s[Max(S)] \in Block
      BY <3>1, LastOf
    <3> QED BY <1>0, <1>2, <3>1 DEF Solves
  <2> QED BY <1>0, <2>1
<1>4. P(h)
  <2> HIDE DEF P
  <2> QED BY <1>3
<1>5. FoldLeft(PushLooseOf, q, s) = h[1 .. Len(s)]
  BY <1>0 DEF FoldLeft, MapThenFoldSet
<1> HIDE DEF h
<1>6. ASSUME NEW S \in SUBSET (1 .. Len(s))
      PROVE  h[S] = IF S = {} THEN q ELSE PushLooseOf(h[S \ {Max(S)}], s[Max(S)])
  BY <1>0, <1>4
<1> HIDE DEF P
<1>7. ASSUME NEW S \in SUBSET (1 .. Len(s)), S # {}, h[S \ {Max(S)}] \in Lists
      PROVE  h[S] = F[<<h[S \ {Max(S)}], s[Max(S)]>>]
  <2>1. s[Max(S)] \in Block
    BY <1>7, LastOf
  <2> QED BY <1>0, <1>6, <1>7, <2>1
<1>8. PICK r \in [0 .. Len(s) -> Lists] :
        /\ r[0] = q /\ r[Len(s)] = h[1 .. Len(s)]
        /\ \A i \in 1 .. Len(s) : r[i] = F[<<r[i - 1], s[i]>>]
  <2>1. Unfolds(h, q, Lists, F, s)
    BY <1>6, <1>7 DEF Unfolds
  <2>2. PICK r \in [0 .. Len(s) -> Lists] : Run(r, q, h[1 .. Len(s)], F, s)
    BY <1>1, <2>1, FoldSteps
  <2> QED BY <2>2 DEF Run
<1>9. ASSUME NEW i \in 1 .. Len(s) PROVE r[i] = PushLooseOf(r[i - 1], s[i])
  <2>1. r[i - 1] \in Lists /\ s[i] \in Block
    OBVIOUS
  <2> QED BY <1>0, <1>8, <2>1
<1> QED BY <1>5, <1>8, <1>9

\* What it pushes to vDelete.
LEMMA TxBlockSteps ==
  ASSUME NEW q \in Lists, NEW s \in Seq(Block)
  PROVE  \E r \in [0 .. Len(s) -> Lists] :
           /\ r[0] = q /\ r[Len(s)] = FoldLeft(PushTxOf, q, s)
           /\ \A i \in 1 .. Len(s) : r[i] = PushTxOf(r[i - 1], s[i])
<1> DEFINE F == [z \in Lists \X Block |-> PushTxOf(z[1], z[2])]
           P(f) == f = [S \in SUBSET DOMAIN s |->
                          IF S = {} THEN q ELSE LET x == Max(S) IN PushTxOf(f[S \ {x}], s[x])]
           h == CHOOSE f : P(f)
<1>0. DOMAIN s = 1 .. Len(s) /\ \A x \in Lists : \A y \in Block : F[<<x, y>>] = PushTxOf(x, y)
  OBVIOUS
<1>1. F \in [Lists \X Block -> Lists]
  BY PushTxType
<1> HIDE DEF F
<1>2. PICK g \in [SUBSET (1 .. Len(s)) -> Lists] : Solves(g, Len(s), q, F, s)
  BY <1>1, FoldExists
<1>3. P(g)
  <2>1. ASSUME NEW S \in SUBSET (1 .. Len(s))
        PROVE  g[S] = IF S = {} THEN q ELSE PushTxOf(g[S \ {Max(S)}], s[Max(S)])
    <3>1. ASSUME S # {} PROVE g[S \ {Max(S)}] \in Lists /\ s[Max(S)] \in Block
      BY <3>1, LastOf
    <3> QED BY <1>0, <1>2, <3>1 DEF Solves
  <2> QED BY <1>0, <2>1
<1>4. P(h)
  <2> HIDE DEF P
  <2> QED BY <1>3
<1>5. FoldLeft(PushTxOf, q, s) = h[1 .. Len(s)]
  BY <1>0 DEF FoldLeft, MapThenFoldSet
<1> HIDE DEF h
<1>6. ASSUME NEW S \in SUBSET (1 .. Len(s))
      PROVE  h[S] = IF S = {} THEN q ELSE PushTxOf(h[S \ {Max(S)}], s[Max(S)])
  BY <1>0, <1>4
<1> HIDE DEF P
<1>7. ASSUME NEW S \in SUBSET (1 .. Len(s)), S # {}, h[S \ {Max(S)}] \in Lists
      PROVE  h[S] = F[<<h[S \ {Max(S)}], s[Max(S)]>>]
  <2>1. s[Max(S)] \in Block
    BY <1>7, LastOf
  <2> QED BY <1>0, <1>6, <1>7, <2>1
<1>8. PICK r \in [0 .. Len(s) -> Lists] :
        /\ r[0] = q /\ r[Len(s)] = h[1 .. Len(s)]
        /\ \A i \in 1 .. Len(s) : r[i] = F[<<r[i - 1], s[i]>>]
  <2>1. Unfolds(h, q, Lists, F, s)
    BY <1>6, <1>7 DEF Unfolds
  <2>2. PICK r \in [0 .. Len(s) -> Lists] : Run(r, q, h[1 .. Len(s)], F, s)
    BY <1>1, <2>1, FoldSteps
  <2> QED BY <2>2 DEF Run
<1>9. ASSUME NEW i \in 1 .. Len(s) PROVE r[i] = PushTxOf(r[i - 1], s[i])
  <2>1. r[i - 1] \in Lists /\ s[i] \in Block
    OBVIOUS
  <2> QED BY <1>0, <1>8, <2>1
<1> QED BY <1>5, <1>8, <1>9

\* vResurrect has only transactions of the blocks, and no beanbase.
LEMMA LooseOfAllFacts ==
  ASSUME NEW s \in Seq(Block)
  PROVE  /\ LooseOfAll(s) \in Lists
         /\ \A t \in ToSet(LooseOfAll(s)) : t \notin Base /\ \E i \in 1 .. Len(s) : t \in TxOf(s[i])
<1>1. PICK n \in Nat : n = Len(s)
  OBVIOUS
<1>2. PICK q \in Lists : q = <<>>
  <2>1. <<>> \in Lists
    BY DEF Lists
  <2> QED BY <2>1
<1>3. PICK r \in [0 .. n -> Lists] :
        /\ r[0] = q /\ r[n] = FoldLeft(PushLooseOf, q, s)
        /\ \A i \in 1 .. n : r[i] = PushLooseOf(r[i - 1], s[i])
  BY <1>1, LooseBlockSteps
<1> DEFINE T == {t \in Tx : t \notin Base /\ \E i \in 1 .. n : t \in TxOf(s[i])}
           G == {i \in 0 .. n : ToSet(r[i]) \subseteq T}
<1>4. 0 \in G
  BY <1>2, <1>3 DEF ToSet
<1>5. ASSUME NEW i \in 1 .. n, i - 1 \in G PROVE i \in G
  <2>1. PICK x \in Lists : x = r[i - 1]
    BY <1>3
  <2>2. PICK b \in Block : b = s[i]
    BY <1>1
  <2>3. ToSet(PushLooseOf(x, b)) \subseteq ToSet(x) \cup (TxOf(b) \ Base)
    BY LooseOfBlock
  <2>4. TxOf(b) \ Base \subseteq T
    BY <2>2, TxTypes
  <2> QED BY <1>3, <1>5, <2>1, <2>2, <2>3, <2>4
<1> HIDE DEF G
<1>6. n \in 0 .. n
  OBVIOUS
<1>7. n \in G
  BY <1>4, <1>5, <1>6, UpTo
<1>8. LooseOfAll(s) = r[n]
  BY <1>2, <1>3 DEF LooseOfAll
<1> QED BY <1>1, <1>3, <1>6, <1>7, <1>8 DEF G

\* vDelete has all transactions of the blocks.
LEMMA TxOfAllFacts ==
  ASSUME NEW s \in Seq(Block)
  PROVE  /\ TxOfAll(s) \in Lists
         /\ \A i \in 1 .. Len(s) : TxOf(s[i]) \subseteq ToSet(TxOfAll(s))
<1>1. PICK n \in Nat : n = Len(s)
  OBVIOUS
<1>2. PICK q \in Lists : q = <<>>
  <2>1. <<>> \in Lists
    BY DEF Lists
  <2> QED BY <2>1
<1>3. PICK r \in [0 .. n -> Lists] :
        /\ r[0] = q /\ r[n] = FoldLeft(PushTxOf, q, s)
        /\ \A i \in 1 .. n : r[i] = PushTxOf(r[i - 1], s[i])
  BY <1>1, TxBlockSteps
<1> DEFINE G == {i \in 0 .. n : \A j \in 1 .. i : TxOf(s[j]) \subseteq ToSet(r[i])}
<1>4. 0 \in G
  OBVIOUS
<1>5. ASSUME NEW i \in 1 .. n, i - 1 \in G PROVE i \in G
  <2>1. PICK x \in Lists : x = r[i - 1]
    BY <1>3
  <2>2. PICK b \in Block : b = s[i]
    BY <1>1
  <2>3. PICK y \in Seq(Tx) : y = vtx[b]
    BY TxAssumption
  <2>4. ToSet(x) \subseteq ToSet(x \o y) /\ ToSet(y) \subseteq ToSet(x \o y)
    <3>0. x \in Seq(Tx)
      BY DEF Lists
    <3>1. PICK z \in Seq(Tx) : z = x \o y
      <4>1. x \o y \in Seq(Tx)
        BY <3>0
      <4> QED BY <4>1
    <3>2. \A k \in 1 .. Len(x) : z[k] = x[k] /\ k \in 1 .. Len(z)
      BY <3>1 DEF Lists
    <3>3. ASSUME NEW k \in 1 .. Len(y) PROVE \E m \in 1 .. Len(z) : z[m] = y[k]
      <4>1. Len(z) = Len(x) + Len(y) /\ Len(x) \in Nat /\ Len(y) \in Nat
        BY <3>1 DEF Lists
      <4>2. PICK m \in 1 .. Len(z) : m = Len(x) + k
        BY <4>1
      <4>3. z[m] = y[k]
        BY <3>1, <4>1, <4>2 DEF Lists
      <4> QED BY <4>3
    <3>4. DOMAIN x = 1 .. Len(x) /\ DOMAIN y = 1 .. Len(y) /\ DOMAIN z = 1 .. Len(z)
      BY DEF Lists
    <3>5. ToSet(x) \subseteq ToSet(z)
      BY <3>2, <3>4 DEF ToSet
    <3>6. ToSet(y) \subseteq ToSet(z)
      BY <3>3, <3>4 DEF ToSet
    <3> QED BY <3>1, <3>5, <3>6
  <2>5. TxOf(b) = ToSet(y) /\ r[i] = x \o y
    BY <1>3, <2>1, <2>2, <2>3 DEF TxOf, ToSet, PushTxOf
  <2>6. \A j \in 1 .. i : j \in 1 .. i - 1 \/ j = i
    OBVIOUS
  <2>7. ASSUME NEW j \in 1 .. i PROVE TxOf(s[j]) \subseteq ToSet(r[i])
    <3>1. CASE j = i
      BY <2>2, <2>4, <2>5, <3>1
    <3>2. CASE j # i
      <4>1. TxOf(s[j]) \subseteq ToSet(x)
        BY <1>5, <2>1, <2>6, <3>2
      <4> QED BY <2>4, <2>5, <4>1
    <3> QED BY <3>1, <3>2
  <2> QED BY <2>7
<1> HIDE DEF G
<1>6. n \in 0 .. n
  OBVIOUS
<1>7. n \in G
  BY <1>4, <1>5, <1>6, UpTo
<1>8. TxOfAll(s) = r[n]
  BY <1>2, <1>3 DEF TxOfAll
<1> QED BY <1>1, <1>3, <1>6, <1>7, <1>8 DEF G

-----------------------------------------------------------------------------
(* Which blocks a reorganisation touches.                                  *)

\* What the new chain has is at or below the fork, or in vDelete.
LEMMA SharedOrDeleted ==
  ASSUME NEW s \in Block, NEW b \in Block, NEW t \in TxIn(b)
  PROVE  t \in TxIn(Fork(s, b)) \/ t \in ToSet(TxOfAll(vConnect(s, b)))
<1>1. PICK f : f = Fork(s, b)
  OBVIOUS
<1>2. PICK v \in Seq(Block) : v = vConnect(s, b)
  BY <1>1, WayUp
<1>3. /\ Len(v) = Height[b] - Height[f] /\ f \in Chain[b] /\ Height[b] \in Nat /\ Height[f] \in Nat
      /\ f \in Block /\ Chain[b] \subseteq Block
  BY <1>1, <1>2, WayUp, TreeAssumption
<1>4. PICK a \in Chain[b] \ {Genesis} : t \in TxOf(a)
  BY DEF TxIn
<1>5. a \in Block /\ Height[a] \in Nat /\ Height[a] <= Height[b]
  BY <1>3, <1>4, AtHeightEnds
<1>6. CASE Height[a] <= Height[f]
  <2>1. a \in Chain[f]
    BY <1>3, <1>4, <1>6, ChainAssumption
  <2> QED BY <1>1, <1>4, <2>1 DEF TxIn
<1>7. CASE ~(Height[a] <= Height[f])
  <2>1. PICK i \in 1 .. Len(v) : i = Height[a] - Height[f]
    BY <1>3, <1>5, <1>7
  <2>2. v[i] = AtHeight(b, Height[f] + i) /\ Height[f] + i = Height[a]
    <3>1. i \in 1 .. Height[b] - Height[f]
      BY <1>3, <2>1
    <3>2. vConnect(s, b)[i] = AtHeight(b, Height[f] + i)
      BY <1>1, <3>1, WayUp
    <3> QED BY <1>2, <1>3, <1>5, <2>1, <3>2
  <2>3. AtHeight(b, Height[a]) = a
    BY <1>4, AtHeightEnds
  <2>4. TxOf(v[i]) \subseteq ToSet(TxOfAll(v))
    BY TxOfAllFacts
  <2> QED BY <1>2, <1>4, <2>2, <2>3, <2>4
<1> QED BY <1>6, <1>7

\* What is resurrected was above the fork, and so not below it.
LEMMA LooseIsAbove ==
  ASSUME NEW s \in Block, NEW b \in Block, Sane(s),
         NEW t \in ToSet(LooseOfAll(vDisconnect(s, b)))
  PROVE  t \notin TxIn(Fork(s, b))
<1>1. PICK f : f = Fork(s, b)
  OBVIOUS
<1>2. PICK v \in Seq(Block) : v = vDisconnect(s, b)
  BY <1>1, WayDown
<1>3. Len(v) = Height[s] - Height[f] /\ f \in Chain[s] /\ Height[s] \in Nat /\ Height[f] \in Nat
  BY <1>1, <1>2, WayDown
<1>4. PICK i \in 1 .. Len(v) : t \in TxOf(v[i])
  BY <1>2, LooseOfAllFacts
<1>5. PICK h \in Height[f] + 1 .. Height[s] : v[i] = AtHeight(s, h)
  <2>1. i \in 1 .. Height[s] - Height[f]
    BY <1>3
  <2>2. /\ vDisconnect(s, b)[i] = AtHeight(s, Height[s] + 1 - i)
        /\ Height[s] + 1 - i \in Height[f] + 1 .. Height[s]
    BY <1>1, <2>1, WayDown
  <2> QED BY <1>2, <2>2
<1>6. h \in Height[f] .. Height[s] /\ h - 1 \in Height[f] .. Height[s]
  BY <1>3
<1>7. PICK d : d = v[i]
  OBVIOUS
<1>8. d \in Block \ {Genesis} /\ d \in Chain[s] /\ Parent[d] = AtHeight(s, h - 1)
  BY <1>3, <1>5, <1>6, <1>7, AtHeightFacts, AtHeightBelow
<1>9. f \in Chain[Parent[d]] /\ Parent[d] \in Block
  BY <1>3, <1>6, <1>8, AtHeightFacts
<1>10. TxIn(f) \subseteq TxIn(Parent[d])
  <2>1. Chain[f] \subseteq Chain[Parent[d]]
    BY <1>9, ChainAssumption
  <2> QED BY <2>1 DEF TxIn
<1>11. PICK j \in 1 .. Len(vtx[d]) : t = vtx[d][j]
  BY <1>4, <1>7, <1>8, TxTypes DEF TxOf
<1>12. t \notin Before(d, j - 1)
  BY <1>8, <1>11 DEF Sane, Stacked
<1> QED BY <1>1, <1>10, <1>12 DEF Before

\* Below the fork the two chains are one.
LEMMA ForkIsShared ==
  ASSUME NEW s \in Block, NEW b \in Block
  PROVE  TxIn(Fork(s, b)) \subseteq TxIn(s)
<1>1. Fork(s, b) \in Chain[s]
  BY ForkFacts
<1>2. Chain[Fork(s, b)] \subseteq Chain[s]
  BY <1>1, ChainAssumption
<1> QED BY <1>2 DEF TxIn

\* There is a first block with more trust on the way to one that has more.
LEMMA IntermediateFacts ==
  ASSUME NEW b \in Block, pindexBest \in Block, Trust[b] > Trust[pindexBest]
  PROVE  Intermediate(b) \in Chain[b] /\ Intermediate(b) \in Block
<1> DEFINE S == {c \in Chain[b] : Trust[c] > Trust[pindexBest]}
           H == {Height[c] : c \in S}
<1>1. Chain[b] \subseteq Block /\ b \in Chain[b] /\ Height \in [Block -> Nat]
  BY TreeAssumption, ChainAssumption
<1>2. H \subseteq Nat /\ Height[b] \in H
  BY <1>1
<1>3. PICK n \in H : \A m \in H : n <= m
  BY <1>2, LeastExists
<1>4. PICK c \in S : Height[c] = n
  BY <1>3
<1>5. ASSUME NEW a \in Chain[b], Trust[a] > Trust[pindexBest] PROVE c \in Chain[a]
  <2>1. Height[c] <= Height[a]
    BY <1>3, <1>4, <1>5
  <2> QED BY <1>4, <2>1, ChainAssumption
<1>6. Intermediate(b) \in Chain[b]
  BY <1>4, <1>5 DEF Intermediate
<1> QED BY <1>1, <1>6

-----------------------------------------------------------------------------
(* The transactions that CreateNewBlock picks.                             *)

\* ConnectBlock of nothing changes nothing, and of one more transaction is one more step.
LEMMA ConnectAllMore ==
  ASSUME NEW p \in Place, NEW tip \in Block, NEW n \in Nat, NEW q \in WorkType
  PROVE  /\ ConnectAll(q, <<>>, p, tip, n) = q
         /\ \A s \in Seq(Tx) : \A t \in Tx :
              ConnectAll(q, Append(s, t), p, tip, n) =
                ConnectTx(q.idx, p, tip, n, ConnectAll(q, s, p, tip, n), t)
<1> DEFINE F == [z \in WorkType \X Tx |-> ConnectTx(q.idx, p, tip, n, z[1], z[2])]
<1>1. \A x \in WorkType : \A y \in Tx : F[<<x, y>>] = ConnectTx(q.idx, p, tip, n, x, y)
  OBVIOUS
<1>2. q.idx \in IndexType
  BY DEF WorkType
<1>3. F \in [WorkType \X Tx -> WorkType]
  BY <1>2, ConnectTxType
<1> HIDE DEF F
<1>4. ASSUME NEW s \in Seq(Tx)
      PROVE  \E r \in [0 .. Len(s) -> WorkType] : Run(r, q, ConnectAll(q, s, p, tip, n), F, s)
  <2>1. PICK r \in [0 .. Len(s) -> WorkType] :
           /\ r[0] = q /\ r[Len(s)] = ConnectAll(q, s, p, tip, n)
           /\ \A i \in 1 .. Len(s) : r[i] = ConnectTx(q.idx, p, tip, n, r[i - 1], s[i])
    BY ConnectSteps
  <2>2. ASSUME NEW i \in 1 .. Len(s) PROVE r[i] = F[<<r[i - 1], s[i]>>]
    <3>1. r[i - 1] \in WorkType /\ s[i] \in Tx
      OBVIOUS
    <3> QED BY <1>1, <2>1, <3>1
  <2> QED BY <2>1, <2>2 DEF Run
<1>5. ConnectAll(q, <<>>, p, tip, n) = q
  <2>1. PICK e \in Seq(Tx) : e = <<>>
    <3>1. <<>> \in Seq(Tx)
      OBVIOUS
    <3> QED BY <3>1
  <2>2. PICK r \in [0 .. Len(e) -> WorkType] : Run(r, q, ConnectAll(q, e, p, tip, n), F, e)
    BY <1>4
  <2>3. Len(e) = 0
    BY <2>1
  <2> QED BY <2>1, <2>2, <2>3 DEF Run
<1>6. ASSUME NEW s \in Seq(Tx), NEW t \in Tx
      PROVE  ConnectAll(q, Append(s, t), p, tip, n) =
                ConnectTx(q.idx, p, tip, n, ConnectAll(q, s, p, tip, n), t)
  <2>1. PICK x1 : x1 = ConnectAll(q, s, p, tip, n)
    OBVIOUS
  <2>2. PICK x2 : x2 = ConnectAll(q, Append(s, t), p, tip, n)
    OBVIOUS
  <2>3. PICK r1 \in [0 .. Len(s) -> WorkType] : Run(r1, q, x1, F, s)
    BY <1>4, <2>1
  <2>4. Append(s, t) \in Seq(Tx)
    OBVIOUS
  <2>5. PICK u \in Seq(Tx) : u = Append(s, t)
    BY <2>4
  <2>6. PICK r2 \in [0 .. Len(u) -> WorkType] : Run(r2, q, x2, F, u)
    BY <1>4, <2>2, <2>5
  <2>7. x2 = F[<<x1, t>>]
    BY <2>3, <2>5, <2>6, OneMore
  <2>8. x1 \in WorkType
    <3>1. Len(s) \in 0 .. Len(s)
      OBVIOUS
    <3> QED BY <2>3, <3>1 DEF Run
  <2> QED BY <1>1, <2>1, <2>2, <2>7, <2>8
<1> QED BY <1>5, <1>6

\* The same of mapTestPool.
LEMMA TestPoolMore ==
  ASSUME NEW q \in IndexType
  PROVE  /\ FoldLeft(AddToTestPool, q, <<>>) = q
         /\ \A s \in Seq(Tx) : \A t \in Tx :
              FoldLeft(AddToTestPool, q, Append(s, t)) =
                AddToTestPool(FoldLeft(AddToTestPool, q, s), t)
<1> DEFINE F == [z \in IndexType \X Tx |-> AddToTestPool(z[1], z[2])]
<1>1. \A x \in IndexType : \A y \in Tx : F[<<x, y>>] = AddToTestPool(x, y)
  OBVIOUS
<1>3. F \in [IndexType \X Tx -> IndexType]
  BY EnterType
<1> HIDE DEF F
<1>4. ASSUME NEW s \in Seq(Tx)
      PROVE  \E r \in [0 .. Len(s) -> IndexType] : Run(r, q, FoldLeft(AddToTestPool, q, s), F, s)
  <2>1. PICK r \in [0 .. Len(s) -> IndexType] :
           /\ r[0] = q /\ r[Len(s)] = FoldLeft(AddToTestPool, q, s)
           /\ \A i \in 1 .. Len(s) : r[i] = AddToTestPool(r[i - 1], s[i])
    BY TestPoolSteps
  <2>2. ASSUME NEW i \in 1 .. Len(s) PROVE r[i] = F[<<r[i - 1], s[i]>>]
    <3>1. r[i - 1] \in IndexType /\ s[i] \in Tx
      OBVIOUS
    <3> QED BY <1>1, <2>1, <3>1
  <2> QED BY <2>1, <2>2 DEF Run
<1>5. FoldLeft(AddToTestPool, q, <<>>) = q
  <2>1. PICK e \in Seq(Tx) : e = <<>>
    <3>1. <<>> \in Seq(Tx)
      OBVIOUS
    <3> QED BY <3>1
  <2>2. PICK r \in [0 .. Len(e) -> IndexType] : Run(r, q, FoldLeft(AddToTestPool, q, e), F, e)
    BY <1>4
  <2>3. Len(e) = 0
    BY <2>1
  <2> QED BY <2>1, <2>2, <2>3 DEF Run
<1>6. ASSUME NEW s \in Seq(Tx), NEW t \in Tx
      PROVE  FoldLeft(AddToTestPool, q, Append(s, t)) =
                AddToTestPool(FoldLeft(AddToTestPool, q, s), t)
  <2>1. PICK x1 : x1 = FoldLeft(AddToTestPool, q, s)
    OBVIOUS
  <2>2. PICK x2 : x2 = FoldLeft(AddToTestPool, q, Append(s, t))
    OBVIOUS
  <2>3. PICK r1 \in [0 .. Len(s) -> IndexType] : Run(r1, q, x1, F, s)
    BY <1>4, <2>1
  <2>4. Append(s, t) \in Seq(Tx)
    OBVIOUS
  <2>5. PICK u \in Seq(Tx) : u = Append(s, t)
    BY <2>4
  <2>6. PICK r2 \in [0 .. Len(u) -> IndexType] : Run(r2, q, x2, F, u)
    BY <1>4, <2>2, <2>5
  <2>7. x2 = F[<<x1, t>>]
    BY <2>3, <2>5, <2>6, OneMore
  <2>8. x1 \in IndexType
    <3>1. Len(s) \in 0 .. Len(s)
      OBVIOUS
    <3> QED BY <2>3, <3>1 DEF Run
  <2> QED BY <1>1, <2>1, <2>2, <2>7, <2>8
<1> QED BY <1>5, <1>6

-----------------------------------------------------------------------------
(* The invariant.                                                          *)

\* A known block is known with all before it.
Rooted == \A b \in mapBlockIndex : Chain[b] \subseteq mapBlockIndex

\* The index is the best chain's, and the wallet has followed unless a
\* reorganisation was given up.
InChain == /\ InForce(Current, pindexBest)
           /\ ~aborted => Followed(Current, pindexBest)

\* Before the loops of Reorganize are done, what the pool, or what is still to be
\* put back into it, has in common with the new chain is in vDelete.
Lingers ==
    pc \in {"resurrect", "delete"} =>
        /\ reorganized
        /\ mapTx \cap TxIn(pindexBest) \subseteq ToSet(vDelete)
        /\ pc = "resurrect" => ToSet(vResurrect) \cap TxIn(pindexBest) \subseteq ToSet(vDelete)

\* What was picked connects in the order in which it was picked, and mapTestPool is
\* the index that it leads to.
Template == ConnectAll(Current, pblock, Memory, pindexBest, Height[pindexBest] + 1)
Collects == /\ pc # "collect" => pblock = <<>>
            /\ pindexPrev = pindexBest => Template.ok /\ Template.idx = TestPool

StepInv == /\ TypeOK /\ Rooted /\ InChain
           /\ PoolApartFromChain /\ Lingers /\ PoolConnectsAtFirst
           /\ Collects

\* The invariant says what the run checks.
LEMMA StepInvInStep ==
  ASSUME StepInv
  PROVE  InStep /\ TemplateConnects /\ PoolConnectsAtFirst
<1>1. pindexBest \in Block /\ ChainTx = TxIn(pindexBest) /\ Connected = Chain[pindexBest] \ {Genesis}
  BY DEF StepInv, TypeOK, ChainType, ChainTx, Connected, TxIn
<1>2. Current.idx = txindex /\ Current.wallet = mapWallet
  BY DEF Current, Work
<1>3. IndexMatchesChain
  BY <1>1, <1>2 DEF StepInv, InChain, InForce, IndexIs, Placed, IndexMatchesChain
<1>4. Once(TxIn(pindexBest))
  BY <1>1, SaneIsOnce DEF StepInv, InChain, InForce
<1>5. SpendsOnce
  BY <1>1, <1>4 DEF SpendsOnce, Once
<1>6. WalletInStep
  BY <1>1, <1>2 DEF StepInv, InChain, Followed, WalletInStep, WalletKnows
<1>7. TemplateConnects
  BY DEF StepInv, Collects, Template, TemplateConnects
<1> QED BY <1>3, <1>5, <1>6, <1>7 DEF StepInv, InStep

-----------------------------------------------------------------------------
(* Types.                                                                  *)

\* addUnchecked keeps the types of the pool ...
LEMMA AddTypes ==
  ASSUME PoolType, NEW t \in Tx, AddUnchecked(t)
  PROVE  PoolType'
<1>1. vin[t] \subseteq Tx \X Nat
  BY TxAssumption
<1>2. DOMAIN mapNextTx' = DOMAIN mapNextTx \cup vin[t]
  BY DEF AddUnchecked
<1>3. \A o \in DOMAIN mapNextTx' : mapNextTx'[o] \in Tx
  BY DEF AddUnchecked, PoolType
<1>4. mapTx' \subseteq Tx
  BY DEF AddUnchecked, PoolType
<1> QED BY <1>1, <1>2, <1>3, <1>4 DEF PoolType

\* ... and so does remove.
LEMMA RemoveTypes ==
  ASSUME PoolType, NEW S, RemoveSet(S)
  PROVE  PoolType'
BY DEF PoolType, RemoveSet

\* A wallet that is told of a loose transaction changes what it has of that one only.
LEMMA SyncType ==
  ASSUME NEW w \in WalletType, NEW t \in Tx
  PROVE  /\ SyncWithWallets(w, t, Loose) \in WalletType
         /\ \A u \in Tx \ {t} : SyncWithWallets(w, t, Loose)[u] = w[u]
BY DEF SyncWithWallets, WalletType

\* What is filed under a transaction are transactions.
ByPrevType(f) == DOMAIN f \subseteq Tx /\ \A p \in DOMAIN f : f[p] \subseteq Tx

\* AddOrphanTx and EraseOrphanTx keep the type of the map ...
LEMMA FileTypes ==
  ASSUME NEW t \in Tx, ByPrevType(mapOrphanTransactionsByPrev)
  PROVE  ByPrevType(ByPrevWith(t))
<1>1. PrevOf(t) \subseteq Tx
  BY TxAssumption DEF PrevOf
<1> QED BY <1>1 DEF ByPrevType, ByPrevWith

\* ... for EraseOrphanTx.
LEMMA ErasedTypes ==
  ASSUME NEW f, ByPrevType(f), NEW S
  PROVE  ByPrevType(Erased(f, S))
BY DEF ByPrevType, Erased

\* The steps of the "tx" message and of its loop.
LEMMA TxTypeSteps ==
  ASSUME TypeOK, TxMessage \/ OrphanLoop
  PROVE  TypeOK'
<1>1. ASSUME NEW t \in Tx, ReceiveTx(t) PROVE TypeOK'
  <2>1. PoolType'
    BY <1>1, AddTypes DEF ReceiveTx, TypeOK
  <2>2. OrphanType'
    BY <1>1 DEF ReceiveTx, TypeOK, OrphanType, orphans
  <2>3. mapWallet' \in WalletType
    BY <1>1, SyncType DEF ReceiveTx, TypeOK, ChainType, WalletType
  <2>4. ChainType'
    BY <1>1, <2>3 DEF ReceiveTx, TypeOK, ChainType, WalletType, chain
  <2>5. <<t>> \in Seq(Tx) /\ {t} \subseteq Tx /\ {} \subseteq Tx
    OBVIOUS
  <2>6. LoopType'
    BY <1>1, <2>5 DEF ReceiveTx, TypeOK, LoopType, reorg, miner, PCs
  <2> QED BY <2>1, <2>2, <2>4, <2>6 DEF TypeOK
<1>2. ASSUME NEW t \in Tx, HoldOrphan(t) PROVE TypeOK'
  <2>1. PICK S : /\ mapOrphanTransactions' = (mapOrphanTransactions \cup {t}) \ S
                 /\ mapOrphanTransactionsByPrev' = Erased(ByPrevWith(t), S)
    BY <1>2 DEF HoldOrphan
  <2>2. ByPrevType(mapOrphanTransactionsByPrev)'
    <3>1. ByPrevType(mapOrphanTransactionsByPrev)
      BY DEF TypeOK, OrphanType, ByPrevType
    <3>2. ByPrevType(Erased(ByPrevWith(t), S))
      BY <3>1, FileTypes, ErasedTypes
    <3> QED BY <2>1, <3>2
  <2>3. OrphanType'
    BY <2>1, <2>2 DEF TypeOK, OrphanType, ByPrevType
  <2>4. PoolType' /\ ChainType' /\ LoopType'
    BY <1>2 DEF HoldOrphan, TypeOK, PoolType, ChainType, LoopType, pool, chain, txloop, reorg, miner
  <2> QED BY <2>3, <2>4 DEF TypeOK
<1>3. ASSUME NEW t \in Tx, SendRawTransaction(t) PROVE TypeOK'
  <2>1. PoolType'
    BY <1>3, AddTypes DEF SendRawTransaction, TypeOK
  <2>2. mapWallet' \in WalletType
    BY <1>3, SyncType DEF SendRawTransaction, TypeOK, ChainType, WalletType
  <2>3. OrphanType' /\ ChainType' /\ LoopType'
    BY <1>3, <2>2 DEF SendRawTransaction, TypeOK, OrphanType, ChainType, LoopType, WalletType,
                      orphans, chain, txloop, reorg, miner
  <2> QED BY <2>1, <2>3 DEF TypeOK
<1>4. ASSUME NextInQueue PROVE TypeOK'
  <2> DEFINE p == Head(vWorkQueue)
             D == DOMAIN mapOrphanTransactionsByPrev
  <2>1. p \in Tx /\ Tail(vWorkQueue) \in Seq(Tx)
    BY <1>4 DEF NextInQueue, TypeOK, LoopType
  <2>2. /\ todo' = IF p \in D THEN mapOrphanTransactionsByPrev[p] ELSE {}
        /\ mapOrphanTransactionsByPrev' =
                [r \in D \cup {p} |-> IF r \in D THEN mapOrphanTransactionsByPrev[r] ELSE {}]
        /\ vWorkQueue' = Tail(vWorkQueue)
        /\ UNCHANGED <<chain, mapWallet, pool, mapOrphanTransactions, pc, vEraseQueue, reorg, miner>>
    BY <1>4 DEF NextInQueue
  <2>3. OrphanType'
    BY <2>1, <2>2 DEF TypeOK, OrphanType
  <2>4. todo' \subseteq Tx
    BY <2>2 DEF TypeOK, OrphanType
  <2>5. PoolType' /\ ChainType'
    BY <2>2 DEF TypeOK, PoolType, ChainType, pool, chain
  <2>6. LoopType'
    BY <2>1, <2>2, <2>4 DEF TypeOK, LoopType, reorg, miner
  <2> QED BY <2>3, <2>5, <2>6 DEF TypeOK
<1>5. ASSUME EraseOrphans PROVE TypeOK'
  <2>1. PICK S : /\ mapOrphanTransactions' = mapOrphanTransactions \ S
                 /\ mapOrphanTransactionsByPrev' = Erased(mapOrphanTransactionsByPrev, S)
    BY <1>5 DEF EraseOrphans
  <2>2. ByPrevType(Erased(mapOrphanTransactionsByPrev, S))
    BY ErasedTypes DEF TypeOK, OrphanType, ByPrevType
  <2>3. OrphanType'
    BY <2>1, <2>2 DEF TypeOK, OrphanType, ByPrevType
  <2>4. PoolType' /\ ChainType' /\ LoopType'
    BY <1>5 DEF EraseOrphans, TypeOK, PoolType, ChainType, LoopType, PCs, pool, chain, reorg, miner
  <2> QED BY <2>3, <2>4 DEF TypeOK
<1>6. ASSUME NEW t \in Tx, AcceptOrphan(t) PROVE TypeOK'
  <2>1. PoolType'
    BY <1>6, AddTypes DEF AcceptOrphan, TypeOK
  <2>2. Append(vWorkQueue, t) \in Seq(Tx)
    BY DEF TypeOK, LoopType
  <2>3. OrphanType' /\ ChainType'
    BY <1>6 DEF AcceptOrphan, TypeOK, OrphanType, ChainType, orphans, chain
  <2>4. LoopType'
    BY <1>6, <2>2 DEF AcceptOrphan, TypeOK, LoopType, reorg, miner
  <2> QED BY <2>1, <2>3, <2>4 DEF TypeOK
<1>7. ASSUME NEW t \in Tx, RefuseOrphan(t) PROVE TypeOK'
  <2>1. PoolType' /\ OrphanType' /\ ChainType'
    BY <1>7 DEF RefuseOrphan, TypeOK, PoolType, OrphanType, ChainType, pool, orphans, chain
  <2>2. LoopType'
    BY <1>7 DEF RefuseOrphan, TypeOK, LoopType, reorg, miner
  <2> QED BY <2>1, <2>2 DEF TypeOK
<1> QED BY <1>1, <1>2, <1>3, <1>4, <1>5, <1>6, <1>7 DEF TxMessage, OrphanLoop

\* The loops of Reorganize, and the miner.
LEMMA LoopTypeSteps ==
  ASSUME TypeOK, ReorgLoop \/ Miner
  PROVE  TypeOK'
<1>1. CASE Resurrect
  <2>1. Head(vResurrect) \in Tx /\ Tail(vResurrect) \in Seq(Tx)
    BY <1>1 DEF Resurrect, TypeOK, LoopType
  <2>2. PoolType'
    <3>1. CASE PassesEarlyChecks(Head(vResurrect))
      BY <1>1, <2>1, <3>1, AddTypes DEF Resurrect, TypeOK
    <3>2. CASE ~PassesEarlyChecks(Head(vResurrect))
      BY <1>1, <3>2 DEF Resurrect, TypeOK, PoolType, pool
    <3> QED BY <3>1, <3>2
  <2>3. OrphanType' /\ ChainType'
    BY <1>1 DEF Resurrect, TypeOK, OrphanType, ChainType, orphans, chain
  <2>4. LoopType'
    BY <1>1, <2>1 DEF Resurrect, TypeOK, LoopType, txloop, miner
  <2> QED BY <2>2, <2>3, <2>4 DEF TypeOK
<1>2. CASE DeleteRedundant
  <2>1. Tail(vDelete) \in Seq(Tx)
    BY <1>2 DEF DeleteRedundant, TypeOK, LoopType
  <2>2. PoolType'
    BY <1>2, RemoveTypes DEF DeleteRedundant, TypeOK
  <2>3. OrphanType' /\ ChainType'
    BY <1>2 DEF DeleteRedundant, TypeOK, OrphanType, ChainType, orphans, chain
  <2>4. LoopType'
    BY <1>2, <2>1 DEF DeleteRedundant, TypeOK, LoopType, txloop, miner
  <2> QED BY <2>2, <2>3, <2>4 DEF TypeOK
<1>3. CASE ResurrectDone \/ ReorganizeDone
  BY <1>3 DEF ResurrectDone, ReorganizeDone, TypeOK, PoolType, OrphanType, ChainType, LoopType, PCs,
              pool, orphans, chain, txloop, reorg, miner
<1>4. CASE Miner
  <2>1. PoolType' /\ OrphanType' /\ ChainType'
    BY <1>4 DEF Miner, ReadBest, StartCollecting, Pick, Collected, TypeOK, PoolType, OrphanType,
                ChainType, pool, orphans, chain
  <2>2. LoopType'
    <3>1. CASE ReadBest \/ StartCollecting
      BY <3>1 DEF ReadBest, StartCollecting, TypeOK, ChainType, LoopType, PCs, txloop, reorg, miner
    <3>2. ASSUME NEW t \in Tx, Pick(t) PROVE LoopType'
      <4>1. Append(pblock, t) \in Seq(Tx)
        BY DEF TypeOK, LoopType
      <4> QED BY <3>2, <4>1 DEF Pick, TypeOK, LoopType, txloop, reorg
    <3>3. CASE Collected
      <4>1. <<>> \in Seq(Tx)
        OBVIOUS
      <4> QED BY <3>3, <4>1 DEF Collected, TypeOK, LoopType, PCs, txloop, reorg
    <3> QED BY <1>4, <3>1, <3>2, <3>3 DEF Miner
  <2> QED BY <2>1, <2>2 DEF TypeOK
<1> QED BY <1>1, <1>2, <1>3, <1>4 DEF ReorgLoop

-----------------------------------------------------------------------------
(* Blocks.                                                                 *)

\* The work state that a block starts from.
LEMMA CurrentType ==
  ASSUME TypeOK
  PROVE  Current \in WorkType /\ Current.idx = txindex /\ Current.wallet = mapWallet /\ Current.ok
BY DEF TypeOK, ChainType, Current, Work, WorkType, IndexType, WalletType

\* A block that arrives is not genesis, and leaves the known blocks rooted.
LEMMA ArrivesFacts ==
  ASSUME TypeOK, Rooted, NEW b \in Block, Arrives(b)
  PROVE  /\ b \in Block \ {Genesis} /\ pindexBest \in Block /\ mapBlockIndex' \subseteq Block
         /\ Rooted' /\ Chain[b] \subseteq mapBlockIndex' /\ pindexBest \in mapBlockIndex'
<1>1. Parent[b] \in mapBlockIndex /\ mapBlockIndex' = mapBlockIndex \cup {b}
      /\ mapBlockIndex \subseteq Block /\ pindexBest \in mapBlockIndex
  BY DEF Arrives, TypeOK, ChainType
<1>2. b # Genesis
  BY <1>1, TreeAssumption
<1>3. Chain[b] = Chain[Parent[b]] \cup {b}
  BY <1>2, ChainAssumption
<1>4. Chain[b] \subseteq mapBlockIndex'
  BY <1>1, <1>3 DEF Rooted
<1>5. Rooted'
  BY <1>1, <1>4 DEF Rooted
<1> QED BY <1>1, <1>2, <1>4, <1>5

\* The new chain, index and wallet after a block that extends the best chain ...
LEMMA ExtendFacts ==
  ASSUME TypeOK, Rooted, InChain, NEW b \in Block, ExtendBest(b)
  PROVE  /\ pindexBest' = b /\ b \in Block \ {Genesis} /\ Parent[b] = pindexBest
         /\ txindex' \in IndexType /\ mapWallet' \in WalletType /\ InChain'
<1>1. PICK q : q = ConnectBlock(Current, b) /\ q.ok /\ txindex' = q.idx /\ mapWallet' = q.wallet
  BY DEF ExtendBest
<1>2. /\ pindexBest' = b /\ Parent[b] = pindexBest /\ aborted' = aborted /\ Arrives(b)
  BY DEF ExtendBest, history
<1>3. b \in Block \ {Genesis}
  BY <1>2, ArrivesFacts
<1>4. InForce(Current, Parent[b]) /\ (~aborted => Followed(Current, Parent[b]))
  BY <1>2 DEF InChain
<1>5. Current \in WorkType
  BY CurrentType
<1>6. q \in WorkType /\ InForce(q, b) /\ (Followed(Current, Parent[b]) => Followed(q, b))
  <2>1. PICK c \in WorkType : c = Current
    BY <1>5
  <2>2. InForce(c, Parent[b]) /\ q = ConnectBlock(c, b)
    BY <1>1, <1>4, <2>1
  <2>3. q \in WorkType /\ InForce(q, b) /\ (Followed(c, Parent[b]) => Followed(q, b))
    BY <1>1, <1>3, <2>2, ConnectBlockKeeps
  <2> QED BY <2>1, <2>3
<1>7. q.idx \in IndexType /\ q.wallet \in WalletType
  BY <1>6 DEF WorkType
<1>8. Current'.idx = q.idx /\ Current'.wallet = q.wallet
  BY <1>1 DEF Current, Work
<1>9. InForce(Current', b) /\ (Followed(q, b) => Followed(Current', b))
  BY <1>6, <1>8 DEF InForce, Followed
<1>10. InChain'
  BY <1>2, <1>4, <1>6, <1>9 DEF InChain
<1> QED BY <1>1, <1>2, <1>3, <1>7, <1>10

\* ... and after a reorganisation.
LEMMA ReorganizeFacts ==
  ASSUME TypeOK, Rooted, InChain, NEW b \in Block, Reorganize(b)
  PROVE  /\ pindexBest' \in Chain[b] /\ pindexBest' \in Block
         /\ txindex' \in IndexType /\ mapWallet' \in WalletType /\ InChain'
         /\ vResurrect' = LooseOfAll(vDisconnect(pindexBest, pindexBest'))
         /\ vDelete' = TxOfAll(vConnect(pindexBest, pindexBest'))
<1>1. PICK c : c = Intermediate(b)
  OBVIOUS
<1>2. PICK q : q = Reorganized(Current, pindexBest, c) /\ q.ok /\ txindex' = q.idx /\ mapWallet' = q.wallet
  BY <1>1 DEF Reorganize
<1>3. /\ pindexBest' = c /\ aborted' = aborted /\ Arrives(b) /\ Trust[b] > Trust[pindexBest]
      /\ vResurrect' = LooseOfAll(vDisconnect(pindexBest, c))
      /\ vDelete' = TxOfAll(vConnect(pindexBest, c))
  BY <1>1 DEF Reorganize, IsFork
<1>4. pindexBest \in Block
  BY DEF TypeOK, ChainType
<1>5. c \in Chain[b] /\ c \in Block
  BY <1>1, <1>3, <1>4, IntermediateFacts
<1>6. Current \in WorkType /\ InForce(Current, pindexBest)
  BY CurrentType DEF InChain
<1>7. q \in WorkType /\ Reached(q, c, Current, pindexBest)
  <2>1. PICK s \in WorkType : s = Current
    BY <1>6
  <2>2. InForce(s, pindexBest) /\ q = Reorganized(s, pindexBest, c)
    BY <1>2, <1>6, <2>1
  <2>3. q \in WorkType /\ Reached(q, c, s, pindexBest)
    BY <1>4, <1>5, <2>2, ReorganizedKeeps
  <2> QED BY <2>1, <2>3
<1>8. q.idx \in IndexType /\ q.wallet \in WalletType
  BY <1>7 DEF WorkType
<1>9. InForce(q, c) /\ (Followed(Current, pindexBest) => Followed(q, c))
  BY <1>2, <1>7 DEF Reached
<1>10. Current'.idx = q.idx /\ Current'.wallet = q.wallet
  BY <1>2 DEF Current, Work
<1>11. InForce(Current', c) /\ (Followed(q, c) => Followed(Current', c))
  BY <1>9, <1>10 DEF InForce, Followed
<1>12. InChain'
  BY <1>3, <1>9, <1>11 DEF InChain
<1> QED BY <1>2, <1>3, <1>5, <1>8, <1>12

\* A reorganisation that fails keeps the index; the wallet keeps its type.
LEMMA ReorganizeFailsFacts ==
  ASSUME TypeOK, Rooted, InChain, NEW b \in Block, ReorganizeFails(b)
  PROVE  mapWallet' \in WalletType /\ InChain'
<1>1. PICK c : c = Intermediate(b)
  OBVIOUS
<1>2. PICK q : /\ q = Reorganized(Current, pindexBest, c) /\ mapWallet' = q.wallet
               /\ aborted' = (aborted \/ q.wallet # mapWallet)
  BY <1>1 DEF ReorganizeFails
<1>3. Trust[b] > Trust[pindexBest] /\ pindexBest \in Block /\ pindexBest' = pindexBest /\ txindex' = txindex
  BY DEF ReorganizeFails, IsFork, TypeOK, ChainType
<1>4. c \in Block
  BY <1>1, <1>3, IntermediateFacts
<1>5. Current \in WorkType /\ InForce(Current, pindexBest)
  BY CurrentType DEF InChain
<1>6. q \in WorkType
  <2>1. PICK s \in WorkType : s = Current
    BY <1>5
  <2>2. InForce(s, pindexBest) /\ q = Reorganized(s, pindexBest, c)
    BY <1>2, <1>5, <2>1
  <2> QED BY <1>3, <1>4, <2>2, ReorganizedKeeps
<1>7. mapWallet' \in WalletType
  BY <1>2, <1>6 DEF WorkType
<1>8. Current'.idx = Current.idx /\ Current'.wallet = q.wallet /\ Current.wallet = mapWallet
  BY <1>2, <1>3 DEF Current, Work
<1>9. InForce(Current', pindexBest')
  BY <1>3, <1>5, <1>8 DEF InForce
<1>10. ASSUME ~aborted' PROVE Followed(Current', pindexBest')
  <2>1. ~aborted /\ q.wallet = mapWallet
    BY <1>2, <1>10
  <2>2. Followed(Current, pindexBest)
    BY <2>1 DEF InChain
  <2> QED BY <1>3, <1>8, <2>1, <2>2 DEF Followed
<1> QED BY <1>7, <1>9, <1>10 DEF InChain

\* Types, known blocks, index and wallet through every block.
LEMMA BlockSteps ==
  ASSUME TypeOK, Rooted, InChain, BlockMessage
  PROVE  TypeOK' /\ Rooted' /\ InChain'
<1>1. PICK b \in Block : \/ IndexBlock(b) \/ ExtendBest(b) \/ ExtendFails(b)
                         \/ Reorganize(b) \/ ReorganizeFails(b)
  BY DEF BlockMessage
<1>2. Arrives(b) /\ UNCHANGED <<orphans, txloop, miner>>
  BY <1>1 DEF IndexBlock, ExtendBest, ExtendFails, Reorganize, ReorganizeFails, IsFork
<1>3. /\ Rooted' /\ mapBlockIndex' \subseteq Block /\ Chain[b] \subseteq mapBlockIndex'
      /\ pindexBest \in mapBlockIndex' /\ b \in Chain[b]
  BY <1>2, ArrivesFacts, ChainAssumption
<1>4. OrphanType'
  BY <1>2 DEF TypeOK, OrphanType, orphans
<1>5. CASE IndexBlock(b) \/ ExtendFails(b)
  <2>1. UNCHANGED <<pindexBest, txindex, mapWallet, pool, pc, reorg, history>>
    BY <1>5 DEF IndexBlock, ExtendFails
  <2>2. PoolType' /\ ChainType' /\ LoopType'
    BY <1>2, <1>3, <2>1 DEF TypeOK, PoolType, ChainType, LoopType, pool, reorg, txloop, miner
  <2>3. InChain'
    <3>1. Current' = Current
      BY <2>1 DEF Current
    <3> QED BY <2>1, <3>1 DEF InChain, history
  <2> QED BY <1>3, <1>4, <2>2, <2>3 DEF TypeOK
<1>6. CASE ExtendBest(b)
  <2>1. pindexBest' = b /\ txindex' \in IndexType /\ mapWallet' \in WalletType /\ InChain'
    BY <1>6, ExtendFacts
  <2>2. PoolType'
    BY <1>6, RemoveTypes DEF ExtendBest, TypeOK
  <2>3. ChainType'
    BY <1>3, <2>1 DEF ChainType, IndexType, WalletType
  <2>4. LoopType'
    BY <1>6 DEF ExtendBest, TypeOK, LoopType, reorg, txloop, miner
  <2> QED BY <1>3, <1>4, <2>1, <2>2, <2>3, <2>4 DEF TypeOK
<1>7. CASE Reorganize(b)
  <2>1. /\ pindexBest' \in Chain[b] /\ pindexBest' \in Block
        /\ txindex' \in IndexType /\ mapWallet' \in WalletType /\ InChain'
        /\ vResurrect' = LooseOfAll(vDisconnect(pindexBest, pindexBest'))
        /\ vDelete' = TxOfAll(vConnect(pindexBest, pindexBest'))
    BY <1>7, ReorganizeFacts
  <2>2. pindexBest \in Block
    BY DEF TypeOK, ChainType
  <2>3. vResurrect' \in Lists
    <3>1. PICK v \in Seq(Block) : v = vDisconnect(pindexBest, pindexBest')
      BY <2>1, <2>2, WayDown
    <3> QED BY <2>1, <3>1, LooseOfAllFacts
  <2>4. vDelete' \in Lists
    <3>1. PICK v \in Seq(Block) : v = vConnect(pindexBest, pindexBest')
      BY <2>1, <2>2, WayUp
    <3> QED BY <2>1, <3>1, TxOfAllFacts
  <2>5. PoolType'
    BY <1>7 DEF Reorganize, TypeOK, PoolType, pool
  <2>6. ChainType'
    BY <1>3, <2>1 DEF ChainType, IndexType, WalletType
  <2>7. LoopType'
    BY <1>7, <2>3, <2>4 DEF Reorganize, TypeOK, LoopType, PCs, Lists, txloop, miner
  <2> QED BY <1>3, <1>4, <2>1, <2>5, <2>6, <2>7 DEF TypeOK
<1>8. CASE ReorganizeFails(b)
  <2>1. mapWallet' \in WalletType /\ InChain'
    BY <1>8, ReorganizeFailsFacts
  <2>2. PoolType' /\ LoopType'
    BY <1>8 DEF ReorganizeFails, TypeOK, PoolType, LoopType, pool, reorg, txloop, miner
  <2>3. ChainType'
    BY <1>3, <1>8, <2>1 DEF ReorganizeFails, TypeOK, ChainType, WalletType
  <2> QED BY <1>3, <1>4, <2>1, <2>2, <2>3 DEF TypeOK
<1> QED BY <1>1, <1>5, <1>6, <1>7, <1>8

\* Nothing but blocks changes the chain; a transaction that the wallet hears of
\* when it enters the pool is not in the chain.
LEMMA OtherSteps ==
  ASSUME TypeOK, Rooted, InChain, TxMessage \/ OrphanLoop \/ ReorgLoop \/ Miner
  PROVE  Rooted' /\ InChain'
<1>1. UNCHANGED <<chain, history>>
  BY DEF TxMessage, ReceiveTx, HoldOrphan, SendRawTransaction, OrphanLoop, NextInQueue, EraseOrphans,
         AcceptOrphan, RefuseOrphan, ReorgLoop, Resurrect, ResurrectDone, DeleteRedundant,
         ReorganizeDone, Miner, ReadBest, StartCollecting, Pick, Collected
<1>2. Rooted' /\ pindexBest' = pindexBest /\ txindex' = txindex /\ aborted' = aborted
  BY <1>1 DEF Rooted, chain, history
<1>3. Current'.idx = Current.idx /\ Current.wallet = mapWallet /\ Current'.wallet = mapWallet'
  BY <1>2 DEF Current, Work
<1>4. InForce(Current', pindexBest')
  BY <1>2, <1>3 DEF InChain, InForce
<1>5. ASSUME Followed(Current, pindexBest) PROVE Followed(Current', pindexBest')
  <2>1. CASE mapWallet' = mapWallet
    BY <1>2, <1>3, <1>5, <2>1 DEF Followed
  <2>2. CASE mapWallet' # mapWallet
    <3>1. PICK t \in Tx : Acceptable(t) /\ mapWallet' = SyncWithWallets(mapWallet, t, Loose)
      BY <2>2 DEF TxMessage, ReceiveTx, HoldOrphan, SendRawTransaction, OrphanLoop, NextInQueue,
         EraseOrphans, AcceptOrphan, RefuseOrphan, ReorgLoop, Resurrect, ResurrectDone,
         DeleteRedundant, ReorganizeDone, Miner, ReadBest, StartCollecting, Pick, Collected
    <3>2. t \notin TxIn(pindexBest)
      <4>1. txindex[t] = NoEntry /\ IndexIs(txindex, TxIn(pindexBest))
        BY <3>1 DEF Acceptable, InChain, InForce, Current, Work
      <4> QED BY <4>1 DEF IndexIs
    <3>3. mapWallet \in WalletType /\ TxIn(pindexBest) \subseteq Tx
      BY TxTypes DEF TypeOK, ChainType, WalletType
    <3>4. \A u \in TxIn(pindexBest) : mapWallet'[u] = mapWallet[u]
      BY <3>1, <3>2, <3>3, SyncType
    <3> QED BY <1>2, <1>3, <1>5, <3>4 DEF Followed
  <2> QED BY <2>1, <2>2
<1> QED BY <1>2, <1>4, <1>5 DEF InChain

-----------------------------------------------------------------------------
(* The pool and the chain.                                                 *)

\* The three parts of the invariant that are about the pool.
PoolInv == PoolApartFromChain /\ Lingers /\ PoolConnectsAtFirst

\* The transactions of the best chain, by the name the lemmas on the index use.
LEMMA ChainTxIs == ChainTx = TxIn(pindexBest) /\ ChainTx' = TxIn(pindexBest')
BY DEF ChainTx, Connected, TxIn

\* The index has exactly the transactions of the chain.
LEMMA InIndex ==
  ASSUME InChain, NEW t \in Tx
  PROVE  txindex[t] # NoEntry <=> t \in TxIn(pindexBest)
<1>1. IndexIs(txindex, TxIn(pindexBest))
  BY DEF InChain, InForce, Current, Work
<1> QED BY <1>1 DEF IndexIs

\* A transaction is accepted.
LEMMA AcceptKeeps ==
  ASSUME InChain, PoolInv, NEW t \in Tx, Acceptable(t), AddUnchecked(t),
         pc \in {"idle", "tx"}, pc' \in {"idle", "tx"}, UNCHANGED <<chain, history>>
  PROVE  PoolInv'
<1>1. mapTx' = mapTx \cup {t} /\ pindexBest' = pindexBest /\ txindex' = txindex /\ reorganized' = reorganized
  BY DEF AddUnchecked, chain, history
<1>2. t \notin TxIn(pindexBest)
  BY InIndex DEF Acceptable
<1>3. PoolApartFromChain'
  BY <1>1, <1>2, ChainTxIs DEF PoolInv, PoolApartFromChain
<1>4. Lingers'
  BY DEF Lingers
<1>5. PoolConnectsAtFirst'
  <2> SUFFICES ASSUME ~reorganized, NEW u \in mapTx \cup {t} PROVE ~InputsMissing(txindex, mapTx \cup {t}, u)
    BY <1>1 DEF PoolConnectsAtFirst
  <2>1. ~InputsMissing(txindex, mapTx, u)
    BY DEF PoolInv, PoolConnectsAtFirst, Acceptable
  <2> QED BY <2>1 DEF InputsMissing
<1> QED BY <1>3, <1>4, <1>5 DEF PoolInv

\* Neither the pool nor the chain changes, outside the loops of Reorganize.
LEMMA QuietKeeps ==
  ASSUME PoolInv, pc \in {"idle", "tx", "collect"}, pc' \in {"idle", "tx", "collect"},
         UNCHANGED <<pindexBest, txindex, pool, reorganized>>
  PROVE  PoolInv'
<1>1. PoolApartFromChain'
  BY ChainTxIs DEF PoolInv, PoolApartFromChain, pool
<1>2. Lingers'
  BY DEF Lingers
<1>3. PoolConnectsAtFirst'
  BY DEF PoolInv, PoolConnectsAtFirst, pool
<1> QED BY <1>1, <1>2, <1>3 DEF PoolInv

\* A block extends the best chain, and its transactions leave the pool.
LEMMA ExtendKeepsPool ==
  ASSUME TypeOK, Rooted, InChain, PoolInv, NEW b \in Block, ExtendBest(b)
  PROVE  PoolInv'
<1>1. /\ mapTx' = mapTx \ TxOf(b) /\ pc = "idle" /\ pc' = "idle" /\ reorganized' = reorganized
      /\ mapTx \subseteq Tx
  BY DEF ExtendBest, Arrives, RemoveSet, history, TypeOK, PoolType
<1>2. pindexBest' = b /\ b \in Block \ {Genesis} /\ Parent[b] = pindexBest /\ InChain'
  BY ExtendFacts
<1>3. TxIn(b) = TxIn(pindexBest) \cup TxOf(b)
  BY <1>2, ParentFacts
<1>4. PoolApartFromChain'
  BY <1>1, <1>2, <1>3, ChainTxIs DEF PoolInv, PoolApartFromChain
<1>5. Lingers'
  BY <1>1 DEF Lingers
<1>6. PoolConnectsAtFirst'
  <2> SUFFICES ASSUME ~reorganized, NEW t \in mapTx', NEW o \in vin[t], txindex'[o[1]] = NoEntry
               PROVE  o[1] \in mapTx'
    BY <1>1 DEF PoolConnectsAtFirst, InputsMissing
  <2>1. t \in mapTx /\ t \in Tx
    BY <1>1
  <2>2. o[1] \in Tx
    BY <2>1, TxAssumption
  <2>3. IndexIs(txindex', TxIn(b))
    BY <1>2 DEF InChain, InForce, Current, Work
  <2>4. o[1] \notin TxIn(b)
    BY <2>2, <2>3 DEF IndexIs
  <2>5. txindex[o[1]] = NoEntry
    BY <1>3, <2>2, <2>4, InIndex
  <2>6. o[1] \in mapTx
    BY <1>1, <2>1, <2>5 DEF PoolInv, PoolConnectsAtFirst, InputsMissing
  <2> QED BY <1>1, <1>3, <2>4, <2>6
<1> QED BY <1>4, <1>5, <1>6 DEF PoolInv

\* The chain is reorganised: what the pool may have in common with the new chain
\* is to be deleted.
LEMMA ReorganizeKeepsPool ==
  ASSUME TypeOK, Rooted, InChain, PoolInv, NEW b \in Block, Reorganize(b)
  PROVE  PoolInv'
<1>1. mapTx' = mapTx /\ pc = "idle" /\ pc' = "resurrect" /\ reorganized' = TRUE
  BY DEF Reorganize, IsFork, Arrives, pool
<1>2. /\ pindexBest' \in Block /\ pindexBest \in Block /\ Sane(pindexBest)
      /\ vResurrect' = LooseOfAll(vDisconnect(pindexBest, pindexBest'))
      /\ vDelete' = TxOfAll(vConnect(pindexBest, pindexBest'))
  BY ReorganizeFacts DEF InChain, InForce, TypeOK, ChainType
<1>3. PICK c \in Block : c = pindexBest'
  BY <1>2
<1>4. mapTx \cap TxIn(pindexBest) = {}
  BY <1>1, ChainTxIs DEF PoolInv, PoolApartFromChain
<1>5. ASSUME NEW t \in mapTx \cap TxIn(c) PROVE t \in ToSet(vDelete')
  <2>1. t \notin TxIn(Fork(pindexBest, c))
    BY <1>2, <1>4, ForkIsShared
  <2> QED BY <1>2, <1>3, <2>1, SharedOrDeleted
<1>6. ASSUME NEW t \in ToSet(vResurrect') \cap TxIn(c) PROVE t \in ToSet(vDelete')
  <2>1. t \notin TxIn(Fork(pindexBest, c))
    BY <1>2, <1>3, LooseIsAbove
  <2> QED BY <1>2, <1>3, <2>1, SharedOrDeleted
<1>7. Lingers'
  BY <1>1, <1>3, <1>5, <1>6 DEF Lingers
<1> QED BY <1>1, <1>7 DEF PoolInv, PoolApartFromChain, PoolConnectsAtFirst

\* The loops of Reorganize.
LEMMA ReorgLoopKeepsPool ==
  ASSUME TypeOK, PoolInv, ReorgLoop
  PROVE  PoolInv'
<1>1. UNCHANGED <<chain, history>> /\ pc \in {"resurrect", "delete"}
  BY DEF ReorgLoop, Resurrect, ResurrectDone, DeleteRedundant, ReorganizeDone
<1>2. pindexBest' = pindexBest /\ txindex' = txindex /\ reorganized' = reorganized
  BY <1>1 DEF chain, history
<1>3. /\ reorganized /\ mapTx \cap TxIn(pindexBest) \subseteq ToSet(vDelete)
      /\ pc = "resurrect" => ToSet(vResurrect) \cap TxIn(pindexBest) \subseteq ToSet(vDelete)
  BY <1>1 DEF PoolInv, Lingers
<1>4. PoolConnectsAtFirst'
  BY <1>2, <1>3 DEF PoolConnectsAtFirst
<1>5. CASE Resurrect
  <2>1. PICK t : t = Head(vResurrect)
    OBVIOUS
  <2>2. /\ pc = "resurrect" /\ pc' = "resurrect" /\ vDelete' = vDelete
        /\ vResurrect # <<>> /\ vResurrect' = Tail(vResurrect) /\ vResurrect \in Seq(Tx)
    BY <1>5 DEF Resurrect, TypeOK, LoopType
  <2>3. t \in ToSet(vResurrect) /\ ToSet(vResurrect') \subseteq ToSet(vResurrect)
    BY <2>1, <2>2 DEF ToSet
  <2>4. mapTx' \subseteq mapTx \cup {t}
    BY <1>5, <2>1 DEF Resurrect, AddUnchecked, pool
  <2>5. Lingers'
    BY <1>2, <1>3, <2>2, <2>3, <2>4 DEF Lingers
  <2> QED BY <1>4, <2>2, <2>5 DEF PoolInv, PoolApartFromChain
<1>6. CASE ResurrectDone
  <2>1. pc' = "delete" /\ mapTx' = mapTx /\ vDelete' = vDelete
    BY <1>6 DEF ResurrectDone, pool, reorg
  <2> QED BY <1>2, <1>3, <1>4, <2>1 DEF PoolInv, PoolApartFromChain, Lingers
<1>7. CASE DeleteRedundant
  <2>1. PICK t : t = Head(vDelete)
    OBVIOUS
  <2>2. /\ pc = "delete" /\ pc' = "delete" /\ vDelete # <<>> /\ vDelete' = Tail(vDelete)
        /\ vDelete \in Seq(Tx)
    BY <1>7 DEF DeleteRedundant, TypeOK, LoopType
  <2>3. mapTx' \subseteq mapTx /\ t \notin mapTx'
    BY <1>7, <2>1 DEF DeleteRedundant, RemoveSet, Redundant
  <2>4. ToSet(vDelete) \subseteq ToSet(vDelete') \cup {t}
    <3> SUFFICES ASSUME NEW i \in 1 .. Len(vDelete), i # 1 PROVE vDelete[i] \in ToSet(vDelete')
      BY <2>1, <2>2 DEF ToSet
    <3>1. PICK v \in Seq(Tx) : v = vDelete'
      BY <2>2
    <3>2. PICK k \in 1 .. Len(v) : k = i - 1
      BY <2>2, <3>1
    <3>3. v[k] = vDelete[i]
      BY <2>2, <3>1, <3>2
    <3> QED BY <3>1, <3>2, <3>3 DEF ToSet
  <2>5. Lingers'
    BY <1>2, <1>3, <2>2, <2>3, <2>4 DEF Lingers
  <2> QED BY <1>4, <2>2, <2>5 DEF PoolInv, PoolApartFromChain
<1>8. CASE ReorganizeDone
  <2>1. pc' = "idle" /\ mapTx' = mapTx /\ vDelete = <<>>
    BY <1>8 DEF ReorganizeDone, pool
  <2>2. ToSet(vDelete) = {}
    BY <2>1 DEF ToSet
  <2>3. PoolApartFromChain'
    BY <1>2, <1>3, <2>1, <2>2, ChainTxIs DEF PoolApartFromChain
  <2> QED BY <1>4, <2>1, <2>3 DEF PoolInv, Lingers
<1> QED BY <1>5, <1>6, <1>7, <1>8 DEF ReorgLoop

\* Every step keeps pool and chain in step.
LEMMA PoolSteps ==
  ASSUME TypeOK, Rooted, InChain, PoolInv, Next
  PROVE  PoolInv'
<1>1. CASE TxMessage
  <2>1. PICK t \in Tx : ReceiveTx(t) \/ HoldOrphan(t) \/ SendRawTransaction(t)
    BY <1>1 DEF TxMessage
  <2>2. CASE ReceiveTx(t) \/ SendRawTransaction(t)
    <3>1. /\ Acceptable(t) /\ AddUnchecked(t) /\ UNCHANGED <<chain, history>>
          /\ pc \in {"idle", "tx"} /\ pc' \in {"idle", "tx"}
      BY <2>2 DEF ReceiveTx, SendRawTransaction
    <3> QED BY <3>1, AcceptKeeps
  <2>3. CASE HoldOrphan(t)
    BY <2>3, QuietKeeps DEF HoldOrphan, chain, history
  <2> QED BY <2>1, <2>2, <2>3
<1>2. CASE OrphanLoop
  <2>1. CASE NextInQueue \/ EraseOrphans
    BY <2>1, QuietKeeps DEF NextInQueue, EraseOrphans, chain, history
  <2>2. ASSUME NEW t \in Tx, AcceptOrphan(t) PROVE PoolInv'
    <3>1. /\ Acceptable(t) /\ AddUnchecked(t) /\ UNCHANGED <<chain, history>>
          /\ pc \in {"idle", "tx"} /\ pc' \in {"idle", "tx"}
      BY <2>2 DEF AcceptOrphan
    <3> QED BY <3>1, AcceptKeeps
  <2>3. ASSUME NEW t \in Tx, RefuseOrphan(t) PROVE PoolInv'
    BY <2>3, QuietKeeps DEF RefuseOrphan, chain, history
  <2> QED BY <1>2, <2>1, <2>2, <2>3 DEF OrphanLoop
<1>3. CASE BlockMessage
  <2>1. PICK b \in Block : \/ IndexBlock(b) \/ ExtendBest(b) \/ ExtendFails(b)
                           \/ Reorganize(b) \/ ReorganizeFails(b)
    BY <1>3 DEF BlockMessage
  <2>2. CASE ExtendBest(b)
    BY <2>2, ExtendKeepsPool
  <2>3. CASE Reorganize(b)
    BY <2>3, ReorganizeKeepsPool
  <2>4. CASE IndexBlock(b) \/ ExtendFails(b) \/ ReorganizeFails(b)
    <3>1. pc = "idle" /\ pc' = "idle" /\ UNCHANGED <<pindexBest, txindex, pool, reorganized>>
      BY <2>4 DEF IndexBlock, ExtendFails, ReorganizeFails, IsFork, Arrives, history
    <3> QED BY <3>1, QuietKeeps
  <2> QED BY <2>1, <2>2, <2>3, <2>4
<1>4. CASE ReorgLoop
  BY <1>4, ReorgLoopKeepsPool
<1>5. CASE Miner
  <2>1. /\ pc \in {"idle", "tx", "collect"} /\ pc' \in {"idle", "tx", "collect"}
        /\ UNCHANGED <<pindexBest, txindex, pool, reorganized>>
    BY <1>5 DEF Miner, ReadBest, StartCollecting, Pick, Collected, chain, history
  <2> QED BY <2>1, QuietKeeps
<1> QED BY <1>1, <1>2, <1>3, <1>4, <1>5 DEF Next

-----------------------------------------------------------------------------
(* What CreateNewBlock picks.                                              *)

\* With nothing picked there is nothing that could fail to connect.
LEMMA NothingPicked ==
  ASSUME NEW idx \in IndexType, NEW w \in WalletType, NEW b \in Block
  PROVE  /\ ConnectAll(Work(TRUE, idx, w), <<>>, Memory, b, Height[b] + 1).ok
         /\ ConnectAll(Work(TRUE, idx, w), <<>>, Memory, b, Height[b] + 1).idx = idx
         /\ FoldLeft(AddToTestPool, idx, <<>>) = idx
<1>1. Memory \in Place
  BY DEF Place
<1>2. PICK n \in Nat : n = Height[b] + 1
  BY TreeAssumption
<1>3. PICK q \in WorkType : q = Work(TRUE, idx, w)
  BY DEF Work, WorkType
<1>4. ConnectAll(q, <<>>, Memory, b, n) = q
  BY <1>1, ConnectAllMore
<1>5. q.ok /\ q.idx = idx
  BY <1>3 DEF Work
<1>6. FoldLeft(AddToTestPool, idx, <<>>) = idx
  BY TestPoolMore
<1> QED BY <1>2, <1>3, <1>4, <1>5, <1>6

\* Maturity only grows with the height.
LEMMA StillConnects ==
  ASSUME NEW idx, NEW t \in Tx, NEW tip \in Block, NEW h \in Nat, ConnectsInputs(idx, t, tip, h),
         NEW n \in Nat, n = h + 1
  PROVE  ConnectsInputs(idx, t, tip, n)
<1>1. ASSUME NEW o \in vin[t], Immature(idx, o, tip, n) PROVE FALSE
  <2>1. PICK a \in Chain[tip] : a = idx[o[1]].pos /\ n - Height[a] < Maturity
    BY <1>1 DEF Immature
  <2>2. Height[a] \in Nat /\ Maturity \in Nat
    BY TreeAssumption, TxAssumption
  <2>3. h - Height[a] < Maturity
    BY <2>1, <2>2
  <2>4. Immature(idx, o, tip, h)
    BY <1>1, <2>1, <2>3 DEF Immature
  <2> QED BY <2>4 DEF ConnectsInputs
<1> QED BY <1>1 DEF ConnectsInputs

\* One more transaction is picked: the checks of ConnectBlock on it are those that
\* CreateNewBlock made, one block further.
LEMMA OneMorePicked ==
  ASSUME StepInv, TypeOK', NEW t \in Tx, Pick(t), pindexPrev = pindexBest
  PROVE  Template'.ok /\ Template'.idx = TestPool'
<1>1. /\ pc = "collect" /\ t \in mapTx /\ ~InputsMissing(TestPool, {}, t) /\ pblock' = Append(pblock, t)
      /\ ConnectsInputs(TestPool, t, pindexBest, Height[pindexBest])
  BY DEF Pick, Pickable
<1>2. pindexBest' = pindexBest /\ txindex' = txindex /\ mapWallet' = mapWallet
  BY DEF Pick, chain
<1>3. pindexBest \in Block /\ Memory \in Place /\ txindex \in IndexType /\ pblock \in Seq(Tx)
  BY DEF StepInv, TypeOK, ChainType, LoopType, Place, IndexType
<1>4. PICK h \in Nat : h = Height[pindexBest]
  BY <1>3, TreeAssumption
<1>5. PICK n \in Nat : n = h + 1
  BY <1>4
<1>6. PICK q \in WorkType : q = Current /\ q.idx = txindex
  BY CurrentType DEF StepInv
<1>7. Current' = q
  BY <1>2, <1>6 DEF Current
<1>8. PICK r : r = ConnectAll(q, pblock, Memory, pindexBest, n)
  OBVIOUS
<1>9. r.ok /\ r.idx = TestPool
  BY <1>4, <1>5, <1>6, <1>8 DEF StepInv, Collects, Template
<1>10. Template' = ConnectTx(q.idx, Memory, pindexBest, n, r, t)
  <2>1. ConnectAll(q, Append(pblock, t), Memory, pindexBest, n) =
           ConnectTx(q.idx, Memory, pindexBest, n, r, t)
    BY <1>3, <1>8, ConnectAllMore
  <2> QED BY <1>1, <1>2, <1>4, <1>5, <1>7, <2>1 DEF Template
<1>11. q.idx[t] = NoEntry
  <2>1. t \notin TxIn(pindexBest)
    BY <1>1, ChainTxIs DEF StepInv, PoolApartFromChain
  <2> QED BY <1>6, <2>1, InIndex DEF StepInv
<1>12. ~InputsMissing(r.idx, {}, t) /\ ConnectsInputs(r.idx, t, pindexBest, n)
  BY <1>1, <1>3, <1>4, <1>5, <1>9, StillConnects
<1>13. Template' = Work(TRUE, Enter(r.idx, t, Memory), r.wallet)
  BY <1>9, <1>10, <1>11, <1>12 DEF ConnectTx
<1>14. TestPool' = AddToTestPool(TestPool, t)
  BY <1>1, <1>2, <1>3, TestPoolMore DEF TestPool
<1>15. Template'.ok /\ Template'.idx = Enter(r.idx, t, Memory)
  BY <1>13 DEF Work
<1> QED BY <1>9, <1>14, <1>15 DEF AddToTestPool

\* Every step keeps what was picked connected.
LEMMA CollectSteps ==
  ASSUME StepInv, TypeOK', Next
  PROVE  Collects'
<1>1. ASSUME pblock' = <<>> PROVE Collects'
  <2>1. txindex' \in IndexType /\ mapWallet' \in WalletType /\ pindexBest' \in Block
    BY DEF TypeOK, ChainType, IndexType, WalletType
  <2>2. Template'.ok /\ Template'.idx = txindex' /\ TestPool' = txindex'
    BY <1>1, <2>1, NothingPicked DEF Template, TestPool, Current
  <2> QED BY <1>1, <2>2 DEF Collects
<1>2. CASE pc # "collect"
  <2>1. pblock = <<>>
    BY <1>2 DEF StepInv, Collects
  <2>2. pblock' = pblock
    BY <1>2 DEF Next, TxMessage, ReceiveTx, HoldOrphan, SendRawTransaction, OrphanLoop, NextInQueue,
         EraseOrphans, AcceptOrphan, RefuseOrphan, BlockMessage, IndexBlock, ExtendBest, ExtendFails,
         Reorganize, ReorganizeFails, ReorgLoop, Resurrect, ResurrectDone, DeleteRedundant,
         ReorganizeDone, Miner, ReadBest, StartCollecting, Pick, Collected, miner
  <2> QED BY <1>1, <2>1, <2>2
<1>3. CASE pc = "collect"
  <2>1. (\E t \in Tx : Pick(t)) \/ Collected
    BY <1>3 DEF Next, TxMessage, ReceiveTx, HoldOrphan, SendRawTransaction, OrphanLoop, NextInQueue,
         EraseOrphans, AcceptOrphan, RefuseOrphan, BlockMessage, IndexBlock, ExtendBest, ExtendFails,
         Reorganize, ReorganizeFails, IsFork, Arrives, ReorgLoop, Resurrect, ResurrectDone,
         DeleteRedundant, ReorganizeDone, Miner, ReadBest, StartCollecting
  <2>2. CASE Collected
    BY <1>1, <2>2 DEF Collected
  <2>3. ASSUME NEW t \in Tx, Pick(t) PROVE Collects'
    <3>1. pc' = "collect" /\ pindexPrev' = pindexPrev /\ pindexBest' = pindexBest
      BY <1>3, <2>3 DEF Pick, chain
    <3>2. ASSUME pindexPrev = pindexBest PROVE Template'.ok /\ Template'.idx = TestPool'
      BY <2>3, <3>2, OneMorePicked
    <3> QED BY <3>1, <3>2 DEF Collects
  <2> QED BY <2>1, <2>2, <2>3
<1> QED BY <1>2, <1>3

-----------------------------------------------------------------------------
\* The invariant holds of the genesis chain ...
LEMMA StepInvInit == Init => StepInv
<1> SUFFICES ASSUME Init PROVE StepInv
  OBVIOUS
<1>1. TypeOK
  <2>1. <<>> \in Seq(Tx) /\ Genesis \in Block
    BY TreeAssumption
  <2> QED BY <2>1 DEF Init, TypeOK, PoolType, OrphanType, ChainType, LoopType, PCs
<1>2. Chain[Genesis] = {Genesis}
  BY ChainAssumption
<1>3. TxIn(Genesis) = {}
  BY <1>2 DEF TxIn
<1>4. Rooted
  BY <1>2 DEF Init, Rooted
<1>5. InChain
  <2>1. Current.idx = [t \in Tx |-> NoEntry] /\ pindexBest = Genesis
    BY DEF Init, Current, Work
  <2>2. IndexIs(Current.idx, {})
    BY <2>1 DEF IndexIs
  <2> QED BY <1>2, <1>3, <2>1, <2>2 DEF InChain, InForce, Placed, Sane, Followed
<1>6. PoolApartFromChain /\ Lingers /\ PoolConnectsAtFirst
  BY DEF Init, PoolApartFromChain, Lingers, PoolConnectsAtFirst
<1>7. Collects
  <2>1. txindex \in IndexType /\ mapWallet \in WalletType /\ pindexBest \in Block /\ pblock = <<>>
    BY <1>1 DEF Init, TypeOK, ChainType, IndexType, WalletType
  <2>2. Template.ok /\ Template.idx = txindex /\ TestPool = txindex
    BY <2>1, NothingPicked DEF Template, TestPool, Current
  <2> QED BY <2>1, <2>2 DEF Collects
<1> QED BY <1>1, <1>4, <1>5, <1>6, <1>7 DEF StepInv

\* ... and every step keeps it.
LEMMA StepInvStays == StepInv /\ [Next]_vars => StepInv'
<1> SUFFICES ASSUME StepInv, [Next]_vars PROVE StepInv'
  OBVIOUS
<1>0. TypeOK /\ Rooted /\ InChain /\ PoolInv
  BY DEF StepInv, PoolInv
<1>1. CASE Next
  <2>1. TypeOK' /\ Rooted' /\ InChain'
    <3>1. CASE BlockMessage
      BY <1>0, <3>1, BlockSteps
    <3>2. CASE TxMessage \/ OrphanLoop \/ ReorgLoop \/ Miner
      <4>1. Rooted' /\ InChain'
        BY <1>0, <3>2, OtherSteps
      <4>2. TypeOK'
        BY <1>0, <3>2, TxTypeSteps, LoopTypeSteps
      <4> QED BY <4>1, <4>2
    <3> QED BY <1>1, <3>1, <3>2 DEF Next
  <2>2. PoolInv'
    BY <1>0, <1>1, PoolSteps
  <2>3. Collects'
    BY <1>1, <2>1, CollectSteps
  <2> QED BY <2>1, <2>2, <2>3 DEF StepInv, PoolInv
<1>2. CASE UNCHANGED vars
  <2>1. UNCHANGED <<mapBlockIndex, pindexBest, txindex, mapWallet, mapTx, mapNextTx,
          mapOrphanTransactions, mapOrphanTransactionsByPrev, pc, vWorkQueue, todo, vEraseQueue,
          vResurrect, vDelete, pindexPrev, pblock, reorganized, aborted>>
    BY <1>2 DEF vars, chain, pool, orphans, txloop, reorg, miner, history
  <2>2. TypeOK' /\ Rooted'
    BY <1>0, <2>1 DEF TypeOK, PoolType, OrphanType, ChainType, LoopType, Rooted
  <2>3. Current' = Current
    BY <2>1 DEF Current
  <2>4. InChain'
    BY <1>0, <2>1, <2>3 DEF InChain
  <2>5. PoolApartFromChain' /\ Lingers' /\ PoolConnectsAtFirst'
    BY <1>0, <2>1, ChainTxIs DEF PoolInv, PoolApartFromChain, Lingers, PoolConnectsAtFirst
  <2>6. Template' = Template /\ TestPool' = TestPool
    BY <2>1, <2>3 DEF Template, TestPool
  <2>7. Collects'
    BY <2>1, <2>6 DEF StepInv, Collects
  <2> QED BY <2>2, <2>4, <2>5, <2>7 DEF StepInv
<1> QED BY <1>1, <1>2

\* After any sequence of blocks, reorganisations of any depth and transactions the
\* index is exactly the best chain's, no output is spent twice there, the pool holds
\* nothing that is in the chain, and the wallet knows the block of each of its
\* transactions unless a reorganisation was given up half way.
THEOREM StaysInStep == Spec => []InStep
<1>1. StepInv => InStep
  BY StepInvInStep
<1> QED BY <1>1, StepInvInit, StepInvStays, PTL DEF Spec

\* The block that CreateNewBlock puts together connects on top of the best block,
\* as long as that is the block it was made for.
THEOREM TemplateAlwaysConnects == Spec => []TemplateConnects
<1>1. StepInv => TemplateConnects
  BY StepInvInStep
<1> QED BY <1>1, StepInvInit, StepInvStays, PTL DEF Spec

\* Until the first reorganisation the inputs of every pool transaction are outputs
\* of the chain or of the pool: blocks alone never strand one.
THEOREM PoolConnectsUntilReorganized == Spec => []PoolConnectsAtFirst
<1>1. StepInv => PoolConnectsAtFirst
  BY StepInvInStep
<1> QED BY <1>1, StepInvInit, StepInvStays, PTL DEF Spec
=============================================================================
