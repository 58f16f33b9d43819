--------------------------- MODULE WalletTx_proofs ---------------------------
(***************************************************************************)
(* The wallet follows the chain: what the chain has spent is marked, no    *)
(* transaction of the wallet's is missing and no bean is lost, for any     *)
(* transactions, keys and limits, through reorganisations, those that are  *)
(* aborted, deaths at any write and an old wallet.dat put back.            *)
(*                                                                         *)
(* WInv is the inductive invariant: what the pool and the chain may hold   *)
(* together (Content, Linked), what a wallet that is in step has recorded  *)
(* and marked (Stored), and what a copy of it will have once it is put     *)
(* back and rescanned (Kept).  The loops of the code are folds; the first  *)
(* part shows that a fold is a run of single steps (FoldSteps), so that    *)
(* what every step keeps the fold keeps (UpTo).  Then follow the writes of *)
(* one transaction, of the blocks scanned so far, of the blocks undone in  *)
(* a reorganisation, the turns of ReacceptWalletTransactions, the pool,    *)
(* and the start of the program.  The last part has one lemma per action.  *)
(***************************************************************************)
EXTENDS WalletTx, SequenceTheorems, FiniteSetTheorems, WellFoundedInduction, TLAPS

-----------------------------------------------------------------------------
(* Induction, and folds as runs of steps.                                  *)

\* Every nonempty set of natural numbers has a least one.
LEMMA LeastExists ==
  ASSUME NEW S, S \subseteq Nat, S # {}
  PROVE  \E n \in S : \A m \in S : n <= m
<1> DEFINE R == {ss \in Nat \X Nat : ss[1] < ss[2]}
<1>1. IsWellFoundedOn(R, Nat)
  BY NatLessThanWellFounded DEF OpToRel
<1>2. \E x \in S : \A y \in S : ~ (<<y, x>> \in R)
  <2> HIDE DEF R
  <2> QED BY <1>1, WFMin
<1>3. PICK x \in S : \A y \in S : ~ (y < x)
  BY <1>2
<1> QED BY <1>3

\* Induction up to n, on the set of the numbers for which something holds.
LEMMA UpTo ==
  ASSUME NEW n \in Nat, NEW S, 0 \in S, \A i \in 1 .. n : i - 1 \in S => i \in S
  PROVE  \A i \in 0 .. n : i \in S
<1> SUFFICES ASSUME ~(\A i \in 0 .. n : i \in S) PROVE FALSE
  OBVIOUS
<1> DEFINE B == {i \in 0 .. n : i \notin S}
<1>1. B \subseteq Nat /\ B # {}
  OBVIOUS
<1>2. PICK k \in B : \A m \in B : k <= m
  BY <1>1, LeastExists
<1>3. k \in 0 .. n /\ k # 0 /\ k - 1 \in 0 .. n /\ k - 1 \notin B
  BY <1>2
<1> QED BY <1>2, <1>3

\* A nonempty set of positions has a greatest one, which Max picks.
LEMMA MaxOf ==
  ASSUME NEW n \in Nat, NEW S, S \subseteq 0 .. n, S # {}
  PROVE  Max(S) \in S /\ \A m \in S : m <= Max(S)
<1> DEFINE T == {k \in 0 .. n : n - k \in S}
<1>1. T \subseteq Nat
  OBVIOUS
<1>2. ASSUME NEW m \in S PROVE m \in Int /\ n - m \in T
  <2>1. m \in 0 .. n /\ n - (n - m) = m
    BY <1>2
  <2> QED BY <2>1
<1>3. T # {}
  BY <1>2
<1>4. PICK k \in T : \A m \in T : k <= m
  BY <1>1, <1>3, LeastExists
<1>5. n - k \in S /\ k \in Int
  BY <1>4
<1>6. \A m \in S : n - k >= m
  <2> TAKE m \in S
  <2>1. k <= n - m /\ m \in Int
    BY <1>2, <1>4
  <2> QED BY <1>5, <2>1
<1>7. Max(S) \in S /\ \A m \in S : Max(S) >= m
  BY <1>5, <1>6 DEF Max
<1> QED BY <1>7, <1>2

\* The greatest of the first i positions is i.
LEMMA MaxUpTo ==
  ASSUME NEW i \in Nat \ {0}
  PROVE  Max(1 .. i) = i /\ (1 .. i) \ {i} = 1 .. i - 1 /\ 1 .. i # {}
<1>1. Max(1 .. i) \in 1 .. i /\ \A m \in 1 .. i : m <= Max(1 .. i)
  <2>1. 1 .. i # {} /\ i \in Nat
    OBVIOUS
  <2> QED BY <2>1, MaxOf
<1>2. Max(1 .. i) = i
  <2>1. i \in 1 .. i
    OBVIOUS
  <2>2. i <= Max(1 .. i) /\ Max(1 .. i) <= i /\ Max(1 .. i) \in Int
    BY <1>1, <2>1
  <2> QED BY <2>2
<1>3. \A m : m \in (1 .. i) \ {i} <=> m \in 1 .. i - 1
  OBVIOUS
<1>4. (1 .. i) \ {i} = 1 .. i - 1
  BY <1>3
<1>5. i \in 1 .. i
  OBVIOUS
<1> QED BY <1>2, <1>4, <1>5

\* f is the fold of F over s, from base, on the subsets of 1 .. k, as the Folds
\* module defines it.
Solves(f, k, base, F, s) ==
  \A S \in SUBSET (1 .. k) :
     f[S] = IF S = {} THEN base ELSE F[<<f[S \ {Max(S)}], s[Max(S)]>>]

\* Such a fold exists: by induction on k.
LEMMA FoldExists ==
  ASSUME NEW D, NEW base \in D, NEW E, NEW s \in Seq(E), NEW F \in [D \X E -> D]
  PROVE  \E f \in [SUBSET (1 .. Len(s)) -> D] : Solves(f, Len(s), base, F, s)
<1> DEFINE N == Len(s)
           G == {k \in Nat : \E f \in [SUBSET (1 .. k) -> D] : Solves(f, k, base, F, s)}
<1>1. 0 \in G
  <2>1. 1 .. 0 = {}
    OBVIOUS
  <2> DEFINE f == [S \in SUBSET (1 .. 0) |-> base]
  <2>2. f \in [SUBSET (1 .. 0) -> D]
    OBVIOUS
  <2>3. ASSUME NEW S \in SUBSET (1 .. 0) PROVE f[S] = base /\ S = {}
    BY <2>1
  <2> HIDE DEF f
  <2>4. Solves(f, 0, base, F, s)
    BY <2>3 DEF Solves
  <2> QED BY <2>2, <2>4
<1>2. ASSUME NEW i \in 1 .. N, i - 1 \in G PROVE i \in G
  <2>1. PICK f \in [SUBSET (1 .. i - 1) -> D] : Solves(f, i - 1, base, F, s)
    BY <1>2
  <2> DEFINE g == [S \in SUBSET (1 .. i) |-> IF i \in S THEN F[<<f[S \ {i}], s[i]>>] ELSE f[S]]
  <2>2. s[i] \in E /\ i \in Nat /\ i \in Int
    BY <1>2
  <2>3. ASSUME NEW S \in SUBSET (1 .. i), i \in S PROVE S \ {i} \in SUBSET (1 .. i - 1) /\ Max(S) = i
    <3>0. S \subseteq 0 .. i /\ S # {}
      BY <2>2, <2>3
    <3>1. Max(S) \in S /\ \A m \in S : m <= Max(S)
      BY <2>2, <3>0, MaxOf
    <3>2. Max(S) \in 1 .. i /\ i <= Max(S)
      BY <2>3, <3>1
    <3>3. Max(S) = i
      BY <2>2, <3>2
    <3>4. \A m \in S \ {i} : m \in 1 .. i - 1
      BY <2>2
    <3> QED BY <3>3, <3>4
  <2>4. ASSUME NEW S \in SUBSET (1 .. i), i \notin S PROVE S \in SUBSET (1 .. i - 1)
    BY <2>2, <2>4
  <2>5. g \in [SUBSET (1 .. i) -> D]
    <3>1. ASSUME NEW S \in SUBSET (1 .. i) PROVE (IF i \in S THEN F[<<f[S \ {i}], s[i]>>] ELSE f[S]) \in D
      <4>1. CASE i \in S
        <5>1. f[S \ {i}] \in D
          BY <2>3, <4>1
        <5>2. <<f[S \ {i}], s[i]>> \in D \X E
          BY <2>2, <5>1
        <5> QED BY <4>1, <5>2
      <4>2. CASE i \notin S
        BY <2>4, <4>2
      <4> QED BY <4>1, <4>2
    <3> QED BY <3>1
  <2>6. Solves(g, i, base, F, s)
    <3> SUFFICES ASSUME NEW S \in SUBSET (1 .. i)
                 PROVE  g[S] = IF S = {} THEN base ELSE F[<<g[S \ {Max(S)}], s[Max(S)]>>]
      BY DEF Solves
    <3>1. CASE i \in S
      <4>1. S \ {i} \in SUBSET (1 .. i - 1) /\ Max(S) = i /\ S # {}
        BY <2>3, <3>1
      <4>2. S \ {i} \in SUBSET (1 .. i) /\ i \notin S \ {i}
        OBVIOUS
      <4>3. g[S \ {i}] = f[S \ {i}]
        BY <4>2
      <4>4. g[S] = F[<<f[S \ {i}], s[i]>>]
        BY <3>1
      <4> HIDE DEF g
      <4> QED BY <4>1, <4>3, <4>4
    <3>2. CASE i \notin S
      <4>1. S \in SUBSET (1 .. i - 1)
        BY <2>4, <3>2
      <4>2. f[S] = IF S = {} THEN base ELSE F[<<f[S \ {Max(S)}], s[Max(S)]>>]
        BY <2>1, <4>1 DEF Solves
      <4>3. g[S] = f[S]
        BY <3>2
      <4>4. S \ {Max(S)} \in SUBSET (1 .. i) /\ i \notin S \ {Max(S)}
        BY <3>2
      <4>5. g[S \ {Max(S)}] = f[S \ {Max(S)}]
        BY <4>4
      <4> HIDE DEF g
      <4> QED BY <4>2, <4>3, <4>5
    <3> QED BY <3>1, <3>2
  <2> HIDE DEF g
  <2> QED BY <2>2, <2>5, <2>6
<1>3. N \in Nat
  OBVIOUS
<1>4. \A i \in 0 .. N : i \in G
  <2> HIDE DEF G
  <2> QED BY <1>1, <1>2, <1>3, UpTo
<1>5. N \in 0 .. N
  BY <1>3
<1>6. N \in G
  BY <1>4, <1>5
<1> QED BY <1>6

\* The last element that a set of positions leads to.
LEMMA LastOf ==
  ASSUME NEW E, NEW s \in Seq(E), NEW S \in SUBSET (1 .. Len(s)), S # {}
  PROVE  s[Max(S)] \in E /\ S \ {Max(S)} \in SUBSET (1 .. Len(s))
<1>1. Len(s) \in Nat /\ S \subseteq 0 .. Len(s)
  OBVIOUS
<1>2. Max(S) \in S
  BY <1>1, MaxOf
<1>3. Max(S) \in 1 .. Len(s)
  BY <1>2
<1>4. s[Max(S)] \in E
  BY <1>3
<1> QED BY <1>4

\* h is such a fold as far as its values are in D.
Unfolds(h, base, D, F, s) ==
  /\ h[{}] = base
  /\ \A S \in SUBSET (1 .. Len(s)) :
        S # {} /\ h[S \ {Max(S)}] \in D => h[S] = F[<<h[S \ {Max(S)}], s[Max(S)]>>]

\* r is the fold of F over s step by step, from base to last.
Run(r, base, last, F, s) ==
  /\ r[0] = base /\ r[Len(s)] = last
  /\ \A i \in 1 .. Len(s) : r[i] = F[<<r[i - 1], s[i]>>]

\* A fold, one element at a time.
LEMMA FoldSteps ==
  ASSUME NEW D, NEW q \in D, NEW E, NEW s \in Seq(E), NEW F \in [D \X E -> D],
         NEW h, Unfolds(h, q, D, F, s)
  PROVE  \E r \in [0 .. Len(s) -> D] : Run(r, q, h[1 .. Len(s)], F, s)
<1>0. Len(s) \in Nat
  OBVIOUS
<1>1. 1 .. 0 = {}
  OBVIOUS
<1>2. ASSUME NEW i \in 1 .. Len(s), h[1 .. i - 1] \in D
      PROVE  h[1 .. i] = F[<<h[1 .. i - 1], s[i]>>]
  <2>1. Max(1 .. i) = i /\ (1 .. i) \ {i} = 1 .. i - 1 /\ 1 .. i # {}
    BY SMTT(30), MaxUpTo
  <2>2. 1 .. i \in SUBSET (1 .. Len(s))
    BY <1>0
  <2> QED BY <1>2, <2>1, <2>2 DEF Unfolds
<1> DEFINE G == {j \in 0 .. Len(s) : h[1 .. j] \in D}
<1>3. 0 \in G
  BY <1>0, <1>1 DEF Unfolds
<1>4. ASSUME NEW i \in 1 .. Len(s), i - 1 \in G PROVE i \in G
  <2>1. h[1 .. i - 1] \in D /\ s[i] \in E
    BY <1>4
  <2>2. <<h[1 .. i - 1], s[i]>> \in D \X E
    BY <2>1
  <2> QED BY <1>2, <2>1, <2>2
<1> HIDE DEF G
<1>5. \A i \in 0 .. Len(s) : i \in G
  BY <1>0, <1>3, <1>4, UpTo
<1>6. \A i \in 0 .. Len(s) : h[1 .. i] \in D
  BY <1>5 DEF G
<1> DEFINE r == [i \in 0 .. Len(s) |-> h[1 .. i]]
<1>7. r \in [0 .. Len(s) -> D] /\ r[0] = q /\ r[Len(s)] = h[1 .. Len(s)]
  BY <1>0, <1>1, <1>6 DEF Unfolds
<1>8. ASSUME NEW i \in 1 .. Len(s) PROVE r[i] = F[<<r[i - 1], s[i]>>]
  BY <1>2, <1>6
<1> HIDE DEF r
<1>9. Run(r, q, h[1 .. Len(s)], F, s)
  BY <1>7, <1>8 DEF Run
<1> QED BY <1>7, <1>9

-----------------------------------------------------------------------------
\* A chain's content.
Content == Tx \cup {None}

\* A wallet by its type: only beans of its own are marked as spent, those it has.
WalletType == [tx : SUBSET Tx, spent : SUBSET Mine, block : [Tx -> Seq(Content)],
               prev : [Tx -> Seq(Content)], best : Seq(Content)]

\* A chain as CanConnect builds it: no transaction twice, none before its inputs, and
\* no output spent twice.
Linked(c) ==
  /\ c \in Seq(Content) /\ c # <<>> /\ c[1] = First
  /\ \A i, j \in DOMAIN c : c[i] = c[j] /\ c[i] # None => i = j
  /\ \A i \in DOMAIN c : c[i] # None =>
       \A u \in Spends[c[i]] : \E j \in DOMAIN c : j < i /\ c[j] = u
  /\ \A i, j \in DOMAIN c : c[i] # None /\ c[j] # None /\ i # j => Spends[c[i]] \cap Spends[c[j]] = {}

\* The wallet is concerned: t pays to it or spends from it.
Concerns(t) == t # None /\ (t \in Mine \/ Spends[t] \cap Mine # {})

\* Of the i-th block of c: the wallet has its transaction ...
HasAt(w, c, i) == Concerns(c[i]) => c[i] \in w.tx
\* ... knows that it is there ...
KnowsAt(w, c, i) == Concerns(c[i]) => w.block[c[i]] = SubSeq(c, 1, i)
\* ... has what it spends marked ...
MarkedAt(w, c, i) == c[i] # None => Spends[c[i]] \cap Mine \subseteq w.spent
\* ... and has its output marked only if there is a reason for it.
ReasonAt(w, c, i) == c[i] \in w.spent =>
                       \E u \in w.tx : c[i] \in Spends[u] /\ (u \in Sprout => u \in InChain(c))

\* The same of all blocks, but for the transactions of T.
Has(w, c)       == \A i \in DOMAIN c : HasAt(w, c, i)
Knows(w, c, T)  == \A i \in DOMAIN c : c[i] \in T \/ KnowsAt(w, c, i)
Marked(w, c, T) == \A i \in DOMAIN c : c[i] # None => (Spends[c[i]] \cap Mine) \ T \subseteq w.spent
Reason(w, c, T) == \A i \in DOMAIN c : c[i] \in T \/ ReasonAt(w, c, i)

\* q has marked what w has of the inputs of the i-th block.
KeepsAt(w, q, c, i) == c[i] # None => Spends[c[i]] \cap Mine \cap w.spent \subseteq q.spent

\* A wallet.dat: it has what concerns it up to its best block.
Stored(w) == /\ w \in WalletType /\ w.spent \subseteq w.tx
             /\ w.best # <<>> /\ w.best[1] = First /\ Has(w, w.best)

Kept == \/ backup \in {<<>>, <<"restored">>}
        \/ /\ backup = <<backup[1], backup[2]>>
           /\ Stored(backup[1]) /\ Knows(backup[1], backup[1].best, backup[2])

StaleType == [unmarked : SUBSET Tx, marked : SUBSET Tx, moved : SUBSET Tx]

WInv == /\ TypeOK /\ Linked(chain) /\ Stored(wallet) /\ Kept
        /\ up => Has(wallet, chain) /\ Marked(wallet, chain, stale.unmarked)
        /\ Knows(wallet, chain, stale.moved)
        /\ Reason(wallet, chain, stale.marked)

-----------------------------------------------------------------------------
(* The loops of the model, as runs of steps.                               *)

\* One write to wallet.dat.
OpType == [write : {"record", "inputs", "outputs", "refund"}, tx : Tx, block : Seq(Content)]

\* A write leaves a wallet of the type.
LEMMA WriteType ==
  ASSUME NEW w \in WalletType, NEW op \in OpType
  PROVE  Write(w, op) \in WalletType
<1>1. op.tx \in Tx /\ op.block \in Seq(Content)
  BY DEF OpType
<1>2. Record(w, op.tx, op.block) \in WalletType
  BY <1>1 DEF Record, WalletType
<1>3. /\ MarkInputs(w, op.tx) \in WalletType /\ MarkOutputsUnspent(w, op.tx) \in WalletType
      /\ Refund(w, op.tx) \in WalletType
  BY <1>1 DEF MarkInputs, MarkOutputsUnspent, Refund, WalletType
<1>4. op.write \in {"record", "inputs", "outputs", "refund"}
  BY DEF OpType
<1> QED BY <1>2, <1>3, <1>4 DEF Write

\* The writes of a handler, one by one.
LEMMA WriteSteps ==
  ASSUME NEW w \in WalletType, NEW s \in Seq(OpType)
  PROVE  \E r \in [0 .. Len(s) -> WalletType] :
           /\ r[0] = w /\ r[Len(s)] = Written(w, s)
           /\ \A i \in 1 .. Len(s) : r[i] = Write(r[i - 1], s[i])
<1> DEFINE F == [z \in (WalletType) \X (OpType) |-> Write(z[1], z[2])]
           P(f) == f = [S \in SUBSET DOMAIN s |->
                          IF S = {} THEN w ELSE LET x == Max(S) IN Write(f[S \ {x}], s[x])]
           h == CHOOSE f : P(f)
<1>0. DOMAIN s = 1 .. Len(s) /\ \A x \in WalletType : \A y \in OpType : F[<<x, y>>] = Write(x, y)
  OBVIOUS
<1>1. F \in [(WalletType) \X (OpType) -> WalletType]
  BY WriteType
<1> HIDE DEF F
<1>2. PICK g \in [SUBSET (1 .. Len(s)) -> WalletType] : Solves(g, Len(s), w, F, s)
  BY <1>1, FoldExists
<1>3. P(g)
  <2>1. ASSUME NEW S \in SUBSET (1 .. Len(s))
        PROVE  g[S] = IF S = {} THEN w ELSE Write(g[S \ {Max(S)}], s[Max(S)])
    <3>1. ASSUME S # {} PROVE g[S \ {Max(S)}] \in WalletType /\ s[Max(S)] \in OpType
      BY <3>1, LastOf
    <3> QED BY <1>0, <1>2, <3>1 DEF Solves
  <2> QED BY <1>0, <2>1
<1>4. P(h)
  <2> HIDE DEF P
  <2> QED BY <1>3
<1>5. Written(w, s) = h[1 .. Len(s)]
  BY <1>0 DEF Written, FoldLeft, MapThenFoldSet
<1> HIDE DEF h
<1>6. ASSUME NEW S \in SUBSET (1 .. Len(s))
      PROVE  h[S] = IF S = {} THEN w ELSE Write(h[S \ {Max(S)}], s[Max(S)])
  BY <1>0, <1>4
<1> HIDE DEF P
<1>7. ASSUME NEW S \in SUBSET (1 .. Len(s)), S # {}, h[S \ {Max(S)}] \in WalletType
      PROVE  h[S] = F[<<h[S \ {Max(S)}], s[Max(S)]>>]
  <2>1. s[Max(S)] \in OpType
    BY <1>7, LastOf
  <2> QED BY <1>0, <1>6, <1>7, <2>1
<1>8. PICK r \in [0 .. Len(s) -> WalletType] :
        /\ r[0] = w /\ r[Len(s)] = h[1 .. Len(s)]
        /\ \A i \in 1 .. Len(s) : r[i] = F[<<r[i - 1], s[i]>>]
  <2>1. Unfolds(h, w, WalletType, F, s)
    BY <1>6, <1>7 DEF Unfolds
  <2>2. PICK r \in [0 .. Len(s) -> WalletType] : Run(r, w, h[1 .. Len(s)], F, s)
    BY <1>1, <2>1, FoldSteps
  <2> QED BY <2>2 DEF Run
<1>9. ASSUME NEW i \in 1 .. Len(s) PROVE r[i] = Write(r[i - 1], s[i])
  <2>1. r[i - 1] \in WalletType /\ s[i] \in OpType
    OBVIOUS
  <2> QED BY <1>0, <1>8, <2>1
<1> QED BY <1>5, <1>8, <1>9

\* Sequences joined, one by one.
LEMMA JoinSteps ==
  ASSUME NEW D, <<>> \in D, \A x, y \in D : Join(x, y) \in D, NEW s \in Seq(D)
  PROVE  \E r \in [0 .. Len(s) -> D] :
           /\ r[0] = <<>> /\ r[Len(s)] = Joined(s)
           /\ \A i \in 1 .. Len(s) : r[i] = Join(r[i - 1], s[i])
<1> DEFINE F == [z \in (D) \X (D) |-> Join(z[1], z[2])]
           P(f) == f = [S \in SUBSET DOMAIN s |->
                          IF S = {} THEN <<>> ELSE LET x == Max(S) IN Join(f[S \ {x}], s[x])]
           h == CHOOSE f : P(f)
<1>0. DOMAIN s = 1 .. Len(s) /\ \A x \in D : \A y \in D : F[<<x, y>>] = Join(x, y)
  OBVIOUS
<1>1. F \in [(D) \X (D) -> D]
  OBVIOUS
<1> HIDE DEF F
<1>2. PICK g \in [SUBSET (1 .. Len(s)) -> D] : Solves(g, Len(s), <<>>, F, s)
  BY <1>1, FoldExists
<1>3. P(g)
  <2>1. ASSUME NEW S \in SUBSET (1 .. Len(s))
        PROVE  g[S] = IF S = {} THEN <<>> ELSE Join(g[S \ {Max(S)}], s[Max(S)])
    <3>1. ASSUME S # {} PROVE g[S \ {Max(S)}] \in D /\ s[Max(S)] \in D
      BY <3>1, LastOf
    <3> QED BY <1>0, <1>2, <3>1 DEF Solves
  <2> QED BY <1>0, <2>1
<1>4. P(h)
  <2> HIDE DEF P
  <2> QED BY <1>3
<1>5. Joined(s) = h[1 .. Len(s)]
  BY <1>0 DEF Joined, FoldLeft, MapThenFoldSet
<1> HIDE DEF h
<1>6. ASSUME NEW S \in SUBSET (1 .. Len(s))
      PROVE  h[S] = IF S = {} THEN <<>> ELSE Join(h[S \ {Max(S)}], s[Max(S)])
  BY <1>0, <1>4
<1> HIDE DEF P
<1>7. ASSUME NEW S \in SUBSET (1 .. Len(s)), S # {}, h[S \ {Max(S)}] \in D
      PROVE  h[S] = F[<<h[S \ {Max(S)}], s[Max(S)]>>]
  <2>1. s[Max(S)] \in D
    BY <1>7, LastOf
  <2> QED BY <1>0, <1>6, <1>7, <2>1
<1>8. PICK r \in [0 .. Len(s) -> D] :
        /\ r[0] = <<>> /\ r[Len(s)] = h[1 .. Len(s)]
        /\ \A i \in 1 .. Len(s) : r[i] = F[<<r[i - 1], s[i]>>]
  <2>1. Unfolds(h, <<>>, D, F, s)
    BY <1>6, <1>7 DEF Unfolds
  <2>2. PICK r \in [0 .. Len(s) -> D] : Run(r, <<>>, h[1 .. Len(s)], F, s)
    BY <1>1, <2>1, FoldSteps
  <2> QED BY <2>2 DEF Run
<1>9. ASSUME NEW i \in 1 .. Len(s) PROVE r[i] = Join(r[i - 1], s[i])
  <2>1. r[i - 1] \in D /\ s[i] \in D
    OBVIOUS
  <2> QED BY <1>0, <1>8, <2>1
<1> QED BY <1>5, <1>8, <1>9

\* Writing nothing.
LEMMA WrittenNothing ==
  ASSUME NEW w \in WalletType
  PROVE  Written(w, <<>>) = w
<1>1. <<>> \in Seq(OpType) /\ Len(<<>>) = 0
  OBVIOUS
<1>2. PICK r \in [0 .. Len(<<>>) -> WalletType] : r[0] = w /\ r[Len(<<>>)] = Written(w, <<>>)
  BY <1>1, WriteSteps
<1> QED BY <1>1, <1>2

\* Writing two sequences one after the other.
LEMMA WrittenSplit ==
  ASSUME NEW w \in WalletType, NEW a \in Seq(OpType), NEW b \in Seq(OpType)
  PROVE  /\ Written(w, a) \in WalletType
         /\ Written(w, a \o b) = Written(Written(w, a), b)
<1>1. PICK ra \in [0 .. Len(a) -> WalletType] :
        /\ ra[0] = w /\ ra[Len(a)] = Written(w, a)
        /\ \A i \in 1 .. Len(a) : ra[i] = Write(ra[i - 1], a[i])
  BY WriteSteps
<1>2. Written(w, a) \in WalletType
  BY <1>1
<1>3. PICK rb \in [0 .. Len(b) -> WalletType] :
        /\ rb[0] = Written(w, a) /\ rb[Len(b)] = Written(Written(w, a), b)
        /\ \A i \in 1 .. Len(b) : rb[i] = Write(rb[i - 1], b[i])
  BY <1>2, WriteSteps
<1> DEFINE c == a \o b
<1>4. /\ c \in Seq(OpType) /\ Len(c) = Len(a) + Len(b) /\ Len(a) \in Nat /\ Len(b) \in Nat
      /\ \A i \in 1 .. Len(a) : c[i] = a[i]
      /\ \A i \in 1 .. Len(b) : c[Len(a) + i] = b[i]
  OBVIOUS
<1> HIDE DEF c
<1>5. PICK r \in [0 .. Len(c) -> WalletType] :
        /\ r[0] = w /\ r[Len(c)] = Written(w, c)
        /\ \A i \in 1 .. Len(c) : r[i] = Write(r[i - 1], c[i])
  BY <1>4, WriteSteps
<1> DEFINE S == {i \in 0 .. Len(a) : r[i] = ra[i]}
           T == {i \in 0 .. Len(b) : r[Len(a) + i] = rb[i]}
<1>6. Len(a) \in S
  <2>1. 0 \in S
    BY <1>1, <1>4, <1>5
  <2>2. ASSUME NEW i \in 1 .. Len(a), i - 1 \in S PROVE i \in S
    <3>1. i \in 1 .. Len(c) /\ r[i - 1] = ra[i - 1] /\ c[i] = a[i]
      BY <1>4, <2>2
    <3> QED BY <1>1, <1>5, <3>1
  <2> HIDE DEF S
  <2>3. Len(a) \in 0 .. Len(a)
    BY <1>4
  <2> QED BY <1>4, <2>1, <2>2, <2>3, UpTo
<1>7. Len(b) \in T
  <2>1. 0 \in T
    BY <1>1, <1>3, <1>4, <1>6
  <2>2. ASSUME NEW i \in 1 .. Len(b), i - 1 \in T PROVE i \in T
    <3>1. Len(a) + i \in 1 .. Len(c) /\ Len(a) + i - 1 = Len(a) + (i - 1)
      BY <1>4
    <3>2. r[Len(a) + (i - 1)] = rb[i - 1] /\ c[Len(a) + i] = b[i]
      BY <1>4, <2>2
    <3>3. r[Len(a) + i] = Write(r[Len(a) + i - 1], c[Len(a) + i])
      BY <1>5, <3>1
    <3>4. rb[i] = Write(rb[i - 1], b[i])
      BY <1>3
    <3> QED BY <3>1, <3>2, <3>3, <3>4
  <2> HIDE DEF T
  <2>3. Len(b) \in 0 .. Len(b)
    BY <1>4
  <2> QED BY <1>4, <2>1, <2>2, <2>3, UpTo
<1>8. r[Len(c)] = rb[Len(b)]
  BY <1>4, <1>7
<1> QED BY <1>2, <1>3, <1>5, <1>8 DEF c

\* Joining sequences of writes gives a sequence of writes.
LEMMA JoinType ==
  ASSUME NEW E
  PROVE  <<>> \in Seq(E) /\ \A x, y \in Seq(E) : Join(x, y) \in Seq(E)
BY DEF Join

\* Joining sequences of E gives a sequence of E.
LEMMA JoinedType ==
  ASSUME NEW E, NEW s \in Seq(Seq(E))
  PROVE  Joined(s) \in Seq(E)
<1> DEFINE D == Seq(E)
<1>1. <<>> \in D /\ (\A x, y \in D : Join(x, y) \in D) /\ s \in Seq(D)
  BY JoinType
<1> HIDE DEF D
<1>2. PICK r \in [0 .. Len(s) -> D] : r[Len(s)] = Joined(s)
  BY <1>1, JoinSteps
<1>3. Len(s) \in 0 .. Len(s)
  BY <1>1
<1>4. Joined(s) \in D
  BY <1>2, <1>3
<1> QED BY <1>4 DEF D

\* Writing what was joined, sequence by sequence.
LEMMA WrittenJoined ==
  ASSUME NEW w \in WalletType, NEW s \in Seq(Seq(OpType))
  PROVE  \E r \in [0 .. Len(s) -> WalletType] :
           /\ r[0] = w /\ r[Len(s)] = Written(w, Joined(s))
           /\ \A i \in 1 .. Len(s) : r[i] = Written(r[i - 1], s[i])
<1> DEFINE D == Seq(OpType)
<1>1. <<>> \in D /\ (\A x, y \in D : Join(x, y) \in D) /\ s \in Seq(D)
  BY JoinType
<1>2. \A v \in WalletType : \A a, b \in D :
        Written(v, a) \in WalletType /\ Written(v, Join(a, b)) = Written(Written(v, a), b)
  BY WrittenSplit DEF Join
<1>3. Written(w, <<>>) = w
  BY WrittenNothing
<1> HIDE DEF D
<1>4. PICK j \in [0 .. Len(s) -> D] :
        /\ j[0] = <<>> /\ j[Len(s)] = Joined(s)
        /\ \A i \in 1 .. Len(s) : j[i] = Join(j[i - 1], s[i])
  BY <1>1, JoinSteps
<1>5. Len(s) \in Nat /\ \A i \in 1 .. Len(s) : s[i] \in D
  BY <1>1
<1> DEFINE r == [i \in 0 .. Len(s) |-> Written(w, j[i])]
<1>6. r \in [0 .. Len(s) -> WalletType]
  BY <1>2, <1>4
<1>7. r[0] = w /\ r[Len(s)] = Written(w, Joined(s))
  BY <1>3, <1>4, <1>5
<1>8. ASSUME NEW i \in 1 .. Len(s) PROVE r[i] = Written(r[i - 1], s[i])
  <2>0. i - 1 \in 0 .. Len(s) /\ i \in 0 .. Len(s)
    BY <1>5
  <2>1. i - 1 \in 0 .. Len(s) /\ i \in 0 .. Len(s) /\ j[i - 1] \in D /\ s[i] \in D
    BY <1>4, <1>5, <2>0
  <2>2. Written(w, j[i]) = Written(Written(w, j[i - 1]), s[i])
    BY <1>2, <1>4, <2>1
  <2> QED BY <2>1, <2>2
<1> HIDE DEF r
<1> QED BY <1>6, <1>7, <1>8

-----------------------------------------------------------------------------
(* What a handler writes.                                                  *)

\* The sequences of writes are sequences of writes.
LEMMA OpTypes ==
  ASSUME NEW t \in Tx, NEW b \in Seq(Content)
  PROVE  /\ Op("record", t, b) \in OpType /\ Op("inputs", t, <<>>) \in OpType
         /\ Op("outputs", t, <<>>) \in OpType /\ Op("refund", t, <<>>) \in OpType
         /\ Added(t, b) \in Seq(OpType) /\ Committed(t) \in Seq(OpType)
         /\ Disconnected(t) \in Seq(OpType)
<1>1. <<>> \in Seq(Content)
  OBVIOUS
<1>2. /\ Op("record", t, b) \in OpType /\ Op("inputs", t, <<>>) \in OpType
      /\ Op("outputs", t, <<>>) \in OpType /\ Op("refund", t, <<>>) \in OpType
      /\ Op("record", t, <<>>) \in OpType
  BY <1>1 DEF Op, OpType
<1>3. Added(t, b) \in Seq(OpType) /\ Committed(t) \in Seq(OpType) /\ Disconnected(t) \in Seq(OpType)
  BY <1>2 DEF Added, Committed, Disconnected
<1> QED BY <1>2, <1>3

\* The writes a connected block causes, by their type.
LEMMA ConnectedType ==
  ASSUME NEW c \in Seq(Content), c # <<>>
  PROVE  Connected(c) \in Seq(OpType) /\ Last(c) = c[Len(c)] /\ Last(c) \in Content
<1>1. Last(c) = c[Len(c)] /\ Last(c) \in Content
  BY DEF Last
<1>2. CASE Last(c) = None
  BY <1>1, <1>2 DEF Connected
<1>3. CASE Last(c) # None
  <2>1. Last(c) \in Tx
    BY <1>1, <1>3 DEF Content
  <2> QED BY <1>1, <1>3, <2>1, OpTypes DEF Connected
<1> QED BY <1>2, <1>3

\* The writes a disconnected block causes, by their type.
LEMMA DisconnectedType ==
  ASSUME NEW t \in Content
  PROVE  Disconnected(t) \in Seq(OpType)
<1>1. CASE t \in Tx
  <2>1. <<>> \in Seq(Content)
    OBVIOUS
  <2> QED BY <1>1, <2>1, OpTypes
<1>2. CASE t \notin Tx
  <2>1. t \notin Sprout
    BY <1>2, WalletTxAssumption
  <2> QED BY <2>1 DEF Disconnected
<1> QED BY <1>1, <1>2

\* One write.
LEMMA WrittenOne ==
  ASSUME NEW w \in WalletType, NEW op \in OpType
  PROVE  Written(w, <<op>>) = Write(w, op)
<1>1. <<op>> \in Seq(OpType) /\ Len(<<op>>) = 1 /\ <<op>>[1] = op
  OBVIOUS
<1>2. PICK r \in [0 .. Len(<<op>>) -> WalletType] :
        /\ r[0] = w /\ r[Len(<<op>>)] = Written(w, <<op>>)
        /\ \A i \in 1 .. Len(<<op>>) : r[i] = Write(r[i - 1], <<op>>[i])
  BY <1>1, WriteSteps
<1>3. 1 \in 1 .. Len(<<op>>) /\ 1 - 1 = 0
  BY <1>1
<1> QED BY <1>1, <1>2, <1>3

\* The wallet that is told of a transaction outside a block, and of one of a block.
Heard(w, t) == MarkInputs(Record(w, t, <<>>), t)
Told(w, t, b) == MarkOutputsUnspent(MarkInputs(Record(w, t, b), t), t)

\* AddToWalletIfInvolvingMe, its two writes one after the other.
LEMMA WrittenTwo ==
  ASSUME NEW w \in WalletType, NEW t \in Tx, NEW b \in Seq(Content)
  PROVE  /\ Record(w, t, b) \in WalletType /\ MarkInputs(Record(w, t, b), t) \in WalletType
         /\ Written(w, <<Op("record", t, b)>>) = Record(w, t, b)
         /\ Written(w, <<Op("record", t, b), Op("inputs", t, <<>>)>>) = MarkInputs(Record(w, t, b), t)
<1> DEFINE o1 == Op("record", t, b)
           o2 == Op("inputs", t, <<>>)
<1>1. o1 \in OpType /\ o2 \in OpType
  BY OpTypes
<1>2. \A v \in WalletType : Write(v, o1) = Record(v, t, b) /\ Write(v, o2) = MarkInputs(v, t)
  BY DEF Write, Op
<1> HIDE DEF o1, o2
<1>3. Written(w, <<o1>>) = Record(w, t, b) /\ Record(w, t, b) \in WalletType
  BY <1>1, <1>2, WrittenOne, WriteType
<1>4. MarkInputs(Record(w, t, b), t) \in WalletType
  BY <1>1, <1>2, <1>3, WriteType
<1> DEFINE s == <<o1, o2>>
<1>5. s \in Seq(OpType) /\ Len(s) = 2 /\ s[1] = o1 /\ s[2] = o2
  BY <1>1
<1> HIDE DEF s
<1>6. PICK r \in [0 .. Len(s) -> WalletType] :
        /\ r[0] = w /\ r[Len(s)] = Written(w, s)
        /\ \A i \in 1 .. Len(s) : r[i] = Write(r[i - 1], s[i])
  BY <1>5, WriteSteps
<1>7. r[1] = Write(w, o1) /\ r[2] = Write(r[1], o2)
  <2>1. 1 \in 1 .. Len(s) /\ 2 \in 1 .. Len(s) /\ 1 - 1 = 0 /\ 2 - 1 = 1
    BY <1>5
  <2> QED BY <1>5, <1>6, <2>1
<1>8. Written(w, s) = MarkInputs(Record(w, t, b), t)
  BY <1>2, <1>3, <1>5, <1>6, <1>7
<1> QED BY <1>3, <1>4, <1>8 DEF o1, o2, s

\* A transaction outside any block: heard of from the network or sent, the
\* wallet records it and marks its inputs.
LEMMA HeardIs ==
  ASSUME NEW w \in WalletType, NEW t \in Tx
  PROVE  Written(w, Added(t, <<>>)) = Heard(w, t) /\ Written(w, Committed(t)) = Heard(w, t)
<1> DEFINE e == <<>>
           p == <<Op("record", t, e), Op("inputs", t, <<>>)>>
<1>1. e \in Seq(Content)
  OBVIOUS
<1>2. Added(t, e) = p
  <2>1. Added(t, e) = p \o <<>>
    BY DEF Added
  <2>2. p = Committed(t)
    BY DEF Committed
  <2> HIDE DEF e, p
  <2>3. p \in Seq(OpType)
    BY <1>1, <2>2, OpTypes
  <2> QED BY <2>1, <2>3
<1>3. Committed(t) = p /\ Heard(w, t) = MarkInputs(Record(w, t, e), t)
  BY DEF Committed, Heard
<1> HIDE DEF e
<1>4. Written(w, p) = MarkInputs(Record(w, t, e), t)
  BY <1>1, WrittenTwo
<1> HIDE DEF p
<1>5. Written(w, Added(t, e)) = Heard(w, t) /\ Written(w, Committed(t)) = Heard(w, t)
  BY <1>2, <1>3, <1>4
<1> QED BY <1>5 DEF e

\* A block: its transaction is recorded with it, its inputs are marked and its
\* output is marked as unspent.
LEMMA ConnectedIs ==
  ASSUME NEW w \in WalletType, NEW c \in Seq(Content), c # <<>>
  PROVE  Written(w, Connected(c)) = IF Last(c) = None THEN w ELSE Told(w, Last(c), c)
<1>1. CASE Last(c) = None
  BY <1>1, WrittenNothing DEF Connected
<1>2. CASE Last(c) # None
  <2> DEFINE t == Last(c)
             s == <<Op("record", t, c), Op("inputs", t, <<>>)>>
             o == Op("outputs", t, <<>>)
             z == <<o>>
  <2>1. t \in Tx
    BY <1>2, ConnectedType DEF Content
  <2>2. s \in Seq(OpType) /\ o \in OpType /\ z \in Seq(OpType)
    BY <2>1, OpTypes
  <2>3. Connected(c) = s \o z
    BY <1>2 DEF Connected, Added
  <2>4. \A v \in WalletType : Write(v, o) = MarkOutputsUnspent(v, t)
    BY DEF Write, Op
  <2>5. Written(w, s) = MarkInputs(Record(w, t, c), t) /\ Written(w, s) \in WalletType
    BY <2>1, WrittenTwo
  <2> HIDE DEF s, o, t
  <2>0. Written(Written(w, s), z) = Write(Written(w, s), o)
    BY <2>2, <2>5, WrittenOne
  <2> HIDE DEF z
  <2>6. Written(w, Connected(c)) = Written(Written(w, s), z)
    BY <2>2, <2>3, WrittenSplit
  <2>7. Written(w, Connected(c)) = Write(Written(w, s), o)
    BY <2>0, <2>6
  <2> QED BY <1>2, <2>4, <2>5, <2>7 DEF Told, t
<1> QED BY <1>1, <1>2

\* Whatever is written, the wallet keeps what it has.
Grown(w, q) == /\ q \in WalletType /\ w.tx \subseteq q.tx /\ q.best = w.best
               /\ q.spent \subseteq q.tx

\* A write forgets no transaction and moves no best block ...
LEMMA WriteGrows ==
  ASSUME NEW w \in WalletType, w.spent \subseteq w.tx, NEW op \in OpType
  PROVE  Grown(w, Write(w, op))
<1>1. Write(w, op) \in WalletType
  BY WriteType
<1>2. op.write \in {"record", "inputs", "outputs", "refund"}
  BY DEF OpType
<1>3. LET v == Record(w, op.tx, op.block) IN w.tx \subseteq v.tx /\ v.best = w.best /\ v.spent \subseteq v.tx
  BY DEF Record, WalletType
<1>4. LET v == MarkInputs(w, op.tx) IN w.tx \subseteq v.tx /\ v.best = w.best /\ v.spent \subseteq v.tx
  BY DEF MarkInputs, WalletType
<1>5. LET v == MarkOutputsUnspent(w, op.tx) IN w.tx \subseteq v.tx /\ v.best = w.best /\ v.spent \subseteq v.tx
  BY DEF MarkOutputsUnspent, WalletType
<1>6. LET v == Refund(w, op.tx) IN w.tx \subseteq v.tx /\ v.best = w.best /\ v.spent \subseteq v.tx
  BY DEF Refund, WalletType
<1>7. \/ Write(w, op) = Record(w, op.tx, op.block) \/ Write(w, op) = MarkInputs(w, op.tx)
      \/ Write(w, op) = MarkOutputsUnspent(w, op.tx) \/ Write(w, op) = Refund(w, op.tx)
  BY <1>2 DEF Write
<1> QED BY <1>1, <1>3, <1>4, <1>5, <1>6, <1>7 DEF Grown

\* ... and so do any number of writes.
LEMMA WrittenGrows ==
  ASSUME NEW w \in WalletType, w.spent \subseteq w.tx, NEW s \in Seq(OpType)
  PROVE  Grown(w, Written(w, s))
<1>1. PICK r \in [0 .. Len(s) -> WalletType] :
        /\ r[0] = w /\ r[Len(s)] = Written(w, s)
        /\ \A i \in 1 .. Len(s) : r[i] = Write(r[i - 1], s[i])
  BY WriteSteps
<1>2. Len(s) \in Nat /\ Len(s) \in 0 .. Len(s)
  OBVIOUS
<1> DEFINE S == {i \in 0 .. Len(s) : Grown(w, r[i])}
<1>3. 0 \in S
  BY <1>1, <1>2 DEF Grown
<1>4. ASSUME NEW i \in 1 .. Len(s), i - 1 \in S PROVE i \in S
  <2>1. i - 1 \in 0 .. Len(s) /\ i \in 0 .. Len(s) /\ s[i] \in OpType
    BY <1>2
  <2>2. Grown(w, r[i - 1])
    BY <1>4
  <2>3. Grown(r[i - 1], Write(r[i - 1], s[i]))
    BY <2>1, <2>2, WriteGrows DEF Grown
  <2>4. Grown(w, r[i])
    BY <1>1, <2>2, <2>3 DEF Grown
  <2> QED BY <2>1, <2>4
<1> HIDE DEF S
<1>5. Len(s) \in S
  BY <1>2, <1>3, <1>4, UpTo
<1> QED BY <1>1, <1>5 DEF S

\* What being told of a transaction of a block does, field by field.
AfterTold(w, q, t, b) ==
  /\ q.tx = IF Involved(w, t) THEN w.tx \cup {t} ELSE w.tx
  /\ q.block = IF Involved(w, t) THEN [w.block EXCEPT ![t] = b] ELSE w.block
  /\ q.spent = (w.spent \cup (Spends[t] \cap q.tx \cap Mine)) \ {t}
  /\ Spends[t] \cap q.tx \cap Mine # {} => t \in q.tx
  /\ q.best = w.best /\ q.prev = w.prev

\* What the wallet has after the transaction of a block.
LEMMA ToldFacts ==
  ASSUME NEW w \in WalletType, w.spent \subseteq w.tx, NEW t \in Tx,
         NEW b \in Seq(Content), b # <<>>
  PROVE  AfterTold(w, Told(w, t, b), t, b)
<1> DEFINE q == Told(w, t, b)
           v == Record(w, t, b)
           x == MarkInputs(v, t)
<1>1. /\ v.tx = IF Involved(w, t) THEN w.tx \cup {t} ELSE w.tx
      /\ v.block = IF Involved(w, t) THEN [w.block EXCEPT ![t] = b] ELSE w.block
      /\ v.spent = w.spent /\ v.best = w.best /\ v.prev = w.prev /\ v \in WalletType
  <2>1. v \in WalletType
    BY WrittenTwo
  <2> QED BY <2>1 DEF Record, WalletType
<1> HIDE DEF v
<1>2. /\ x.tx = v.tx /\ x.block = v.block /\ x.best = v.best /\ x.prev = v.prev
      /\ x.spent = v.spent \cup (Spends[t] \cap v.tx \cap Mine) /\ x \in WalletType
  BY <1>1 DEF MarkInputs, WalletType
<1> HIDE DEF x
<1>3. /\ q.tx = x.tx /\ q.block = x.block /\ q.best = x.best /\ q.prev = x.prev
      /\ q.spent = x.spent \ {t}
  <2>1. q = MarkOutputsUnspent(x, t)
    BY DEF Told, x, v
  <2> HIDE DEF q
  <2> QED BY <1>2, <2>1 DEF MarkOutputsUnspent, WalletType
<1>4. Spends[t] \cap v.tx \cap Mine # {} => t \in v.tx
  BY <1>1 DEF Involved, IsFromMe
<1> HIDE DEF q
<1>5. AfterTold(w, q, t, b)
  BY <1>1, <1>2, <1>3, <1>4 DEF AfterTold
<1> QED BY <1>5 DEF q

AfterHeard(w, q, t) ==
  /\ q.tx = IF Involved(w, t) THEN w.tx \cup {t} ELSE w.tx
  /\ q.block = w.block /\ q.best = w.best /\ q.prev = w.prev
  /\ q.spent = w.spent \cup (Spends[t] \cap q.tx \cap Mine)
  /\ Spends[t] \cap q.tx \cap Mine # {} => t \in q.tx

\* What the wallet has after a transaction outside any block.
LEMMA HeardFacts ==
  ASSUME NEW w \in WalletType, w.spent \subseteq w.tx, NEW t \in Tx
  PROVE  AfterHeard(w, Heard(w, t), t)
<1> DEFINE q == Heard(w, t)
           v == Record(w, t, <<>>)
<1>1. /\ v.tx = IF Involved(w, t) THEN w.tx \cup {t} ELSE w.tx
      /\ v.block = w.block
      /\ v.spent = w.spent /\ v.best = w.best /\ v.prev = w.prev /\ v \in WalletType
  <2>1. v \in WalletType
    BY DEF Record, WalletType
  <2> QED BY <2>1 DEF Record, WalletType
<1> HIDE DEF v
<1>2. /\ q.tx = v.tx /\ q.block = v.block /\ q.best = v.best /\ q.prev = v.prev
      /\ q.spent = v.spent \cup (Spends[t] \cap v.tx \cap Mine)
  <2>1. q = MarkInputs(v, t)
    BY DEF Heard, v
  <2> HIDE DEF q
  <2> QED BY <1>1, <2>1 DEF MarkInputs, WalletType
<1>3. Spends[t] \cap v.tx \cap Mine # {} => t \in v.tx
  BY <1>1 DEF Involved, IsFromMe
<1> HIDE DEF q
<1>4. AfterHeard(w, q, t)
  BY <1>1, <1>2, <1>3 DEF AfterHeard
<1> QED BY <1>4 DEF q

-----------------------------------------------------------------------------
(* Chains.                                                                 *)

\* The first n elements of a sequence.
LEMMA Cut ==
  ASSUME NEW E, NEW c \in Seq(E), NEW n \in 0 .. Len(c)
  PROVE  /\ SubSeq(c, 1, n) \in Seq(E) /\ Len(SubSeq(c, 1, n)) = n
         /\ \A i \in 1 .. n : SubSeq(c, 1, n)[i] = c[i]
OBVIOUS

\* Two chains that agree up to n have the same first n blocks.
LEMMA CutSame ==
  ASSUME NEW E, NEW c \in Seq(E), NEW d \in Seq(E), NEW n \in 0 .. Len(c), n <= Len(d),
         \A i \in 1 .. n : c[i] = d[i]
  PROVE  SubSeq(c, 1, n) = SubSeq(d, 1, n)
<1> DEFINE x == SubSeq(c, 1, n)
           y == SubSeq(d, 1, n)
<1>1. n \in 0 .. Len(d)
  OBVIOUS
<1>2. x \in Seq(E) /\ Len(x) = n /\ \A i \in 1 .. n : x[i] = c[i]
  BY Cut
<1>3. y \in Seq(E) /\ Len(y) = n /\ \A i \in 1 .. n : y[i] = d[i]
  BY <1>1, Cut
<1> HIDE DEF x, y
<1>4. x = y
  BY <1>2, <1>3, SeqEqual
<1> QED BY <1>4 DEF x, y

\* A chain up to its end is the chain.
LEMMA CutAll ==
  ASSUME NEW E, NEW c \in Seq(E)
  PROVE  SubSeq(c, 1, Len(c)) = c
<1> DEFINE x == SubSeq(c, 1, Len(c))
<1>1. Len(c) \in 0 .. Len(c)
  OBVIOUS
<1>2. x \in Seq(E) /\ Len(x) = Len(c) /\ \A i \in 1 .. Len(c) : x[i] = c[i]
  BY <1>1, Cut
<1> HIDE DEF x
<1>3. x = c
  BY <1>2, SeqEqual
<1> QED BY <1>3 DEF x

\* A prefix of a sequence is its beginning.
LEMMA PrefixIs ==
  ASSUME NEW E, NEW c \in Seq(E), NEW d \in Seq(E)
  PROVE  IsPrefix(c, d) <=> Len(c) <= Len(d) /\ \A i \in 1 .. Len(c) : c[i] = d[i]
<1>1. SubSeq(c, 1, Len(c)) = c
  BY CutAll
<1>2. Len(c) \in 0 .. Len(c)
  OBVIOUS
<1>3. ASSUME Len(c) <= Len(d), \A i \in 1 .. Len(c) : c[i] = d[i]
      PROVE  SubSeq(c, 1, Len(c)) = SubSeq(d, 1, Len(c))
  BY <1>2, <1>3, CutSame
<1>4. ASSUME Len(c) <= Len(d), c = SubSeq(d, 1, Len(c))
      PROVE  \A i \in 1 .. Len(c) : c[i] = d[i]
  <2>1. Len(c) \in 0 .. Len(d)
    BY <1>4
  <2>2. \A i \in 1 .. Len(c) : SubSeq(d, 1, Len(c))[i] = d[i]
    BY <2>1, Cut
  <2> QED BY <1>4, <2>2
<1> QED BY <1>1, <1>3, <1>4 DEF IsPrefix

\* ... the beginning up to the n-th in particular.
LEMMA CutIsPrefix ==
  ASSUME NEW E, NEW c \in Seq(E), NEW n \in 0 .. Len(c)
  PROVE  IsPrefix(SubSeq(c, 1, n), c)
<1> DEFINE x == SubSeq(c, 1, n)
<1>1. x \in Seq(E) /\ Len(x) = n /\ \A i \in 1 .. n : x[i] = c[i]
  BY Cut
<1> HIDE DEF x
<1>2. IsPrefix(x, c)
  BY <1>1, PrefixIs
<1> QED BY <1>2 DEF x

\* What is in a chain.
LEMMA InChainIs ==
  ASSUME NEW c \in Seq(Content)
  PROVE  /\ InChain(c) \subseteq Tx
         /\ \A t : t \in InChain(c) <=> t # None /\ \E i \in DOMAIN c : c[i] = t
<1>1. ToSet(c) = {c[i] : i \in DOMAIN c}
  BY DEF ToSet
<1>2. \A i \in DOMAIN c : c[i] \in Content
  OBVIOUS
<1> QED BY <1>1, <1>2 DEF InChain, Content

\* One more block.
LEMMA LinkedMore ==
  ASSUME NEW c, Linked(c), NEW t \in Content, CanConnect(c, t)
  PROVE  Linked(Append(c, t))
<1> DEFINE d == Append(c, t)
<1>1. c \in Seq(Content) /\ Len(c) \in Nat /\ Len(c) >= 1 /\ DOMAIN c = 1 .. Len(c)
  BY DEF Linked
<1>2. /\ d \in Seq(Content) /\ Len(d) = Len(c) + 1 /\ d[Len(c) + 1] = t
      /\ \A i \in 1 .. Len(c) : d[i] = c[i] /\ DOMAIN d = 1 .. Len(c) + 1
  BY <1>1
<1> HIDE DEF d
<1>3. DOMAIN d = 1 .. Len(c) + 1 /\ d # <<>> /\ d[1] = First
  BY <1>1, <1>2 DEF Linked
<1>4. t # None => /\ \A i \in DOMAIN c : c[i] # t
                  /\ \A u \in Spends[t] : /\ \E j \in DOMAIN c : c[j] = u
                                          /\ \A i \in DOMAIN c : c[i] # None => u \notin Spends[c[i]]
  <2> SUFFICES ASSUME t # None
               PROVE  /\ \A i \in DOMAIN c : c[i] # t
                      /\ \A u \in Spends[t] : /\ \E j \in DOMAIN c : c[j] = u
                                              /\ \A i \in DOMAIN c : c[i] # None => u \notin Spends[c[i]]
    OBVIOUS
  <2>1. t \notin InChain(c) /\ Spends[t] \subseteq InChain(c) \ SpentBy(InChain(c))
    BY DEF CanConnect
  <2>2. \A i \in DOMAIN c : c[i] # None => c[i] \in InChain(c)
    BY <1>1, InChainIs
  <2>3. \A i \in DOMAIN c : c[i] # t
    BY <2>1, <2>2
  <2>4. ASSUME NEW u \in Spends[t] PROVE \E j \in DOMAIN c : c[j] = u
    BY <1>1, <2>1, InChainIs
  <2>5. ASSUME NEW u \in Spends[t], NEW i \in DOMAIN c, c[i] # None PROVE u \notin Spends[c[i]]
    BY <2>1, <2>2, <2>5 DEF SpentBy
  <2> QED BY <2>3, <2>4, <2>5
<1>5. \A i \in DOMAIN d : (i \in DOMAIN c /\ d[i] = c[i]) \/ (i = Len(c) + 1 /\ d[i] = t)
  BY <1>1, <1>2, <1>3
<1>6. ASSUME NEW i \in DOMAIN d, NEW j \in DOMAIN d, d[i] = d[j], d[i] # None PROVE i = j
  BY <1>4, <1>5, <1>6 DEF Linked
<1>7. ASSUME NEW i \in DOMAIN d, d[i] # None, NEW u \in Spends[d[i]]
      PROVE  \E j \in DOMAIN d : j < i /\ d[j] = u
  <2>1. CASE i \in DOMAIN c /\ d[i] = c[i]
    <3>1. PICK j \in DOMAIN c : j < i /\ c[j] = u
      BY <1>7, <2>1 DEF Linked
    <3> QED BY <1>1, <1>2, <1>3, <3>1
  <2>2. CASE i = Len(c) + 1 /\ d[i] = t
    <3>1. PICK j \in DOMAIN c : c[j] = u
      BY <1>4, <1>7, <2>2
    <3> QED BY <1>1, <1>2, <1>3, <2>2, <3>1
  <2> QED BY <1>5, <2>1, <2>2
<1>8. ASSUME NEW i \in DOMAIN d, NEW j \in DOMAIN d, d[i] # None, d[j] # None, i # j
      PROVE  Spends[d[i]] \cap Spends[d[j]] = {}
  BY <1>4, <1>5, <1>8 DEF Linked
<1>9. Linked(d)
  BY <1>2, <1>3, <1>6, <1>7, <1>8 DEF Linked
<1> QED BY <1>9 DEF d

\* A chain without its last blocks.
LEMMA LinkedCut ==
  ASSUME NEW c, Linked(c), NEW n \in 1 .. Len(c)
  PROVE  Linked(SubSeq(c, 1, n))
<1> DEFINE d == SubSeq(c, 1, n)
<1>1. c \in Seq(Content) /\ Len(c) \in Nat /\ DOMAIN c = 1 .. Len(c) /\ n \in 0 .. Len(c)
  BY DEF Linked
<1>2. d \in Seq(Content) /\ Len(d) = n /\ \A i \in 1 .. n : d[i] = c[i]
  BY <1>1, Cut
<1> HIDE DEF d
<1>3. DOMAIN d = 1 .. n /\ d # <<>> /\ DOMAIN d \subseteq DOMAIN c
  BY <1>1, <1>2
<1>4. d[1] = First
  BY <1>2 DEF Linked
<1>5. ASSUME NEW i \in DOMAIN d, d[i] # None, NEW u \in Spends[d[i]]
      PROVE  \E j \in DOMAIN d : j < i /\ d[j] = u
  <2>1. PICK j \in DOMAIN c : j < i /\ c[j] = u
    BY <1>2, <1>3, <1>5 DEF Linked
  <2> QED BY <1>1, <1>2, <1>3, <2>1
<1>6. Linked(d)
  BY <1>2, <1>3, <1>4, <1>5 DEF Linked
<1> QED BY <1>6 DEF d

\* The chain that takes over in a reorganisation.
LEMMA BranchFacts ==
  ASSUME Linked(chain), NEW n \in Nat, n < Len(chain), NEW c \in Branches(n)
  PROVE  /\ Linked(c) /\ Len(c) = Len(chain) + 1
         /\ \A i \in 1 .. Len(chain) - n : c[i] = chain[i]
<1> DEFINE m == Len(chain) - n
           b == SubSeq(chain, 1, m)
<1>1. chain \in Seq(Content) /\ Len(chain) \in Nat /\ m \in 1 .. Len(chain) /\ m \in 0 .. Len(chain)
  BY DEF Linked
<1>2. b \in Seq(Content) /\ Len(b) = m /\ \A i \in 1 .. m : b[i] = chain[i]
  BY <1>1, Cut
<1>3. Linked(b)
  BY <1>1, LinkedCut
<1>4. PICK s \in [1 .. n + 1 -> Content] : c = b \o s
  BY DEF Branches, Base, Content
<1>5. \A i \in Len(b) + 1 .. Len(c) : CanConnect(SubSeq(c, 1, i - 1), c[i])
  BY DEF Branches, Base
<1> HIDE DEF b, m
<1>6. s \in Seq(Content) /\ Len(s) = n + 1
  OBVIOUS
<1>7. /\ c \in Seq(Content) /\ Len(c) = m + n + 1
      /\ \A i \in 1 .. m : c[i] = b[i]
  <2>1. /\ b \o s \in Seq(Content) /\ Len(b \o s) = Len(b) + Len(s)
        /\ \A i \in 1 .. Len(b) + Len(s) :
             (b \o s)[i] = IF i <= Len(b) THEN b[i] ELSE s[i - Len(b)]
    BY <1>2, <1>6, ConcatProperties
  <2>2. c \in Seq(Content) /\ Len(c) = m + (n + 1)
    BY <1>2, <1>4, <1>6, <2>1
  <2>3. ASSUME NEW i \in 1 .. m PROVE c[i] = b[i]
    <3>1. i \in 1 .. Len(b) + Len(s) /\ i <= Len(b)
      BY <1>1, <1>2, <1>6
    <3> QED BY <1>4, <2>1, <3>1
  <2>4. m + (n + 1) = m + n + 1
    BY <1>1
  <2> QED BY <2>2, <2>3, <2>4
<1>8. Len(c) = Len(chain) + 1 /\ \A i \in 1 .. m : c[i] = chain[i]
  BY <1>1, <1>2, <1>7 DEF m
<1> DEFINE S == {k \in 0 .. n + 1 : Linked(SubSeq(c, 1, m + k))}
<1>9. 0 \in S
  <2>1. SubSeq(c, 1, m) = SubSeq(b, 1, m) /\ SubSeq(b, 1, m) = b
    <3>1. m \in 0 .. Len(c) /\ m <= Len(b)
      BY <1>1, <1>2, <1>7
    <3> QED BY <1>2, <1>7, <3>1, CutSame, CutAll
  <2>2. m + 0 = m /\ 0 \in 0 .. n + 1
    BY <1>1
  <2>3. Linked(SubSeq(c, 1, m))
    BY <1>3, <2>1
  <2>4. Linked(SubSeq(c, 1, m + 0))
    BY <2>2, <2>3
  <2> QED BY <2>2, <2>4
<1>10. ASSUME NEW k \in 1 .. n + 1, k - 1 \in S PROVE k \in S
  <2> DEFINE x == SubSeq(c, 1, m + (k - 1))
             i == m + k
             y == SubSeq(c, 1, i)
  <2>1. Linked(x) /\ i - 1 = m + (k - 1) /\ i \in Len(b) + 1 .. Len(c) /\ i \in 1 .. Len(c)
        /\ i \in 0 .. Len(c) /\ i - 1 \in 0 .. Len(c)
    BY <1>1, <1>2, <1>7, <1>10
  <2>2. CanConnect(x, c[i]) /\ c[i] \in Content
    BY <1>5, <1>7, <2>1
  <2>3. x \in Seq(Content) /\ Len(x) = i - 1 /\ \A j \in 1 .. i - 1 : x[j] = c[j]
    BY <1>7, <2>1, Cut
  <2>4. y \in Seq(Content) /\ Len(y) = i /\ \A j \in 1 .. i : y[j] = c[j]
    BY <1>7, <2>1, Cut
  <2>5. i \in Int
    BY <2>1
  <2> HIDE DEF x, y, i
  <2>6. Append(x, c[i]) \in Seq(Content) /\ Len(Append(x, c[i])) = i
        /\ \A j \in 1 .. i : Append(x, c[i])[j] = c[j]
    BY <2>1, <2>2, <2>3, <2>5
  <2>7. y = Append(x, c[i])
    <3> DEFINE z == Append(x, c[i])
    <3>1. z \in Seq(Content) /\ Len(z) = Len(y) /\ \A j \in 1 .. Len(y) : z[j] = y[j]
      BY <2>4, <2>6
    <3> HIDE DEF z
    <3>2. z = y
      BY <2>4, <3>1, SeqEqual
    <3> QED BY <3>2 DEF z
  <2>8. Linked(y)
    BY <2>1, <2>2, <2>7, LinkedMore
  <2> QED BY <2>8 DEF y, i
<1> HIDE DEF S
<1>11. n + 1 \in Nat /\ n + 1 \in 0 .. n + 1
  OBVIOUS
<1>12. n + 1 \in S
  BY <1>9, <1>10, <1>11, UpTo
<1>13. Linked(SubSeq(c, 1, m + (n + 1)))
  BY <1>12 DEF S
<1>14. m + (n + 1) = Len(c)
  BY <1>1, <1>7
<1>15. Linked(c)
  BY <1>7, <1>13, <1>14, CutAll
<1> QED BY <1>8, <1>15 DEF m

-----------------------------------------------------------------------------
(* Scanning a chain.                                                       *)

\* q has, knows and has reasons for whatever w has, knows and has reasons for.
Kinder(w, q, c) == \A j \in DOMAIN c : /\ HasAt(w, c, j) => HasAt(q, c, j)
                                       /\ KnowsAt(w, c, j) => KnowsAt(q, c, j)
                                       /\ ReasonAt(w, c, j) => ReasonAt(q, c, j)

\* What is known of a chain, as to its positions.
LEMMA LinkedFacts ==
  ASSUME NEW c, Linked(c)
  PROVE  /\ c \in Seq(Content) /\ Len(c) \in Nat /\ Len(c) >= 1 /\ DOMAIN c = 1 .. Len(c)
         /\ \A i \in DOMAIN c : c[i] \in Content /\ (c[i] # None => c[i] \in Tx /\ c[i] \in InChain(c))
BY InChainIs DEF Linked, Content

\* One block.
LEMMA ScanStep ==
  ASSUME NEW w \in WalletType, w.spent \subseteq w.tx, NEW c, Linked(c), NEW i \in DOMAIN c,
         NEW q, q = Written(w, Connected(SubSeq(c, 1, i)))
  PROVE  /\ Grown(w, q) /\ q.prev = w.prev /\ Kinder(w, q, c) /\ ReasonAt(q, c, i)
         /\ \A j \in 1 .. i - 1 : KeepsAt(w, q, c, j)
         /\ (\A j \in 1 .. i - 1 : HasAt(w, c, j)) =>
              HasAt(q, c, i) /\ KnowsAt(q, c, i) /\ MarkedAt(q, c, i)
<1> DEFINE b == SubSeq(c, 1, i)
           t == c[i]
<1>1. /\ c \in Seq(Content) /\ Len(c) \in Nat /\ DOMAIN c = 1 .. Len(c) /\ t \in Content
      /\ i \in 0 .. Len(c) /\ i \in 1 .. Len(c)
      /\ \A j \in DOMAIN c : c[j] # None => c[j] \in Tx /\ c[j] \in InChain(c)
  BY LinkedFacts
<1>2. b \in Seq(Content) /\ Len(b) = i /\ b[i] = t
  BY <1>1, Cut
<1> HIDE DEF b
<1>3. b # <<>> /\ Last(b) = t /\ Connected(b) \in Seq(OpType)
  BY <1>1, <1>2, ConnectedType
<1>4. Grown(w, q)
  BY <1>3, WrittenGrows DEF b
<1>5. q = IF t = None THEN w ELSE Told(w, t, b)
  BY <1>2, <1>3, ConnectedIs DEF b
<1>6. None \notin Mine /\ Mine \subseteq Tx
  BY WalletTxAssumption
<1>7. CASE t = None
  <2>1. q = w
    BY <1>5, <1>7
  <2>2. ReasonAt(q, c, i) /\ HasAt(q, c, i) /\ KnowsAt(q, c, i) /\ MarkedAt(q, c, i)
    BY <1>6, <1>7, <2>1 DEF ReasonAt, HasAt, KnowsAt, MarkedAt, Concerns, WalletType
  <2> QED BY <1>4, <2>1, <2>2 DEF Kinder, KeepsAt
<1>8. CASE t # None
  <2>1. t \in Tx /\ t \in InChain(c) /\ q = Told(w, t, b)
    BY <1>1, <1>5, <1>8
  <2> HIDE DEF t
  <2>9. AfterTold(w, q, t, b)
    BY <1>2, <1>3, <2>1, ToldFacts
  <2>2. /\ q.tx = IF Involved(w, t) THEN w.tx \cup {t} ELSE w.tx
        /\ q.block = IF Involved(w, t) THEN [w.block EXCEPT ![t] = b] ELSE w.block
        /\ q.spent = (w.spent \cup (Spends[t] \cap q.tx \cap Mine)) \ {t}
        /\ Spends[t] \cap q.tx \cap Mine # {} => t \in q.tx
        /\ q.prev = w.prev
    BY <2>9 DEF AfterTold
  <2>0. /\ \A j \in DOMAIN c : c[j] = t => j = i
        /\ \A j \in DOMAIN c : c[j] # None => \A u \in Spends[c[j]] : \E k \in DOMAIN c : k < j /\ c[k] = u
        /\ c[i] = t
    BY <1>8, <2>1 DEF Linked, t
  <2>3. \A j \in DOMAIN c : HasAt(w, c, j) => HasAt(q, c, j)
    BY <1>4 DEF HasAt, Grown
  <2>4. ASSUME NEW j \in DOMAIN c, KnowsAt(w, c, j) PROVE KnowsAt(q, c, j)
    <3>1. CASE j = i
      <4>1. w.block[t] = b => q.block[t] = b
        BY <2>1, <2>2 DEF WalletType
      <4>2. KnowsAt(w, c, i) => (Concerns(t) => w.block[t] = b)
        BY <2>0 DEF KnowsAt, b
      <4>3. (Concerns(t) => q.block[t] = b) => KnowsAt(q, c, i)
        BY <2>0 DEF KnowsAt, b
      <4> QED BY <2>4, <3>1, <4>1, <4>2, <4>3
    <3>2. CASE j # i
      <4>1. c[j] # t
        BY <2>0, <3>2
      <4>2. Concerns(c[j]) => c[j] \in Tx
        BY <1>1 DEF Concerns
      <4>3. Concerns(c[j]) => q.block[c[j]] = w.block[c[j]]
        BY <2>1, <2>2, <4>1, <4>2 DEF WalletType
      <4> QED BY <2>4, <4>3 DEF KnowsAt
    <3> QED BY <3>1, <3>2
  <2>5. ASSUME NEW j \in DOMAIN c, ReasonAt(w, c, j) PROVE ReasonAt(q, c, j)
    <3> SUFFICES ASSUME c[j] \in q.spent
                 PROVE  \E u \in q.tx : c[j] \in Spends[u] /\ (u \in Sprout => u \in InChain(c))
      BY DEF ReasonAt
    <3>1. CASE c[j] \in w.spent
      BY <1>4, <2>5, <3>1 DEF ReasonAt, Grown
    <3>2. CASE c[j] \in Spends[t] \cap q.tx \cap Mine
      BY <2>1, <2>2, <3>2
    <3> QED BY <2>2, <3>1, <3>2
  <2>6. ReasonAt(q, c, i)
    BY <2>0, <2>2 DEF ReasonAt
  <2>7. ASSUME NEW j \in 1 .. i - 1 PROVE KeepsAt(w, q, c, j)
    <3>1. j \in DOMAIN c /\ j < i
      BY <1>1
    <3>2. ASSUME c[j] # None, NEW u \in Spends[c[j]] PROVE u # t
      <4>1. PICK k \in DOMAIN c : k < j /\ c[k] = u
        BY <2>0, <3>1, <3>2
      <4>2. k # i
        BY <1>1, <3>1, <4>1
      <4> QED BY <2>0, <4>1, <4>2
    <3> QED BY <2>2, <3>2 DEF KeepsAt
  <2>8. ASSUME \A j \in 1 .. i - 1 : HasAt(w, c, j)
        PROVE  HasAt(q, c, i) /\ KnowsAt(q, c, i) /\ MarkedAt(q, c, i)
    <3>1. ASSUME NEW u \in Spends[t], u \in Mine PROVE u \in w.tx /\ u # t
      <4>1. PICK k \in DOMAIN c : k < i /\ c[k] = u
        BY <1>8, <2>0
      <4>2. k \in 1 .. i - 1 /\ k # i
        BY <1>1, <4>1
      <4>3. Concerns(c[k])
        BY <1>6, <3>1, <4>1 DEF Concerns
      <4>4. u \in w.tx
        BY <2>8, <4>1, <4>2, <4>3 DEF HasAt
      <4> QED BY <2>0, <4>1, <4>2, <4>4
    <3>2. Concerns(t) => Involved(w, t)
      BY <3>1 DEF Concerns, Involved, IsFromMe
    <3>3. HasAt(q, c, i)
      BY <2>0, <2>2, <3>2 DEF HasAt
    <3>4. KnowsAt(q, c, i)
      <4>1. Concerns(t) => q.block[t] = b
        BY <2>1, <2>2, <3>2 DEF WalletType
      <4> QED BY <2>0, <4>1 DEF KnowsAt, b
    <3>5. Spends[t] \cap Mine \subseteq q.spent
      BY <1>4, <2>2, <3>1 DEF Grown
    <3> QED BY <2>0, <3>3, <3>4, <3>5 DEF MarkedAt
  <2> QED BY <1>4, <2>2, <2>3, <2>4, <2>5, <2>6, <2>7, <2>8 DEF Kinder
<1> QED BY <1>7, <1>8

\* q is w after the blocks of c from the i-th and before the m-th.
ScanTo(w, q, c, i, m) ==
  /\ Grown(w, q) /\ q.prev = w.prev /\ Kinder(w, q, c)
  /\ (\A j \in 1 .. i - 1 : HasAt(w, c, j)) =>
        \A j \in 1 .. m - 1 : HasAt(q, c, j) /\ (j >= i => KnowsAt(q, c, j))
  /\ (\A j \in 1 .. i - 1 : HasAt(w, c, j)) => \A j \in i .. m - 1 : MarkedAt(q, c, j)
  /\ \A j \in 1 .. i - 1 : KeepsAt(w, q, c, j)
  /\ \A j \in i .. m - 1 : ReasonAt(q, c, j)

\* Scanning one block more: the wallet has it, knows it and has its inputs marked, and
\* keeps what the blocks before it gave.
LEMMA ScanMore ==
  ASSUME NEW c, Linked(c), NEW i \in DOMAIN c, NEW m \in DOMAIN c, i <= m, NEW w \in WalletType,
         NEW q, ScanTo(w, q, c, i, m), NEW x, x = Written(q, Connected(SubSeq(c, 1, m)))
  PROVE  ScanTo(w, x, c, i, m + 1)
<1>1. Len(c) \in Nat /\ DOMAIN c = 1 .. Len(c) /\ m + 1 - 1 = m /\ m \in Int /\ i \in Int
  BY LinkedFacts
<1>2. q \in WalletType /\ q.spent \subseteq q.tx
  BY DEF ScanTo, Grown
<1>3. /\ Grown(q, x) /\ x.prev = q.prev /\ Kinder(q, x, c) /\ ReasonAt(x, c, m)
      /\ \A j \in 1 .. m - 1 : KeepsAt(q, x, c, j)
      /\ (\A j \in 1 .. m - 1 : HasAt(q, c, j)) =>
           HasAt(x, c, m) /\ KnowsAt(x, c, m) /\ MarkedAt(x, c, m)
  BY <1>2, ScanStep
<1>4. Grown(w, x) /\ x.prev = w.prev /\ Kinder(w, x, c)
  BY <1>3 DEF ScanTo, Grown, Kinder
<1>5. \A j \in 1 .. m : j \in DOMAIN c /\ (j \in 1 .. m - 1 \/ j = m)
  BY <1>1
<1>6. ASSUME \A j \in 1 .. i - 1 : HasAt(w, c, j), NEW j \in 1 .. m
      PROVE  HasAt(x, c, j) /\ (j >= i => KnowsAt(x, c, j)) /\ (j = m => MarkedAt(x, c, j))
  <2>1. \A k \in 1 .. m - 1 : HasAt(q, c, k) /\ (k >= i => KnowsAt(q, c, k))
    BY <1>6 DEF ScanTo
  <2>2. CASE j \in 1 .. m - 1
    <3>1. HasAt(x, c, j) /\ (j >= i => KnowsAt(x, c, j)) /\ j # m
      BY <1>1, <1>3, <1>5, <2>1, <2>2 DEF Kinder
    <3> QED BY <3>1
  <2>3. CASE j = m
    BY <1>3, <2>1, <2>3
  <2> QED BY <1>5, <2>2, <2>3
<1>7. ASSUME \A j \in 1 .. i - 1 : HasAt(w, c, j), NEW j \in i .. m
      PROVE  MarkedAt(x, c, j)
  <2>1. \A k \in i .. m - 1 : MarkedAt(q, c, k)
    BY <1>7 DEF ScanTo
  <2>2. j \in 1 .. m /\ (j = m \/ j \in i .. m - 1)
    BY <1>1
  <2>3. CASE j \in i .. m - 1
    <3>1. j \in 1 .. m - 1
      BY <1>1, <2>3
    <3> QED BY <1>3, <2>1, <2>3, <3>1 DEF MarkedAt, KeepsAt
  <2>4. CASE j = m
    BY <1>6, <1>7, <2>2, <2>4
  <2> QED BY <2>2, <2>3, <2>4
<1>9. ASSUME NEW j \in 1 .. i - 1 PROVE KeepsAt(w, x, c, j)
  <2>1. j \in 1 .. m - 1
    BY <1>1
  <2> QED BY <1>3, <2>1 DEF ScanTo, KeepsAt
<1>8. ASSUME NEW j \in i .. m PROVE ReasonAt(x, c, j)
  <2>1. j \in DOMAIN c /\ (j = m \/ j \in i .. m - 1)
    BY <1>1
  <2>2. CASE j \in i .. m - 1
    BY <1>3, <2>1, <2>2 DEF ScanTo, Kinder
  <2> QED BY <1>3, <2>1, <2>2
<1> QED BY <1>1, <1>4, <1>6, <1>7, <1>8, <1>9 DEF ScanTo

\* The blocks of c from the i-th on.
LEMMA ScannedType ==
  ASSUME NEW c, Linked(c), NEW i \in DOMAIN c,
         NEW s, s = [k \in 1 .. Len(c) - i + 1 |-> Connected(SubSeq(c, 1, i + k - 1))]
  PROVE  /\ s \in Seq(Seq(OpType)) /\ Len(s) = Len(c) - i + 1 /\ Scanned(c, i) = Joined(s)
         /\ Scanned(c, i) \in Seq(OpType)
<1>1. c \in Seq(Content) /\ Len(c) \in Nat /\ DOMAIN c = 1 .. Len(c) /\ Len(c) - i + 1 \in Nat
  BY LinkedFacts
<1> DEFINE D == Seq(OpType)
           n == Len(c) - i + 1
<1>2. ASSUME NEW k \in 1 .. n PROVE Connected(SubSeq(c, 1, i + k - 1)) \in D
  <2> DEFINE m == i + k - 1
             b == SubSeq(c, 1, m)
  <2>1. m \in 0 .. Len(c) /\ m >= 1
    BY <1>1
  <2>2. b \in Seq(Content) /\ Len(b) = m
    BY <1>1, <2>1, Cut
  <2> HIDE DEF b
  <2>3. b # <<>>
    BY <2>1, <2>2
  <2>4. Connected(b) \in D
    BY <2>2, <2>3, ConnectedType
  <2> QED BY <2>4 DEF b
<1> HIDE DEF D, n
<1>3. s \in [1 .. n -> D]
  BY <1>2 DEF n
<1>4. s \in Seq(D) /\ Len(s) = n
  BY <1>1, <1>3 DEF n
<1>5. Scanned(c, i) = Joined(s)
  BY DEF Scanned
<1>6. Joined(s) \in Seq(OpType)
  BY <1>4, JoinedType DEF D
<1> QED BY <1>4, <1>5, <1>6 DEF D, n

\* ScanForWalletTransactions: all that concerns the wallet is found, with its block, what it
\* spends is marked, and what nobody has spent is not.
LEMMA ScanFacts ==
  ASSUME NEW c, Linked(c), NEW i \in DOMAIN c, NEW w \in WalletType, w.spent \subseteq w.tx,
         NEW q, q = Written(w, Scanned(c, i))
  PROVE  ScanTo(w, q, c, i, Len(c) + 1)
<1>1. c \in Seq(Content) /\ Len(c) \in Nat /\ DOMAIN c = 1 .. Len(c) /\ i \in 1 .. Len(c)
  BY LinkedFacts
<1> DEFINE s == [k \in 1 .. Len(c) - i + 1 |-> Connected(SubSeq(c, 1, i + k - 1))]
           n == Len(c) - i + 1
<1>2. s \in Seq(Seq(OpType)) /\ Len(s) = n /\ Scanned(c, i) = Joined(s)
  BY ScannedType
<1>3. \A k \in 1 .. n : s[k] = Connected(SubSeq(c, 1, i + k - 1))
  OBVIOUS
<1>4. n \in Nat /\ n \in 0 .. n
  BY <1>1
<1> HIDE DEF s, n
<1>5. PICK r \in [0 .. n -> WalletType] :
        /\ r[0] = w /\ r[n] = q
        /\ \A k \in 1 .. n : r[k] = Written(r[k - 1], s[k])
  BY <1>2, WrittenJoined
<1> DEFINE S == {k \in 0 .. n : ScanTo(w, r[k], c, i, i + k)}
<1>6. 0 \in S
  <2>1. i + 0 = i /\ 0 \in 0 .. n /\ i .. i - 1 = {}
    BY <1>1, <1>4
  <2>2. \A j \in 1 .. i - 1 : ~(j >= i)
    BY <1>1
  <2>3. ScanTo(w, w, c, i, i)
    BY <2>1, <2>2 DEF ScanTo, Grown, Kinder, KeepsAt
  <2> QED BY <1>5, <2>1, <2>3
<1>7. ASSUME NEW k \in 1 .. n, k - 1 \in S PROVE k \in S
  <2> DEFINE m == i + k - 1
  <2>1. m = i + (k - 1) /\ m + 1 = i + k /\ m \in DOMAIN c /\ i <= m /\ k \in 0 .. n
    BY <1>1 DEF n
  <2>2. ScanTo(w, r[k - 1], c, i, m)
    BY <1>7, <2>1
  <2>3. r[k] = Written(r[k - 1], Connected(SubSeq(c, 1, m)))
    BY <1>3, <1>5
  <2> HIDE DEF m
  <2>4. ScanTo(w, r[k], c, i, m + 1)
    BY <2>1, <2>2, <2>3, ScanMore
  <2> QED BY <2>1, <2>4
<1> HIDE DEF S
<1>8. n \in S
  BY <1>4, <1>6, <1>7, UpTo
<1>9. i + n = Len(c) + 1
  BY <1>1 DEF n
<1> QED BY <1>5, <1>8, <1>9 DEF S

-----------------------------------------------------------------------------
(* Disconnecting blocks.                                                   *)

\* q is w after the blocks of c from the m-th on have been disconnected: what their
\* beansprouts spent is marked no longer.
Undone(w, q, c, m) ==
  /\ q \in WalletType /\ q.tx = w.tx /\ q.block = w.block /\ q.prev = w.prev /\ q.best = w.best
  /\ q.spent \subseteq w.spent
  /\ \A u \in w.spent \ q.spent : \E j \in m .. Len(c) : c[j] \in Sprout /\ u \in Spends[c[j]]
  /\ \A j \in m .. Len(c) : c[j] \in Sprout => Spends[c[j]] \cap q.spent = {}

\* DisableTransaction takes the marks from the inputs of the sprout, nothing else.
LEMMA RefundIs ==
  ASSUME NEW w \in WalletType, w.spent \subseteq w.tx, NEW t \in Sprout,
         NEW q, q = Written(w, Disconnected(t))
  PROVE  /\ q \in WalletType /\ q.tx = w.tx /\ q.block = w.block /\ q.prev = w.prev
         /\ q.best = w.best /\ q.spent = w.spent \ Spends[t]
<1> DEFINE o == Op("refund", t, <<>>)
<1>1. t \in Tx
  BY WalletTxAssumption
<1>2. o \in OpType
  <2>1. <<>> \in Seq(Content)
    OBVIOUS
  <2> QED BY <1>1, <2>1, OpTypes
<1>3. Write(w, o) = Refund(w, t)
  BY DEF Write, Op
<1>4. Disconnected(t) = <<o>>
  BY DEF Disconnected
<1> HIDE DEF o
<1>5. q = Refund(w, t)
  BY <1>2, <1>3, <1>4, WrittenOne
<1>6. q \in WalletType
  BY <1>2, <1>3, <1>5, WriteType
<1>7. /\ q.tx = w.tx /\ q.block = w.block /\ q.prev = w.prev /\ q.best = w.best
      /\ q.spent = w.spent \ (Spends[t] \cap w.tx \cap Mine)
  BY <1>5 DEF Refund, WalletType
<1>8. w.spent \subseteq w.tx \cap Mine
  BY DEF WalletType
<1> QED BY <1>6, <1>7, <1>8

\* Disconnecting one block more.
LEMMA UndoneMore ==
  ASSUME NEW c \in Seq(Content), NEW m \in DOMAIN c, NEW w \in WalletType, w.spent \subseteq w.tx,
         NEW q, Undone(w, q, c, m + 1), NEW x, x = Written(q, Disconnected(c[m]))
  PROVE  Undone(w, x, c, m)
<1>1. Len(c) \in Nat /\ DOMAIN c = 1 .. Len(c) /\ m \in 1 .. Len(c)
  OBVIOUS
<1>2. q \in WalletType /\ q.spent \subseteq q.tx
  BY DEF Undone
<1>3. m \in m .. Len(c) /\ \A j : j \in m .. Len(c) <=> j = m \/ j \in m + 1 .. Len(c)
  BY <1>1
<1>4. CASE c[m] \in Sprout
  <2>1. /\ x \in WalletType /\ x.tx = q.tx /\ x.block = q.block /\ x.prev = q.prev
        /\ x.best = q.best /\ x.spent = q.spent \ Spends[c[m]]
    BY <1>2, <1>4, RefundIs
  <2>2. ASSUME NEW u \in w.spent \ x.spent
        PROVE  \E j \in m .. Len(c) : c[j] \in Sprout /\ u \in Spends[c[j]]
    <3>1. CASE u \in q.spent
      BY <1>3, <1>4, <2>1, <2>2, <3>1
    <3>2. CASE u \notin q.spent
      <4>1. PICK j \in m + 1 .. Len(c) : c[j] \in Sprout /\ u \in Spends[c[j]]
        BY <2>2, <3>2 DEF Undone
      <4> QED BY <1>3, <4>1
    <3> QED BY <3>1, <3>2
  <2>3. ASSUME NEW j \in m .. Len(c), c[j] \in Sprout PROVE Spends[c[j]] \cap x.spent = {}
    <3>1. CASE j = m
      BY <2>1, <3>1
    <3>2. CASE j \in m + 1 .. Len(c)
      <4>1. Spends[c[j]] \cap q.spent = {}
        BY <2>3, <3>2 DEF Undone
      <4> QED BY <2>1, <4>1
    <3> QED BY <1>3, <3>1, <3>2
  <2> QED BY <2>1, <2>2, <2>3 DEF Undone
<1>5. CASE c[m] \notin Sprout
  <2>1. x = q
    BY <1>2, <1>5, WrittenNothing DEF Disconnected
  <2>2. ASSUME NEW u \in w.spent \ q.spent
        PROVE  \E j \in m .. Len(c) : c[j] \in Sprout /\ u \in Spends[c[j]]
    <3>1. PICK j \in m + 1 .. Len(c) : c[j] \in Sprout /\ u \in Spends[c[j]]
      BY <2>2 DEF Undone
    <3> QED BY <1>3, <3>1
  <2>3. ASSUME NEW j \in m .. Len(c), c[j] \in Sprout PROVE Spends[c[j]] \cap q.spent = {}
    BY <1>3, <1>5, <2>3 DEF Undone
  <2> QED BY <2>1, <2>2, <2>3 DEF Undone
<1> QED BY <1>4, <1>5

\* The writes of all the disconnected blocks, by their type.
LEMMA UndoneType ==
  ASSUME NEW c \in Seq(Content), NEW n \in 0 .. Len(c),
         NEW s, s = [k \in 1 .. n |-> Disconnected(c[Len(c) - k + 1])]
  PROVE  s \in Seq(Seq(OpType)) /\ Len(s) = n /\ Joined(s) \in Seq(OpType)
<1>1. Len(c) \in Nat /\ n \in Nat
  OBVIOUS
<1> DEFINE D == Seq(OpType)
<1>2. ASSUME NEW k \in 1 .. n PROVE Disconnected(c[Len(c) - k + 1]) \in D
  <2>1. Len(c) - k + 1 \in 1 .. Len(c)
    BY <1>1
  <2>2. c[Len(c) - k + 1] \in Content
    BY <2>1
  <2> QED BY <2>2, DisconnectedType
<1> HIDE DEF D
<1>3. s \in [1 .. n -> D]
  BY <1>2
<1>4. s \in Seq(D) /\ Len(s) = n
  BY <1>1, <1>3
<1> QED BY <1>4, JoinedType DEF D

\* The last n blocks.
LEMMA UndoneFacts ==
  ASSUME NEW c \in Seq(Content), NEW n \in 0 .. Len(c), NEW w \in WalletType, w.spent \subseteq w.tx,
         NEW q, q = Written(w, Joined([k \in 1 .. n |-> Disconnected(c[Len(c) - k + 1])]))
  PROVE  Undone(w, q, c, Len(c) - n + 1)
<1>1. Len(c) \in Nat /\ n \in Nat /\ DOMAIN c = 1 .. Len(c) /\ n \in 0 .. n
  OBVIOUS
<1> DEFINE s == [k \in 1 .. n |-> Disconnected(c[Len(c) - k + 1])]
<1>2. s \in Seq(Seq(OpType)) /\ Len(s) = n
  BY UndoneType
<1>3. \A k \in 1 .. n : s[k] = Disconnected(c[Len(c) - k + 1])
  OBVIOUS
<1>4. q = Written(w, Joined(s))
  OBVIOUS
<1> HIDE DEF s
<1>9. PICK r \in [0 .. Len(s) -> WalletType] :
        /\ r[0] = w /\ r[Len(s)] = Written(w, Joined(s))
        /\ \A k \in 1 .. Len(s) : r[k] = Written(r[k - 1], s[k])
  BY <1>2, WrittenJoined
<1>5. /\ r \in [0 .. n -> WalletType] /\ r[0] = w /\ r[n] = q
      /\ \A k \in 1 .. n : r[k] = Written(r[k - 1], s[k])
  BY <1>2, <1>4, <1>9
<1> DEFINE S == {k \in 0 .. n : Undone(w, r[k], c, Len(c) - k + 1)}
<1>6. 0 \in S
  <2>1. Len(c) - 0 + 1 = Len(c) + 1 /\ Len(c) + 1 .. Len(c) = {} /\ 0 \in 0 .. n
    BY <1>1
  <2>2. Undone(w, w, c, Len(c) + 1)
    BY <2>1 DEF Undone
  <2> QED BY <1>5, <2>1, <2>2
<1>7. ASSUME NEW k \in 1 .. n, k - 1 \in S PROVE k \in S
  <2> DEFINE m == Len(c) - k + 1
  <2>1. m + 1 = Len(c) - (k - 1) + 1 /\ m \in DOMAIN c /\ k \in 0 .. n
    BY <1>1
  <2>2. Undone(w, r[k - 1], c, m + 1)
    BY <1>7, <2>1
  <2>3. r[k] = Written(r[k - 1], Disconnected(c[m]))
    BY <1>3, <1>5
  <2> HIDE DEF m
  <2>4. Undone(w, r[k], c, m)
    BY <2>1, <2>2, <2>3, UndoneMore
  <2> QED BY <2>1, <2>4 DEF m
<1> HIDE DEF S
<1>8. n \in S
  BY <1>1, <1>6, <1>7, UpTo
<1> QED BY <1>5, <1>8 DEF S

-----------------------------------------------------------------------------
(* Chains that begin alike, and blocks that are not in the chain.          *)

\* What holds of a block of one chain holds of the same block of another.
LEMMA SameBlock ==
  ASSUME NEW w, NEW c \in Seq(Content), NEW d \in Seq(Content), NEW m \in 0 .. Len(c), m <= Len(d),
         \A i \in 1 .. m : c[i] = d[i], NEW j \in 1 .. m
  PROVE  /\ HasAt(w, c, j) <=> HasAt(w, d, j)
         /\ KnowsAt(w, c, j) <=> KnowsAt(w, d, j)
         /\ MarkedAt(w, c, j) <=> MarkedAt(w, d, j)
<1>1. c[j] = d[j]
  OBVIOUS
<1> DEFINE x == SubSeq(c, 1, j)
           y == SubSeq(d, 1, j)
<1>2. x = y
  <2>1. j \in 0 .. Len(c) /\ j <= Len(d) /\ \A i \in 1 .. j : c[i] = d[i]
    OBVIOUS
  <2> QED BY <2>1, CutSame
<1>3. /\ KnowsAt(w, c, j) <=> (Concerns(c[j]) => w.block[c[j]] = x)
      /\ KnowsAt(w, d, j) <=> (Concerns(d[j]) => w.block[d[j]] = y)
  BY DEF KnowsAt
<1> HIDE DEF x, y
<1>4. KnowsAt(w, c, j) <=> KnowsAt(w, d, j)
  BY <1>1, <1>2, <1>3
<1>5. HasAt(w, c, j) <=> HasAt(w, d, j)
  BY <1>1 DEF HasAt
<1>6. MarkedAt(w, c, j) <=> MarkedAt(w, d, j)
  BY <1>1 DEF MarkedAt
<1> QED BY <1>4, <1>5, <1>6

\* Taking the blocks outside the chain for none changes nothing about those in it.
LEMMA InStepFacts ==
  ASSUME NEW w \in WalletType, NEW c, Linked(c), NEW q, q = InStep(w, c)
  PROVE  /\ q \in WalletType /\ q.tx = w.tx /\ q.spent = w.spent /\ q.prev = w.prev /\ q.best = w.best
         /\ \A j \in DOMAIN c : KnowsAt(w, c, j) => KnowsAt(q, c, j)
<1> DEFINE f == [t \in Tx |-> IF IsPrefix(w.block[t], c) THEN w.block[t] ELSE <<>>]
<1>1. \A t \in Tx : f[t] = IF IsPrefix(w.block[t], c) THEN w.block[t] ELSE <<>>
  OBVIOUS
<1>2. f \in [Tx -> Seq(Content)]
  <2>1. <<>> \in Seq(Content) /\ \A t \in Tx : w.block[t] \in Seq(Content)
    BY DEF WalletType
  <2> DEFINE D == Seq(Content)
  <2> HIDE DEF D
  <2>2. <<>> \in D /\ \A t \in Tx : w.block[t] \in D
    BY <2>1 DEF D
  <2>3. f \in [Tx -> D]
    BY <2>2
  <2> QED BY <2>3 DEF D
<1>3. q = [w EXCEPT !.block = f]
  BY DEF InStep
<1> HIDE DEF f
<1>4. q \in WalletType /\ q.tx = w.tx /\ q.spent = w.spent /\ q.prev = w.prev /\ q.best = w.best /\ q.block = f
  BY <1>2, <1>3 DEF WalletType
<1>5. ASSUME NEW j \in DOMAIN c, KnowsAt(w, c, j) PROVE KnowsAt(q, c, j)
  <2> DEFINE b == SubSeq(c, 1, j)
  <2>1. c \in Seq(Content) /\ j \in 0 .. Len(c) /\ (c[j] # None => c[j] \in Tx)
    BY LinkedFacts
  <2>2. IsPrefix(b, c)
    BY <2>1, CutIsPrefix
  <2>3. /\ KnowsAt(w, c, j) <=> (Concerns(c[j]) => w.block[c[j]] = b)
        /\ KnowsAt(q, c, j) <=> (Concerns(c[j]) => q.block[c[j]] = b)
    BY DEF KnowsAt
  <2> HIDE DEF b
  <2>4. ASSUME Concerns(c[j]) PROVE q.block[c[j]] = b
    <3>1. c[j] \in Tx /\ w.block[c[j]] = b
      BY <1>5, <2>1, <2>3, <2>4 DEF Concerns
    <3>2. f[c[j]] = b
      BY <1>1, <2>2, <3>1
    <3> QED BY <1>4, <3>2
  <2> QED BY <2>3, <2>4
<1> QED BY <1>4, <1>5

-----------------------------------------------------------------------------
(* ReacceptWalletTransactions.                                             *)

\* Once the wallet has what concerns it, a scan for what is new finds nothing.
LEMMA ToldOfNothing ==
  ASSUME NEW w \in WalletType, w.spent \subseteq w.tx, NEW t \in Tx, t \notin w.tx, ~Concerns(t),
         NEW b \in Seq(Content), b # <<>>, NEW q, q = Told(w, t, b)
  PROVE  /\ q.tx = w.tx /\ q.spent = w.spent /\ q.block = w.block /\ q.prev = w.prev /\ q.best = w.best
<1>1. AfterTold(w, q, t, b)
  BY ToldFacts
<1>2. t \notin Mine /\ Spends[t] \cap Mine = {}
  BY WalletTxAssumption DEF Concerns
<1>3. ~Involved(w, t)
  BY <1>2 DEF Involved, IsFromMe
<1>4. q.tx = w.tx /\ q.block = w.block /\ q.prev = w.prev /\ q.best = w.best
  BY <1>1, <1>3 DEF AfterTold
<1>5. q.spent = (w.spent \cup (Spends[t] \cap q.tx \cap Mine)) \ {t}
  BY <1>1 DEF AfterTold
<1>6. t \notin w.spent
  OBVIOUS
<1>7. q.spent = w.spent
  BY <1>2, <1>5, <1>6
<1> QED BY <1>4, <1>7

\* The same wallet, as to every field.
Same(w, q) == /\ q \in WalletType /\ q.tx = w.tx /\ q.spent = w.spent /\ q.block = w.block
              /\ q.prev = w.prev /\ q.best = w.best

\* A rescan for unknown transactions finds none in a wallet that has them all.
LEMMA NothingNew ==
  ASSUME NEW w \in WalletType, w.spent \subseteq w.tx, NEW c, Linked(c), Has(w, c)
  PROVE  Same(w, Written(w, ScannedForNew(w, c)))
<1>1. c \in Seq(Content) /\ Len(c) \in Nat /\ DOMAIN c = 1 .. Len(c) /\ Len(c) \in 0 .. Len(c)
  BY LinkedFacts
<1> DEFINE D == Seq(OpType)
           one(k) == IF c[k] \in w.tx THEN <<>> ELSE Connected(SubSeq(c, 1, k))
           s == [k \in 1 .. Len(c) |-> one(k)]
<1>2. ASSUME NEW k \in 1 .. Len(c)
      PROVE  /\ one(k) \in D
             /\ \A v \in WalletType : Same(w, v) => Same(w, Written(v, one(k)))
  <2> DEFINE b == SubSeq(c, 1, k)
  <2>1. b \in Seq(Content) /\ Len(b) = k /\ b[k] = c[k]
    <3>1. k \in 0 .. Len(c) /\ k \in 1 .. k
      BY <1>1
    <3> QED BY <1>1, <3>1, Cut
  <2>2. one(k) = IF c[k] \in w.tx THEN <<>> ELSE Connected(b)
    OBVIOUS
  <2> HIDE DEF b, one
  <2>3. b # <<>> /\ Last(b) = c[k] /\ Connected(b) \in D
    BY <2>1, ConnectedType
  <2>4. <<>> \in D
    OBVIOUS
  <2>5. ASSUME NEW v \in WalletType, Same(w, v), c[k] \notin w.tx PROVE Same(w, Written(v, Connected(b)))
    <3>1. Written(v, Connected(b)) = IF c[k] = None THEN v ELSE Told(v, c[k], b)
      BY <2>1, <2>3, ConnectedIs
    <3>2. Written(v, Connected(b)) \in WalletType
      BY <2>3, WrittenSplit
    <3>3. CASE c[k] = None
      BY <2>5, <3>1, <3>3
    <3>4. CASE c[k] # None
      <4>1. c[k] \in Tx /\ ~Concerns(c[k])
        BY <1>1, <2>5, <3>4, LinkedFacts DEF Has, HasAt
      <4>2. v.spent \subseteq v.tx /\ c[k] \notin v.tx
        BY <2>5 DEF Same
      <4> DEFINE q == Told(v, c[k], b)
      <4>3. q.tx = v.tx /\ q.spent = v.spent /\ q.block = v.block /\ q.prev = v.prev /\ q.best = v.best
        BY <2>1, <2>3, <4>1, <4>2, ToldOfNothing
      <4> HIDE DEF q
      <4>4. Written(v, Connected(b)) = q
        BY <3>1, <3>4 DEF q
      <4> QED BY <2>5, <3>2, <4>3, <4>4 DEF Same
    <3> QED BY <3>3, <3>4
  <2>6. ASSUME NEW v \in WalletType PROVE Written(v, <<>>) = v
    BY WrittenNothing
  <2>7. CASE c[k] \in w.tx
    BY <2>2, <2>4, <2>6, <2>7
  <2>8. CASE c[k] \notin w.tx
    BY <2>2, <2>3, <2>5, <2>8
  <2> QED BY <2>7, <2>8
<1>3. ScannedForNew(w, c) = Joined(s)
  BY DEF ScannedForNew
<1>4. \A k \in 1 .. Len(c) : s[k] = one(k)
  OBVIOUS
<1>5. s \in Seq(D) /\ Len(s) = Len(c)
  <2> HIDE DEF D, one
  <2>1. s \in [1 .. Len(c) -> D]
    BY <1>2
  <2> QED BY <1>1, <2>1
<1> HIDE DEF s, one
<1>6. PICK r \in [0 .. Len(s) -> WalletType] :
        /\ r[0] = w /\ r[Len(s)] = Written(w, Joined(s))
        /\ \A k \in 1 .. Len(s) : r[k] = Written(r[k - 1], s[k])
  BY <1>5, WrittenJoined
<1> DEFINE S == {k \in 0 .. Len(s) : Same(w, r[k])}
<1>7. 0 \in S
  BY <1>1, <1>5, <1>6 DEF Same
<1>8. ASSUME NEW k \in 1 .. Len(s), k - 1 \in S PROVE k \in S
  <2>1. k - 1 \in 0 .. Len(s) /\ k \in 0 .. Len(s) /\ Same(w, r[k - 1]) /\ k \in 1 .. Len(c)
    BY <1>1, <1>5, <1>8
  <2>2. r[k] = Written(r[k - 1], one(k)) /\ r[k - 1] \in WalletType
    BY <1>4, <1>6, <2>1
  <2>3. Same(w, r[k])
    BY <1>2, <2>1, <2>2
  <2> QED BY <2>1, <2>3
<1> HIDE DEF S
<1>9. Len(s) \in S
  BY <1>1, <1>5, <1>7, <1>8, UpTo
<1> QED BY <1>3, <1>6, <1>9 DEF S

\* q is w with, if any of it was not, all that the chain has spent marked.
Remarked(w, q, c, all) ==
  /\ q \in WalletType /\ q.tx = w.tx /\ q.block = w.block /\ q.prev = w.prev /\ q.best = w.best
  /\ q.spent \subseteq q.tx /\ w.spent \subseteq q.spent
  /\ \A j \in DOMAIN c : ReasonAt(w, c, j) => ReasonAt(q, c, j)
  /\ all => Marked(q, c, {})

\* One turn of ReacceptWalletTransactions: every input the chain spends is marked.
LEMMA ReacceptFacts ==
  ASSUME NEW w \in WalletType, w.spent \subseteq w.tx, NEW c, Linked(c), Has(w, c)
  PROVE  Remarked(w, Reaccept(w, c), c, TRUE)
<1> DEFINE new == {t \in (w.tx \cap Mine \cap InChain(c)) \ w.spent : t \in SpentBy(InChain(c))}
           m == [w EXCEPT !.spent = @ \cup new]
           q == Reaccept(w, c)
<1>1. /\ m \in WalletType /\ m.tx = w.tx /\ m.spent = w.spent \cup new /\ m.block = w.block
      /\ m.prev = w.prev /\ m.best = w.best
  <2>1. new \subseteq Mine
    OBVIOUS
  <2> HIDE DEF new
  <2> QED BY <2>1 DEF WalletType
<1>2. q = IF new = {} THEN w ELSE Written(m, ScannedForNew(m, c))
  BY DEF Reaccept
<1>3. new \subseteq w.tx
  OBVIOUS
<1>4. \A t : t \in new <=> t \in w.tx /\ t \in Mine /\ t \in InChain(c) /\ t \notin w.spent /\ t \in SpentBy(InChain(c))
  OBVIOUS
<1> HIDE DEF new, m, q
<1>5. Has(m, c)
  BY <1>1 DEF Has, HasAt
<1>6. /\ q \in WalletType /\ q.tx = w.tx /\ q.spent = w.spent \cup new /\ q.block = w.block
      /\ q.prev = w.prev /\ q.best = w.best
  <2>1. CASE new = {}
    BY <1>2, <2>1
  <2>2. CASE new # {}
    <3>1. m.spent \subseteq m.tx
      BY <1>1, <1>3
    <3>2. Same(m, q)
      BY <1>1, <1>2, <1>5, <2>2, <3>1, NothingNew
    <3> QED BY <1>1, <3>2 DEF Same
  <2> QED BY <2>1, <2>2
<1>7. /\ c \in Seq(Content) /\ DOMAIN c = 1 .. Len(c)
      /\ \A i \in DOMAIN c : c[i] # None => c[i] \in InChain(c)
      /\ \A t : t \in InChain(c) <=> t # None /\ \E i \in DOMAIN c : c[i] = t
  BY LinkedFacts, InChainIs
<1>8. Mine \subseteq Tx /\ None \notin Mine
  BY WalletTxAssumption
<1>9. ASSUME NEW j \in DOMAIN c, ReasonAt(w, c, j) PROVE ReasonAt(q, c, j)
  <2> SUFFICES ASSUME c[j] \in q.spent
               PROVE  \E u \in q.tx : c[j] \in Spends[u] /\ (u \in Sprout => u \in InChain(c))
    BY DEF ReasonAt
  <2>1. CASE c[j] \in w.spent
    BY <1>6, <1>9, <2>1 DEF ReasonAt
  <2>2. CASE c[j] \in new
    <3>1. PICK u \in InChain(c) : c[j] \in Spends[u]
      BY <1>4, <2>2 DEF SpentBy
    <3>2. PICK i \in DOMAIN c : c[i] = u /\ u # None
      BY <1>7, <3>1
    <3>3. Concerns(c[i])
      BY <1>4, <2>2, <3>1, <3>2 DEF Concerns
    <3>4. u \in w.tx
      BY <3>2, <3>3 DEF Has, HasAt
    <3> QED BY <1>6, <3>1, <3>4
  <2> QED BY <1>6, <2>1, <2>2
<1>10. ASSUME NEW j \in DOMAIN c PROVE MarkedAt(q, c, j)
  <2> SUFFICES ASSUME c[j] # None, NEW u \in Spends[c[j]], u \in Mine PROVE u \in q.spent
    BY DEF MarkedAt
  <2>1. PICK i \in DOMAIN c : c[i] = u
    BY DEF Linked
  <2>2. Concerns(c[i])
    BY <1>8, <2>1 DEF Concerns
  <2>3. u \in w.tx
    BY <2>1, <2>2 DEF Has, HasAt
  <2>4. u \in InChain(c)
    BY <1>7, <1>8, <2>1
  <2>5. u \in SpentBy(InChain(c))
    BY <1>7 DEF SpentBy
  <2> QED BY <1>4, <1>6, <2>3, <2>4, <2>5
<1>11. q.spent \subseteq q.tx /\ w.spent \subseteq q.spent
  BY <1>3, <1>6
<1>12. Remarked(w, q, c, TRUE)
  BY <1>6, <1>9, <1>10, <1>11 DEF Remarked, Marked, MarkedAt
<1> QED BY <1>12 DEF q
\* The turns of ReacceptWalletTransactions, one by one.
LEMMA TurnSteps ==
  ASSUME NEW D, NEW w \in D, NEW c, \A v \in D : Reaccept(v, c) \in D, Cardinality(Tx) \in Nat
  PROVE  \E r \in [0 .. Cardinality(Tx) -> D] :
           /\ r[0] = w /\ r[Cardinality(Tx)] = Reaccepted(w, c)
           /\ \A i \in 1 .. Cardinality(Tx) : r[i] = Reaccept(r[i - 1], c)
<1> DEFINE s == [i \in 1 .. Cardinality(Tx) |-> i]
<1>a. s \in Seq(Nat) /\ Len(s) = Cardinality(Tx)
  OBVIOUS
<1> DEFINE F == [z \in (D) \X (Nat) |-> Reaccept(z[1], c)]
           P(f) == f = [S \in SUBSET DOMAIN s |->
                          IF S = {} THEN w ELSE LET x == Max(S) IN Reaccept(f[S \ {x}], c)]
           h == CHOOSE f : P(f)
<1>0. DOMAIN s = 1 .. Len(s) /\ \A x \in D : \A y \in Nat : F[<<x, y>>] = Reaccept(x, c)
  OBVIOUS
<1>1. F \in [(D) \X (Nat) -> D]
  OBVIOUS
<1> HIDE DEF F
<1>2. PICK g \in [SUBSET (1 .. Len(s)) -> D] : Solves(g, Len(s), w, F, s)
  <2> HIDE DEF s
  <2> QED BY <1>a, <1>1, FoldExists
<1>3. P(g)
  <2> HIDE DEF s
  <2>1. ASSUME NEW S \in SUBSET (1 .. Len(s))
        PROVE  g[S] = IF S = {} THEN w ELSE Reaccept(g[S \ {Max(S)}], c)
    <3>1. ASSUME S # {} PROVE g[S \ {Max(S)}] \in D /\ s[Max(S)] \in Nat
      BY <1>a, <3>1, LastOf
    <3> QED BY <1>0, <1>2, <3>1 DEF Solves
  <2> QED BY <1>0, <2>1
<1>4. P(h)
  <2> HIDE DEF P
  <2> QED BY <1>3
<1>5. Reaccepted(w, c) = h[1 .. Len(s)]
  <2>1. Reaccepted(w, c) = h[DOMAIN s]
    BY DEF Reaccepted, FoldLeft, MapThenFoldSet
  <2> QED BY <1>0, <2>1
<1> HIDE DEF h, s
<1>6. ASSUME NEW S \in SUBSET (1 .. Len(s))
      PROVE  h[S] = IF S = {} THEN w ELSE Reaccept(h[S \ {Max(S)}], c)
  BY <1>0, <1>4
<1> HIDE DEF P
<1>7. ASSUME NEW S \in SUBSET (1 .. Len(s)), S # {}, h[S \ {Max(S)}] \in D
      PROVE  h[S] = F[<<h[S \ {Max(S)}], s[Max(S)]>>]
  <2>1. s[Max(S)] \in Nat
    BY <1>a, <1>7, LastOf
  <2> QED BY <1>0, <1>6, <1>7, <2>1
<1>8. PICK r \in [0 .. Len(s) -> D] :
        /\ r[0] = w /\ r[Len(s)] = h[1 .. Len(s)]
        /\ \A i \in 1 .. Len(s) : r[i] = F[<<r[i - 1], s[i]>>]
  <2>1. Unfolds(h, w, D, F, s)
    BY <1>6, <1>7 DEF Unfolds
  <2>2. PICK r \in [0 .. Len(s) -> D] : Run(r, w, h[1 .. Len(s)], F, s)
    BY <1>a, <1>1, <2>1, FoldSteps
  <2> QED BY <2>2 DEF Run
<1>9. ASSUME NEW i \in 1 .. Len(s) PROVE r[i] = Reaccept(r[i - 1], c)
  <2>1. r[i - 1] \in D /\ s[i] \in Nat
    BY SMTT(30), <1>a
  <2> QED BY <1>0, <1>8, <2>1
<1> QED BY <1>a, <1>5, <1>8, <1>9

\* The pool by its type, with one transaction accepted ...
LEMMA AcceptType ==
  ASSUME NEW p \in SUBSET Tx, NEW t
  PROVE  Accept(p, t) \in SUBSET Tx
BY DEF Accept, AcceptToMemoryPool

\* The transactions that a pool is offered, one by one.
LEMMA AcceptSteps ==
  ASSUME NEW p \in SUBSET Tx, NEW s \in Seq(Tx)
  PROVE  \E r \in [0 .. Len(s) -> SUBSET Tx] :
           /\ r[0] = p /\ r[Len(s)] = Accepted(p, s)
           /\ \A i \in 1 .. Len(s) : r[i] = Accept(r[i - 1], s[i])
<1> DEFINE F == [z \in (SUBSET Tx) \X (Tx) |-> Accept(z[1], z[2])]
           P(f) == f = [S \in SUBSET DOMAIN s |->
                          IF S = {} THEN p ELSE LET x == Max(S) IN Accept(f[S \ {x}], s[x])]
           h == CHOOSE f : P(f)
<1>0. DOMAIN s = 1 .. Len(s) /\ \A x \in SUBSET Tx : \A y \in Tx : F[<<x, y>>] = Accept(x, y)
  OBVIOUS
<1>1. F \in [(SUBSET Tx) \X (Tx) -> SUBSET Tx]
  BY AcceptType
<1> HIDE DEF F
<1>2. PICK g \in [SUBSET (1 .. Len(s)) -> SUBSET Tx] : Solves(g, Len(s), p, F, s)
  BY <1>1, FoldExists
<1>3. P(g)
  <2>1. ASSUME NEW S \in SUBSET (1 .. Len(s))
        PROVE  g[S] = IF S = {} THEN p ELSE Accept(g[S \ {Max(S)}], s[Max(S)])
    <3>1. ASSUME S # {} PROVE g[S \ {Max(S)}] \in SUBSET Tx /\ s[Max(S)] \in Tx
      BY <3>1, LastOf
    <3> QED BY <1>0, <1>2, <3>1 DEF Solves
  <2> QED BY <1>0, <2>1
<1>4. P(h)
  <2> HIDE DEF P
  <2> QED BY <1>3
<1>5. Accepted(p, s) = h[1 .. Len(s)]
  BY <1>0 DEF Accepted, FoldLeft, MapThenFoldSet
<1> HIDE DEF h
<1>6. ASSUME NEW S \in SUBSET (1 .. Len(s))
      PROVE  h[S] = IF S = {} THEN p ELSE Accept(h[S \ {Max(S)}], s[Max(S)])
  BY <1>0, <1>4
<1> HIDE DEF P
<1>7. ASSUME NEW S \in SUBSET (1 .. Len(s)), S # {}, h[S \ {Max(S)}] \in SUBSET Tx
      PROVE  h[S] = F[<<h[S \ {Max(S)}], s[Max(S)]>>]
  <2>1. s[Max(S)] \in Tx
    BY <1>7, LastOf
  <2> QED BY <1>0, <1>6, <1>7, <2>1
<1>8. PICK r \in [0 .. Len(s) -> SUBSET Tx] :
        /\ r[0] = p /\ r[Len(s)] = h[1 .. Len(s)]
        /\ \A i \in 1 .. Len(s) : r[i] = F[<<r[i - 1], s[i]>>]
  <2>1. Unfolds(h, p, SUBSET Tx, F, s)
    BY <1>6, <1>7 DEF Unfolds
  <2>2. PICK r \in [0 .. Len(s) -> SUBSET Tx] : Run(r, p, h[1 .. Len(s)], F, s)
    BY <1>1, <2>1, FoldSteps
  <2> QED BY <2>2 DEF Run
<1>9. ASSUME NEW i \in 1 .. Len(s) PROVE r[i] = Accept(r[i - 1], s[i])
  <2>1. r[i - 1] \in SUBSET Tx /\ s[i] \in Tx
    OBVIOUS
  <2> QED BY <1>0, <1>8, <2>1
<1> QED BY <1>5, <1>8, <1>9

\* The pool by its type, with one transaction of a disconnected block put back ...
LEMMA ResurrectType ==
  ASSUME NEW p \in SUBSET Tx, NEW t \in Content
  PROVE  Resurrect(p, t) \in SUBSET Tx
BY DEF Resurrect, Content

\* The transactions of disconnected blocks, one by one.
LEMMA ResurrectSteps ==
  ASSUME NEW p \in SUBSET Tx, NEW s \in Seq(Content)
  PROVE  \E r \in [0 .. Len(s) -> SUBSET Tx] :
           /\ r[0] = p /\ r[Len(s)] = Resurrected(p, s)
           /\ \A i \in 1 .. Len(s) : r[i] = Resurrect(r[i - 1], s[i])
<1> DEFINE F == [z \in (SUBSET Tx) \X (Content) |-> Resurrect(z[1], z[2])]
           P(f) == f = [S \in SUBSET DOMAIN s |->
                          IF S = {} THEN p ELSE LET x == Max(S) IN Resurrect(f[S \ {x}], s[x])]
           h == CHOOSE f : P(f)
<1>0. DOMAIN s = 1 .. Len(s) /\ \A x \in SUBSET Tx : \A y \in Content : F[<<x, y>>] = Resurrect(x, y)
  OBVIOUS
<1>1. F \in [(SUBSET Tx) \X (Content) -> SUBSET Tx]
  BY ResurrectType
<1> HIDE DEF F
<1>2. PICK g \in [SUBSET (1 .. Len(s)) -> SUBSET Tx] : Solves(g, Len(s), p, F, s)
  BY <1>1, FoldExists
<1>3. P(g)
  <2>1. ASSUME NEW S \in SUBSET (1 .. Len(s))
        PROVE  g[S] = IF S = {} THEN p ELSE Resurrect(g[S \ {Max(S)}], s[Max(S)])
    <3>1. ASSUME S # {} PROVE g[S \ {Max(S)}] \in SUBSET Tx /\ s[Max(S)] \in Content
      BY <3>1, LastOf
    <3> QED BY <1>0, <1>2, <3>1 DEF Solves
  <2> QED BY <1>0, <2>1
<1>4. P(h)
  <2> HIDE DEF P
  <2> QED BY <1>3
<1>5. Resurrected(p, s) = h[1 .. Len(s)]
  BY <1>0 DEF Resurrected, FoldLeft, MapThenFoldSet
<1> HIDE DEF h
<1>6. ASSUME NEW S \in SUBSET (1 .. Len(s))
      PROVE  h[S] = IF S = {} THEN p ELSE Resurrect(h[S \ {Max(S)}], s[Max(S)])
  BY <1>0, <1>4
<1> HIDE DEF P
<1>7. ASSUME NEW S \in SUBSET (1 .. Len(s)), S # {}, h[S \ {Max(S)}] \in SUBSET Tx
      PROVE  h[S] = F[<<h[S \ {Max(S)}], s[Max(S)]>>]
  <2>1. s[Max(S)] \in Content
    BY <1>7, LastOf
  <2> QED BY <1>0, <1>6, <1>7, <2>1
<1>8. PICK r \in [0 .. Len(s) -> SUBSET Tx] :
        /\ r[0] = p /\ r[Len(s)] = h[1 .. Len(s)]
        /\ \A i \in 1 .. Len(s) : r[i] = F[<<r[i - 1], s[i]>>]
  <2>1. Unfolds(h, p, SUBSET Tx, F, s)
    BY <1>6, <1>7 DEF Unfolds
  <2>2. PICK r \in [0 .. Len(s) -> SUBSET Tx] : Run(r, p, h[1 .. Len(s)], F, s)
    BY <1>1, <2>1, FoldSteps
  <2> QED BY <2>2 DEF Run
<1>9. ASSUME NEW i \in 1 .. Len(s) PROVE r[i] = Resurrect(r[i - 1], s[i])
  <2>1. r[i - 1] \in SUBSET Tx /\ s[i] \in Content
    OBVIOUS
  <2> QED BY <1>0, <1>8, <2>1
<1> QED BY <1>5, <1>8, <1>9

\* The transactions are finitely many, and there is one.
LEMMA Counted ==
  /\ Cardinality(Tx) \in Nat /\ Cardinality(Tx) >= 1
  /\ \A S \in SUBSET Tx : Cardinality(S) \in Nat
<1>1. First \in Tx
  BY WalletTxAssumption
<1>2. Cardinality(Tx) \in Nat
  BY FiniteAssumption, FS_CardinalityType
<1>3. Cardinality(Tx) # 0
  BY <1>1, FiniteAssumption, FS_EmptySet
<1>4. ASSUME NEW S \in SUBSET Tx PROVE Cardinality(S) \in Nat
  <2>1. IsFiniteSet(S)
    BY FiniteAssumption, FS_Subset
  <2> QED BY <2>1, FS_CardinalityType
<1> QED BY <1>2, <1>3, <1>4

\* All the turns of ReacceptWalletTransactions.
LEMMA ReacceptedFacts ==
  ASSUME NEW w \in WalletType, w.spent \subseteq w.tx, NEW c, Linked(c), Has(w, c)
  PROVE  Remarked(w, Reaccepted(w, c), c, TRUE)
<1> DEFINE D == {v \in WalletType : v.spent \subseteq v.tx /\ Has(v, c)}
           n == Cardinality(Tx)
<1>1. n \in Nat /\ n >= 1 /\ n \in 0 .. n
  BY Counted
<1>2. ASSUME NEW v \in D PROVE Reaccept(v, c) \in D /\ Remarked(v, Reaccept(v, c), c, TRUE)
  <2>1. Remarked(v, Reaccept(v, c), c, TRUE) /\ Has(v, c)
    BY ReacceptFacts
  <2> QED BY <2>1 DEF Remarked, Has, HasAt
<1>3. w \in D
  OBVIOUS
<1>9. \A v \in D : Reaccept(v, c) \in D
  BY <1>2
<1> HIDE DEF D
<1>4. PICK r \in [0 .. n -> D] :
        /\ r[0] = w /\ r[n] = Reaccepted(w, c)
        /\ \A i \in 1 .. n : r[i] = Reaccept(r[i - 1], c)
  BY <1>1, <1>3, <1>9, TurnSteps
<1> HIDE DEF n
<1> DEFINE S == {i \in 0 .. n : Remarked(w, r[i], c, i >= 1)}
<1>5. 0 \in S
  BY <1>1, <1>4 DEF Remarked
<1>6. ASSUME NEW i \in 1 .. n, i - 1 \in S PROVE i \in S
  <2>1. i - 1 \in 0 .. n /\ i \in 0 .. n /\ Remarked(w, r[i - 1], c, i - 1 >= 1)
    BY <1>1, <1>6
  <2>2. Remarked(r[i - 1], r[i], c, TRUE)
    BY <1>2, <1>4, <2>1
  <2>3. Remarked(w, r[i], c, i >= 1)
    BY <2>1, <2>2 DEF Remarked
  <2> QED BY <2>1, <2>3
<1> HIDE DEF S
<1>7. n \in S
  BY <1>1, <1>5, <1>6, UpTo
<1>8. Remarked(w, r[n], c, n >= 1)
  BY <1>7 DEF S
<1> QED BY <1>1, <1>4, <1>8 DEF Remarked

-----------------------------------------------------------------------------
(* The pool.                                                               *)

\* ... and with any number of them accepted.
LEMMA AcceptedType ==
  ASSUME NEW p \in SUBSET Tx, NEW s \in Seq(Tx)
  PROVE  Accepted(p, s) \in SUBSET Tx
<1>1. PICK r \in [0 .. Len(s) -> SUBSET Tx] : r[Len(s)] = Accepted(p, s)
  BY AcceptSteps
<1>2. Len(s) \in 0 .. Len(s)
  OBVIOUS
<1> QED BY <1>1, <1>2

\* An order of a set of transactions is a sequence as long as the set is large.
LEMMA OrdersType ==
  ASSUME NEW S \in SUBSET Tx, NEW s \in SetToSeqs(S)
  PROVE  s \in Seq(Tx) /\ DOMAIN s = 1 .. Cardinality(S) /\ Cardinality(S) \in Nat
<1>1. Cardinality(S) \in Nat
  BY Counted
<1>2. s \in [1 .. Cardinality(S) -> S]
  BY DEF SetToSeqs
<1> QED BY <1>1, <1>2

\* What AcceptWalletTransaction offers the pool are transactions.
LEMMA WithPrevType ==
  ASSUME NEW w, NEW t \in Tx
  PROVE  WithPrev(w, t) \in Seq(Tx)
<1> DEFINE orders == {s \in SetToSeqs(Ancestors[t]) :
                        \A i, j \in DOMAIN s : s[i] \in Ancestors[s[j]] => i < j}
<1>1. WithPrev(w, t) = IF w.prev[t] = <<>> \/ orders = {} THEN <<t>>
                       ELSE Append(CHOOSE s \in orders : TRUE, t)
  BY DEF WithPrev
<1>2. Ancestors[t] \in SUBSET Tx
  BY DEF Ancestors
<1>3. orders # {} => (CHOOSE s \in orders : TRUE) \in orders
  <2> HIDE DEF orders
  <2> QED OBVIOUS
<1>4. \A s \in orders : s \in Seq(Tx)
  BY <1>2, OrdersType
<1> HIDE DEF orders
<1> DEFINE z == CHOOSE s \in orders : TRUE
<1>5. orders # {} => z \in Seq(Tx)
  BY <1>3, <1>4
<1>6. WithPrev(w, t) = <<t>> \/ (orders # {} /\ WithPrev(w, t) = Append(z, t))
  BY <1>1
<1> HIDE DEF z
<1>7. <<t>> \in Seq(Tx)
  OBVIOUS
<1>8. ASSUME orders # {} PROVE Append(z, t) \in Seq(Tx)
  BY <1>5, <1>8
<1> QED BY <1>6, <1>7, <1>8

\* The pool by its type, after ReacceptWalletTransactions.
LEMMA ReenteredType ==
  ASSUME NEW w \in WalletType, NEW p \in SUBSET Tx, NEW q \in Reentered(w, p)
  PROVE  q \in SUBSET Tx
<1> DEFINE S == w.tx \ (Sprout \cup InChain(chain))
           x(order) == [i \in DOMAIN order |-> WithPrev(w, order[i])]
<1>1. S \in SUBSET Tx
  BY DEF WalletType
<1> HIDE DEF S
<1>2. PICK order \in SetToSeqs(S) : q = Accepted(p, Joined(x(order)))
  BY DEF Reentered, S
<1>3. order \in Seq(Tx) /\ DOMAIN order = 1 .. Cardinality(S) /\ Cardinality(S) \in Nat
  BY <1>1, OrdersType
<1> DEFINE D == Seq(Tx)
           y == x(order)
<1>4. \A i \in DOMAIN order : order[i] \in Tx
  BY <1>3
<1>5. \A i \in DOMAIN order : WithPrev(w, order[i]) \in D
  BY <1>4, WithPrevType
<1> HIDE DEF D
<1>6. y \in [1 .. Cardinality(S) -> D]
  BY <1>3, <1>5
<1>7. q = Accepted(p, Joined(y))
  BY <1>2
<1> HIDE DEF y, x
<1>8. y \in Seq(D)
  BY <1>3, <1>6
<1>9. Joined(y) \in Seq(Tx)
  BY <1>8, JoinedType DEF D
<1> QED BY <1>7, <1>9, AcceptedType

\* ... and with any number of them put back.
LEMMA ResurrectedType ==
  ASSUME NEW p \in SUBSET Tx, NEW s \in Seq(Content)
  PROVE  Resurrected(p, s) \in SUBSET Tx
<1>1. PICK r \in [0 .. Len(s) -> SUBSET Tx] : r[Len(s)] = Resurrected(p, s)
  BY ResurrectSteps
<1>2. Len(s) \in 0 .. Len(s)
  OBVIOUS
<1> QED BY <1>1, <1>2

\* The pool by its type, after a reorganisation.
LEMMA PoolAfterType ==
  ASSUME chain \in Seq(Content), pool \in SUBSET Tx, NEW n \in Nat, n < Len(chain), NEW c
  PROVE  PoolAfter(c, n) \in SUBSET Tx
<1> DEFINE m == Len(chain) - n
           b == SubSeq(chain, m + 1, Len(chain))
           back == Resurrected(pool, Reverse(b))
<1>1. Len(chain) \in Nat /\ m + 1 \in 1 .. Len(chain) + 1 /\ m \in Nat
  OBVIOUS
<1>2. b \in Seq(Content)
  <2>1. \A i \in m + 1 .. Len(chain) : chain[i] \in Content
    BY <1>1
  <2> HIDE DEF m
  <2> QED BY <1>1, <2>1
<1>3. PoolAfter(c, n) \subseteq back
  BY DEF PoolAfter
<1> HIDE DEF b
<1>4. Reverse(b) \in Seq(Content)
  BY <1>2 DEF Reverse
<1>5. back \in SUBSET Tx
  BY <1>4, ResurrectedType
<1> HIDE DEF back
<1> QED BY <1>3, <1>5

-----------------------------------------------------------------------------
(* Start, and sending.                                                     *)

\* AppInit2: the wallet has what concerns it; and the blocks, if it knew those of this chain,
\* or those up to its best block.
LEMMA LoadedFacts ==
  ASSUME Linked(chain), NEW w, Stored(w), NEW q, q = Loaded(w), NEW T
  PROVE  /\ Grown(w, q) /\ q.prev = w.prev /\ Has(q, chain)
         /\ Knows(w, chain, T) \/ Knows(w, w.best, T) => Knows(q, chain, T)
         /\ Reason(w, chain, T) => Reason(q, chain, T)
<1> DEFINE M == {i \in 0 .. Len(chain) : IsPrefix(SubSeq(chain, 1, i), w.best)}
           k == Max(M)
<1>1. /\ chain \in Seq(Content) /\ Len(chain) \in Nat /\ Len(chain) >= 1 /\ DOMAIN chain = 1 .. Len(chain)
      /\ chain[1] = First
  BY LinkedFacts DEF Linked
<1>2. /\ w \in WalletType /\ w.spent \subseteq w.tx /\ w.best \in Seq(Content) /\ w.best # <<>>
      /\ w.best[1] = First /\ Has(w, w.best)
  BY DEF Stored, WalletType
<1>3. q = IF k < Len(chain) THEN Written(w, Scanned(chain, k)) ELSE w
  BY DEF Loaded
<1>4. Len(w.best) \in Nat /\ Len(w.best) >= 1 /\ DOMAIN w.best = 1 .. Len(w.best)
  BY <1>2
<1>5. ASSUME NEW i \in 0 .. Len(chain)
      PROVE  IsPrefix(SubSeq(chain, 1, i), w.best) <=>
               i <= Len(w.best) /\ \A j \in 1 .. i : chain[j] = w.best[j]
  <2> DEFINE b == SubSeq(chain, 1, i)
  <2>1. b \in Seq(Content) /\ Len(b) = i /\ \A j \in 1 .. i : b[j] = chain[j]
    BY <1>1, Cut
  <2> HIDE DEF b
  <2>2. IsPrefix(b, w.best) <=> Len(b) <= Len(w.best) /\ \A j \in 1 .. Len(b) : b[j] = w.best[j]
    BY <1>2, <2>1, PrefixIs
  <2>3. IsPrefix(b, w.best) <=> i <= Len(w.best) /\ \A j \in 1 .. i : chain[j] = w.best[j]
    BY <2>1, <2>2
  <2> QED BY <2>3 DEF b
<1>6. 1 \in M
  <2>1. 1 \in 0 .. Len(chain) /\ 1 <= Len(w.best) /\ \A j \in 1 .. 1 : chain[j] = w.best[j]
    BY <1>1, <1>2, <1>4
  <2> QED BY <1>5, <2>1
<1>7. k \in M /\ 1 <= k
  <2>1. M \subseteq 0 .. Len(chain)
    OBVIOUS
  <2> HIDE DEF M
  <2> QED BY <1>1, <1>6, <2>1, MaxOf
<1>8. k \in 1 .. Len(chain) /\ k <= Len(w.best) /\ \A j \in 1 .. k : chain[j] = w.best[j]
  <2>1. k \in 0 .. Len(chain) /\ IsPrefix(SubSeq(chain, 1, k), w.best)
    BY <1>7
  <2> HIDE DEF k
  <2> QED BY <1>1, <1>5, <1>7, <2>1
<1> HIDE DEF M, k
<1>9. ASSUME NEW j \in 1 .. k
      PROVE  /\ j \in DOMAIN chain /\ j \in DOMAIN w.best /\ HasAt(w, chain, j)
             /\ KnowsAt(w, w.best, j) => KnowsAt(w, chain, j)
  <2>1. j \in DOMAIN chain /\ j \in DOMAIN w.best /\ k \in 0 .. Len(chain)
    BY <1>1, <1>4, <1>8
  <2>2. HasAt(w, w.best, j)
    BY <1>2, <2>1 DEF Has
  <2>3. /\ HasAt(w, chain, j) <=> HasAt(w, w.best, j)
        /\ KnowsAt(w, chain, j) <=> KnowsAt(w, w.best, j)
    BY <1>1, <1>2, <1>8, <2>1, SameBlock
  <2> QED BY <2>1, <2>2, <2>3
<1>10. CASE k < Len(chain)
  <2>1. ScanTo(w, q, chain, k, Len(chain) + 1)
    BY <1>1, <1>2, <1>3, <1>8, <1>10, ScanFacts
  <2>2. Grown(w, q) /\ q.prev = w.prev /\ Kinder(w, q, chain)
    BY <2>1 DEF ScanTo
  <2>3. \A j \in 1 .. k - 1 : j \in 1 .. k
    BY <1>8
  <2>4. Len(chain) + 1 - 1 = Len(chain)
    BY <1>1
  <2>5. \A j \in DOMAIN chain : HasAt(q, chain, j) /\ (j >= k => KnowsAt(q, chain, j))
    BY <1>1, <1>9, <2>1, <2>3, <2>4 DEF ScanTo
  <2>6. Has(q, chain)
    BY <2>5 DEF Has
  <2>7. ASSUME Knows(w, chain, T) \/ Knows(w, w.best, T), NEW j \in DOMAIN chain, chain[j] \notin T
        PROVE  KnowsAt(q, chain, j)
    <3>1. CASE j >= k
      BY <2>5, <3>1
    <3>2. CASE ~(j >= k)
      <4>1. j \in 1 .. k
        BY <1>1, <1>8, <3>2
      <4>2. KnowsAt(w, chain, j)
        BY <1>8, <1>9, <2>7, <4>1 DEF Knows
      <4> QED BY <2>2, <4>2 DEF Kinder
    <3> QED BY <3>1, <3>2
  <2>8. Reason(w, chain, T) => Reason(q, chain, T)
    BY <2>2 DEF Kinder, Reason
  <2> QED BY <2>2, <2>6, <2>7, <2>8 DEF Knows
<1>11. CASE ~(k < Len(chain))
  <2>0. q = w
    BY <1>3, <1>11
  <2>8. k \in Int /\ k <= Len(chain)
    BY <1>1, <1>8
  <2>9. k = Len(chain)
    <3>1. \A x, y \in Int : x <= y /\ ~(x < y) => x = y
      OBVIOUS
    <3>2. Len(chain) \in Int
      BY <1>1
    <3> QED BY <1>11, <2>8, <3>1, <3>2, Zenon
  <2>1. q = w /\ k = Len(chain)
    BY <2>0, <2>9
  <2>2. Has(w, chain)
    BY <1>1, <1>9, <2>1 DEF Has
  <2>3. Knows(w, w.best, T) => Knows(w, chain, T)
    BY <1>1, <1>8, <1>9, <2>1 DEF Knows
  <2> QED BY <1>2, <2>1, <2>2, <2>3 DEF Grown
<1> QED BY <1>10, <1>11

\* CreateTransaction changes nothing but what vtxPrev was taken from.
LEMMA RecordedFacts ==
  ASSUME Linked(chain), wallet \in WalletType, NEW t \in Tx, NEW w, w = Recorded(t)
  PROVE  /\ w \in WalletType /\ w.tx = wallet.tx /\ w.spent = wallet.spent /\ w.block = wallet.block
         /\ w.best = wallet.best
<1> DEFINE M == {i \in DOMAIN chain : chain[i] \in Ancestors[t]} \cup {0}
           b == SubSeq(chain, 1, Max(M))
<1>1. chain \in Seq(Content) /\ Len(chain) \in Nat /\ DOMAIN chain = 1 .. Len(chain)
  BY LinkedFacts
<1>2. Max(M) \in 0 .. Len(chain)
  <2>1. M \subseteq 0 .. Len(chain) /\ 0 \in M
    BY <1>1
  <2> HIDE DEF M
  <2>2. Max(M) \in M
    BY <1>1, <2>1, MaxOf
  <2> QED BY <2>1, <2>2
<1>3. w = [wallet EXCEPT !.prev[t] = b]
  BY DEF Recorded
<1>4. b \in Seq(Content)
  BY <1>1, <1>2, Cut
<1> HIDE DEF b
<1> QED BY ZenonT(60), <1>3, <1>4 DEF WalletType

-----------------------------------------------------------------------------
(* The invariant, action by action.                                        *)

\* The type invariant follows from the rest.
LEMMA TypeFrom ==
  ASSUME Linked(chain), Len(chain) <= MaxHeight, wallet \in WalletType, wallet.spent \subseteq wallet.tx,
         pool \subseteq Tx, up \in BOOLEAN, refused \subseteq Tx, stale \in StaleType
  PROVE  TypeOK
<1>1. chain \in Seq(Content) /\ Len(chain) \in Nat /\ Len(chain) >= 1
  BY LinkedFacts
<1>2. MaxHeight \in Nat
  BY WalletTxAssumption
<1>3. Len(chain) \in 1 .. MaxHeight
  BY <1>1, <1>2
<1>4. /\ wallet.tx \subseteq Tx /\ wallet.best \in Seq(Content)
      /\ \A t \in Tx : wallet.block[t] \in Seq(Content) /\ wallet.prev[t] \in Seq(Content)
  BY DEF WalletType
<1> QED BY <1>1, <1>3, <1>4 DEF TypeOK, Content, StaleType

\* Whatever is added to a wallet, it is one.
LEMMA StoredGrown ==
  ASSUME NEW w, Stored(w), NEW q, Grown(w, q)
  PROVE  Stored(q)
BY DEF Stored, Grown, Has, HasAt

\* A wallet in step with a chain of one block satisfies the invariant.
LEMMA InitInv == Init => WInv
<1> SUFFICES ASSUME Init PROVE WInv
  OBVIOUS
<1> USE DEF Init
<1> DEFINE f == [t \in Tx |-> IF t = First THEN chain ELSE <<>>]
           g == [t \in Tx |-> <<>>]
           D == Seq(Content)
<1>0. /\ First \in Tx /\ First \in Mine /\ Spends[First] = {} /\ None \notin Tx /\ MaxHeight \in Nat \ {0}
      /\ Mine \subseteq Tx
  BY WalletTxAssumption
<1>1. First \in Content /\ First # None
  BY <1>0 DEF Content
<1>2. /\ chain \in D /\ Len(chain) = 1 /\ chain[1] = First /\ DOMAIN chain = {1} /\ chain # <<>>
      /\ DOMAIN chain = 1 .. 1 /\ <<>> \in D
  BY <1>1
<1>3. wallet = [tx |-> {First}, spent |-> {}, block |-> f, prev |-> g, best |-> chain]
  OBVIOUS
<1>4. f[First] = chain
  BY <1>0
<1> HIDE DEF D, Init
<1>5. f \in [Tx -> D] /\ g \in [Tx -> D]
  BY <1>2
<1> HIDE DEF f, g
<1>6. wallet \in WalletType
  BY <1>0, <1>2, <1>3, <1>5 DEF WalletType, D
<1>7. /\ wallet.tx = {First} /\ wallet.spent = {} /\ wallet.best = chain /\ wallet.block[First] = chain
  BY <1>3, <1>4
<1>8. Linked(chain)
  BY <1>0, <1>2 DEF Linked, D
<1>9. SubSeq(chain, 1, 1) = chain
  BY <1>2, CutAll DEF D
<1>10. ASSUME NEW T
       PROVE  Has(wallet, chain) /\ Marked(wallet, chain, T) /\ Knows(wallet, chain, T) /\ Reason(wallet, chain, T)
  BY <1>0, <1>2, <1>7, <1>9 DEF Has, HasAt, Marked, Knows, KnowsAt, Reason, ReasonAt
<1>11. Stored(wallet)
  BY <1>2, <1>6, <1>7, <1>10 DEF Stored
<1>12. /\ pool = {} /\ up = TRUE /\ refused = {} /\ stale = InStepAll /\ backup = <<>>
  BY DEF Init
<1>13. TypeOK
  <2>1. Len(chain) <= MaxHeight /\ up \in BOOLEAN /\ stale \in StaleType
    BY <1>0, <1>2, <1>12 DEF StaleType, InStepAll
  <2> QED BY <1>6, <1>7, <1>8, <1>12, <2>1, TypeFrom
<1> QED BY <1>8, <1>10, <1>11, <1>12, <1>13 DEF WInv, Kept

\* Hearing of a transaction outside a block, which the wallet may have made.
LEMMA HeardKeeps ==
  ASSUME NEW w \in WalletType, w.spent \subseteq w.tx, NEW t \in Tx \ Sprout, NEW c, Linked(c),
         NEW q, q = Heard(w, t), NEW T
  PROVE  /\ Grown(w, q) /\ q.block = w.block /\ q.prev = w.prev
         /\ Has(w, c) => Has(q, c)
         /\ Marked(w, c, T) => Marked(q, c, T)
         /\ Knows(w, c, T) => Knows(q, c, T)
         /\ Reason(w, c, T) => Reason(q, c, T)
<1>0. t \in Tx
  OBVIOUS
<1>9. AfterHeard(w, q, t)
  BY <1>0, HeardFacts
<1>1. /\ q.tx = IF Involved(w, t) THEN w.tx \cup {t} ELSE w.tx
      /\ q.block = w.block /\ q.best = w.best /\ q.prev = w.prev
      /\ q.spent = w.spent \cup (Spends[t] \cap q.tx \cap Mine)
      /\ Spends[t] \cap q.tx \cap Mine # {} => t \in q.tx
  BY <1>9 DEF AfterHeard
<1>2. q \in WalletType
  <2>1. <<>> \in Seq(Content)
    OBVIOUS
  <2> QED BY <1>0, <2>1, WrittenTwo DEF Heard
<1>3. Grown(w, q)
  BY <1>1, <1>2 DEF Grown
<1>4. Has(w, c) => Has(q, c)
  BY <1>3 DEF Has, HasAt, Grown
<1>5. Marked(w, c, T) => Marked(q, c, T)
  BY <1>1 DEF Marked
<1>6. Knows(w, c, T) => Knows(q, c, T)
  BY <1>1 DEF Knows, KnowsAt
<1>7. ASSUME Reason(w, c, T), NEW j \in DOMAIN c, c[j] \notin T, c[j] \in q.spent
      PROVE  \E u \in q.tx : c[j] \in Spends[u] /\ (u \in Sprout => u \in InChain(c))
  <2>1. CASE c[j] \in w.spent
    BY <1>3, <1>7, <2>1 DEF Reason, ReasonAt, Grown
  <2>2. CASE c[j] \in Spends[t] \cap q.tx \cap Mine
    BY <1>1, <2>2
  <2> QED BY <1>1, <1>7, <2>1, <2>2
<1>8. Reason(w, c, T) => Reason(q, c, T)
  BY <1>7 DEF Reason, ReasonAt
<1> QED BY <1>1, <1>3, <1>4, <1>5, <1>6, <1>8

\* What a step has to show.
LEMMA InvStep ==
  ASSUME Linked(chain'), Len(chain') <= MaxHeight, Stored(wallet'), Kept', pool' \subseteq Tx,
         up' \in BOOLEAN, refused' \subseteq Tx, stale' \in StaleType,
         up' => Has(wallet', chain') /\ Marked(wallet', chain', stale'.unmarked),
         Knows(wallet', chain', stale'.moved), Reason(wallet', chain', stale'.marked)
  PROVE  WInv'
<1>1. chain' \in Seq(Content) /\ Len(chain') \in Nat /\ Len(chain') >= 1
  BY LinkedFacts
<1>2. MaxHeight \in Nat
  BY WalletTxAssumption
<1>3. Len(chain') \in 1 .. MaxHeight
  BY <1>1, <1>2
<1>4. wallet' \in WalletType /\ wallet'.spent \subseteq wallet'.tx
  BY DEF Stored
<1>5. /\ wallet'.tx \subseteq Tx /\ wallet'.best \in Seq(Content)
      /\ \A t \in Tx : wallet'.block[t] \in Seq(Content) /\ wallet'.prev[t] \in Seq(Content)
  BY <1>4 DEF WalletType
<1>6. TypeOK'
  BY <1>1, <1>3, <1>4, <1>5 DEF TypeOK, Content, StaleType
<1> QED BY <1>6 DEF WInv

\* A step that leaves the chain, the copy of wallet.dat and the history as they are.
LEMMA KeptStep ==
  ASSUME WInv, chain' = chain, backup' = backup, stale' = stale, Stored(wallet'),
         pool' \subseteq Tx, up' \in BOOLEAN, refused' \subseteq Tx,
         up' => Has(wallet', chain) /\ Marked(wallet', chain, stale.unmarked),
         Knows(wallet, chain, stale.moved) => Knows(wallet', chain, stale.moved),
         Reason(wallet, chain, stale.marked) => Reason(wallet', chain, stale.marked)
  PROVE  WInv'
<1>1. Linked(chain) /\ stale \in StaleType /\ Kept
  BY DEF WInv, TypeOK, StaleType
<1>2. Len(chain) <= MaxHeight
  BY WalletTxAssumption DEF WInv, TypeOK
<1>3. Kept'
  BY <1>1 DEF Kept
<1>4. Knows(wallet', chain, stale.moved) /\ Reason(wallet', chain, stale.marked)
  BY DEF WInv
<1> QED BY <1>1, <1>2, <1>3, <1>4, InvStep

\* What the invariant says of the state before a step.
LEMMA InvFacts ==
  ASSUME WInv
  PROVE  /\ Linked(chain) /\ chain \in Seq(Content) /\ Len(chain) \in Nat /\ Len(chain) <= MaxHeight
         /\ Len(chain) >= 1 /\ DOMAIN chain = 1 .. Len(chain)
         /\ Stored(wallet) /\ wallet \in WalletType /\ wallet.spent \subseteq wallet.tx
         /\ pool \subseteq Tx /\ refused \subseteq Tx /\ stale \in StaleType /\ Kept
         /\ up => Has(wallet, chain) /\ Marked(wallet, chain, stale.unmarked)
         /\ Knows(wallet, chain, stale.moved)
         /\ Reason(wallet, chain, stale.marked)
         /\ up \in BOOLEAN
<1>1. Linked(chain) /\ Stored(wallet)
  BY DEF WInv
<1>2. Len(chain) <= MaxHeight
  BY WalletTxAssumption DEF WInv, TypeOK
<1> QED BY <1>1, <1>2, LinkedFacts DEF WInv, TypeOK, Stored, StaleType

\* A transaction of others arrives: it is recorded and no block changes.
LEMMA ReceiveStep ==
  ASSUME WInv, NEW t \in Tx, Receive(t)
  PROVE  WInv'
<1>1. /\ Linked(chain) /\ Stored(wallet) /\ wallet \in WalletType /\ wallet.spent \subseteq wallet.tx
      /\ pool \subseteq Tx /\ refused \subseteq Tx /\ (up => Has(wallet, chain) /\ Marked(wallet, chain, stale.unmarked))
      /\ up \in BOOLEAN
  BY InvFacts
<1>2. t \in Tx \ Sprout
  BY DEF Receive, AcceptToMemoryPool
<1>3. wallet' = Written(wallet, Added(t, <<>>))
  BY DEF Receive
<1>4. wallet' = Heard(wallet, t)
  BY <1>1, <1>3, HeardIs
<1>5. /\ Grown(wallet, wallet')
      /\ Has(wallet, chain) => Has(wallet', chain)
      /\ \A T : /\ Marked(wallet, chain, T) => Marked(wallet', chain, T)
                /\ Knows(wallet, chain, T) => Knows(wallet', chain, T)
                /\ Reason(wallet, chain, T) => Reason(wallet', chain, T)
  BY <1>1, <1>2, <1>4, HeardKeeps
<1>6. Stored(wallet')
  BY <1>1, <1>5, StoredGrown
<1>7. up /\ up' = up /\ pool' \subseteq Tx /\ UNCHANGED <<chain, backup, refused, stale>>
  BY <1>1 DEF Receive
<1> QED BY <1>1, <1>5, <1>6, <1>7, KeptStep

\* What a wallet that records its own transaction, and marks its inputs, has.
LEMMA CommittedFacts ==
  ASSUME WInv, NEW t \in Made, NEW q, q = Heard(Recorded(t), t), NEW T
  PROVE  /\ Stored(q)
         /\ Has(wallet, chain) => Has(q, chain)
         /\ Marked(wallet, chain, T) => Marked(q, chain, T)
         /\ Knows(wallet, chain, T) => Knows(q, chain, T)
         /\ Reason(wallet, chain, T) => Reason(q, chain, T)
<1> DEFINE w == Recorded(t)
<1>1. /\ Linked(chain) /\ Stored(wallet) /\ wallet \in WalletType /\ wallet.spent \subseteq wallet.tx
  BY InvFacts
<1>2. t \in Tx \ Sprout /\ t \in Tx
  BY WalletTxAssumption
<1>3. /\ w \in WalletType /\ w.tx = wallet.tx /\ w.spent = wallet.spent /\ w.block = wallet.block
      /\ w.best = wallet.best
  BY <1>1, <1>2, RecordedFacts
<1> HIDE DEF w
<1>4. w.spent \subseteq w.tx /\ Stored(w)
  BY <1>1, <1>3 DEF Stored, Has, HasAt
<1>5. /\ Grown(w, q)
      /\ Has(w, chain) => Has(q, chain)
      /\ Marked(w, chain, T) => Marked(q, chain, T)
      /\ Knows(w, chain, T) => Knows(q, chain, T)
      /\ Reason(w, chain, T) => Reason(q, chain, T)
  BY <1>1, <1>2, <1>3, <1>4, HeardKeeps DEF w
<1>6. /\ Has(wallet, chain) => Has(w, chain)
      /\ Marked(wallet, chain, T) => Marked(w, chain, T)
      /\ Knows(wallet, chain, T) => Knows(w, chain, T)
      /\ Reason(wallet, chain, T) => Reason(w, chain, T)
  BY <1>3 DEF Has, HasAt, Marked, Knows, KnowsAt, Reason, ReasonAt
<1>7. Stored(q)
  BY <1>4, <1>5, StoredGrown
<1> QED BY <1>5, <1>6, <1>7

\* CommitTransaction: the inputs of the new transaction are marked for a reason.
LEMMA SendStep ==
  ASSUME WInv, NEW t \in Tx, Send(t)
  PROVE  WInv'
<1>1. /\ Linked(chain) /\ wallet \in WalletType
      /\ pool \subseteq Tx /\ refused \subseteq Tx /\ (up => Has(wallet, chain) /\ Marked(wallet, chain, stale.unmarked))
      /\ up \in BOOLEAN
  BY InvFacts
<1>2. t \in Made /\ wallet' = Written(Recorded(t), Committed(t))
  BY DEF Send
<1>3. Recorded(t) \in WalletType
  BY <1>1, RecordedFacts
<1>4. wallet' = Heard(Recorded(t), t)
  BY <1>2, <1>3, HeardIs
<1>5. /\ Stored(wallet')
      /\ Has(wallet, chain) => Has(wallet', chain)
      /\ \A T : /\ Marked(wallet, chain, T) => Marked(wallet', chain, T)
                /\ Knows(wallet, chain, T) => Knows(wallet', chain, T)
                /\ Reason(wallet, chain, T) => Reason(wallet', chain, T)
  BY <1>2, <1>4, CommittedFacts
<1>6. up /\ up' = up /\ pool' \subseteq Tx /\ refused' \subseteq Tx /\ UNCHANGED <<chain, backup, stale>>
  BY <1>1 DEF Send
<1> QED BY <1>1, <1>5, <1>6, KeptStep

\* A wallet whose blocks are brought in step with the chain.
LEMMA InStepKeeps ==
  ASSUME NEW w, Stored(w), NEW c, Linked(c), NEW T
  PROVE  /\ Stored(InStep(w, c))
         /\ Has(w, c) => Has(InStep(w, c), c)
         /\ Marked(w, c, T) => Marked(InStep(w, c), c, T)
         /\ Knows(w, c, T) => Knows(InStep(w, c), c, T)
         /\ Reason(w, c, T) => Reason(InStep(w, c), c, T)
<1> DEFINE q == InStep(w, c)
<1>1. w \in WalletType
  BY DEF Stored
<1>2. /\ q \in WalletType /\ q.tx = w.tx /\ q.spent = w.spent /\ q.best = w.best
      /\ \A j \in DOMAIN c : KnowsAt(w, c, j) => KnowsAt(q, c, j)
  BY <1>1, InStepFacts
<1> HIDE DEF q
<1>3. Stored(q)
  BY <1>2 DEF Stored, Has, HasAt
<1>4. (Has(w, c) => Has(q, c)) /\ (Marked(w, c, T) => Marked(q, c, T)) /\ (Reason(w, c, T) => Reason(q, c, T))
  BY <1>2 DEF Has, HasAt, Marked, Reason, ReasonAt
<1>5. Knows(w, c, T) => Knows(q, c, T)
  BY <1>2 DEF Knows
<1> QED BY <1>3, <1>4, <1>5 DEF q

\* The beginnings of what CommitTransaction writes.
LEMMA CommittedCuts ==
  ASSUME NEW w \in WalletType, NEW t \in Tx, NEW n \in 0 .. Len(Committed(t))
  PROVE  Written(w, SubSeq(Committed(t), 1, n)) \in {w, Record(w, t, <<>>), Heard(w, t)}
<1> DEFINE o == Op("record", t, <<>>)
           p == Op("inputs", t, <<>>)
           s == Committed(t)
<1>1. o \in OpType /\ p \in OpType
  <2>1. <<>> \in Seq(Content)
    OBVIOUS
  <2> QED BY <2>1, OpTypes
<1>2. /\ Written(w, <<o>>) = Record(w, t, <<>>)
  <2>1. <<>> \in Seq(Content)
    OBVIOUS
  <2> QED BY <2>1, WrittenTwo
<1>3. Written(w, s) = Heard(w, t)
  BY HeardIs
<1>4. s = <<o, p>>
  BY DEF Committed
<1> HIDE DEF o, p
<1>5. s \in Seq(OpType) /\ Len(s) = 2 /\ s[1] = o
  BY <1>1, <1>4
<1> HIDE DEF s
<1>6. n \in {0, 1, 2}
  BY <1>5 DEF s
<1>7. CASE n = 0
  <2> DEFINE x == SubSeq(s, 1, 0)
  <2>1. x \in Seq(OpType) /\ Len(x) = 0
    BY <1>5, Cut
  <2>2. x = <<>>
    BY <2>1, EmptySeq
  <2>3. Written(w, SubSeq(s, 1, n)) = w
    BY <1>7, <2>2, WrittenNothing
  <2> QED BY <2>3 DEF s
<1>8. CASE n = 1
  <2> DEFINE x == SubSeq(s, 1, 1)
             y == <<o>>
  <2>0. 1 \in 0 .. Len(s)
    BY <1>5
  <2>1. x \in Seq(OpType) /\ Len(x) = 1 /\ \A i \in 1 .. 1 : x[i] = s[i]
    BY <1>5, <2>0, Cut
  <2>2. y \in Seq(OpType) /\ Len(y) = 1 /\ y[1] = o
    BY <1>1
  <2>3. x = y
    <3> HIDE DEF x, y
    <3>1. \A i \in 1 .. 1 : x[i] = y[i]
      BY <1>5, <2>1, <2>2
    <3> QED BY <2>1, <2>2, <3>1, SeqEqual
  <2>4. Written(w, SubSeq(s, 1, n)) = Record(w, t, <<>>)
    BY <1>2, <1>8, <2>3
  <2> QED BY <2>4 DEF s
<1>9. CASE n = 2
  <2>1. SubSeq(s, 1, Len(s)) = s
    BY <1>5, CutAll
  <2>2. Written(w, SubSeq(s, 1, n)) = Heard(w, t)
    BY <1>3, <1>5, <1>9, <2>1 DEF s
  <2> QED BY <2>2 DEF s
<1> QED BY <1>6, <1>7, <1>8, <1>9

\* A record of a transaction whose inputs are not marked yet.
LEMMA RecordedOnly ==
  ASSUME NEW w, Stored(w), NEW t \in Tx, NEW c, NEW T
  PROVE  /\ Stored(Record(w, t, <<>>))
         /\ Knows(w, c, T) => Knows(Record(w, t, <<>>), c, T)
         /\ Reason(w, c, T) => Reason(Record(w, t, <<>>), c, T)
<1> DEFINE q == Record(w, t, <<>>)
<1>1. w \in WalletType
  BY DEF Stored
<1>2. /\ q \in WalletType /\ w.tx \subseteq q.tx /\ q.block = w.block /\ q.spent = w.spent
      /\ q.best = w.best
  BY <1>1 DEF Record, WalletType
<1> HIDE DEF q
<1>3. Stored(q)
  BY <1>2 DEF Stored, Has, HasAt
<1>4. Knows(w, c, T) => Knows(q, c, T)
  BY <1>2 DEF Knows, KnowsAt
<1>5. Reason(w, c, T) => Reason(q, c, T)
  BY <1>2 DEF Reason, ReasonAt
<1> QED BY <1>3, <1>4, <1>5 DEF q

\* The process dies within CommitTransaction, after any of its writes.
LEMMA DieSendingStep ==
  ASSUME WInv, NEW t \in Tx, DieSending(t)
  PROVE  WInv'
<1> DEFINE w == Recorded(t)
           ops == Committed(t)
<1>1. /\ Linked(chain) /\ Stored(wallet) /\ wallet \in WalletType /\ refused \subseteq Tx
  BY InvFacts
<1>2. t \in Made /\ Die(ops, w, chain) /\ UNCHANGED stale
  BY DEF DieSending
<1>3. PICK n \in 0 .. Len(ops) : wallet' = InStep(Written(w, SubSeq(ops, 1, n)), chain)
  BY <1>2 DEF Die
<1>4. up' = FALSE /\ pool' = {} /\ UNCHANGED <<chain, backup, refused, stale>>
  BY <1>2 DEF Die
<1>5. /\ w \in WalletType /\ w.tx = wallet.tx /\ w.spent = wallet.spent /\ w.block = wallet.block
      /\ w.best = wallet.best
  BY <1>1, RecordedFacts
<1> DEFINE q == Written(w, SubSeq(ops, 1, n))
<1>6. q \in {w, Record(w, t, <<>>), Heard(w, t)}
  BY <1>5, CommittedCuts
<1>7. /\ Stored(Heard(w, t))
      /\ \A T : /\ Knows(wallet, chain, T) => Knows(Heard(w, t), chain, T)
                /\ Reason(wallet, chain, T) => Reason(Heard(w, t), chain, T)
  BY <1>2, CommittedFacts
<1> HIDE DEF w
<1>8. /\ Stored(w)
      /\ \A T : /\ Knows(wallet, chain, T) => Knows(w, chain, T)
                /\ Reason(wallet, chain, T) => Reason(w, chain, T)
  BY <1>1, <1>5 DEF Stored, Has, HasAt, Knows, KnowsAt, Reason, ReasonAt
<1>9. /\ Stored(Record(w, t, <<>>))
      /\ \A T : /\ Knows(w, chain, T) => Knows(Record(w, t, <<>>), chain, T)
                /\ Reason(w, chain, T) => Reason(Record(w, t, <<>>), chain, T)
  BY <1>8, RecordedOnly
<1>10. wallet' = InStep(q, chain)
  BY <1>3
<1> HIDE DEF q
<1>11. /\ Stored(q)
       /\ \A T : /\ Knows(wallet, chain, T) => Knows(q, chain, T)
                 /\ Reason(wallet, chain, T) => Reason(q, chain, T)
  BY <1>6, <1>7, <1>8, <1>9
<1>12. /\ Stored(wallet')
       /\ \A T : /\ Knows(wallet, chain, T) => Knows(wallet', chain, T)
                 /\ Reason(wallet, chain, T) => Reason(wallet', chain, T)
  BY <1>1, <1>10, <1>11, InStepKeeps
<1>13. pool' \subseteq Tx /\ up' \in BOOLEAN /\ ~up' /\ refused' \subseteq Tx
  BY <1>1, <1>4
<1> QED BY <1>4, <1>12, <1>13, KeptStep

\* The copy of wallet.dat is left as it is.
LEMMA SameBackup ==
  ASSUME Kept, backup' = backup
  PROVE  Kept'
BY DEF Kept

\* What a handler leaves of a wallet, with the new best block or without it.
LEMMA WithBest ==
  ASSUME NEW w \in WalletType, w.spent \subseteq w.tx, NEW c, Linked(c), Has(w, c),
         NEW q, q = [w EXCEPT !.best = c], NEW T
  PROVE  /\ Stored(q) /\ Has(q, c)
         /\ Marked(w, c, T) => Marked(q, c, T)
         /\ Knows(w, c, T) => Knows(q, c, T)
         /\ Reason(w, c, T) => Reason(q, c, T)
<1>1. c \in Seq(Content) /\ c # <<>> /\ c[1] = First
  BY DEF Linked
<1>2. /\ q \in WalletType /\ q.tx = w.tx /\ q.spent = w.spent /\ q.block = w.block /\ q.best = c
  BY <1>1 DEF WalletType
<1>3. Has(q, c)
  BY <1>2 DEF Has, HasAt
<1>4. /\ Marked(w, c, T) => Marked(q, c, T)
      /\ Knows(w, c, T) => Knows(q, c, T)
      /\ Reason(w, c, T) => Reason(q, c, T)
  BY <1>2 DEF Marked, Knows, KnowsAt, Reason, ReasonAt
<1>5. Stored(q)
  BY <1>1, <1>2, <1>3 DEF Stored
<1> QED BY <1>3, <1>4, <1>5

\* A wallet q that has been told of the blocks of c after the p-th, and is to those before
\* as w is to the same blocks of d.
Follows(w, d, q, c, p) ==
  /\ \A j \in DOMAIN c : j \in 1 .. p \/ (KnowsAt(q, c, j) /\ ReasonAt(q, c, j) /\ MarkedAt(q, c, j))
  /\ \A j \in 1 .. p : /\ j \in DOMAIN d /\ c[j] = d[j]
                       /\ KnowsAt(w, d, j) => KnowsAt(q, c, j)
                       /\ ReasonAt(w, d, j) => ReasonAt(q, c, j)
                       /\ KeepsAt(w, q, c, j)

\* What stays stale of it is what was stale of the blocks before.
LEMMA AfterFacts ==
  ASSUME WInv, up, NEW p \in 1 .. Len(chain), NEW c, NEW q \in WalletType,
         Follows(wallet, chain, q, c, p), NEW old, old = ToldAfter(SubSeq(chain, 1, p), stale)
  PROVE  /\ old \in StaleType /\ Marked(q, c, old.unmarked)
         /\ Knows(q, c, old.moved) /\ Reason(q, c, old.marked)
<1> DEFINE b == SubSeq(chain, 1, p)
<1>1. /\ chain \in Seq(Content) /\ DOMAIN chain = 1 .. Len(chain) /\ Len(chain) \in Nat /\ stale \in StaleType
      /\ Marked(wallet, chain, stale.unmarked) /\ Knows(wallet, chain, stale.moved)
      /\ Reason(wallet, chain, stale.marked)
  BY InvFacts
<1>2. b \in Seq(Content) /\ DOMAIN b = 1 .. p /\ \A j \in 1 .. p : b[j] = chain[j]
  <2>1. p \in 0 .. Len(chain)
    BY <1>1
  <2> QED BY <1>1, <2>1, Cut
<1> HIDE DEF b
<1>3. ASSUME NEW j \in 1 .. p, chain[j] # None PROVE chain[j] \in InChain(b)
  BY <1>2, <1>3, InChainIs
<1>4. /\ old.unmarked = stale.unmarked \cap SpentBy(InChain(b))
      /\ old.marked = stale.marked \cap InChain(b) /\ old.moved = stale.moved \cap InChain(b)
      /\ old \in StaleType
  <2>1. old = [unmarked |-> stale.unmarked \cap SpentBy(InChain(b)),
               marked |-> stale.marked \cap InChain(b), moved |-> stale.moved \cap InChain(b)]
    BY DEF ToldAfter, b
  <2> QED BY <1>1, <2>1 DEF StaleType
<1>5. None \notin Mine
  BY WalletTxAssumption
<1>6. \A j \in 1 .. p : /\ j \in DOMAIN chain /\ c[j] = chain[j]
                        /\ KnowsAt(wallet, chain, j) => KnowsAt(q, c, j)
                        /\ ReasonAt(wallet, chain, j) => ReasonAt(q, c, j)
                        /\ KeepsAt(wallet, q, c, j)
  BY DEF Follows
<1>7. \A j \in DOMAIN c : j \in 1 .. p \/ (KnowsAt(q, c, j) /\ ReasonAt(q, c, j) /\ MarkedAt(q, c, j))
  BY DEF Follows
<1>8. ASSUME NEW j \in DOMAIN c, c[j] # None, NEW u \in Spends[c[j]], u \in Mine, u \notin old.unmarked
      PROVE  u \in q.spent
  <2>1. CASE j \in 1 .. p
    <3>1. u \in SpentBy(InChain(b))
      BY <1>3, <1>6, <1>8, <2>1 DEF SpentBy
    <3>2. u \in wallet.spent
      BY <1>1, <1>4, <1>6, <1>8, <2>1, <3>1 DEF Marked
    <3> QED BY <1>6, <1>8, <2>1, <3>2 DEF KeepsAt
  <2>2. CASE MarkedAt(q, c, j)
    BY <1>8, <2>2 DEF MarkedAt
  <2> QED BY <1>7, <2>1, <2>2
<1>9. ASSUME NEW j \in DOMAIN c, c[j] \notin old.moved PROVE KnowsAt(q, c, j)
  <2>1. CASE j \in 1 .. p /\ c[j] # None
    BY <1>1, <1>3, <1>4, <1>6, <1>9, <2>1 DEF Knows
  <2>2. CASE c[j] = None
    BY <2>2 DEF KnowsAt, Concerns
  <2> QED BY <1>7, <2>1, <2>2
<1>10. ASSUME NEW j \in DOMAIN c, c[j] \notin old.marked PROVE ReasonAt(q, c, j)
  <2>1. CASE j \in 1 .. p /\ c[j] # None
    BY <1>1, <1>3, <1>4, <1>6, <1>10, <2>1 DEF Reason
  <2>2. CASE c[j] = None
    BY <1>5, <2>2 DEF ReasonAt, WalletType
  <2> QED BY <1>7, <2>1, <2>2
<1> QED BY <1>4, <1>8, <1>9, <1>10 DEF Marked, Knows, Reason

\* What is stale of a wallet that was told in vain: whatever it was told has changed.
LEMMA InVainFacts ==
  ASSUME WInv, NEW q \in WalletType, wallet.tx \subseteq q.tx, NEW new, new = ToldInVain(q)
  PROVE  /\ new \in StaleType /\ (up => Marked(q, chain, new.unmarked))
         /\ Knows(q, chain, new.moved) /\ Reason(q, chain, new.marked)
<1> DEFINE moved == {t \in Tx : q.block[t] # wallet.block[t]}
<1>1. /\ chain \in Seq(Content) /\ stale \in StaleType /\ wallet \in WalletType
      /\ (up => Marked(wallet, chain, stale.unmarked)) /\ Knows(wallet, chain, stale.moved)
      /\ Reason(wallet, chain, stale.marked)
  BY InvFacts
<1>2. /\ new.unmarked = (stale.unmarked \cup (wallet.spent \ q.spent)) \cap SpentBy(InChain(chain))
      /\ new.marked = (stale.marked \cup (q.spent \ wallet.spent)) \cap InChain(chain)
      /\ new.moved = (stale.moved \cup moved) \cap InChain(chain)
  BY DEF ToldInVain, ToldAfter
<1>3. Mine \subseteq Tx /\ None \notin Mine
  BY WalletTxAssumption
<1>4. new \in StaleType
  <2>1. new.unmarked \subseteq Tx /\ new.marked \subseteq Tx /\ new.moved \subseteq Tx
    BY <1>1, <1>2, <1>3 DEF StaleType, WalletType
  <2>2. new = [unmarked |-> new.unmarked, marked |-> new.marked, moved |-> new.moved]
    BY DEF ToldInVain, ToldAfter
  <2> QED BY <2>1, <2>2 DEF StaleType
<1>5. \A t \in Tx : t \notin moved => q.block[t] = wallet.block[t]
  OBVIOUS
<1> HIDE DEF moved
<1>6. \A j \in DOMAIN chain : chain[j] # None => chain[j] \in InChain(chain) /\ chain[j] \in Tx
  BY <1>1, InChainIs
<1>7. ASSUME up, NEW j \in DOMAIN chain, chain[j] # None, NEW u \in Spends[chain[j]], u \in Mine,
             u \notin new.unmarked
      PROVE  u \in q.spent
  <2>1. u \in SpentBy(InChain(chain))
    BY <1>6, <1>7 DEF SpentBy
  <2>2. u \notin stale.unmarked /\ ~(u \in wallet.spent /\ u \notin q.spent)
    BY <1>2, <1>7, <2>1
  <2>3. u \in wallet.spent
    BY <1>1, <1>7, <2>2 DEF Marked
  <2> QED BY <2>2, <2>3
<1>8. ASSUME NEW j \in DOMAIN chain, chain[j] \notin new.moved PROVE KnowsAt(q, chain, j)
  <2>1. CASE chain[j] # None
    <3>1. KnowsAt(wallet, chain, j) /\ q.block[chain[j]] = wallet.block[chain[j]]
      BY <1>1, <1>2, <1>5, <1>6, <1>8, <2>1 DEF Knows
    <3> QED BY <3>1 DEF KnowsAt
  <2>2. CASE chain[j] = None
    BY <2>2 DEF KnowsAt, Concerns
  <2> QED BY <2>1, <2>2
<1>9. ASSUME NEW j \in DOMAIN chain, chain[j] \notin new.marked PROVE ReasonAt(q, chain, j)
  <2>1. CASE chain[j] # None
    <3>1. ReasonAt(wallet, chain, j) /\ (chain[j] \in q.spent => chain[j] \in wallet.spent)
      BY <1>1, <1>2, <1>6, <1>9, <2>1 DEF Reason
    <3> QED BY <3>1 DEF ReasonAt
  <2>2. CASE chain[j] = None
    BY <1>3, <2>2 DEF ReasonAt, WalletType
  <2> QED BY <2>1, <2>2
<1> QED BY <1>4, <1>7, <1>8, <1>9 DEF Marked, Knows, Reason

\* The wallet after it has been told in vain, of anything.
LEMMA InVain ==
  ASSUME WInv, NEW s \in Seq(OpType), NEW q, q = InStep(Written(wallet, s), chain),
         NEW new, new = ToldInVain(q)
  PROVE  /\ Stored(q) /\ (Has(wallet, chain) => Has(q, chain)) /\ new \in StaleType
         /\ (up => Marked(q, chain, new.unmarked))
         /\ Knows(q, chain, new.moved) /\ Reason(q, chain, new.marked)
<1> DEFINE v == Written(wallet, s)
<1>1. /\ Linked(chain) /\ Stored(wallet) /\ wallet \in WalletType /\ wallet.spent \subseteq wallet.tx
  BY InvFacts
<1>2. Grown(wallet, v)
  BY <1>1, WrittenGrows
<1>3. q = InStep(v, chain)
  OBVIOUS
<1> HIDE DEF v
<1>4. Stored(v) /\ v \in WalletType /\ wallet.tx \subseteq v.tx
  BY <1>1, <1>2, StoredGrown DEF Grown
<1>5. Stored(q) /\ q \in WalletType /\ q.tx = v.tx
  BY <1>1, <1>3, <1>4, InStepKeeps, InStepFacts
<1>6. Has(wallet, chain) => Has(q, chain)
  BY <1>4, <1>5 DEF Has, HasAt
<1> QED BY <1>4, <1>5, <1>6, InVainFacts

\* A block or a branch is given up after the wallet has been told of it.
LEMMA AbortStep ==
  ASSUME WInv, up, NEW told, told \subseteq Seq(OpType), Abort(told)
  PROVE  WInv'
<1>1. /\ Linked(chain) /\ Len(chain) <= MaxHeight /\ Kept /\ pool \subseteq Tx /\ refused \subseteq Tx
      /\ Has(wallet, chain)
  BY InvFacts
<1>2. PICK s \in told : wallet' = InStep(Written(wallet, s), chain)
  BY DEF Abort
<1>3. s \in Seq(OpType) /\ stale' = ToldInVain(wallet') /\ UNCHANGED <<chain, pool, backup, up, refused>>
  BY DEF Abort
<1>4. /\ Stored(wallet') /\ (Has(wallet, chain) => Has(wallet', chain)) /\ stale' \in StaleType
      /\ (up => Marked(wallet', chain, stale'.unmarked))
      /\ Knows(wallet', chain, stale'.moved) /\ Reason(wallet', chain, stale'.marked)
  BY <1>2, <1>3, InVain
<1>5. Kept'
  BY <1>1, <1>3, SameBackup
<1>6. up' \in BOOLEAN /\ pool' \subseteq Tx /\ refused' \subseteq Tx /\ chain' = chain
  BY <1>1, <1>3
<1> QED BY <1>1, <1>4, <1>5, <1>6, InvStep

\* The wallet once it has been told of one more block.
LEMMA OneBlock ==
  ASSUME WInv, up, NEW t \in Content, CanConnect(chain, t), NEW c, c = Append(chain, t),
         NEW q, q = Written(wallet, Connected(c))
  PROVE  /\ Linked(c) /\ Len(c) = Len(chain) + 1 /\ Grown(wallet, q) /\ Has(q, c)
         /\ Follows(wallet, chain, q, c, Len(chain))
<1> DEFINE n == Len(chain)
           w == wallet
<1>1. /\ Linked(chain) /\ chain \in Seq(Content) /\ n \in Nat /\ n >= 1 /\ DOMAIN chain = 1 .. n
      /\ w \in WalletType /\ w.spent \subseteq w.tx /\ Has(w, chain)
  BY InvFacts
<1>2. Linked(c)
  BY <1>1, LinkedMore
<1>3. /\ c \in Seq(Content) /\ Len(c) = n + 1 /\ DOMAIN c = 1 .. n + 1
      /\ \A i \in 1 .. n : c[i] = chain[i]
  BY <1>1
<1> HIDE DEF w, n
<1> DEFINE m == n + 1
<1>4. m \in DOMAIN c /\ (\A j \in DOMAIN c : j \in 1 .. n \/ j = m) /\ \A j : j \in 1 .. m - 1 <=> j \in 1 .. n
  BY <1>1, <1>3
<1>5. SubSeq(c, 1, m) = c
  BY <1>3, CutAll
<1> HIDE DEF m
<1>6. q = Written(w, Connected(SubSeq(c, 1, m)))
  BY <1>5 DEF w
<1>7. /\ Grown(w, q) /\ Kinder(w, q, c) /\ ReasonAt(q, c, m)
      /\ \A j \in 1 .. m - 1 : KeepsAt(w, q, c, j)
      /\ (\A j \in 1 .. m - 1 : HasAt(w, c, j)) => HasAt(q, c, m) /\ KnowsAt(q, c, m) /\ MarkedAt(q, c, m)
  BY <1>1, <1>2, <1>4, <1>6, ScanStep
<1>8. ASSUME NEW j \in 1 .. n
      PROVE  /\ j \in DOMAIN c /\ j \in DOMAIN chain /\ HasAt(w, c, j)
             /\ KnowsAt(w, chain, j) => KnowsAt(w, c, j)
             /\ ReasonAt(w, chain, j) => ReasonAt(w, c, j)
  <2>1. j \in DOMAIN c /\ j \in DOMAIN chain /\ n \in 0 .. Len(c) /\ n <= Len(chain) /\ n \in Nat
    BY <1>1, <1>3 DEF n
  <2>2. /\ HasAt(w, c, j) <=> HasAt(w, chain, j)
        /\ KnowsAt(w, c, j) <=> KnowsAt(w, chain, j)
    BY <1>1, <1>3, <2>1, SameBlock
  <2>3. ASSUME NEW u \in InChain(chain) PROVE u \in InChain(c)
    <3>1. PICK i \in DOMAIN chain : u # None /\ chain[i] = u
      BY <1>1, InChainIs
    <3>2. i \in DOMAIN c /\ c[i] = u
      BY <1>1, <1>3, <3>1
    <3> QED BY <1>3, <3>1, <3>2, InChainIs
  <2>4. c[j] = chain[j]
    BY <1>3
  <2>5. ReasonAt(w, chain, j) => ReasonAt(w, c, j)
    BY <2>3, <2>4 DEF ReasonAt
  <2> QED BY <1>1, <2>1, <2>2, <2>5 DEF Has
<1>9. HasAt(q, c, m) /\ KnowsAt(q, c, m) /\ MarkedAt(q, c, m)
  BY <1>4, <1>7, <1>8
<1>10. Has(q, c)
  BY <1>4, <1>7, <1>8, <1>9 DEF Has, Kinder
<1>11. ASSUME NEW j \in 1 .. n
       PROVE  /\ j \in DOMAIN chain /\ c[j] = chain[j]
              /\ KnowsAt(w, chain, j) => KnowsAt(q, c, j)
              /\ ReasonAt(w, chain, j) => ReasonAt(q, c, j)
              /\ KeepsAt(w, q, c, j)
  BY <1>3, <1>4, <1>7, <1>8 DEF Kinder
<1>12. \A j \in DOMAIN c : j \in 1 .. n \/ (KnowsAt(q, c, j) /\ ReasonAt(q, c, j) /\ MarkedAt(q, c, j))
  BY <1>4, <1>7, <1>9
<1>13. Follows(w, chain, q, c, n)
  BY <1>11, <1>12 DEF Follows
<1> QED BY <1>2, <1>3, <1>7, <1>10, <1>13 DEF w, n

\* A wallet that has followed the chain to a new one, with its new best block.
LEMMA FollowsStep ==
  ASSUME WInv, up, NEW p \in 1 .. Len(chain), NEW c, Linked(c), Len(c) <= MaxHeight,
         NEW q, Grown(wallet, q), Has(q, c), Follows(wallet, chain, q, c, p),
         chain' = c, wallet' = InStep([q EXCEPT !.best = c], c), pool' \subseteq Tx,
         stale' = ToldAfter(SubSeq(chain, 1, p), stale), UNCHANGED <<backup, up, refused>>
  PROVE  WInv'
<1> DEFINE x == [q EXCEPT !.best = c]
<1>1. refused \subseteq Tx /\ Kept /\ up \in BOOLEAN
  BY InvFacts
<1>2. q \in WalletType /\ q.spent \subseteq q.tx
  BY DEF Grown
<1>3. /\ stale' \in StaleType /\ Marked(q, c, stale'.unmarked)
      /\ Knows(q, c, stale'.moved) /\ Reason(q, c, stale'.marked)
  BY <1>2, AfterFacts
<1>4. /\ Stored(x) /\ Has(x, c)
      /\ \A T : /\ Marked(q, c, T) => Marked(x, c, T)
                /\ Knows(q, c, T) => Knows(x, c, T)
                /\ Reason(q, c, T) => Reason(x, c, T)
  BY <1>2, WithBest
<1>5. wallet' = InStep(x, c)
  OBVIOUS
<1> HIDE DEF x
<1>6. /\ Stored(wallet') /\ Has(wallet', c)
      /\ \A T : /\ Marked(x, c, T) => Marked(wallet', c, T)
                /\ Knows(x, c, T) => Knows(wallet', c, T)
                /\ Reason(x, c, T) => Reason(wallet', c, T)
  BY <1>4, <1>5, InStepKeeps
<1>7. /\ Marked(wallet', c, stale'.unmarked) /\ Knows(wallet', c, stale'.moved)
      /\ Reason(wallet', c, stale'.marked)
  BY <1>3, <1>4, <1>6
<1>8. Kept'
  BY <1>1, SameBackup
<1>9. up' \in BOOLEAN /\ refused' \subseteq Tx /\ Linked(chain') /\ Len(chain') <= MaxHeight
  BY <1>1
<1> QED BY <1>3, <1>6, <1>7, <1>8, <1>9, InvStep

\* A block extends the chain: the scan of one block, and the new best block.
LEMMA ConnectBlockStep ==
  ASSUME WInv, NEW t \in Content, ConnectBlock(t)
  PROVE  WInv'
<1> DEFINE c == Append(chain, t)
           q == Written(wallet, Connected(c))
           p == Len(chain)
<1>1. /\ chain \in Seq(Content) /\ p \in 1 .. Len(chain) /\ Len(chain) \in Nat /\ pool \subseteq Tx
  BY InvFacts
<1>2. /\ up /\ Len(chain) < MaxHeight /\ CanConnect(chain, t) /\ chain' = c
      /\ wallet' = InStep([q EXCEPT !.best = c], c) /\ pool' = pool \ {t}
      /\ stale' = ToldAfter(chain, stale) /\ UNCHANGED <<backup, up, refused>>
  BY DEF ConnectBlock, Extends
<1>3. /\ Linked(c) /\ Len(c) = Len(chain) + 1 /\ Grown(wallet, q) /\ Has(q, c)
      /\ Follows(wallet, chain, q, c, p)
  BY <1>2, OneBlock
<1>4. SubSeq(chain, 1, p) = chain
  BY <1>1, CutAll
<1> HIDE DEF c, q, p
<1>5. Len(c) <= MaxHeight
  BY <1>1, <1>2, <1>3, WalletTxAssumption
<1>6. pool' \subseteq Tx
  BY <1>1, <1>2
<1>7. stale' = ToldAfter(SubSeq(chain, 1, p), stale)
  BY <1>2, <1>4
<1> QED BY <1>1, <1>2, <1>3, <1>5, <1>6, <1>7, FollowsStep

\* The best block or the commit is refused: the wallet has heard of the block.
LEMMA AbortConnectStep ==
  ASSUME WInv, NEW t \in Content, AbortConnect(t)
  PROVE  WInv'
<1> DEFINE c == Append(chain, t)
<1>1. chain \in Seq(Content)
  BY InvFacts
<1>2. up /\ Abort({Connected(c)})
  BY DEF AbortConnect, Extends
<1>3. c \in Seq(Content) /\ Len(c) = Len(chain) + 1 /\ Len(chain) \in Nat
  BY <1>1
<1> HIDE DEF c
<1>4. Connected(c) \in Seq(OpType)
  <2>1. c # <<>>
    BY <1>3
  <2> QED BY <1>3, <2>1, ConnectedType
<1>5. {Connected(c)} \subseteq Seq(OpType)
  BY <1>4
<1> QED BY <1>2, <1>5, AbortStep

\* Death at any write: before the commit the wallet has been told in vain, after it the
\* wallet has followed.
LEMMA DieStep ==
  ASSUME WInv, up, NEW ops \in Seq(OpType), NEW p \in 1 .. Len(chain), NEW c, Linked(c),
         Len(c) <= MaxHeight, Die(ops, wallet, c), Follows(wallet, chain, Written(wallet, ops), c, p),
         stale' = IF chain' = chain THEN ToldInVain(wallet') ELSE ToldAfter(SubSeq(chain, 1, p), stale)
  PROVE  WInv'
<1>1. /\ Linked(chain) /\ Len(chain) <= MaxHeight /\ Stored(wallet) /\ wallet \in WalletType
      /\ wallet.spent \subseteq wallet.tx /\ refused \subseteq Tx /\ Kept
  BY InvFacts
<1>2. up' = FALSE /\ pool' = {} /\ UNCHANGED <<backup, refused>>
  BY DEF Die
<1>3. Kept'
  BY <1>1, <1>2, SameBackup
<1>4. pool' \subseteq Tx /\ up' \in BOOLEAN /\ ~up' /\ refused' \subseteq Tx
  BY <1>1, <1>2
<1>5. CASE chain' = chain /\ \E n \in 0 .. Len(ops) : wallet' = InStep(Written(wallet, SubSeq(ops, 1, n)), chain)
  <2>1. PICK n \in 0 .. Len(ops) : wallet' = InStep(Written(wallet, SubSeq(ops, 1, n)), chain)
    BY <1>5
  <2> DEFINE s == SubSeq(ops, 1, n)
  <2>2. s \in Seq(OpType)
    BY Cut
  <2>3. wallet' = InStep(Written(wallet, s), chain) /\ stale' = ToldInVain(wallet')
    BY <1>5, <2>1
  <2> HIDE DEF s
  <2>4. /\ Stored(wallet') /\ stale' \in StaleType
        /\ Knows(wallet', chain, stale'.moved) /\ Reason(wallet', chain, stale'.marked)
    BY <2>2, <2>3, InVain
  <2>5. chain' = chain
    BY <1>5
  <2> QED BY <1>1, <1>3, <1>4, <2>4, <2>5, InvStep
<1>6. CASE c # chain /\ chain' = c /\ wallet' = InStep(Written(wallet, ops), c)
  <2> DEFINE q == Written(wallet, ops)
  <2>1. Grown(wallet, q)
    BY <1>1, WrittenGrows
  <2>2. Follows(wallet, chain, q, c, p) /\ wallet' = InStep(q, c)
    BY <1>6
  <2> HIDE DEF q
  <2>3. Stored(q) /\ q \in WalletType
    BY <1>1, <2>1, StoredGrown DEF Grown
  <2>4. stale' = ToldAfter(SubSeq(chain, 1, p), stale) /\ chain' = c
    BY <1>6
  <2>5. stale' \in StaleType /\ Knows(q, c, stale'.moved) /\ Reason(q, c, stale'.marked)
    BY <2>2, <2>3, <2>4, AfterFacts
  <2>6. /\ Stored(wallet')
        /\ \A T : /\ Knows(q, c, T) => Knows(wallet', c, T)
                  /\ Reason(q, c, T) => Reason(wallet', c, T)
    BY <2>2, <2>3, InStepKeeps
  <2>7. Knows(wallet', c, stale'.moved) /\ Reason(wallet', c, stale'.marked)
    BY <2>5, <2>6
  <2> QED BY <1>3, <1>4, <2>4, <2>5, <2>6, <2>7, InvStep
<1> QED BY <1>5, <1>6 DEF Die

\* The process dies after any write of a block, which the chain has or has not.
LEMMA DieConnectingStep ==
  ASSUME WInv, NEW t \in Content, DieConnecting(t)
  PROVE  WInv'
<1> DEFINE c == Append(chain, t)
           p == Len(chain)
           ops == Connected(c)
<1>1. chain \in Seq(Content) /\ Len(chain) \in Nat /\ p \in 1 .. Len(chain)
  BY InvFacts
<1>2. /\ up /\ Len(chain) < MaxHeight /\ CanConnect(chain, t) /\ Die(ops, wallet, c)
      /\ stale' = IF chain' = chain THEN ToldInVain(wallet') ELSE ToldAfter(chain, stale)
  BY DEF DieConnecting, Extends
<1>3. /\ Linked(c) /\ Len(c) = Len(chain) + 1 /\ Follows(wallet, chain, Written(wallet, ops), c, p)
  BY <1>2, OneBlock
<1>4. SubSeq(chain, 1, p) = chain
  BY <1>1, CutAll
<1> HIDE DEF c, p
<1>5. Len(c) <= MaxHeight
  BY <1>1, <1>2, <1>3, WalletTxAssumption
<1>6. c # <<>> /\ c \in Seq(Content)
  BY <1>3 DEF Linked
<1>7. ops \in Seq(OpType)
  BY <1>6, ConnectedType
<1> HIDE DEF ops
<1>8. stale' = IF chain' = chain THEN ToldInVain(wallet') ELSE ToldAfter(SubSeq(chain, 1, p), stale)
  BY <1>2, <1>4
<1> QED BY <1>1, <1>2, <1>3, <1>5, <1>7, <1>8, DieStep

\* What is written when blocks are disconnected.
LEMMA UndoType ==
  ASSUME Linked(chain), NEW k \in 0 .. Len(chain)
  PROVE  Undo(k) \in Seq(OpType)
<1> DEFINE s == [i \in 1 .. k |-> Disconnected(chain[Len(chain) - i + 1])]
<1>1. chain \in Seq(Content)
  BY LinkedFacts
<1>2. Joined(s) \in Seq(OpType)
  BY <1>1, UndoneType
<1>3. Undo(k) = Joined(s)
  BY DEF Undo
<1> QED BY <1>2, <1>3

\* What a reorganisation writes: what it disconnects is undone, and the branch scanned.
LEMMA ReorganisedType ==
  ASSUME Linked(chain), NEW n \in Nat, n < Len(chain), NEW c, Linked(c), Len(c) >= Len(chain) - n + 1
  PROVE  /\ Reorganised(c, n) \in Seq(OpType) /\ Undo(n) \in Seq(OpType)
         /\ Scanned(c, Len(chain) - n + 1) \in Seq(OpType)
         /\ Len(chain) - n + 1 \in DOMAIN c
<1> DEFINE a == Undo(n)
           m == Len(chain) - n + 1
           b == Scanned(c, m)
<1>1. chain \in Seq(Content) /\ Len(chain) \in Nat /\ n \in 0 .. Len(chain)
  BY LinkedFacts
<1>2. DOMAIN c = 1 .. Len(c) /\ Len(c) \in Nat
  BY LinkedFacts
<1>3. m \in DOMAIN c
  BY <1>1, <1>2
<1>4. a \in Seq(OpType)
  BY <1>1, UndoType
<1>5. b \in Seq(OpType)
  BY <1>3, ScannedType
<1>6. Reorganised(c, n) = a \o b
  BY DEF Reorganised
<1> HIDE DEF a, b
<1>7. a \o b \in Seq(OpType)
  BY <1>4, <1>5
<1> QED BY <1>3, <1>4, <1>5, <1>6, <1>7 DEF a, b

\* The blocks before the fork.
LEMMA BaseIs ==
  ASSUME Linked(chain), NEW n \in Nat, n < Len(chain)
  PROVE  /\ Base(n) = SubSeq(chain, 1, Len(chain) - n) /\ Len(Base(n)) = Len(chain) - n
         /\ Len(chain) - n \in 1 .. Len(chain)
<1>1. chain \in Seq(Content) /\ Len(chain) \in Nat /\ Len(chain) - n \in 1 .. Len(chain)
      /\ Len(chain) - n \in 0 .. Len(chain)
  BY LinkedFacts
<1> QED BY <1>1, Cut DEF Base

\* The wallet after a reorganisation.
LEMMA OneBranch ==
  ASSUME WInv, up, NEW n \in Nat, n < Len(chain), NEW c \in Branches(n),
         NEW q, q = Written(wallet, Reorganised(c, n))
  PROVE  Grown(wallet, q) /\ Has(q, c) /\ Follows(wallet, chain, q, c, Len(chain) - n)
<1> DEFINE a == Undo(n)
           m == Len(chain) - n + 1
           b == Scanned(c, m)
           w == wallet
           v == Written(w, a)
<1>1. /\ Linked(chain) /\ chain \in Seq(Content) /\ Len(chain) \in Nat /\ Len(chain) >= 1
      /\ DOMAIN chain = 1 .. Len(chain)
      /\ w \in WalletType /\ w.spent \subseteq w.tx /\ Has(w, chain)
  BY InvFacts
<1>2. Linked(c) /\ Len(c) = Len(chain) + 1 /\ \A i \in 1 .. Len(chain) - n : c[i] = chain[i]
  BY <1>1, BranchFacts
<1>3. /\ c \in Seq(Content) /\ DOMAIN c = 1 .. Len(c) /\ m \in DOMAIN c /\ a \in Seq(OpType)
      /\ b \in Seq(OpType)
  <2>1. Len(c) >= m
    BY <1>1, <1>2
  <2> QED BY <1>1, <1>2, <2>1, LinkedFacts, ReorganisedType
<1>4. q = Written(w, a \o b)
  BY DEF Reorganised
<1>5. n \in 0 .. Len(chain)
  BY <1>1
<1>6. Undone(w, v, chain, m)
  BY <1>1, <1>5, UndoneFacts DEF Undo
<1>7. m \in Int /\ m >= 2 /\ m - 1 = Len(chain) - n /\ m - 1 \in 0 .. Len(chain) /\ m - 1 <= Len(c)
      /\ m - 1 \in 0 .. Len(c)
  BY <1>1, <1>2, <1>5
<1> HIDE DEF a
<1>8. q = Written(v, b)
  <2> HIDE DEF b
  <2> QED BY <1>1, <1>3, <1>4, WrittenSplit
<1>9. v \in WalletType /\ v.spent \subseteq v.tx /\ v.tx = w.tx /\ v.block = w.block /\ v.best = w.best
  BY <1>1, <1>6 DEF Undone
<1>10. \A i \in 1 .. m - 1 : c[i] = chain[i]
  BY <1>2, <1>7
<1> HIDE DEF v, w, m
<1>11. ScanTo(v, q, c, m, Len(c) + 1)
  BY <1>2, <1>3, <1>8, <1>9, ScanFacts
<1> HIDE DEF b
<1>12. ASSUME NEW j \in 1 .. m - 1
       PROVE  /\ j \in DOMAIN chain /\ j \in DOMAIN c /\ c[j] = chain[j]
              /\ HasAt(v, c, j) /\ KeepsAt(w, v, c, j)
              /\ KnowsAt(w, chain, j) => KnowsAt(v, c, j)
              /\ ReasonAt(w, chain, j) => ReasonAt(v, c, j)
  <2>1. j \in DOMAIN chain /\ j \in DOMAIN c /\ c[j] = chain[j] /\ j < m
    BY <1>1, <1>3, <1>7, <1>10
  <2>2. /\ HasAt(v, c, j) <=> HasAt(v, chain, j)
        /\ KnowsAt(v, c, j) <=> KnowsAt(v, chain, j)
    <3> DEFINE k == m - 1
    <3>1. k \in 0 .. Len(c) /\ k <= Len(chain) /\ j \in 1 .. k /\ \A i \in 1 .. k : c[i] = chain[i]
      BY <1>7, <1>10, <1>1
    <3> HIDE DEF k
    <3> QED BY <1>1, <1>3, <3>1, SameBlock
  <2>3. HasAt(v, chain, j) /\ (KnowsAt(w, chain, j) => KnowsAt(v, chain, j))
    BY <1>1, <1>9, <2>1 DEF Has, HasAt, KnowsAt
  <2>4. KeepsAt(w, v, c, j)
    <3> SUFFICES ASSUME c[j] # None, NEW u \in Spends[c[j]], u \in Mine, u \in w.spent, u \notin v.spent
                 PROVE  FALSE
      BY DEF KeepsAt
    <3>1. PICK i \in m .. Len(chain) : chain[i] \in Sprout /\ u \in Spends[chain[i]]
      BY <1>6 DEF Undone
    <3>2. i \in DOMAIN chain /\ i # j
      BY <1>1, <1>7, <2>1
    <3>3. chain[i] # None
      BY <3>1, WalletTxAssumption
    <3> QED BY <1>1, <2>1, <3>1, <3>2, <3>3 DEF Linked
  <2>5. ASSUME ReasonAt(w, chain, j), c[j] \in v.spent
        PROVE  \E u \in v.tx : c[j] \in Spends[u] /\ (u \in Sprout => u \in InChain(c))
    <3>1. PICK u \in w.tx : chain[j] \in Spends[u] /\ (u \in Sprout => u \in InChain(chain))
      BY <1>6, <2>1, <2>5 DEF ReasonAt, Undone
    <3>2. ASSUME u \in Sprout PROVE u \in InChain(c)
      <4>1. PICK i \in DOMAIN chain : chain[i] = u /\ u # None
        BY <1>1, <3>1, <3>2, InChainIs
      <4>2. ~(i \in m .. Len(chain))
        BY <1>6, <2>1, <2>5, <3>1, <3>2, <4>1 DEF Undone
      <4>3. i \in 1 .. m - 1 /\ i \in DOMAIN c
        BY <1>1, <1>3, <1>7, <4>2
      <4>4. c[i] = u
        BY <1>10, <4>1, <4>3
      <4> QED BY <1>3, <4>1, <4>3, <4>4, InChainIs
    <3> QED BY <1>9, <2>1, <3>1, <3>2
  <2>6. ReasonAt(w, chain, j) => ReasonAt(v, c, j)
    BY <2>5 DEF ReasonAt
  <2> QED BY <2>1, <2>2, <2>3, <2>4, <2>6
<1>13. \A j \in DOMAIN c : j \in 1 .. Len(c) + 1 - 1 /\ (j \in 1 .. m - 1 \/ (j >= m /\ j \in m .. Len(c) + 1 - 1))
  BY <1>1, <1>2, <1>3, <1>7
<1>14. Grown(v, q) /\ Kinder(v, q, c) /\ \A j \in 1 .. m - 1 : KeepsAt(v, q, c, j)
  BY <1>11 DEF ScanTo
<1>15. Grown(w, q)
  BY <1>9, <1>14 DEF Grown
<1>16. \A j \in DOMAIN c : HasAt(q, c, j) /\ (j >= m => KnowsAt(q, c, j))
  BY <1>11, <1>12, <1>13 DEF ScanTo
<1>17. \A j \in m .. Len(c) + 1 - 1 : MarkedAt(q, c, j) /\ ReasonAt(q, c, j)
  BY <1>11, <1>12 DEF ScanTo
<1>18. \A j \in DOMAIN c : j \in 1 .. m - 1 \/ (KnowsAt(q, c, j) /\ ReasonAt(q, c, j) /\ MarkedAt(q, c, j))
  BY <1>13, <1>16, <1>17
<1>19. ASSUME NEW j \in 1 .. m - 1
       PROVE  /\ j \in DOMAIN chain /\ c[j] = chain[j]
              /\ KnowsAt(w, chain, j) => KnowsAt(q, c, j)
              /\ ReasonAt(w, chain, j) => ReasonAt(q, c, j)
              /\ KeepsAt(w, q, c, j)
  <2>1. KeepsAt(w, v, c, j) /\ KeepsAt(v, q, c, j)
    BY <1>12, <1>14
  <2>2. KeepsAt(w, q, c, j)
    BY <2>1 DEF KeepsAt
  <2> QED BY <1>12, <1>14, <2>2 DEF Kinder
<1>20. Follows(w, chain, q, c, m - 1)
  BY <1>18, <1>19 DEF Follows
<1>21. Has(q, c)
  BY <1>16 DEF Has
<1> QED BY <1>7, <1>15, <1>20, <1>21 DEF w

\* A reorganisation: the old branch is undone and the new one scanned from the fork.
LEMMA ReorganizeStep ==
  ASSUME WInv, NEW n \in Nat, Reorganize(n)
  PROVE  WInv'
<1> DEFINE p == Len(chain) - n
<1>1. Linked(chain) /\ chain \in Seq(Content) /\ Len(chain) \in Nat /\ pool \subseteq Tx
  BY InvFacts
<1>2. /\ up /\ n < Len(chain) /\ Len(chain) < MaxHeight
      /\ stale' = ToldAfter(Base(n), stale) /\ UNCHANGED <<backup, up, refused>>
  BY DEF Reorganize, Forks
<1>3. PICK c \in Branches(n) :
        /\ chain' = c
        /\ wallet' = InStep([Written(wallet, Reorganised(c, n)) EXCEPT !.best = c], c)
        /\ pool' = PoolAfter(c, n)
  BY DEF Reorganize
<1> DEFINE q == Written(wallet, Reorganised(c, n))
<1>4. Linked(c) /\ Len(c) = Len(chain) + 1
  BY <1>1, <1>2, BranchFacts
<1>5. Base(n) = SubSeq(chain, 1, p) /\ p \in 1 .. Len(chain)
  BY <1>1, <1>2, BaseIs
<1>6. Grown(wallet, q) /\ Has(q, c) /\ Follows(wallet, chain, q, c, p)
  BY <1>2, OneBranch
<1>7. wallet' = InStep([q EXCEPT !.best = c], c) /\ chain' = c
  BY <1>3
<1>8. Len(c) <= MaxHeight
  BY <1>1, <1>2, <1>4, WalletTxAssumption
<1>9. pool' \subseteq Tx
  BY <1>1, <1>2, <1>3, PoolAfterType
<1> HIDE DEF q, p
<1>10. stale' = ToldAfter(SubSeq(chain, 1, p), stale)
  BY <1>2, <1>5
<1> QED BY <1>2, <1>4, <1>5, <1>6, <1>7, <1>8, <1>9, <1>10, FollowsStep

\* A reorganisation is given up: the wallet has heard of some of its blocks.
LEMMA AbortReorganizeStep ==
  ASSUME WInv, NEW n \in Nat, AbortReorganize(n)
  PROVE  WInv'
<1> DEFINE undos == {Undo(k) : k \in 0 .. n}
           parts == {Reorganised(SubSeq(c, 1, m), n) :
                       c \in Branches(n), m \in Len(Base(n)) + 1 .. Len(chain) + 1}
<1>1. Linked(chain) /\ Len(chain) \in Nat
  BY InvFacts
<1>2. up /\ n < Len(chain) /\ Abort(undos \cup parts)
  BY DEF AbortReorganize, Forks
<1>3. ASSUME NEW k \in 0 .. n PROVE Undo(k) \in Seq(OpType)
  <2>1. k \in 0 .. Len(chain)
    BY <1>1, <1>2
  <2> QED BY <1>1, <2>1, UndoType
<1>4. ASSUME NEW c \in Branches(n), NEW m \in Len(Base(n)) + 1 .. Len(chain) + 1
      PROVE  Reorganised(SubSeq(c, 1, m), n) \in Seq(OpType)
  <2> DEFINE d == SubSeq(c, 1, m)
  <2>1. Linked(c) /\ Len(c) = Len(chain) + 1
    BY <1>1, <1>2, BranchFacts
  <2>2. Len(Base(n)) = Len(chain) - n
    BY <1>1, <1>2, BaseIs
  <2>3. m \in 1 .. Len(c) /\ m \in 0 .. Len(c) /\ m >= Len(chain) - n + 1
    BY <1>1, <1>2, <2>1, <2>2
  <2>4. c \in Seq(Content)
    BY <2>1, LinkedFacts
  <2>5. Linked(d) /\ Len(d) = m
    BY <2>1, <2>3, <2>4, LinkedCut, Cut
  <2> HIDE DEF d
  <2>6. Reorganised(d, n) \in Seq(OpType)
    BY <1>1, <1>2, <2>3, <2>5, ReorganisedType
  <2> QED BY <2>6 DEF d
<1>5. undos \subseteq Seq(OpType)
  BY <1>3
<1>6. parts \subseteq Seq(OpType)
  BY <1>4
<1> HIDE DEF undos, parts
<1>7. undos \cup parts \subseteq Seq(OpType)
  BY <1>5, <1>6
<1> QED BY <1>2, <1>7, AbortStep

\* The process dies within a reorganisation: what its blocks wrote is there, the
\* chain is the old or the new one.
LEMMA DieReorganisingStep ==
  ASSUME WInv, NEW n \in Nat, DieReorganising(n)
  PROVE  WInv'
<1> DEFINE p == Len(chain) - n
<1>1. Linked(chain) /\ Len(chain) \in Nat
  BY InvFacts
<1>2. /\ up /\ n < Len(chain) /\ Len(chain) < MaxHeight
      /\ stale' = IF chain' = chain THEN ToldInVain(wallet') ELSE ToldAfter(Base(n), stale)
  BY DEF DieReorganising, Forks
<1>3. PICK c \in Branches(n) : Die(Reorganised(c, n), wallet, c)
  BY DEF DieReorganising
<1> DEFINE ops == Reorganised(c, n)
<1>4. Linked(c) /\ Len(c) = Len(chain) + 1
  BY <1>1, <1>2, BranchFacts
<1>5. Len(c) <= MaxHeight
  BY <1>1, <1>2, <1>4, WalletTxAssumption
<1>6. ops \in Seq(OpType)
  <2>1. Len(c) >= Len(chain) - n + 1
    BY <1>1, <1>4
  <2> QED BY <1>1, <1>2, <1>4, <2>1, ReorganisedType
<1>7. Base(n) = SubSeq(chain, 1, p) /\ p \in 1 .. Len(chain)
  BY <1>1, <1>2, BaseIs
<1>8. Follows(wallet, chain, Written(wallet, ops), c, p)
  BY <1>2, OneBranch
<1>9. Die(ops, wallet, c)
  BY <1>3
<1> HIDE DEF ops, p
<1>10. stale' = IF chain' = chain THEN ToldInVain(wallet') ELSE ToldAfter(SubSeq(chain, 1, p), stale)
  BY <1>2, <1>7
<1> QED BY <1>2, <1>4, <1>5, <1>6, <1>7, <1>8, <1>9, <1>10, DieStep

\* importprivkey scans the chain from its first block.
LEMMA RescanStep ==
  ASSUME WInv, Rescan
  PROVE  WInv'
<1> DEFINE v == Written(wallet, Scanned(chain, 1))
           q == Reaccepted(v, chain)
<1>1. /\ Linked(chain) /\ Len(chain) \in Nat /\ Len(chain) >= 1 /\ DOMAIN chain = 1 .. Len(chain)
      /\ Len(chain) <= MaxHeight /\ Stored(wallet) /\ wallet \in WalletType
      /\ wallet.spent \subseteq wallet.tx /\ pool \subseteq Tx /\ refused \subseteq Tx /\ Kept
      /\ up \in BOOLEAN
  BY InvFacts
<1>2. wallet' = q /\ pool' \in Reentered(wallet', pool) /\ stale' = InStepAll /\ UNCHANGED <<chain, backup, up, refused>>
  BY DEF Rescan
<1>3. 1 \in DOMAIN chain /\ 1 .. 1 - 1 = {} /\ Len(chain) + 1 - 1 = Len(chain)
      /\ \A j \in DOMAIN chain : j >= 1
  BY <1>1
<1>4. ScanTo(wallet, v, chain, 1, Len(chain) + 1)
  BY <1>1, <1>3, ScanFacts
<1> HIDE DEF v
<1>5. Grown(wallet, v) /\ Has(v, chain) /\ Knows(v, chain, {}) /\ Reason(v, chain, {})
  BY <1>1, <1>3, <1>4 DEF ScanTo, Has, Knows, Reason
<1>6. v \in WalletType /\ v.spent \subseteq v.tx
  BY <1>5 DEF Grown
<1>7. Remarked(v, q, chain, TRUE)
  BY <1>1, <1>5, <1>6, ReacceptedFacts
<1> HIDE DEF q
<1>8. /\ Grown(v, q) /\ Has(q, chain) /\ Marked(q, chain, {}) /\ Knows(q, chain, {}) /\ Reason(q, chain, {})
  BY <1>5, <1>7 DEF Remarked, Grown, Has, HasAt, Knows, KnowsAt, Reason
<1>9. Stored(q)
  <2>1. Stored(v)
    BY <1>1, <1>5, StoredGrown
  <2> QED BY <1>8, <2>1, StoredGrown
<1>10. pool' \subseteq Tx
  <2>1. q \in WalletType
    BY <1>9 DEF Stored
  <2> QED BY <1>1, <1>2, <2>1, ReenteredType
<1>11. Kept'
  BY <1>1, <1>2, SameBackup
<1>12. stale' \in StaleType /\ stale'.unmarked = {} /\ stale'.marked = {} /\ stale'.moved = {}
  BY <1>2 DEF InStepAll, StaleType
<1> QED BY <1>1, <1>2, <1>8, <1>9, <1>10, <1>11, <1>12, InvStep

\* repairwallet leaves a mark only where there is a reason for it.
LEMMA FixSpentBeansStep ==
  ASSUME WInv, FixSpentBeans
  PROVE  WInv'
<1> DEFINE spent == SpentBy(InChain(chain))
           here == wallet.tx \cap Mine \cap InChain(chain)
           new == (wallet.spent \ (here \ spent)) \cup (here \cap spent)
           q == wallet'
<1>1. /\ Linked(chain) /\ Len(chain) <= MaxHeight /\ Stored(wallet) /\ wallet \in WalletType
      /\ wallet.spent \subseteq wallet.tx /\ pool \subseteq Tx /\ refused \subseteq Tx /\ Kept
      /\ stale \in StaleType /\ up \in BOOLEAN
      /\ up => Has(wallet, chain)
      /\ Knows(wallet, chain, stale.moved)
  BY InvFacts
<1>2. up /\ wallet' = [wallet EXCEPT !.spent = new]
  BY DEF FixSpentBeans
<1>3. stale' = [stale EXCEPT !.unmarked = {}, !.marked = {}] /\ UNCHANGED <<chain, pool, backup, up, refused>>
  BY DEF FixSpentBeans
<1>4. new \subseteq Mine /\ new \subseteq wallet.tx
  BY <1>1 DEF WalletType
<1>5. \A t : t \in here <=> t \in wallet.tx /\ t \in Mine /\ t \in InChain(chain)
  OBVIOUS
<1>6. \A t : t \in new <=> (t \in wallet.spent /\ ~(t \in here /\ t \notin spent)) \/ (t \in here /\ t \in spent)
  OBVIOUS
<1>7. \A t : t \in spent <=> \E u \in InChain(chain) : t \in Spends[u]
  BY DEF SpentBy
<1> HIDE DEF new, here, spent
<1>8. /\ q \in WalletType /\ q.tx = wallet.tx /\ q.spent = new /\ q.block = wallet.block /\ q.best = wallet.best
  BY <1>1, <1>2, <1>4 DEF WalletType
<1> HIDE DEF q
<1>9. /\ chain \in Seq(Content)
      /\ \A i \in DOMAIN chain : chain[i] # None => chain[i] \in InChain(chain)
      /\ \A t : t \in InChain(chain) <=> t # None /\ \E i \in DOMAIN chain : chain[i] = t
  BY <1>1, LinkedFacts, InChainIs
<1>10. Mine \subseteq Tx /\ None \notin Mine
  BY WalletTxAssumption
<1>11. Stored(q)
  BY <1>1, <1>4, <1>8 DEF Stored, Has, HasAt
<1>12. Has(q, chain) /\ Knows(q, chain, stale.moved)
  BY <1>1, <1>2, <1>8 DEF Has, HasAt, Knows, KnowsAt
<1>13. ASSUME NEW j \in DOMAIN chain, chain[j] # None, NEW u \in Spends[chain[j]], u \in Mine PROVE u \in new
  <2>1. PICK i \in DOMAIN chain : chain[i] = u
    BY <1>1, <1>13 DEF Linked
  <2>2. Concerns(chain[i])
    BY <1>10, <1>13, <2>1 DEF Concerns
  <2>3. u \in wallet.tx
    BY <1>1, <1>2, <2>1, <2>2 DEF Has, HasAt
  <2>4. u \in InChain(chain)
    BY <1>9, <1>10, <1>13, <2>1
  <2>5. u \in spent
    BY <1>7, <1>9, <1>13
  <2> QED BY <1>5, <1>6, <1>13, <2>3, <2>4, <2>5
<1>14. ASSUME NEW j \in DOMAIN chain, chain[j] \in new
       PROVE  \E u \in q.tx : chain[j] \in Spends[u] /\ (u \in Sprout => u \in InChain(chain))
  <2>1. chain[j] \in Mine /\ chain[j] \in wallet.tx /\ chain[j] # None
    BY <1>4, <1>10, <1>14
  <2>2. chain[j] \in here
    BY <1>5, <1>9, <2>1
  <2>3. chain[j] \in spent
    BY <1>6, <1>14, <2>2
  <2>4. PICK u \in InChain(chain) : chain[j] \in Spends[u]
    BY <1>7, <2>3
  <2>5. PICK i \in DOMAIN chain : chain[i] = u /\ u # None
    BY <1>9, <2>4
  <2>6. Concerns(chain[i])
    BY <2>1, <2>4, <2>5 DEF Concerns
  <2>7. u \in wallet.tx
    BY <1>1, <1>2, <2>5, <2>6 DEF Has, HasAt
  <2> QED BY <1>8, <2>4, <2>7
<1>15. Marked(q, chain, {}) /\ Reason(q, chain, {})
  BY <1>8, <1>13, <1>14 DEF Marked, Reason, ReasonAt
<1>16. Kept'
  BY <1>1, <1>3, SameBackup
<1>17. stale' \in StaleType /\ stale'.unmarked = {} /\ stale'.marked = {} /\ stale'.moved = stale.moved
  BY <1>1, <1>3 DEF StaleType
<1> QED BY <1>1, <1>3, <1>11, <1>12, <1>15, <1>16, <1>17, InvStep DEF q

\* A copy of wallet.dat keeps what the wallet has up to its best block.
LEMMA BackupStep ==
  ASSUME WInv, Backup
  PROVE  WInv'
<1> DEFINE old == IF wallet.best = chain THEN stale.moved ELSE Tx
<1>1. /\ Linked(chain) /\ Len(chain) <= MaxHeight /\ Stored(wallet) /\ pool \subseteq Tx /\ refused \subseteq Tx
      /\ stale \in StaleType /\ up \in BOOLEAN
      /\ up => Has(wallet, chain) /\ Marked(wallet, chain, stale.unmarked)
      /\ Knows(wallet, chain, stale.moved)
      /\ Reason(wallet, chain, stale.marked)
  BY InvFacts
<1>2. backup' = <<wallet, old>> /\ UNCHANGED <<chain, pool, wallet, up, refused, stale>>
  BY DEF Backup
<1>3. Knows(wallet, wallet.best, old)
  <2>1. CASE wallet.best = chain
    BY <1>1, <2>1
  <2>2. CASE wallet.best # chain
    <3>1. wallet.best \in Seq(Content)
      BY <1>1 DEF Stored, WalletType
    <3>2. ASSUME NEW i \in DOMAIN wallet.best PROVE wallet.best[i] \in Tx \/ KnowsAt(wallet, wallet.best, i)
      BY <3>1 DEF Content, KnowsAt, Concerns
    <3> QED BY <2>2, <3>2 DEF Knows
  <2> QED BY <2>1, <2>2
<1> HIDE DEF old
<1>4. backup'[1] = wallet /\ backup'[2] = old
  BY <1>2
<1>5. Kept'
  BY <1>1, <1>2, <1>3, <1>4 DEF Kept
<1> QED BY <1>1, <1>2, <1>5, InvStep

\* The best block is written at the end: the wallet has its blocks.
LEMMA ShutdownStep ==
  ASSUME WInv, Shutdown
  PROVE  WInv'
<1>1. /\ Linked(chain) /\ wallet \in WalletType /\ wallet.spent \subseteq wallet.tx /\ refused \subseteq Tx
      /\ up => Has(wallet, chain)
  BY InvFacts
<1>2. /\ up /\ up' = FALSE /\ pool' = {} /\ wallet' = [wallet EXCEPT !.best = chain]
      /\ UNCHANGED <<chain, backup, refused, stale>>
  BY DEF Shutdown
<1>3. /\ Stored(wallet')
      /\ \A T : /\ Knows(wallet, chain, T) => Knows(wallet', chain, T)
                /\ Reason(wallet, chain, T) => Reason(wallet', chain, T)
  <2> DEFINE q == [wallet EXCEPT !.best = chain]
  <2>1. /\ Stored(q)
        /\ \A T : /\ Knows(wallet, chain, T) => Knows(q, chain, T)
                  /\ Reason(wallet, chain, T) => Reason(q, chain, T)
    BY <1>1, <1>2, WithBest
  <2> HIDE DEF q
  <2>2. wallet' = q
    BY <1>2 DEF q
  <2> QED BY <2>1, <2>2
<1>4. ~up' /\ up' \in BOOLEAN /\ pool' \subseteq Tx /\ refused' \subseteq Tx
  BY <1>1, <1>2
<1>5. UNCHANGED <<chain, backup, stale>>
  BY <1>2
<1> QED BY <1>3, <1>4, <1>5, KeptStep

\* A start, with any wallet.dat.
LEMMA StartFacts ==
  ASSUME WInv, NEW w, Stored(w), NEW old, Start(w, old), NEW T
  PROVE  /\ Stored(wallet') /\ Has(wallet', chain) /\ Marked(wallet', chain, {}) /\ pool' \subseteq Tx
         /\ Knows(w, chain, T) \/ Knows(w, w.best, T) => Knows(wallet', chain, T)
         /\ Reason(w, chain, T) => Reason(wallet', chain, T)
<1> DEFINE v == Loaded(w)
           q == Reaccepted(v, chain)
<1>1. Linked(chain)
  BY InvFacts
<1>2. wallet' = InStep(q, chain) /\ pool' \in Reentered(wallet', {})
  BY DEF Start
<1>3. /\ Grown(w, v) /\ Has(v, chain)
      /\ Knows(w, chain, T) \/ Knows(w, w.best, T) => Knows(v, chain, T)
      /\ Reason(w, chain, T) => Reason(v, chain, T)
  BY <1>1, LoadedFacts
<1> HIDE DEF v
<1>4. v \in WalletType /\ v.spent \subseteq v.tx
  BY <1>3 DEF Grown
<1>5. Remarked(v, q, chain, TRUE)
  BY <1>1, <1>3, <1>4, ReacceptedFacts
<1> HIDE DEF q
<1>6. /\ Grown(v, q) /\ Has(q, chain) /\ Marked(q, chain, {})
      /\ Knows(v, chain, T) => Knows(q, chain, T)
      /\ Reason(v, chain, T) => Reason(q, chain, T)
  BY <1>3, <1>5 DEF Remarked, Grown, Has, HasAt, Knows, KnowsAt, Reason
<1>7. Stored(q)
  <2>1. Stored(v)
    BY <1>3, StoredGrown
  <2> QED BY <1>6, <2>1, StoredGrown
<1>8. /\ Stored(wallet') /\ Has(wallet', chain) /\ Marked(wallet', chain, {})
      /\ Knows(q, chain, T) => Knows(wallet', chain, T)
      /\ Reason(q, chain, T) => Reason(wallet', chain, T)
  BY <1>1, <1>2, <1>6, <1>7, InStepKeeps
<1>9. pool' \subseteq Tx
  <2>1. wallet' \in WalletType /\ {} \in SUBSET Tx
    BY <1>8 DEF Stored
  <2> QED BY <1>2, <2>1, ReenteredType
<1> QED BY <1>3, <1>6, <1>8, <1>9

\* A start scans from the last block of the chain that the wallet knows as its best.
LEMMA StartAgainStep ==
  ASSUME WInv, StartAgain
  PROVE  WInv'
<1>1. /\ Stored(wallet) /\ refused \subseteq Tx /\ stale \in StaleType /\ Kept /\ Linked(chain)
      /\ Len(chain) <= MaxHeight
      /\ Knows(wallet, chain, stale.moved) /\ Reason(wallet, chain, stale.marked)
  BY InvFacts
<1>2. Start(wallet, stale) /\ UNCHANGED backup
  BY DEF StartAgain
<1>3. up' = TRUE /\ UNCHANGED <<chain, refused, backup>> /\ stale' = [stale EXCEPT !.unmarked = {}]
  BY <1>2 DEF Start
<1>4. /\ stale' \in StaleType /\ stale'.unmarked = {} /\ stale'.marked = stale.marked
      /\ stale'.moved = stale.moved
  BY <1>1, <1>3 DEF StaleType
<1>5. /\ Stored(wallet') /\ Has(wallet', chain) /\ Marked(wallet', chain, {}) /\ pool' \subseteq Tx
      /\ Knows(wallet', chain, stale.moved) /\ Reason(wallet', chain, stale.marked)
  BY <1>1, <1>2, StartFacts
<1>6. Kept'
  BY <1>1, <1>3, SameBackup
<1> QED BY <1>1, <1>3, <1>4, <1>5, <1>6, InvStep

\* A start from the old copy: the scan gives it what the chain has had since.
LEMMA RestoreStep ==
  ASSUME WInv, Restore
  PROVE  WInv'
<1> DEFINE w == backup[1]
           T == backup[2]
           old == [unmarked |-> {}, marked |-> InChain(chain), moved |-> T \cap InChain(chain)]
<1>1. /\ Linked(chain) /\ Len(chain) <= MaxHeight /\ refused \subseteq Tx /\ Kept /\ chain \in Seq(Content)
  BY InvFacts
<1>2. Len(backup) = 2 /\ backup' = <<"restored">> /\ Start(w, old)
  BY DEF Restore
<1>3. Stored(w) /\ Knows(w, w.best, T)
  <2>1. backup # <<>> /\ backup # <<"restored">>
    BY <1>2
  <2> QED BY <1>1, <2>1 DEF Kept
<1>4. up' = TRUE /\ UNCHANGED <<chain, refused>> /\ stale' = old
  BY <1>2 DEF Start
<1>5. /\ InChain(chain) \subseteq Tx
      /\ \A j \in DOMAIN chain : chain[j] # None => chain[j] \in InChain(chain)
  BY <1>1, InChainIs
<1>6. /\ stale' \in StaleType /\ stale'.unmarked = {} /\ stale'.marked = InChain(chain)
      /\ stale'.moved = T \cap InChain(chain)
  BY <1>4, <1>5 DEF StaleType
<1> HIDE DEF w, T, old
<1>7. /\ Stored(wallet') /\ Has(wallet', chain) /\ Marked(wallet', chain, {}) /\ pool' \subseteq Tx
      /\ Knows(wallet', chain, T)
  BY <1>2, <1>3, StartFacts
<1>8. None \notin wallet'.spent
  BY <1>7, WalletTxAssumption DEF Stored, WalletType
<1>9. ASSUME NEW j \in DOMAIN chain, chain[j] \notin InChain(chain) PROVE ReasonAt(wallet', chain, j)
  BY <1>5, <1>8, <1>9 DEF ReasonAt
<1>10. ASSUME NEW j \in DOMAIN chain, chain[j] \notin T \cap InChain(chain) PROVE KnowsAt(wallet', chain, j)
  <2>1. CASE chain[j] = None
    BY <2>1 DEF KnowsAt, Concerns
  <2>2. CASE chain[j] # None
    BY <1>5, <1>7, <1>10, <2>2 DEF Knows
  <2> QED BY <2>1, <2>2
<1>11. Reason(wallet', chain, stale'.marked) /\ Knows(wallet', chain, stale'.moved)
  BY <1>6, <1>9, <1>10 DEF Reason, Knows
<1>12. Kept'
  BY <1>2 DEF Kept
<1> QED BY <1>1, <1>4, <1>6, <1>7, <1>11, <1>12, InvStep

\* Every step keeps the invariant.
LEMMA NextInv == WInv /\ [Next]_vars => WInv'
<1> SUFFICES ASSUME WInv, [Next]_vars PROVE WInv'
  OBVIOUS
<1>1. CASE \E t \in Tx : Receive(t) \/ Send(t) \/ DieSending(t)
  BY <1>1, ReceiveStep, SendStep, DieSendingStep
<1>2. CASE \E t \in Tx \cup {None} : ConnectBlock(t) \/ AbortConnect(t) \/ DieConnecting(t)
  BY <1>2, ConnectBlockStep, AbortConnectStep, DieConnectingStep DEF Content
<1>3. CASE \E n \in 1 .. MaxFork : Reorganize(n) \/ AbortReorganize(n) \/ DieReorganising(n)
  <2>1. PICK n \in 1 .. MaxFork : Reorganize(n) \/ AbortReorganize(n) \/ DieReorganising(n)
    BY <1>3
  <2>2. n \in Nat
    BY <2>1, WalletTxAssumption
  <2> QED BY <2>1, <2>2, ReorganizeStep, AbortReorganizeStep, DieReorganisingStep
<1>4. CASE Rescan \/ FixSpentBeans \/ Backup \/ Shutdown \/ StartAgain \/ Restore
  BY <1>4, RescanStep, FixSpentBeansStep, BackupStep, ShutdownStep, StartAgainStep, RestoreStep
<1>5. CASE UNCHANGED vars
  BY <1>5 DEF vars, WInv, TypeOK, Kept
<1> QED BY <1>1, <1>2, <1>3, <1>4, <1>5 DEF Next

-----------------------------------------------------------------------------
(* The theorems.                                                           *)

\* The invariant that the rest follows from.
THEOREM WalletInv == Spec => []WInv
<1>1. Init => WInv
  BY InitInv
<1>2. WInv /\ [Next]_vars => WInv'
  BY NextInv
<1> QED BY <1>1, <1>2, PTL DEF Spec

\* SyncWithWallets, ScanForWalletTransactions and ReacceptWalletTransactions together: while the
\* node runs, a bean of the wallet that the chain has spent is marked as spent, unless a
\* reorganisation or a block that was given up took its mark off and nothing has been told since.
THEOREM SpentStaysMarked == Spec => []SpentIsMarked
<1>1. WInv => SpentIsMarked
  <2> SUFFICES ASSUME WInv, up, NEW t \in (wallet.tx \cap Mine \cap InChain(chain)) \ stale.unmarked,
                      t \in SpentBy(InChain(chain))
               PROVE  t \in wallet.spent
    BY DEF SpentIsMarked
  <2>1. chain \in Seq(Content) /\ Marked(wallet, chain, stale.unmarked)
    BY InvFacts
  <2>2. PICK u \in InChain(chain) : t \in Spends[u]
    BY DEF SpentBy
  <2>3. PICK i \in DOMAIN chain : chain[i] = u /\ u # None
    BY <2>1, <2>2, InChainIs
  <2> QED BY <2>1, <2>2, <2>3 DEF Marked
<1> QED BY <1>1, WalletInv, PTL

\* The same three, as to what the wallet has: every transaction of the chain that concerns it,
\* with its block unless one that the chain did not get took its place.
THEOREM NothingGoesMissing == Spec => []NothingMissing
<1>1. WInv => NothingMissing
  <2> SUFFICES ASSUME WInv, up, NEW t \in InChain(chain), t \in Mine \/ Spends[t] \cap Mine # {}
               PROVE  t \in wallet.tx /\ (t \in stale.moved \/ wallet.block[t] = BlockOf(chain, t))
    BY DEF NothingMissing, WInv
  <2>1. /\ chain \in Seq(Content) /\ Linked(chain) /\ Has(wallet, chain)
        /\ Knows(wallet, chain, stale.moved)
    BY InvFacts
  <2> DEFINE i == CHOOSE j \in DOMAIN chain : chain[j] = t
  <2>2. i \in DOMAIN chain /\ chain[i] = t /\ t # None
    BY <2>1, InChainIs
  <2>3. BlockOf(chain, t) = SubSeq(chain, 1, i)
    BY DEF BlockOf
  <2> HIDE DEF i
  <2>4. Concerns(chain[i])
    BY <2>2 DEF Concerns
  <2>5. t \in wallet.tx
    BY <2>1, <2>2, <2>4 DEF Has, HasAt
  <2>6. ASSUME t \notin stale.moved PROVE wallet.block[t] = BlockOf(chain, t)
    BY <2>1, <2>2, <2>3, <2>4, <2>6 DEF Knows, KnowsAt
  <2> QED BY <2>5, <2>6
<1> QED BY <1>1, WalletInv, PTL

\* MarkOutputsUnspent, DisableTransaction and FixSpentBeans: a bean is not marked as spent in
\* vain, unless a block that the chain did not get marked it, or an old wallet.dat is used.
THEOREM NoBeanIsLost == Spec => []NotLost
<1>1. WInv => NotLost
  <2> SUFFICES ASSUME WInv, up, NEW t \in (wallet.spent \cap InChain(chain)) \ stale.marked
               PROVE  \E u \in wallet.tx : t \in Spends[u] /\ (u \in Sprout => u \in InChain(chain))
    BY DEF NotLost
  <2>1. chain \in Seq(Content) /\ Reason(wallet, chain, stale.marked)
    BY InvFacts
  <2>2. PICK i \in DOMAIN chain : chain[i] = t
    BY <2>1, InChainIs
  <2> QED BY <2>1, <2>2 DEF Reason, ReasonAt
<1> QED BY <1>1, WalletInv, PTL
=============================================================================
