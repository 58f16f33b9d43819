------------------------------ MODULE WalletTx ------------------------------
(***************************************************************************)
(* The transactions of the wallet (wallet.cpp: mapWallet): which beans are *)
(* marked as spent, while transactions are sent and received, blocks are   *)
(* connected and disconnected, a reorganisation is aborted after the       *)
(* wallet has heard of its blocks, the process dies between two writes to  *)
(* wallet.dat, and an old copy of wallet.dat is put back.                  *)
(*                                                                         *)
(* A transaction has one output; a block holds one transaction of          *)
(* interest or none, and is known by the chain it ends.  Every change to   *)
(* mapWallet is written at once, so that wallet is both memory and         *)
(* wallet.dat; a handler is the sequence of its writes.  Blocks and pool   *)
(* are as small as the wallet sees them: TxIndex, BlockChain and MemPool   *)
(* model them in full.  (A postponed reconnect that is refused once the    *)
(* reorganisation has been committed is left to BlockChain.)               *)
(***************************************************************************)
EXTENDS Integers, Sequences, FiniteSets, SequencesExt

CONSTANTS
    Tx,         \* transactions
    Spends,     \* [Tx -> SUBSET Tx]: the outputs it spends
    Mine,       \* those whose output is the wallet's
    Made,       \* those this wallet makes; others come from elsewhere,
                \* some of them from a copy of wallet.dat
    Sprout,     \* beansprout transactions
    First,      \* the transaction of the first block
    MaxHeight,  \* bound: blocks of the chain
    MaxFork,    \* bound: blocks that a reorganisation disconnects
    None        \* the content of a block without a transaction of interest

ASSUME WalletTxAssumption ==
    /\ Spends \in [Tx -> SUBSET Tx] /\ Mine \subseteq Tx /\ Made \subseteq Tx
    /\ Sprout \subseteq Tx \ Made /\ First \in Mine /\ Spends[First] = {} /\ None \notin Tx
    /\ MaxHeight \in Nat \ {0} /\ MaxFork \in Nat

\* A transaction is known by a hash of 256 bits.
ASSUME FiniteAssumption == IsFiniteSet(Tx)

VARIABLES
    chain,   \* contents of the blocks of the best chain
    pool,    \* transactions of the memory pool
    wallet,  \* mapWallet: its transactions, those marked as spent, hashBlock,
             \* the chain vtxPrev was taken from; and the best block of wallet.dat
    backup,  \* a copy of wallet.dat, or <<>>
    up       \* is the process running?

VARIABLES
    refused, \* history: transactions that CommitTransaction recorded and the
             \* pool refused
    stale    \* history: what the wallet was told of blocks that the chain did
             \* not get after all, or has from an old wallet.dat: beans of
             \* which the mark was taken off (unmarked) or put on (marked),
             \* transactions that were given another block (moved)

vars == <<chain, pool, wallet, backup, up, refused, stale>>

InChain(c)   == ToSet(c) \ {None}
BlockOf(c, t) == SubSeq(c, 1, CHOOSE i \in DOMAIN c : c[i] = t)
SpentBy(S)   == UNION {Spends[u] : u \in S}

\* What a transaction depends on: the least set with its inputs, theirs and so on.
Ancestors ==
    [t \in Tx |-> {u \in Tx : \A S \in SUBSET Tx :
                      Spends[t] \cup SpentBy(S) \subseteq S => u \in S}]

\* A block that is not in the chain makes no difference: it is told of again
\* when it is connected.
InStep(w, c) == [w EXCEPT !.block = [t \in Tx |-> IF IsPrefix(w.block[t], c) THEN w.block[t] ELSE <<>>]]

InStepAll == [unmarked |-> {}, marked |-> {}, moved |-> {}]

TypeOK ==
    /\ chain \in Seq(Tx \cup {None}) /\ Len(chain) \in 1 .. MaxHeight
    /\ pool \subseteq Tx /\ up \in BOOLEAN /\ refused \subseteq Tx
    /\ stale \in [unmarked : SUBSET Tx, marked : SUBSET Tx, moved : SUBSET Tx]
    /\ wallet.tx \subseteq Tx /\ wallet.spent \subseteq wallet.tx
    /\ \A t \in Tx : /\ wallet.block[t] \in Seq(Tx \cup {None}) /\ wallet.prev[t] \in Seq(Tx \cup {None})
    /\ wallet.best \in Seq(Tx \cup {None})

Init ==
    /\ chain = <<First>> /\ pool = {} /\ up = TRUE
    /\ wallet = [tx |-> {First}, spent |-> {},
                 block |-> [t \in Tx |-> IF t = First THEN chain ELSE <<>>],
                 prev |-> [t \in Tx |-> <<>>], best |-> chain]
    /\ backup = <<>> /\ refused = {} /\ stale = InStepAll

-----------------------------------------------------------------------------
(* Writes to wallet.dat.                                                   *)

IsFromMe(w, t) == Spends[t] \cap w.tx \cap Mine # {}

Involved(w, t) == t \in w.tx \/ t \in Mine \/ IsFromMe(w, t)

\* AddToWallet: insert, or merge what is known of its block.
Record(w, t, block) ==
    IF ~Involved(w, t) THEN w
    ELSE [w EXCEPT !.tx = @ \cup {t}, !.block[t] = IF block = <<>> THEN @ ELSE block]

\* WalletUpdateSpent, its first loop: "Anytime a signature is successfully
\* verified, it's proof the outpoint is spent."
MarkInputs(w, t) == [w EXCEPT !.spent = @ \cup (Spends[t] \cap w.tx \cap Mine)]

\* ... and its second one, for a transaction of a block.
MarkOutputsUnspent(w, t) == [w EXCEPT !.spent = @ \ {t}]

\* Mutant: the inputs are left spent, as those of any other transaction are.
RefundNothing(w, t) == w

\* DisableTransaction, for a beansprout of a block that is disconnected.
Refund(w, t) == [w EXCEPT !.spent = @ \ (Spends[t] \cap w.tx \cap Mine)]

Write(w, op) ==
    CASE op.write = "record"  -> Record(w, op.tx, op.block)
      [] op.write = "inputs"  -> MarkInputs(w, op.tx)
      [] op.write = "outputs" -> MarkOutputsUnspent(w, op.tx)
      [] op.write = "refund"  -> Refund(w, op.tx)

Op(write, t, block) == [write |-> write, tx |-> t, block |-> block]

Written(w, ops) == FoldLeft(Write, w, ops)

\* The writes of one thing after another.
Join(a, b) == a \o b
Joined(s) == FoldLeft(Join, <<>>, s)

\* Mutant: the second loop in the place of the first for a block.
AddedEither(t, block) ==
    <<Op("record", t, block), Op(IF block = <<>> THEN "inputs" ELSE "outputs", t, <<>>)>>

\* AddToWalletIfInvolvingMe.
Added(t, block) ==
    <<Op("record", t, block), Op("inputs", t, <<>>)>>
      \o (IF block = <<>> THEN <<>> ELSE <<Op("outputs", t, <<>>)>>)

\* SyncWithWallets, for the last block of c.
Connected(c) == IF Last(c) = None THEN <<>> ELSE Added(Last(c), c)
Disconnected(t) == IF t \in Sprout THEN <<Op("refund", t, <<>>)>> ELSE <<>>

\* ScanForWalletTransactions, over the blocks of c from the i-th.
Scanned(c, i) == Joined([k \in 1 .. Len(c) - i + 1 |-> Connected(SubSeq(c, 1, i + k - 1))])

\* ... without fUpdate, which passes over what the wallet has.
ScannedForNew(w, c) ==
    Joined([k \in 1 .. Len(c) |-> IF c[k] \in w.tx THEN <<>> ELSE Connected(SubSeq(c, 1, k))])

-----------------------------------------------------------------------------
(* The chain and the pool.                                                 *)

CanConnect(c, t) ==
    \/ t = None
    \/ LET in == InChain(c) IN t \in Tx \ in /\ Spends[t] \subseteq in \ SpentBy(in)

\* CTxMemPool::accept: without fCheckInputs, a look for conflicts only.
Conflicts(p, t) == Spends[t] \cap SpentBy(p) # {}

AcceptToMemoryPool(p, c, t) ==
    /\ t \in Tx \ (Sprout \cup p) /\ ~Conflicts(p, t)
    /\ LET in == InChain(c) IN t \notin in /\ Spends[t] \subseteq p \cup (in \ SpentBy(in))

\* A transaction from elsewhere.
Receive(t) ==
    /\ up /\ t \notin Made /\ AcceptToMemoryPool(pool, chain, t)
    /\ pool' = pool \cup {t}
    /\ wallet' = Written(wallet, Added(t, <<>>))
    /\ UNCHANGED <<chain, backup, up, refused, stale>>

\* What of old stays stale once the wallet has been told of the blocks that
\* follow those of c in the chain ...
ToldAfter(c, old) ==
    [unmarked |-> old.unmarked \cap SpentBy(InChain(c)),
     marked |-> old.marked \cap InChain(c), moved |-> old.moved \cap InChain(c)]

\* ... and what becomes so when it was told of blocks in vain, up to wallet v.
ToldInVain(v) ==
    ToldAfter(chain, [unmarked |-> stale.unmarked \cup (wallet.spent \ v.spent),
                      marked |-> stale.marked \cup (v.spent \ wallet.spent),
                      moved |-> stale.moved \cup {t \in Tx : v.block[t] # wallet.block[t]}])

\* What the wallet has been told of, one of told, is given up, and the process goes
\* on with the chain it had.
Abort(told) ==
    /\ wallet' \in {InStep(Written(wallet, ops), chain) : ops \in told}
    /\ stale' = ToldInVain(wallet')
    /\ UNCHANGED <<chain, pool, backup, up, refused>>

Extends(t) == up /\ Len(chain) < MaxHeight /\ CanConnect(chain, t)

\* SetBestChainInner: the wallet is told, the database committed, the
\* transaction taken from the pool and the best block written.
ConnectBlock(t) ==
    /\ Extends(t)
    /\ LET c == Append(chain, t)
       IN  /\ chain' = c
           /\ wallet' = InStep([Written(wallet, Connected(c)) EXCEPT !.best = c], c)
    /\ pool' = pool \ {t}
    /\ stale' = ToldAfter(chain, stale)
    /\ UNCHANGED <<backup, up, refused>>

\* ... or WriteHashBestChain or the commit fails.
AbortConnect(t) == Extends(t) /\ Abort({Connected(Append(chain, t))})

\* A branch of n + 1 blocks takes the place of the last n.
Base(n) == SubSeq(chain, 1, Len(chain) - n)

Branches(n) ==
    LET base == Base(n)
    IN  {c \in {base \o s : s \in [1 .. n + 1 -> Tx \cup {None}]} :
           /\ c[Len(base) + 1] # chain[Len(base) + 1]
           /\ \A i \in Len(base) + 1 .. Len(c) : CanConnect(SubSeq(c, 1, i - 1), c[i])}

Undo(n) == Joined([k \in 1 .. n |-> Disconnected(chain[Len(chain) - k + 1])])

Reorganised(c, n) == Undo(n) \o Scanned(c, Len(chain) - n + 1)

\* Resurrected from the disconnected blocks, the last one first, by
\* CTxMemPool::accept without fCheckInputs.
Resurrect(p, t) == IF t = None \/ t \in Sprout \/ t \in p \/ Conflicts(p, t) THEN p ELSE p \cup {t}
Resurrected(p, s) == FoldLeft(Resurrect, p, s)

\* "Delete redundant memory transactions that are in the connected branch"
PoolAfter(c, n) ==
    LET base == Len(chain) - n
        back == Resurrected(pool, Reverse(SubSeq(chain, base + 1, Len(chain))))
        new  == {c[i] : i \in base + 1 .. Len(c)} \ {None}
        out  == {p \in back \ new : Spends[p] \cap SpentBy(new) # {}}
    IN  {p \in (back \ new) \ out : Ancestors[p] \cap out = {}}

Forks(n) == up /\ n < Len(chain) /\ Len(chain) < MaxHeight

Reorganize(n) ==
    /\ Forks(n)
    /\ \E c \in Branches(n) :
         /\ chain' = c
         /\ wallet' = InStep([Written(wallet, Reorganised(c, n)) EXCEPT !.best = c], c)
         /\ pool' = PoolAfter(c, n)
    /\ stale' = ToldAfter(Base(n), stale)
    /\ UNCHANGED <<backup, up, refused>>

\* It fails: a block of either branch cannot be read, disconnected or connected
\* (after any that could be), or the best block or the commit is refused.
AbortReorganize(n) ==
    /\ Forks(n)
    /\ Abort({Undo(k) : k \in 0 .. n} \cup
             {Reorganised(SubSeq(c, 1, m), n) : c \in Branches(n), m \in Len(Base(n)) + 1 .. Len(chain) + 1})

-----------------------------------------------------------------------------
(* Sending.                                                                *)

\* GetDepthInMainChain of a transaction that claims to be in a block; below
\* zero if it is neither in the chain nor in the pool.
Depth(t, block) ==
    IF block # <<>> /\ IsPrefix(block, chain) THEN Len(chain) - Len(block) + 1
    ELSE IF t \in pool THEN 0 ELSE -1

\* IsTrusted: "If no confirmations but it's from us, we can still consider it
\* confirmed if all dependencies are confirmed", as vtxPrev has them.
IsTrusted(t) ==
    LET from    == wallet.prev[t]
        prev(i) == IF i \in InChain(from) THEN BlockOf(from, i) ELSE wallet.block[i]
        ok[i \in Tx] ==
          \/ Depth(i, prev(i)) >= 1
          \/ Depth(i, prev(i)) = 0 /\ IsFromMe(wallet, i) /\ \A j \in Spends[i] : ok[j]
    IN  \/ Depth(t, wallet.block[t]) >= 1
        \/ /\ Depth(t, wallet.block[t]) = 0 /\ IsFromMe(wallet, t) /\ from # <<>>
           /\ \A i \in Spends[t] : ok[i]

\* AvailableBeans.  (A sprout has not matured within the bound of the chain.)
AvailableBeans == {t \in (wallet.tx \cap Mine) \ (wallet.spent \cup Sprout) : IsTrusted(t)}

\* CreateTransaction with CommitTransaction, whose callers hold both locks
\* throughout: it is recorded, with vtxPrev, before the pool sees it.
Committed(t) ==
    <<Op("record", t, <<>>), Op("inputs", t, <<>>)>>

Recorded(t) ==
    [wallet EXCEPT !.prev[t] =
       SubSeq(chain, 1, Max({i \in DOMAIN chain : chain[i] \in Ancestors[t]} \cup {0}))]

Send(t) ==
    /\ up /\ t \in Made \ wallet.tx /\ Spends[t] \subseteq AvailableBeans
    /\ wallet' = Written(Recorded(t), Committed(t))
    /\ IF AcceptToMemoryPool(pool, chain, t)
         THEN pool' = pool \cup {t} /\ UNCHANGED refused
         ELSE refused' = refused \cup {t} /\ UNCHANGED pool
    /\ UNCHANGED <<chain, backup, up, stale>>

-----------------------------------------------------------------------------
(* Start, repair and death.                                                *)

\* ReacceptWalletTransactions, one turn: marks what the chain has spent, and
\* if there is any scans for the transactions that did so.
Reaccept(w, c) ==
    LET spent == {t \in (w.tx \cap Mine \cap InChain(c)) \ w.spent : t \in SpentBy(InChain(c))}
        marked == [w EXCEPT !.spent = @ \cup spent]
    IN  IF spent = {} THEN w ELSE Written(marked, ScannedForNew(marked, c))

\* ... until none is found.
Reaccepted(w, c) ==
    LET turn(v, i) == Reaccept(v, c)
    IN  FoldLeft(turn, w, [i \in 1 .. Cardinality(Tx) |-> i])

\* AcceptWalletTransaction: what it has in vtxPrev first, inputs before what
\* spends them.  (Hashes leave no circle, and so there is such an order.)
WithPrev(w, t) ==
    LET orders == {s \in SetToSeqs(Ancestors[t]) :
                      \A i, j \in DOMAIN s : s[i] \in Ancestors[s[j]] => i < j}
    IN  IF w.prev[t] = <<>> \/ orders = {} THEN <<t>> ELSE Append(CHOOSE s \in orders : TRUE, t)

Accept(q, t) == IF AcceptToMemoryPool(q, chain, t) THEN q \cup {t} ELSE q
Accepted(p, s) == FoldLeft(Accept, p, s)

\* The pool after it: the wallet's transactions that the chain has not are
\* entered in the order of their hashes.
Reentered(w, p) ==
    {Accepted(p, Joined([i \in DOMAIN order |-> WithPrev(w, order[i])])) :
        order \in SetToSeqs(w.tx \ (Sprout \cup InChain(chain)))}

\* importprivkey, as to the transactions the wallet has keys for already.
Rescan ==
    /\ up
    /\ wallet' = Reaccepted(Written(wallet, Scanned(chain, 1)), chain)
    /\ pool' \in Reentered(wallet', pool)
    /\ stale' = InStepAll
    /\ UNCHANGED <<chain, backup, up, refused>>

\* FixSpentBeans (repairwallet).
FixSpentBeans ==
    /\ up
    /\ LET spent == SpentBy(InChain(chain))
           here  == wallet.tx \cap Mine \cap InChain(chain)
       IN  wallet' = [wallet EXCEPT !.spent = (@ \ (here \ spent)) \cup (here \cap spent)]
    /\ stale' = [stale EXCEPT !.unmarked = {}, !.marked = {}]
    /\ UNCHANGED <<chain, pool, backup, up, refused>>

\* A copy whose best block is that of an earlier time may, on another branch, be
\* taken for one that has seen its blocks.
Backup ==
    /\ up /\ backup = <<>>
    /\ backup' = <<wallet, IF wallet.best = chain THEN stale.moved ELSE Tx>>
    /\ UNCHANGED <<chain, pool, wallet, up, refused, stale>>

\* Shutdown: the best block is written.
Shutdown ==
    /\ up /\ up' = FALSE /\ pool' = {}
    /\ wallet' = [wallet EXCEPT !.best = chain]
    /\ UNCHANGED <<chain, backup, refused, stale>>

\* The process dies after some of the writes of a handler, and before or after
\* the commit where there is one.
Die(ops, w, c) ==
    /\ up' = FALSE /\ pool' = {}
    /\ \/ /\ wallet' \in {InStep(Written(w, SubSeq(ops, 1, n)), chain) : n \in 0 .. Len(ops)}
          /\ UNCHANGED chain
       \/ c # chain /\ chain' = c /\ wallet' = InStep(Written(w, ops), c)
    /\ UNCHANGED <<backup, refused>>

DieSending(t) ==
    /\ up /\ t \in Made \ wallet.tx /\ Spends[t] \subseteq AvailableBeans
    /\ Die(Committed(t), Recorded(t), chain)
    /\ UNCHANGED stale

DieConnecting(t) ==
    /\ Extends(t)
    /\ LET c == Append(chain, t) IN Die(Connected(c), wallet, c)
    /\ stale' = IF chain' = chain THEN ToldInVain(wallet') ELSE ToldAfter(chain, stale)

\* (A branch of which a later block fails is, to the wallet, one that goes on
\* with blocks without a transaction of interest.)
DieReorganising(n) ==
    /\ Forks(n)
    /\ \E c \in Branches(n) : Die(Reorganised(c, n), wallet, c)
    /\ stale' = IF chain' = chain THEN ToldInVain(wallet') ELSE ToldAfter(Base(n), stale)

\* Mutant: the scan is left to ReacceptWalletTransactions.
LoadedAsWritten(w) == w

\* AppInit2: the blocks after the best block of wallet.dat are scanned, from
\* that block on if any block is higher.
Loaded(w) ==
    LET common == Max({i \in 0 .. Len(chain) : IsPrefix(SubSeq(chain, 1, i), w.best)})
    IN  IF common < Len(chain) THEN Written(w, Scanned(chain, common)) ELSE w

Start(w, old) ==
    /\ ~up /\ up' = TRUE
    /\ wallet' = InStep(Reaccepted(Loaded(w), chain), chain)
    /\ pool' \in Reentered(wallet', {})
    /\ stale' = [old EXCEPT !.unmarked = {}]
    /\ UNCHANGED <<chain, refused>>

StartAgain == Start(wallet, stale) /\ UNCHANGED backup

\* (Once, within the bound.)
Restore ==
    /\ Len(backup) = 2 /\ backup' = <<"restored">>
    /\ Start(backup[1], [unmarked |-> {}, marked |-> InChain(chain), moved |-> backup[2] \cap InChain(chain)])

Next == \/ \E t \in Tx : Receive(t) \/ Send(t) \/ DieSending(t)
        \/ \E t \in Tx \cup {None} : ConnectBlock(t) \/ AbortConnect(t) \/ DieConnecting(t)
        \/ \E n \in 1 .. MaxFork : Reorganize(n) \/ AbortReorganize(n) \/ DieReorganising(n)
        \/ Rescan \/ FixSpentBeans \/ Backup \/ Shutdown
        \/ StartAgain \/ Restore

Spec == Init /\ [][Next]_vars

-----------------------------------------------------------------------------
\* A bean that the chain has spent is marked as spent, so that no balance
\* counts it and nothing is made of it, after reorganisations, a death at any
\* write, and a start from an old copy of wallet.dat; unless a reorganisation
\* or a block that was aborted took its mark off, and since then the wallet was
\* not told of its spender again, nor started, rescanned or repaired.
SpentIsMarked ==
    up => \A t \in (wallet.tx \cap Mine \cap InChain(chain)) \ stale.unmarked :
            t \in SpentBy(InChain(chain)) => t \in wallet.spent

\* The wallet has every transaction of the chain that pays to it or spends
\* from it, with the block it is in, which its depth and trust depend on; the
\* block unless one of a branch that did not become the best chain took its
\* place, or an old wallet.dat was put back, without a rescan since.  (And every
\* variable keeps its type.)
NothingMissing ==
    /\ TypeOK
    /\ up => \A t \in InChain(chain) :
            t \in Mine \/ Spends[t] \cap Mine # {} =>
              t \in wallet.tx /\ (t \in stale.moved \/ wallet.block[t] = BlockOf(chain, t))

\* A bean of the chain that is marked as spent is spent by a transaction the
\* wallet has and that is not a beansprout the chain gave up; or a block that the
\* chain did not get has marked it, or an old wallet.dat was put back, without
\* repairwallet or a rescan since.
NotLost ==
    up => \A t \in (wallet.spent \cap InChain(chain)) \ stale.marked :
            \E u \in wallet.tx : t \in Spends[u] /\ (u \in Sprout => u \in InChain(chain))

\* "This must not fail. The transaction has already been signed and recorded."
MustNotFail == refused = {}
=============================================================================
