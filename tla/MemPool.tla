------------------------------ MODULE MemPool ------------------------------
(***************************************************************************)
(* The transactions of one node outside the chain: the memory pool, the    *)
(* orphan transactions, what a change of the best chain does to both, the  *)
(* wallet's view of where its transactions are, and the transactions that  *)
(* CreateNewBlock picks.                                                   *)
(*                                                                         *)
(* cs_main is held through all of it, so the steps of a call (pc # "idle") *)
(* come one after the other; the steps are the iterations of its loops.    *)
(* The one read outside the lock is the miner's: CreateNewBlock reads      *)
(* pindexBest before it takes cs_main.                                     *)
(*                                                                         *)
(* Storage is reliable here and the node does not crash; BlockChain looks  *)
(* at that.  Without storage failures a postponed reconnect never happens: *)
(* a block with more trust than the best one is only ever left aside when  *)
(* its chain does not connect, and then it does not connect later either.  *)
(***************************************************************************)
EXTENDS TxIndex, FiniteSets

CONSTANTS
    Standard,    \* transactions that accept() lets pass before it looks at anything else
    Relayable,   \* transactions that pay the relay fee and have standard inputs
    Big,         \* transactions of more than 5000 bytes
    MaxOrphans   \* MAX_ORPHAN_TRANSACTIONS

\* accept() turns beanbases and beanstakes away.
ASSUME PoolAssumption ==
    /\ Standard \subseteq Tx \ (Base \cup Stake)
    /\ Relayable \subseteq Tx /\ Big \subseteq Tx
    /\ MaxOrphans \in Nat

VARIABLES
    mapBlockIndex,  \* SUBSET Block
    pindexBest,     \* Block
    txindex,        \* [Tx -> Entry or NoEntry]: the "tx" records of the database
    mapWallet       \* [Tx -> Block, Loose or Unknown]: hashBlock of the wallet's copy

VARIABLES
    mapTx,          \* SUBSET Tx: the pool
    mapNextTx,      \* a function from outpoints to the pool transaction that spends them
    mapOrphanTransactions,       \* SUBSET Tx
    mapOrphanTransactionsByPrev  \* a function from Tx to SUBSET Tx

VARIABLES
    pc,             \* the loop that is under way, or "idle"
    vWorkQueue,     \* "tx": accepted transactions whose orphans are still to be tried
    todo,           \* "tx": the orphans of the current one still to be tried
    vEraseQueue,    \* "tx": orphans to erase at the end
    vResurrect,     \* Reorganize: transactions to put back into the pool
    vDelete,        \* Reorganize: transactions of the new branch
    pindexPrev,     \* CreateNewBlock: the block it builds on, or NoBlock
    pblock          \* CreateNewBlock: the transactions picked so far

\* History, read by no action.
VARIABLES
    reorganized,    \* has the best chain ever switched branches?
    aborted         \* has a reorganisation failed after it connected a block?

chain   == <<mapBlockIndex, pindexBest, txindex>>
pool    == <<mapTx, mapNextTx>>
orphans == <<mapOrphanTransactions, mapOrphanTransactionsByPrev>>
txloop  == <<vWorkQueue, todo, vEraseQueue>>
reorg   == <<vResurrect, vDelete>>
miner   == <<pindexPrev, pblock>>
history == <<reorganized, aborted>>
vars    == <<chain, mapWallet, pool, orphans, pc, txloop, reorg, miner, history>>

PCs == {"idle", "tx", "resurrect", "delete", "collect"}

PoolType == /\ mapTx \subseteq Tx
            /\ DOMAIN mapNextTx \subseteq Tx \X Nat
            /\ \A o \in DOMAIN mapNextTx : mapNextTx[o] \in Tx

OrphanType == /\ mapOrphanTransactions \subseteq Tx
              /\ DOMAIN mapOrphanTransactionsByPrev \subseteq Tx
              /\ \A p \in DOMAIN mapOrphanTransactionsByPrev :
                     mapOrphanTransactionsByPrev[p] \subseteq Tx

ChainType == /\ mapBlockIndex \subseteq Block /\ pindexBest \in mapBlockIndex
             /\ txindex \in [Tx -> Entry \cup {NoEntry}]
             /\ mapWallet \in [Tx -> Block \cup {Loose, Unknown}]

LoopType == /\ pc \in PCs
            /\ vWorkQueue \in Seq(Tx) /\ todo \subseteq Tx /\ vEraseQueue \subseteq Tx
            /\ vResurrect \in Seq(Tx) /\ vDelete \in Seq(Tx)
            /\ pindexPrev \in Block \cup {NoBlock} /\ pblock \in Seq(Tx)

TypeOK == PoolType /\ OrphanType /\ ChainType /\ LoopType

-----------------------------------------------------------------------------
\* The chain starts as the genesis block, whose beanbase is not in the index:
\* SetBestChain writes hashBestChain and connects nothing.
Init ==
    /\ mapBlockIndex = {Genesis} /\ pindexBest = Genesis
    /\ txindex = [t \in Tx |-> NoEntry]
    /\ mapWallet = [t \in Tx |-> Unknown]
    /\ mapTx = {} /\ mapNextTx = [o \in {} |-> NoEntry]
    /\ mapOrphanTransactions = {} /\ mapOrphanTransactionsByPrev = [p \in {} |-> {}]
    /\ pc = "idle"
    /\ vWorkQueue = <<>> /\ todo = {} /\ vEraseQueue = {}
    /\ vResurrect = <<>> /\ vDelete = <<>>
    /\ pindexPrev = NoBlock /\ pblock = <<>>
    /\ reorganized = FALSE /\ aborted = FALSE

-----------------------------------------------------------------------------
(* CTxMemPool.                                                             *)

\* accept() gets as far as the inputs: none of the early returns is taken.
PassesEarlyChecks(t) == /\ t \in Standard /\ t \notin mapTx
                        /\ vin[t] \cap DOMAIN mapNextTx = {}

\* fMissingInputs: only the inputs are wanting.
MissesInputs(t) == /\ PassesEarlyChecks(t) /\ txindex[t] = NoEntry
                   /\ InputsMissing(txindex, mapTx, t)

\* Mutant: a transaction is accepted though inputs are missing.
AcceptableUnchecked(t) == /\ PassesEarlyChecks(t) /\ txindex[t] = NoEntry
                          /\ t \in Relayable
                          /\ ConnectsInputs(txindex, t, pindexBest, Height[pindexBest])

\* accept(fCheckInputs = true) returns true.
Acceptable(t) == /\ PassesEarlyChecks(t) /\ txindex[t] = NoEntry
                 /\ ~InputsMissing(txindex, mapTx, t)
                 /\ t \in Relayable
                 /\ ConnectsInputs(txindex, t, pindexBest, Height[pindexBest])

\* addUnchecked.
AddUnchecked(t) ==
    /\ mapTx' = mapTx \cup {t}
    /\ mapNextTx' = [o \in DOMAIN mapNextTx \cup vin[t] |->
                         IF o \in vin[t] THEN t ELSE mapNextTx[o]]

\* Mutant: mapNextTx keeps the inputs of what is removed.
RemoveSetKeepsInputs(S) == mapTx' = mapTx \ S /\ mapNextTx' = mapNextTx

\* remove() of each transaction of S that is in the pool.
RemoveSet(S) ==
    LET freed == UNION {vin[t] : t \in S \cap mapTx}
    IN /\ mapTx' = mapTx \ S
       /\ mapNextTx' = [o \in DOMAIN mapNextTx \ freed |-> mapNextTx[o]]

\* The pool transactions that spend an output of a member of S.
Spenders(S) == {mapNextTx[o] : o \in {p \in DOMAIN mapNextTx :
                                          p[1] \in S /\ p[2] \in Outputs(p[1])}}

\* What remove(fRecursive) takes out for the transactions S of the pool: the
\* smallest set that has S and, with a transaction, those that spend its outputs.
WithDescendants(S) ==
    {t \in mapTx : \A D \in SUBSET mapTx : S \subseteq D /\ Spenders(D) \subseteq D => t \in D}

\* removeConflicts(t): the pool transactions that spend what t spends.
Conflicts(t) == {mapNextTx[o] : o \in vin[t] \cap DOMAIN mapNextTx} \ {t}

-----------------------------------------------------------------------------
(* Orphan transactions.                                                    *)

PrevOf(t) == {o[1] : o \in vin[t]}

\* The two maps once AddOrphanTx has stored t.
ByPrevWith(t) == [p \in DOMAIN mapOrphanTransactionsByPrev \cup PrevOf(t) |->
    (IF p \in DOMAIN mapOrphanTransactionsByPrev THEN mapOrphanTransactionsByPrev[p] ELSE {})
    \cup (IF p \in PrevOf(t) THEN {t} ELSE {})]

\* Mutant: the entries that become empty are erased, but a filled one keeps the orphan.
ErasedKeeps(byPrev, S) ==
    LET touched == UNION {PrevOf(t) : t \in S}
        gone == {p \in DOMAIN byPrev : p \in touched /\ byPrev[p] \subseteq S}
    IN [p \in DOMAIN byPrev \ gone |-> byPrev[p]]

\* mapOrphanTransactionsByPrev after EraseOrphanTx of the orphans S: an entry
\* that becomes empty goes; one that was empty stays.
Erased(byPrev, S) ==
    LET touched == UNION {PrevOf(t) : t \in S}
        gone == {p \in DOMAIN byPrev : p \in touched /\ byPrev[p] \subseteq S}
    IN [p \in DOMAIN byPrev \ gone |-> byPrev[p] \ S]

OverLimit(S) == Cardinality(S) > MaxOrphans

-----------------------------------------------------------------------------
(* The "tx" message and sendrawtransaction.                                *)

\* A transaction is accepted; the orphans that wait for it come next.
ReceiveTx(t) ==
    /\ pc = "idle" /\ Acceptable(t)
    /\ AddUnchecked(t)
    /\ mapWallet' = SyncWithWallets(mapWallet, t, Loose)
    /\ pc' = "tx" /\ vWorkQueue' = <<t>> /\ vEraseQueue' = {t} /\ todo' = {}
    /\ UNCHANGED <<chain, orphans, reorg, miner, history>>

\* A transaction with inputs the node does not know is kept as an orphan,
\* unless it is big or kept already; a random one goes when there are too many.
HoldOrphan(t) ==
    /\ pc = "idle" /\ MissesInputs(t)
    /\ t \notin mapOrphanTransactions /\ t \notin Big
    /\ LET held == mapOrphanTransactions \cup {t}
       IN \E S \in IF OverLimit(held) THEN {{e} : e \in held} ELSE {{}} :
              /\ mapOrphanTransactions' = held \ S
              /\ mapOrphanTransactionsByPrev' = Erased(ByPrevWith(t), S)
    /\ UNCHANGED <<chain, mapWallet, pool, pc, txloop, reorg, miner, history>>

\* Mutant: the work queue is not advanced.
NextInQueueStuck ==
    /\ pc = "tx" /\ todo = {} /\ vWorkQueue # <<>>
    /\ LET p == Head(vWorkQueue)
           D == DOMAIN mapOrphanTransactionsByPrev
       IN /\ todo' = IF p \in D THEN mapOrphanTransactionsByPrev[p] ELSE {}
          /\ mapOrphanTransactionsByPrev' =
                [r \in D \cup {p} |-> IF r \in D THEN mapOrphanTransactionsByPrev[r] ELSE {}]
    /\ UNCHANGED <<chain, mapWallet, pool, mapOrphanTransactions, pc, vWorkQueue, vEraseQueue,
                   reorg, miner, history>>

\* The next entry of the work queue.  Looking its orphans up with [] gives it an
\* entry in mapOrphanTransactionsByPrev if it had none.
NextInQueue ==
    /\ pc = "tx" /\ todo = {} /\ vWorkQueue # <<>>
    /\ LET p == Head(vWorkQueue)
           D == DOMAIN mapOrphanTransactionsByPrev
       IN /\ todo' = IF p \in D THEN mapOrphanTransactionsByPrev[p] ELSE {}
          /\ mapOrphanTransactionsByPrev' =
                [r \in D \cup {p} |-> IF r \in D THEN mapOrphanTransactionsByPrev[r] ELSE {}]
    /\ vWorkQueue' = Tail(vWorkQueue)
    /\ UNCHANGED <<chain, mapWallet, pool, mapOrphanTransactions, pc, vEraseQueue,
                   reorg, miner, history>>

\* An orphan is accepted.  The wallets are told of the transaction that the
\* message brought, which they know, and not of the orphan.
AcceptOrphan(t) ==
    /\ pc = "tx" /\ t \in todo /\ Acceptable(t)
    /\ AddUnchecked(t)
    /\ vWorkQueue' = Append(vWorkQueue, t)
    /\ vEraseQueue' = vEraseQueue \cup {t}
    /\ todo' = todo \ {t}
    /\ UNCHANGED <<chain, mapWallet, orphans, pc, reorg, miner, history>>

\* An orphan is found invalid and will be erased, or waits for further inputs.
RefuseOrphan(t) ==
    /\ pc = "tx" /\ t \in todo /\ ~Acceptable(t)
    /\ vEraseQueue' = IF MissesInputs(t) THEN vEraseQueue ELSE vEraseQueue \cup {t}
    /\ todo' = todo \ {t}
    /\ UNCHANGED <<chain, mapWallet, pool, orphans, pc, vWorkQueue, reorg, miner, history>>

\* The end of the handler: EraseOrphanTx of everything in vEraseQueue.
EraseOrphans ==
    /\ pc = "tx" /\ todo = {} /\ vWorkQueue = <<>>
    /\ LET S == vEraseQueue \cap mapOrphanTransactions
       IN /\ mapOrphanTransactions' = mapOrphanTransactions \ S
          /\ mapOrphanTransactionsByPrev' = Erased(mapOrphanTransactionsByPrev, S)
    /\ pc' = "idle" /\ vEraseQueue' = {}
    /\ UNCHANGED <<chain, mapWallet, pool, vWorkQueue, todo, reorg, miner, history>>

\* sendrawtransaction: into the pool, but no look at the orphans.
SendRawTransaction(t) ==
    /\ pc = "idle" /\ Acceptable(t)
    /\ AddUnchecked(t)
    /\ mapWallet' = SyncWithWallets(mapWallet, t, Loose)
    /\ UNCHANGED <<chain, orphans, pc, txloop, reorg, miner, history>>

-----------------------------------------------------------------------------
(* A block arrives: AddToBlockIndex and SetBestChain.                      *)

Current == Work(TRUE, txindex, mapWallet)

Arrives(b) == /\ pc = "idle" /\ b \notin mapBlockIndex /\ Parent[b] \in mapBlockIndex
              /\ mapBlockIndex' = mapBlockIndex \cup {b}

\* A block that does not have more trust than the best one is only indexed.
IndexBlock(b) ==
    /\ Arrives(b) /\ Trust[b] <= Trust[pindexBest]
    /\ UNCHANGED <<pindexBest, txindex, mapWallet, pool, orphans, pc, txloop, reorg, miner,
                   history>>

\* SetBestChainInner: the block extends the best chain and connects; its
\* transactions leave the pool, what conflicts with them stays.
ExtendBest(b) ==
    /\ Arrives(b) /\ Parent[b] = pindexBest
    /\ LET q == ConnectBlock(Current, b)
       IN q.ok /\ txindex' = q.idx /\ mapWallet' = q.wallet
    /\ pindexBest' = b
    /\ RemoveSet(TxOf(b))
    /\ UNCHANGED <<orphans, pc, txloop, reorg, miner, history>>

\* The block extends the best chain and does not connect.
ExtendFails(b) ==
    /\ Arrives(b) /\ Parent[b] = pindexBest
    /\ ~ConnectBlock(Current, b).ok
    /\ UNCHANGED <<pindexBest, txindex, mapWallet, pool, orphans, pc, txloop, reorg, miner,
                   history>>

\* pindexIntermediate: the first block of b's chain with more trust than the best.
Intermediate(b) ==
    CHOOSE c \in Chain[b] : /\ Trust[c] > Trust[pindexBest]
                            /\ \A a \in Chain[b] : Trust[a] > Trust[pindexBest] => c \in Chain[a]

IsFork(b) == Arrives(b) /\ Parent[b] # pindexBest /\ Trust[b] > Trust[pindexBest]

\* vResurrect and vDelete: what the disconnected blocks push, block by block, and
\* what the connected ones do.
PushLoose(ts, t) == IF t \in Base \cup Stake THEN ts ELSE Append(ts, t)
PushLooseOf(ts, b) == FoldLeft(PushLoose, ts, vtx[b])
LooseOfAll(bs) == FoldLeft(PushLooseOf, <<>>, bs)
PushTxOf(ts, b) == ts \o vtx[b]
TxOfAll(bs) == FoldLeft(PushTxOf, <<>>, bs)

\* Reorganize up to its TxnCommit and the new pnext pointers.
Reorganize(b) ==
    /\ IsFork(b)
    /\ LET c == Intermediate(b)
           q == Reorganized(Current, pindexBest, c)
       IN /\ q.ok
          /\ txindex' = q.idx /\ mapWallet' = q.wallet
          /\ pindexBest' = c
          /\ vResurrect' = LooseOfAll(vDisconnect(pindexBest, c))
          /\ vDelete' = TxOfAll(vConnect(pindexBest, c))
    /\ pc' = "resurrect" /\ reorganized' = TRUE
    /\ UNCHANGED <<pool, orphans, txloop, miner, aborted>>

\* Reorganize fails: the database transaction is aborted, the wallet keeps
\* what the blocks that did connect told it.
ReorganizeFails(b) ==
    /\ IsFork(b)
    /\ LET q == Reorganized(Current, pindexBest, Intermediate(b))
       IN /\ ~q.ok
          /\ mapWallet' = q.wallet
          /\ aborted' = (aborted \/ q.wallet # mapWallet)
    /\ UNCHANGED <<pindexBest, txindex, pool, orphans, pc, txloop, reorg, miner, reorganized>>

\* AcceptToMemoryPool(fCheckInputs = false) of the next transaction to resurrect.
Resurrect ==
    /\ pc = "resurrect" /\ vResurrect # <<>>
    /\ IF PassesEarlyChecks(Head(vResurrect)) THEN AddUnchecked(Head(vResurrect))
                                             ELSE UNCHANGED pool
    /\ vResurrect' = Tail(vResurrect)
    /\ UNCHANGED <<chain, mapWallet, orphans, pc, txloop, vDelete, miner, history>>

ResurrectDone ==
    /\ pc = "resurrect" /\ vResurrect = <<>>
    /\ pc' = "delete"
    /\ UNCHANGED <<chain, mapWallet, pool, orphans, txloop, reorg, miner, history>>

\* What leaves the pool for a transaction t of the new branch: t itself, and
\* what conflicts with it, with its descendants.
Redundant(t) == {t} \cup WithDescendants(Conflicts(t))

DeleteRedundant ==
    /\ pc = "delete" /\ vDelete # <<>>
    /\ RemoveSet(Redundant(Head(vDelete)))
    /\ vDelete' = Tail(vDelete)
    /\ UNCHANGED <<chain, mapWallet, orphans, pc, txloop, vResurrect, miner, history>>

ReorganizeDone ==
    /\ pc = "delete" /\ vDelete = <<>>
    /\ pc' = "idle"
    /\ UNCHANGED <<chain, mapWallet, pool, orphans, txloop, reorg, miner, history>>

-----------------------------------------------------------------------------
(* CreateNewBlock.                                                         *)

\* pindexPrev = pindexBest, without cs_main; the chain may change before the
\* lock is taken.  Inside a call pindexBest changes in one step, so a read in
\* the middle of one sees what a read before or after it sees.
ReadBest ==
    /\ pc = "idle" /\ pindexPrev = NoBlock
    /\ pindexPrev' = pindexBest
    /\ UNCHANGED <<chain, mapWallet, pool, orphans, pc, txloop, reorg, pblock, history>>

StartCollecting ==
    /\ pc = "idle" /\ pindexPrev # NoBlock
    /\ pc' = "collect"
    /\ UNCHANGED <<chain, mapWallet, pool, orphans, txloop, reorg, miner, history>>

\* mapTestPool, over the index: what the transactions picked so far change.
AddToTestPool(idx, t) == Enter(idx, t, Memory)
TestPool == FoldLeft(AddToTestPool, txindex, pblock)

\* Mutant: transactions are tried against the index alone.
PickableAlone(t) ==
    /\ t \in mapTx \ ToSet(pblock) /\ ~InputsMissing(txindex, mapTx, t)
    /\ ConnectsInputs(txindex, t, pindexPrev, Height[pindexPrev])

\* A pool transaction comes off the priority queue, where it is once the pool
\* transactions it depends on were picked, and connects.
Pickable(t) ==
    /\ t \in mapTx \ ToSet(pblock) /\ ~InputsMissing(TestPool, {}, t)
    /\ ConnectsInputs(TestPool, t, pindexPrev, Height[pindexPrev])

\* It is picked.  Size, sigops, priority, fee and time may rule any out.
Pick(t) ==
    /\ pc = "collect" /\ Pickable(t)
    /\ pblock' = Append(pblock, t)
    /\ UNCHANGED <<chain, mapWallet, pool, orphans, pc, txloop, reorg, pindexPrev, history>>

\* The block is handed over, to be mined; CheckWork and CheckStake refuse it
\* once pindexPrev is not the best block any more.
Collected ==
    /\ pc = "collect"
    /\ pc' = "idle" /\ pindexPrev' = NoBlock /\ pblock' = <<>>
    /\ UNCHANGED <<chain, mapWallet, pool, orphans, txloop, reorg, history>>

-----------------------------------------------------------------------------
TxMessage == \/ \E t \in Tx : ReceiveTx(t) \/ HoldOrphan(t) \/ SendRawTransaction(t)
OrphanLoop == \/ NextInQueue \/ EraseOrphans
              \/ \E t \in Tx : AcceptOrphan(t) \/ RefuseOrphan(t)
BlockMessage == \E b \in Block : \/ IndexBlock(b) \/ ExtendBest(b) \/ ExtendFails(b)
                                 \/ Reorganize(b) \/ ReorganizeFails(b)
ReorgLoop == Resurrect \/ ResurrectDone \/ DeleteRedundant \/ ReorganizeDone
Miner == ReadBest \/ StartCollecting \/ (\E t \in Tx : Pick(t)) \/ Collected

Next == TxMessage \/ OrphanLoop \/ BlockMessage \/ ReorgLoop \/ Miner

\* The thread that holds cs_main goes on; nothing else is promised to happen.
Spec == /\ Init /\ [][Next]_vars
        /\ WF_vars(OrphanLoop) /\ WF_vars(ReorgLoop) /\ WF_vars(Collected)

-----------------------------------------------------------------------------
(* Properties.                                                             *)

\* The transactions of the best chain; genesis is not connected.
Connected == Chain[pindexBest] \ {Genesis}
ChainTx == UNION {TxOf(b) : b \in Connected}

\* The index says of every transaction exactly where the best chain has it and
\* which of its outputs the best chain spends, however often blocks were
\* connected and disconnected on the way.
IndexMatchesChain ==
    LET connected == ChainTx
    IN /\ {t \in Tx : txindex[t] # NoEntry} = connected
       /\ \A t \in connected :
              /\ txindex[t].pos \in Connected /\ t \in TxOf(txindex[t].pos)
              /\ txindex[t].spent = UNION {SpentBy(u, t) : u \in connected}

\* No output is spent twice on the best chain, and none that is not there.
SpendsOnce ==
    LET connected == ChainTx
    IN \A t \in connected :
           /\ \A u \in connected \ {t} : vin[t] \cap vin[u] = {}
           /\ \A o \in vin[t] : o[1] \in connected /\ o[2] \in Outputs(o[1])

\* mapNextTx has the inputs of the pool's transactions and nothing else, each
\* leading to a transaction that is there: no CInPoint is left dangling and no
\* two transactions of the pool spend the same output.
PoolLinked ==
    /\ DOMAIN mapNextTx = UNION {vin[t] : t \in mapTx}
    /\ \A t \in mapTx : \A o \in vin[t] : mapNextTx[o] = t

\* Between two calls, no transaction of the pool is in the chain.
PoolApartFromChain == pc \in {"idle", "tx", "collect"} => mapTx \cap ChainTx = {}

\* As long as no reorganisation was given up half way, the wallet knows for each
\* of its transactions on the best chain the block it is in.
WalletKnows == \A t \in Mine \cap ChainTx : mapWallet[t] = txindex[t].pos
WalletInStep == ~aborted => WalletKnows

\* The chain, the index over it, the pool and the wallet tell one story after any
\* sequence of blocks, reorganisations and transactions: the index is exactly the
\* best chain's, nothing is spent twice there, the pool holds nothing of it, the
\* wallet has followed, and every variable keeps its type.
InStep == TypeOK /\ IndexMatchesChain /\ SpendsOnce /\ PoolApartFromChain /\ WalletInStep

\* The orphans are filed under each of their inputs and nothing else is filed,
\* so that the loop of the "tx" handler, which looks each one up with [], tries
\* orphans only; they are not more than the limit.
OrphansFiled ==
    /\ \A t \in mapOrphanTransactions : \A p \in PrevOf(t) :
           /\ p \in DOMAIN mapOrphanTransactionsByPrev
           /\ t \in mapOrphanTransactionsByPrev[p]
    /\ \A p \in DOMAIN mapOrphanTransactionsByPrev :
           \A t \in mapOrphanTransactionsByPrev[p] : t \in mapOrphanTransactions /\ p \in PrevOf(t)
    /\ todo \subseteq mapOrphanTransactions
    /\ Cardinality(mapOrphanTransactions) <= MaxOrphans

\* What CreateNewBlock has picked connects on top of the block it read, as long
\* as that is the best one: a block that the node mines is not refused by the
\* node itself, whatever stale transactions the pool holds.
TemplateConnects ==
    pindexPrev = pindexBest =>
        ConnectAll(Current, pblock, Memory, pindexBest, Height[pindexBest] + 1).ok

\* As long as no reorganisation has happened, the inputs of every transaction
\* of the pool are outputs of the chain or of the pool.
PoolConnectsAtFirst ==
    ~reorganized => \A t \in mapTx : ~InputsMissing(txindex, mapTx, t)

\* The loops of the "tx" handler and of Reorganize come to an end.
LoopsEnd == pc \in {"tx", "resurrect", "delete"} ~> pc = "idle"

-----------------------------------------------------------------------------
(* What comments and tests say.                                            *)

\* miner.cpp: "all transactions in the memory pool should connect to either
\* transactions in the chain or other transactions in the memory pool", stated
\* where CreateNewBlock collects them.
PoolConnects == pc = "collect" => \A t \in mapTx : ~InputsMissing(txindex, mapTx, t)

\* main.cpp, SyncWithWallets: "make sure all wallets know about the given
\* transaction", for every transaction that is taken into the pool.
WalletHears == \A t \in Mine \cap mapTx : mapWallet[t] # Unknown

\* main.cpp, SyncWithWallets: "in the given block", whatever becomes of the
\* reorganisation it is part of.
WalletFollows == WalletKnows
=============================================================================
