------------------------------ MODULE TxIndex ------------------------------
(***************************************************************************)
(* What connecting and disconnecting a block does to the transaction       *)
(* index: DisconnectInputs, FetchInputs, ConnectInputs, DisconnectBlock    *)
(* and ConnectBlock of main.cpp, and what ConnectBlock tells the wallets   *)
(* on its way.                                                             *)
(*                                                                         *)
(* A transaction is its hash.  All that its bytes decide once and for all  *)
(* (signatures, values, fees, time stamps against its inputs) is the       *)
(* constant Sound; what depends on the index is computed.                  *)
(***************************************************************************)
EXTENDS BlockTree, Sequences, SequencesExt

CONSTANTS
    Tx,        \* transaction hashes
    Base,      \* the beanbases
    Stake,     \* the beanstakes
    vin,       \* [Tx -> SUBSET (Tx \X Nat)]: the outpoints a transaction spends
    vout,      \* [Tx -> Nat]: how many outputs it has
    vtx,       \* [Block -> Seq(Tx)]
    Sound,     \* transactions that pass ConnectInputs' checks of values, signatures, fees
    BlockOk,   \* blocks that pass CheckBlock, the sigop limit and the reward check
    Mine,      \* transactions that involve the node's wallet
    Maturity,  \* nBeanbaseMaturity
    NoEntry,   \* a transaction that is not in the index
    Memory,    \* CDiskTxPos(1,1,1): the memory pool
    Unknown,   \* a transaction the wallet has not heard of
    Loose      \* hashBlock = 0: a wallet transaction that was seen outside a block

ASSUME TxAssumption ==
    /\ Base \subseteq Tx /\ Stake \subseteq Tx /\ Base \cap Stake = {}
    /\ vin \in [Tx -> SUBSET (Tx \X Nat)] /\ vout \in [Tx -> Nat]
    /\ vtx \in [Block -> Seq(Tx)]
    /\ Sound \subseteq Tx /\ BlockOk \subseteq Block /\ Mine \subseteq Tx
    /\ Maturity \in Nat
    /\ \A t \in Base : vin[t] = {}
    /\ Memory \notin Block /\ Unknown \notin Block /\ Loose \notin Block

\* CheckTransaction refuses a transaction without inputs; a beanbase's only one
\* leads nowhere.
ASSUME InputsAssumption == \A t \in Tx \ Base : vin[t] # {}

\* CheckBlock lets no transaction stand twice in a block, and AcceptBlock makes
\* a beanbase begin with its block's height, so no chain repeats one.
ASSUME UniqueAssumption ==
    /\ \A b \in Block : \A i, j \in DOMAIN vtx[b] : vtx[b][i] = vtx[b][j] => i = j
    /\ \A a, b \in Block : a # b /\ a \in Chain[b] =>
           \A i \in DOMAIN vtx[a] : \A j \in DOMAIN vtx[b] :
               vtx[a][i] = vtx[b][j] => vtx[a][i] \notin Base

Outputs(t) == 0 .. vout[t] - 1
TxOf(b) == {vtx[b][i] : i \in DOMAIN vtx[b]}

\* A CTxIndex: where the transaction is, and which vSpent are set.
Entry == [pos : Block \cup {Memory}, spent : SUBSET Nat]
NewEntry(p) == [pos |-> p, spent |-> {}]

ASSUME EntryAssumption == NoEntry \notin Entry

-----------------------------------------------------------------------------
(* One transaction.                                                        *)

\* FetchInputs meets a previous transaction that is neither in the index nor,
\* for a loose transaction, in the memory pool.
InputsMissing(idx, pool, t) ==
    \E o \in vin[t] : idx[o[1]] = NoEntry /\ o[1] \notin pool

\* FetchInputs: fInvalid, prevout.n out of range.
PrevoutInvalid(t) == \E o \in vin[t] : o[2] \notin Outputs(o[1])

\* A beanbase or beanstake within the last Maturity blocks of the chain that
\* ends in tip, seen from height h, may not be spent.
Immature(idx, o, tip, h) ==
    /\ o[1] \in Base \cup Stake /\ idx[o[1]] # NoEntry
    /\ \E a \in Chain[tip] : a = idx[o[1]].pos /\ h - Height[a] < Maturity

\* ConnectInputs' verdict on a transaction all of whose inputs were fetched.
ConnectsInputs(idx, t, tip, h) ==
    /\ t \in Sound /\ ~PrevoutInvalid(t)
    /\ \A o \in vin[t] : /\ ~Immature(idx, o, tip, h)
                         /\ idx[o[1]] # NoEntry => o[2] \notin idx[o[1]].spent

\* The outputs of u that t spends.
SpentBy(t, u) == {o[2] : o \in {p \in vin[t] : p[1] = u}}

MarkSpent(idx, t) ==
    [u \in Tx |-> IF idx[u] = NoEntry THEN NoEntry
                  ELSE [idx[u] EXCEPT !.spent = @ \cup SpentBy(t, u)]]

MarkUnspent(idx, t) ==
    [u \in Tx |-> IF idx[u] = NoEntry THEN NoEntry
                  ELSE [idx[u] EXCEPT !.spent = @ \ SpentBy(t, u)]]

\* The index once t has spent its inputs and has an entry of its own, at p ...
Enter(idx, t, p) == [MarkSpent(idx, t) EXCEPT ![t] = NewEntry(p)]

\* ... and once it has given them back and has none.
Withdraw(idx, t) == [MarkUnspent(idx, t) EXCEPT ![t] = NoEntry]

\* SyncWithWallets, fConnect: a wallet that the transaction involves has it,
\* with the block it is told; a call without a block leaves a known one alone.
SyncWithWallets(w, t, b) ==
    IF t \notin Mine THEN w
    ELSE [w EXCEPT ![t] = IF b # Loose THEN b ELSE IF @ = Unknown THEN Loose ELSE @]

-----------------------------------------------------------------------------
(* One block, inside a database transaction.  A work state has the index   *)
(* as the batch shows it, whether all went well so far, and the wallet.    *)

Work(ok, idx, w) == [ok |-> ok, idx |-> idx, wallet |-> w]

\* The transaction of a block at position p, on top of what the block has
\* changed so far; old is the index before the block, which the duplicate
\* check reads.
ConnectTx(old, p, tip, h, q, t) ==
    LET may == /\ old[t] # NoEntry => old[t].spent = Outputs(t)
               /\ t \notin Base => /\ ~InputsMissing(q.idx, {}, t)
                                   /\ ConnectsInputs(q.idx, t, tip, h)
    IN IF q.ok /\ may
       THEN Work(TRUE, Enter(q.idx, t, p), q.wallet)
       ELSE Work(FALSE, q.idx, q.wallet)

\* ConnectBlock of transactions ts at position p: the index if all connect.
ConnectAll(q, ts, p, tip, h) ==
    FoldLeft(LAMBDA r, t : ConnectTx(q.idx, p, tip, h, r, t), q, ts)

\* SyncWithWallets of every transaction of the block: the wallet has those that
\* involve it, with this block.
SyncBlock(w, b) == [t \in Tx |-> IF t \in Mine \cap TxOf(b) THEN b ELSE w[t]]

\* A block that fails leaves what the blocks before it did to the wallet.
ConnectBlock(q, b) ==
    LET r == ConnectAll(q, vtx[b], b, b, Height[b])
    IN IF q.ok /\ b \in BlockOk /\ r.ok THEN Work(TRUE, r.idx, SyncBlock(q.wallet, b))
       ELSE Work(FALSE, q.idx, q.wallet)

\* Mutant: the outputs that the transaction had spent stay spent.
DisconnectInputsKeepsSpent(q, t) ==
    IF q.ok /\ \A o \in vin[t] : q.idx[o[1]] # NoEntry
    THEN Work(TRUE, [q.idx EXCEPT ![t] = NoEntry], q.wallet)
    ELSE Work(FALSE, q.idx, q.wallet)

\* DisconnectInputs: gives back what t spent and takes t out of the index.
DisconnectInputs(q, t) ==
    IF q.ok /\ \A o \in vin[t] : q.idx[o[1]] # NoEntry /\ o[2] \in Outputs(o[1])
    THEN Work(TRUE, Withdraw(q.idx, t), q.wallet)
    ELSE Work(FALSE, q.idx, q.wallet)

DisconnectBlock(q, b) == FoldLeft(DisconnectInputs, q, Reverse(vtx[b]))

-----------------------------------------------------------------------------
(* A reorganisation.                                                       *)

\* pfork: the last block that two chains share.
Fork(best, new) ==
    CHOOSE f \in Chain[best] \cap Chain[new] :
        \A c \in Chain[best] \cap Chain[new] : Height[c] <= Height[f]

\* The block that pprev leads to from t at height h.
AtHeight(t, h) == CHOOSE b \in Chain[t] : Height[b] = h

\* From the best block down to the fork, and from the fork up to the new one.
vDisconnect(best, new) ==
    [i \in 1 .. Height[best] - Height[Fork(best, new)] |-> AtHeight(best, Height[best] + 1 - i)]
vConnect(best, new) ==
    [i \in 1 .. Height[new] - Height[Fork(best, new)] |->
        AtHeight(new, Height[Fork(best, new)] + i)]

Reorganized(q, best, new) ==
    FoldLeft(ConnectBlock, FoldLeft(DisconnectBlock, q, vDisconnect(best, new)),
             vConnect(best, new))
=============================================================================
