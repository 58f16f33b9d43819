---------------------------- MODULE BlockChain ----------------------------
(***************************************************************************)
(* The block chain of one node: main.cpp from ProcessBlock down to         *)
(* Reorganize, with the block index in memory, its copy in the database,   *)
(* the orphan blocks, the synchronized checkpoint and LoadBlockIndex.      *)
(*                                                                         *)
(* cs_main serialises all of it, so the one thing that can come between    *)
(* two steps of a call is the death of the process.  A step therefore ends *)
(* where something becomes durable: a block file append or a TxnCommit.    *)
(* Everything a call does between two such points is one action.           *)
(*                                                                         *)
(* A block's transactions are abstracted to whether ConnectBlock accepts   *)
(* them (Valid); TxIndex looks inside.                                     *)
(***************************************************************************)
EXTENDS BlockTree, Sequences, FiniteSets

CONSTANTS
    Proof,       \* [Block -> proof or NoProof]: GetProofOfStake
    NoProof,     \* what GetProofOfStake yields for a proof-of-work block
    ContextOk,   \* blocks that pass AcceptBlock's checks against their chain
    Valid,       \* blocks that pass ConnectBlock when their chain is connected
    Obsolete,    \* blocks that CheckBlock of a later release rejects
    Checkpoint,  \* the last hardened checkpoint
    StorageFails \* may LevelDB or a block file refuse a read or a write?

ASSUME ValidityAssumption ==
    /\ ContextOk \subseteq Block /\ Valid \subseteq Block /\ Obsolete \subseteq Block
    /\ Genesis \notin Obsolete /\ Checkpoint \in Block \ {Genesis}

ASSUME StorageAssumption == StorageFails \in BOOLEAN

VARIABLES
    mapBlockIndex,         \* SUBSET Block: the index in memory
    pnext,                 \* [Block -> Block or NoBlock]
    pindexBest,            \* Block or NoBlock; hashBestChain and nBestChainTrust go with it
    mapOrphanBlocks,       \* SUBSET Block, and mapOrphanBlocksByPrev
    setStakeSeen,          \* proofs of the indexed proof-of-bean blocks
    setStakeSeenOrphan,    \* proofs of the orphans
    hashPendingCheckpoint, \* Block or NoBlock
    hashSyncCheckpoint     \* Block or NoBlock

VARIABLES
    blkFile,      \* the blocks in blk0001.dat...
    dbIndex,      \* the "blockindex" records
    dbNext,       \* their hashNext fields
    dbBest,       \* "hashBestChain"
    dbConnected,  \* the blocks whose transactions are in the "tx" records
    dbSync,       \* "hashSyncCheckpoint"
    dbPubKey      \* is "strCheckpointPubKey" the key of this release?

VARIABLES
    pc,           \* what the node is doing, up to the next durable step
    cur,          \* the block in AcceptBlock
    target,       \* the argument of SetBestChain
    why,          \* its caller
    vpindexSecondary, \* the postponed reconnects still to be made
    vWorkQueue,   \* ProcessBlock's queue of accepted blocks
    upgraded      \* does the later release run?

\* History, read by no action.
VARIABLES
    passedOver,   \* blocks that SetBestChain was not carried through for
    refused,      \* blocks whose index record LevelDB refused and has not taken since
    ahead,        \* is pindexBest a block whose postponed reconnect failed?
    derailed      \* has something been committed on top of such a block?

index    == <<mapBlockIndex, pnext, pindexBest>>
orphans  == <<mapOrphanBlocks, setStakeSeen, setStakeSeenOrphan>>
sync     == <<hashPendingCheckpoint, hashSyncCheckpoint>>
disk     == <<blkFile, dbIndex, dbNext, dbBest, dbConnected, dbSync, dbPubKey>>
chainDB  == <<dbNext, dbBest, dbConnected>>
control  == <<pc, cur, target, why, vpindexSecondary, vWorkQueue, upgraded>>
history  == <<passedOver, refused, ahead, derailed>>
vars     == <<index, orphans, sync, disk, control, history>>

MaybeBlock == Block \cup {NoBlock}

PCs == {"off", "failed", "gen_best", "gen_sync", "pubkey", "reset", "resetsync", "idle",
        "index", "setbest", "secondary", "checkpoint", "writesync", "orphans"}

\* Who called SetBestChain: AddToBlockIndex, AcceptPendingSyncCheckpoint,
\* ResetSyncCheckpoint or CTxDB::LoadBlockIndex.
Callers == {"new", "pending", "reset", "fork"}

\* Inside a call of AcceptBlock, for the block cur.
InAccept == \/ pc \in {"index", "checkpoint", "writesync"}
            \/ pc \in {"setbest", "secondary"} /\ why \in {"new", "pending"}

\* Inside AcceptPendingSyncCheckpoint, once the pending checkpoint has been validated.
InPending == pc = "writesync" \/ (pc \in {"setbest", "secondary"} /\ why = "pending")

DataType ==
    /\ mapBlockIndex \subseteq Block /\ pnext \in [Block -> MaybeBlock]
    /\ pindexBest \in MaybeBlock
    /\ mapOrphanBlocks \subseteq Block
    /\ hashPendingCheckpoint \in MaybeBlock /\ hashSyncCheckpoint \in MaybeBlock
    /\ blkFile \subseteq Block /\ dbIndex \subseteq Block
    /\ dbNext \in [Block -> MaybeBlock] /\ dbBest \in MaybeBlock
    /\ dbConnected \subseteq Block /\ dbSync \in MaybeBlock
    /\ cur \in MaybeBlock /\ target \in MaybeBlock
    /\ vpindexSecondary \subseteq Block
    /\ passedOver \subseteq Block /\ refused \subseteq Block

QueueType == vWorkQueue \in Seq(Block)

FlagType == /\ dbPubKey \in BOOLEAN /\ upgraded \in BOOLEAN
            /\ ahead \in BOOLEAN /\ derailed \in BOOLEAN

\* Where a call is decides which of its variables name a block.
ControlType ==
    /\ pc \in PCs /\ why \in Callers
    /\ pc \in {"setbest", "secondary"} => target \in Block
    /\ pc = "secondary" => vpindexSecondary # {}
    /\ pc \notin {"off", "failed", "gen_best"} => pindexBest \in Block
    /\ InAccept => cur \in Block
    /\ InPending => hashPendingCheckpoint \in Block

TypeOK == DataType /\ QueueType /\ FlagType /\ ControlType

-----------------------------------------------------------------------------
Init ==
    /\ mapBlockIndex = {} /\ pnext = NoLinks /\ pindexBest = NoBlock
    /\ mapOrphanBlocks = {} /\ setStakeSeen = {} /\ setStakeSeenOrphan = {}
    /\ hashPendingCheckpoint = NoBlock /\ hashSyncCheckpoint = NoBlock
    /\ blkFile = {} /\ dbIndex = {} /\ dbNext = NoLinks /\ dbBest = NoBlock
    /\ dbConnected = {} /\ dbSync = NoBlock /\ dbPubKey = FALSE
    /\ pc = "off" /\ cur = NoBlock /\ target = NoBlock /\ why = "new"
    /\ vpindexSecondary = {} /\ vWorkQueue = <<>> /\ upgraded = FALSE
    /\ passedOver = {} /\ refused = {} /\ ahead = FALSE /\ derailed = FALSE

IsInMainChain(b) == pnext[b] # NoBlock \/ b = pindexBest

\* CheckBlock of the release that runs.
CheckBlock(b) == upgraded => b \notin Obsolete

ProofsOf(S) == {Proof[b] : b \in S} \ {NoProof}

-----------------------------------------------------------------------------
(* Start-up: LoadBlockIndex of main.cpp and CTxDB::LoadBlockIndex.         *)

ClearMemory ==
    /\ mapBlockIndex' = {} /\ pnext' = NoLinks /\ pindexBest' = NoBlock
    /\ mapOrphanBlocks' = {} /\ setStakeSeen' = {} /\ setStakeSeenOrphan' = {}
    /\ hashPendingCheckpoint' = NoBlock /\ hashSyncCheckpoint' = NoBlock
    /\ cur' = NoBlock /\ target' = NoBlock /\ vpindexSecondary' = {} /\ vWorkQueue' = <<>>
    /\ ahead' = FALSE

\* A write that LevelDB refuses during the start, like an unreadable block file, makes
\* LoadBlockIndex return false and the start end: a Crash between two of its steps.

\* A new release replaces the old one while the node is down; it may come with
\* another checkpoint master key.
Upgrade == /\ pc = "off" /\ ~upgraded
           /\ upgraded' = TRUE
           /\ dbPubKey' \in {dbPubKey, FALSE}
           /\ UNCHANGED <<index, orphans, sync, blkFile, dbIndex, chainDB, dbSync, history>>
           /\ UNCHANGED <<pc, cur, target, why, vpindexSecondary, vWorkQueue>>

\* An empty database: the genesis block goes to the block file, then to the index.
InitGenesis ==
    /\ pc = "off" /\ dbIndex = {}
    /\ blkFile' = blkFile \cup {Genesis}
    /\ mapBlockIndex' = {Genesis} /\ dbIndex' = {Genesis}
    /\ pc' = "gen_best"
    /\ UNCHANGED <<pnext, pindexBest, orphans, sync, chainDB, dbSync, dbPubKey, history>>
    /\ UNCHANGED <<cur, target, why, vpindexSecondary, vWorkQueue, upgraded>>

\* SetBestChain with pindexGenesisBlock == NULL.
SetBestGenesis ==
    /\ pc = "gen_best"
    /\ dbBest' = Genesis /\ pindexBest' = Genesis
    /\ pc' = "gen_sync"
    /\ UNCHANGED <<mapBlockIndex, pnext, orphans, sync, blkFile, dbIndex, dbNext, dbConnected>>
    /\ UNCHANGED <<dbSync, dbPubKey, history, cur, target, why, vpindexSecondary, vWorkQueue>>
    /\ UNCHANGED upgraded

\* Checkpoints::WriteSyncCheckpoint: committed first, then set in memory.
WriteSyncCheckpoint(b) == dbSync' = b /\ hashSyncCheckpoint' = b

InitSyncCheckpoint ==
    /\ pc = "gen_sync"
    /\ WriteSyncCheckpoint(Genesis)
    /\ pc' = "pubkey"
    /\ UNCHANGED <<index, orphans, hashPendingCheckpoint, blkFile, dbIndex, chainDB, dbPubKey>>
    /\ UNCHANGED <<history, cur, target, why, vpindexSecondary, vWorkQueue, upgraded>>

\* The last pass of CTxDB::LoadBlockIndex, from the tip down: pindexFork ends as
\* the parent of the lowest block of the best chain that CheckBlock rejects.
BadBlocks == {b \in Chain[dbBest] : ~CheckBlock(b)}
ForkBlock == Parent[CHOOSE b \in BadBlocks : \A c \in BadBlocks : Height[b] <= Height[c]]

\* Mutant: a block that CheckBlock rejects ends the start.
LoadableStrict == /\ \A b \in dbIndex : Chain[b] \subseteq dbIndex
                  /\ dbBest \in dbIndex
                  /\ dbSync # NoBlock
                  /\ BadBlocks = {}

\* The database holds an index.  A missing best chain, a best block without index
\* record, a missing sync-checkpoint and an unreadable block each end the start, and
\* so does a record whose parent has none: InsertBlockIndex makes a parent of height
\* 0 up for it, which fails the stake modifier checkpoint of that height.
Loadable == /\ \A b \in dbIndex : Chain[b] \subseteq dbIndex
            /\ dbBest \in dbIndex
            /\ dbSync # NoBlock
            /\ Chain[dbBest] \ {Genesis} \subseteq blkFile

LoadFails == /\ pc = "off" /\ dbIndex # {} /\ ~Loadable
             /\ pc' = "failed"
             /\ ClearMemory
             /\ UNCHANGED <<disk, passedOver, refused, derailed, why, upgraded>>

LoadIndex ==
    /\ pc = "off" /\ dbIndex # {} /\ Loadable
    /\ mapBlockIndex' = dbIndex /\ pnext' = dbNext /\ pindexBest' = dbBest
    /\ setStakeSeen' = ProofsOf(dbIndex)
    /\ hashSyncCheckpoint' = dbSync
    /\ IF BadBlocks = {}
       THEN pc' = "pubkey" /\ UNCHANGED <<target, why>>
       ELSE pc' = "setbest" /\ target' = ForkBlock /\ why' = "fork"
    /\ UNCHANGED <<mapOrphanBlocks, setStakeSeenOrphan, hashPendingCheckpoint, disk, history>>
    /\ UNCHANGED <<cur, vpindexSecondary, vWorkQueue, upgraded>>

\* A new master key is recorded, and the sync-checkpoint reset after it.
CheckPubKey ==
    /\ pc = "pubkey"
    /\ dbPubKey' = TRUE
    /\ pc' = IF dbPubKey THEN "idle" ELSE "reset"
    /\ UNCHANGED <<index, orphans, sync, blkFile, dbIndex, chainDB, dbSync, history>>
    /\ UNCHANGED <<cur, target, why, vpindexSecondary, vWorkQueue, upgraded>>

\* ResetSyncCheckpoint, first half: move the best chain to the hardened checkpoint,
\* or wait for that block.
ResetSyncCheckpoint ==
    /\ pc = "reset"
    /\ IF Checkpoint \in mapBlockIndex /\ ~IsInMainChain(Checkpoint)
       THEN pc' = "setbest" /\ target' = Checkpoint /\ why' = "reset"
       ELSE pc' = "resetsync" /\ UNCHANGED <<target, why>>
    /\ hashPendingCheckpoint' = IF Checkpoint \in mapBlockIndex THEN hashPendingCheckpoint
                                                                ELSE Checkpoint
    /\ UNCHANGED <<index, orphans, hashSyncCheckpoint, disk, history>>
    /\ UNCHANGED <<cur, vpindexSecondary, vWorkQueue, upgraded>>

\* A commit that builds on the best block goes astray if that one is not connected.
Commits == derailed' = (derailed \/ ahead)

\* Second half: the last hardened checkpoint on the main chain, or genesis.
ResetSyncWrite ==
    /\ pc = "resetsync"
    /\ WriteSyncCheckpoint(IF Checkpoint \in mapBlockIndex /\ IsInMainChain(Checkpoint)
                           THEN Checkpoint ELSE Genesis)
    /\ pc' = "idle"
    /\ Commits
    /\ UNCHANGED <<index, orphans, hashPendingCheckpoint, blkFile, dbIndex, chainDB, dbPubKey>>
    /\ UNCHANGED <<passedOver, refused, ahead, cur, target, why, vpindexSecondary, vWorkQueue, upgraded>>

\* The process dies, or a failed start exits.
Crash == /\ pc # "off"
         /\ pc' = "off"
         /\ ClearMemory
         /\ passedOver' = IF pc \in {"setbest", "secondary"} /\ why = "new"
                          THEN passedOver \cup {target} ELSE passedOver
         /\ why' = "new"
         /\ UNCHANGED <<disk, upgraded, refused, derailed>>

-----------------------------------------------------------------------------
(* ProcessBlock and AcceptBlock.                                           *)

\* The first block of o's orphan chain, and the block it waits for.
GetOrphanRoot(o) ==
    CHOOSE a \in Chain[o] : /\ a = o \/ a \in mapOrphanBlocks
                            /\ Parent[a] \notin mapOrphanBlocks
                            /\ \A c \in Chain[o] : Height[c] > Height[a] /\ c # o
                                                      => c \in mapOrphanBlocks
WantedByOrphan(o) == Parent[GetOrphanRoot(o)]

WantedByPendingSyncCheckpoint(b) ==
    /\ hashPendingCheckpoint # NoBlock
    /\ \/ b = hashPendingCheckpoint
       \/ hashPendingCheckpoint \in mapOrphanBlocks /\ b = WantedByOrphan(hashPendingCheckpoint)

HasOrphanChild(b) == \E o \in mapOrphanBlocks : Parent[o] = b

\* Why a block may repeat a proof-of-bean.
MayRepeatProof(b) == HasOrphanChild(b) \/ WantedByPendingSyncCheckpoint(b)

CheckHardened(b) == Height[b] = Height[Checkpoint] => b = Checkpoint

\* Mutant: a block below the height of the checkpoint is let through.
CheckSyncAbove(b) ==
    Height[b] > Height[hashSyncCheckpoint] => hashSyncCheckpoint \in Chain[Parent[b]]

\* Checkpoints::CheckSync in the default policy, STRICT.
CheckSync(b) ==
    /\ Height[b] > Height[hashSyncCheckpoint] => hashSyncCheckpoint \in Chain[Parent[b]]
    /\ Height[b] = Height[hashSyncCheckpoint] => b = hashSyncCheckpoint
    /\ Height[b] < Height[hashSyncCheckpoint] => b \in mapBlockIndex

\* Mutant: the parent is not looked up.
AcceptChecksNoPrev(b) == b \notin mapBlockIndex /\ b \in ContextOk /\ CheckHardened(b)

\* AcceptBlock up to WriteToDisk.
AcceptChecks(b) == /\ b \notin mapBlockIndex /\ Parent[b] \in mapBlockIndex
                   /\ b \in ContextOk
                   /\ CheckHardened(b)
                   /\ CheckSync(b)

\* Appended to the block file and flushed.
WriteToDisk(b) == blkFile' = blkFile \cup {b} /\ cur' = b /\ pc' = "index"

\* The conditions under which ProcessBlock looks at a block at all.  Its filter on
\* too little work only turns blocks away, as if they had not been sent.
Considered(b) == /\ b \notin mapBlockIndex /\ b \notin mapOrphanBlocks
                 /\ Proof[b] \in setStakeSeen => MayRepeatProof(b)
                 /\ CheckBlock(b)

\* ProcessBlock, parent unknown: into the holding area.
HoldOrphan(b) ==
    /\ pc = "idle" /\ b # Genesis
    /\ Considered(b)
    /\ Parent[b] \notin mapBlockIndex
    /\ Proof[b] \in setStakeSeenOrphan => MayRepeatProof(b)
    /\ mapOrphanBlocks' = mapOrphanBlocks \cup {b}
    /\ setStakeSeenOrphan' = setStakeSeenOrphan \cup ProofsOf({b})
    /\ UNCHANGED <<index, setStakeSeen, sync, disk, control, history>>

\* ProcessBlock, parent known and the checks passed: to the block file.
AcceptNew(b) ==
    /\ pc = "idle" /\ b # Genesis
    /\ Considered(b)
    /\ AcceptChecks(b)
    /\ WriteToDisk(b)
    /\ UNCHANGED <<index, orphans, sync, dbIndex, chainDB, dbSync, dbPubKey>>
    /\ UNCHANGED <<target, why, vpindexSecondary, vWorkQueue, upgraded, history>>

\* Mutant: a block of equal trust replaces the best one.
IsNewBestTie(b) == Trust[b] >= Trust[pindexBest]

\* Mutant: a shorter chain never replaces the best one.
IsNewBestLonger(b) == Trust[b] > Trust[pindexBest] /\ Height[b] > Height[pindexBest]

\* nChainTrust > nBestChainTrust.
IsNewBest(b) == Trust[b] > Trust[pindexBest]

\* The block goes to mapBlockIndex and setStakeSeen before its record is committed.
EnterIndex == /\ mapBlockIndex' = mapBlockIndex \cup {cur}
              /\ setStakeSeen' = setStakeSeen \cup ProofsOf({cur})

\* The index records of S are committed.
WriteBlockIndex(S) == dbIndex' = dbIndex \cup S /\ refused' = refused \ S

\* AddToBlockIndex up to its commit; a block of more trust goes on to SetBestChain.
AddToBlockIndex ==
    /\ pc = "index"
    /\ EnterIndex
    /\ WriteBlockIndex({cur})
    /\ dbNext' = [dbNext EXCEPT ![cur] = NoBlock]
    /\ IF IsNewBest(cur)
       THEN pc' = "setbest" /\ target' = cur /\ why' = "new"
       ELSE pc' = "checkpoint" /\ UNCHANGED <<target, why>>
    /\ passedOver' = IF ahead /\ ~IsNewBest(cur) THEN passedOver \cup {cur} ELSE passedOver
    /\ UNCHANGED <<pnext, pindexBest, mapOrphanBlocks, setStakeSeenOrphan, sync, blkFile, dbBest>>
    /\ UNCHANGED <<dbConnected, dbSync, dbPubKey, cur, vpindexSecondary, vWorkQueue, upgraded>>
    /\ UNCHANGED <<ahead, derailed>>

\* AcceptBlock returns: ProcessBlock gives up on a block that failed, and goes
\* through the orphans after one that was accepted; an orphan is dropped either way.
FinishAccept(ok) ==
    /\ IF cur \in mapOrphanBlocks
       THEN /\ mapOrphanBlocks' = mapOrphanBlocks \ {cur}
            /\ setStakeSeenOrphan' = setStakeSeenOrphan \ {Proof[cur]}
            /\ vWorkQueue' = IF ok THEN Append(vWorkQueue, cur) ELSE vWorkQueue
            /\ pc' = "orphans"
       ELSE /\ vWorkQueue' = IF ok THEN <<cur>> ELSE <<>>
            /\ pc' = IF ok THEN "orphans" ELSE "idle"
            /\ UNCHANGED <<mapOrphanBlocks, setStakeSeenOrphan>>
    /\ cur' = NoBlock
    /\ UNCHANGED upgraded

\* The commit is refused: AcceptBlock fails and the node goes on, with the block in
\* memory alone, where its children find it.
IndexRefused ==
    /\ pc = "index" /\ StorageFails
    /\ EnterIndex
    /\ FinishAccept(FALSE)
    /\ refused' = refused \cup {cur} /\ passedOver' = passedOver \cup {cur}
    /\ UNCHANGED <<pnext, pindexBest, sync, disk, target, why, vpindexSecondary, ahead, derailed>>

\* An orphan whose parent has been accepted passes AcceptBlock's checks.
AcceptOrphan(o) ==
    /\ pc = "orphans" /\ vWorkQueue # <<>>
    /\ o \in mapOrphanBlocks /\ Parent[o] = Head(vWorkQueue)
    /\ AcceptChecks(o)
    /\ WriteToDisk(o)
    /\ UNCHANGED <<index, orphans, sync, dbIndex, chainDB, dbSync, dbPubKey, history>>
    /\ UNCHANGED <<target, why, vpindexSecondary, vWorkQueue, upgraded>>

\* It fails them, or the block file refuses it, and is dropped.
DropOrphan(o) ==
    /\ pc = "orphans" /\ vWorkQueue # <<>>
    /\ o \in mapOrphanBlocks /\ Parent[o] = Head(vWorkQueue)
    /\ StorageFails \/ ~AcceptChecks(o)
    /\ mapOrphanBlocks' = mapOrphanBlocks \ {o}
    /\ setStakeSeenOrphan' = setStakeSeenOrphan \ {Proof[o]}
    /\ UNCHANGED <<index, setStakeSeen, sync, disk, control, history>>

\* No orphan waits for the head of the queue.
NextInQueue ==
    /\ pc = "orphans"
    /\ vWorkQueue # <<>> => ~HasOrphanChild(Head(vWorkQueue))
    /\ IF vWorkQueue = <<>> THEN pc' = "idle" /\ vWorkQueue' = vWorkQueue
                            ELSE pc' = pc /\ vWorkQueue' = Tail(vWorkQueue)
    /\ UNCHANGED <<index, orphans, sync, disk, history>>
    /\ UNCHANGED <<cur, target, why, vpindexSecondary, upgraded>>

-----------------------------------------------------------------------------
(* SetBestChain and Reorganize.                                            *)

\* The transaction index holds just the chain of b.
HoldsJust(b) == dbConnected = Chain[b] \ {Genesis}

\* Can ConnectBlock(b) succeed?  On a transaction index that holds just the chain
\* before b it does for a valid block; on any other index it may go either way.
CanConnect(b, connected) ==
    /\ CheckBlock(b)
    /\ connected = Chain[Parent[b]] \ {Genesis} => b \in Valid

\* The block Reorganize is called with: of the blocks of t's chain with more trust
\* than the best one, the first; t itself if there is none.  The others come later.
Better(t) == {b \in Chain[t] : Trust[b] > Trust[pindexBest]}
Intermediate(t) == IF Better(t) = {} THEN t
                   ELSE CHOOSE b \in Better(t) : \A c \in Better(t) : Height[b] <= Height[c]
Secondary(t) == Better(t) \ {Intermediate(t)}

vDisconnect(a) == Chain[pindexBest] \ Chain[a]
vConnect(a) == Chain[a] \ Chain[pindexBest]

\* Mutant: Reorganize goes on when ConnectBlock fails.
CanReorganizeUnchecked(a) == \A c \in vConnect(a) : CheckBlock(c)

CanReorganize(a) ==
    \A c \in vConnect(a) : /\ CheckBlock(c)
                           /\ dbConnected = Chain[pindexBest] \ {Genesis} => c \in Valid

\* Mutant: the pnext pointers of the disconnected branch are left alone.
RelinkedKeeps(a) == [b \in Block |->
    IF NextOn(vConnect(a), b) # NoBlock THEN NextOn(vConnect(a), b) ELSE pnext[b]]

\* The pnext pointers after vDisconnect and vConnect.
Relinked(a) == [b \in Block |->
    IF NextOn(vConnect(a), b) # NoBlock THEN NextOn(vConnect(a), b)
    ELSE IF NextOn(vDisconnect(a), b) # NoBlock THEN NoBlock ELSE pnext[b]]

\* Mutant: DisconnectBlock leaves the hashNext field of the fork's branch alone.
RelinkedOnDiskKeeps(a) == [b \in Block |->
    IF NextOn(vConnect(a), b) # NoBlock THEN NextOn(vConnect(a), b) ELSE dbNext[b]]

\* The same for the hashNext fields: DisconnectBlock clears the one of pprev,
\* ConnectBlock writes its own record as it is in memory and then that of pprev.
RelinkedOnDisk(a) == [b \in Block |->
    IF NextOn(vConnect(a), b) # NoBlock THEN NextOn(vConnect(a), b)
    ELSE IF b \in vConnect(a) THEN pnext[b]
    ELSE IF NextOn(vDisconnect(a), b) # NoBlock THEN NoBlock ELSE dbNext[b]]

\* The records that ConnectBlock and DisconnectBlock write: ConnectBlock that of its
\* block, and both that of the block before, if any, whose hashNext they change.
RecordsOf(connected, disconnected) ==
    connected \cup ({Parent[b] : b \in connected \cup disconnected} \ {NoBlock})

\* Mutant: a reset writes the pending checkpoint.
AfterSetBestPending == IF why = "new" THEN "checkpoint" ELSE "writesync"

\* Where the caller of SetBestChain goes on.
AfterSetBest == CASE why = "new"     -> "checkpoint"
                  [] why = "pending" -> "writesync"
                  [] why = "reset"   -> "resetsync"
                  [] why = "fork"    -> "pubkey"

\* SetBestChain returned true.
SetBestDone ==
    /\ pindexBest' = target
    /\ pc' = AfterSetBest
    /\ passedOver' = IF why = "new" THEN passedOver
                     ELSE passedOver \cup {b \in mapBlockIndex : Trust[b] > Trust[target]}

\* hashPrevBlock == hashBestChain: SetBestChainInner.
ExtendBest ==
    /\ pc = "setbest" /\ Parent[target] = pindexBest
    /\ CanConnect(target, dbConnected)
    /\ dbConnected' = dbConnected \cup {target}
    /\ dbNext' = [dbNext EXCEPT ![target] = pnext[target], ![pindexBest] = target]
    /\ dbBest' = target
    /\ pnext' = [pnext EXCEPT ![pindexBest] = target]
    /\ WriteBlockIndex(RecordsOf({target}, {}))
    /\ SetBestDone
    /\ Commits
    /\ UNCHANGED <<mapBlockIndex, orphans, sync, blkFile, dbSync, dbPubKey>>
    /\ UNCHANGED <<cur, target, why, vpindexSecondary, vWorkQueue, upgraded, ahead>>

\* Any other block: Reorganize to the intermediate block, in one transaction.
ReorganizeTo(a) ==
    /\ pc = "setbest" /\ Parent[target] # pindexBest
    /\ CanReorganize(a)
    /\ dbConnected' = (dbConnected \ vDisconnect(a)) \cup vConnect(a)
    /\ dbNext' = RelinkedOnDisk(a)
    /\ dbBest' = a
    /\ pnext' = Relinked(a)
    /\ vpindexSecondary' = Secondary(target)
    /\ WriteBlockIndex(RecordsOf(vConnect(a), vDisconnect(a)))
    /\ IF Secondary(target) = {} THEN SetBestDone
       ELSE pc' = "secondary" /\ UNCHANGED <<pindexBest, passedOver>>
    /\ Commits
    /\ UNCHANGED <<mapBlockIndex, orphans, sync, blkFile, dbSync, dbPubKey>>
    /\ UNCHANGED <<cur, target, why, vWorkQueue, upgraded, ahead>>

Reorganize == ReorganizeTo(Intermediate(target))

\* The next of the postponed reconnects: SetBestChainInner, a transaction each.
NextSecondary == CHOOSE b \in vpindexSecondary : \A c \in vpindexSecondary : Height[b] <= Height[c]

ConnectSecondary ==
    /\ pc = "secondary"
    /\ CanConnect(NextSecondary, dbConnected)
    /\ dbConnected' = dbConnected \cup {NextSecondary}
    /\ dbNext' = [dbNext EXCEPT ![NextSecondary] = pnext[NextSecondary],
                                ![Parent[NextSecondary]] = NextSecondary]
    /\ dbBest' = NextSecondary
    /\ pnext' = [pnext EXCEPT ![Parent[NextSecondary]] = NextSecondary]
    /\ vpindexSecondary' = vpindexSecondary \ {NextSecondary}
    /\ WriteBlockIndex(RecordsOf({NextSecondary}, {}))
    /\ IF vpindexSecondary = {NextSecondary} THEN SetBestDone
       ELSE UNCHANGED <<pc, pindexBest, passedOver>>
    /\ UNCHANGED <<mapBlockIndex, orphans, sync, blkFile, dbSync, dbPubKey>>
    /\ UNCHANGED <<cur, target, why, vWorkQueue, upgraded, ahead, derailed>>

\* A postponed reconnect fails (an invalid block, or the storage): the loop is left
\* and pindexNew made the best block all the same.
SecondaryFails ==
    /\ pc = "secondary"
    /\ \/ StorageFails
       \/ ~CanConnect(NextSecondary, dbConnected)
       \/ ~HoldsJust(Parent[NextSecondary])
    /\ vpindexSecondary' = {}
    /\ pindexBest' = target /\ pc' = AfterSetBest
    /\ ahead' = TRUE /\ passedOver' = passedOver \cup vpindexSecondary
    /\ UNCHANGED <<mapBlockIndex, pnext, orphans, sync, disk>>
    /\ UNCHANGED <<cur, target, why, vWorkQueue, upgraded, refused, derailed>>

\* Neither ConnectBlock nor CheckBlock objects to the target.
CanSetBest == /\ HoldsJust(pindexBest)
              /\ IF Parent[target] = pindexBest THEN CanConnect(target, dbConnected)
                 ELSE CanReorganize(Intermediate(target))

\* ConnectBlock, DisconnectBlock, a read or the commit fails: TxnAbort, and the
\* caller is told.  A failed rollback of LoadBlockIndex goes unnoticed.
SetBestFails ==
    /\ pc = "setbest"
    /\ StorageFails \/ ~CanSetBest
    /\ passedOver' = IF why = "new" THEN passedOver \cup {target} ELSE passedOver
    /\ \/ /\ why \in {"new", "pending"}
          /\ FinishAccept(why = "pending")
          /\ UNCHANGED <<index, setStakeSeen, sync, target, vpindexSecondary, ahead>>
       \/ why = "reset" /\ pc' = "failed" /\ ClearMemory /\ UNCHANGED upgraded
       \/ /\ why = "fork" /\ pc' = "pubkey"
          /\ UNCHANGED <<index, orphans, sync, cur, target, vpindexSecondary, vWorkQueue, upgraded>>
          /\ UNCHANGED ahead
    /\ UNCHANGED <<disk, why, refused, derailed>>

-----------------------------------------------------------------------------
(* AcceptPendingSyncCheckpoint, at the end of AcceptBlock.                 *)

\* Only a later descendant of the current sync-checkpoint may replace it.
ValidateSyncCheckpoint(b) == /\ Height[b] > Height[hashSyncCheckpoint]
                             /\ hashSyncCheckpoint \in Chain[b]

PendingArrived == hashPendingCheckpoint \in mapBlockIndex

NoCheckpoint ==
    /\ pc = "checkpoint"
    /\ PendingArrived => ~ValidateSyncCheckpoint(hashPendingCheckpoint)
    /\ hashPendingCheckpoint' = IF PendingArrived THEN NoBlock ELSE hashPendingCheckpoint
    /\ FinishAccept(TRUE)
    /\ UNCHANGED <<index, setStakeSeen, hashSyncCheckpoint, disk, target, why, vpindexSecondary>>
    /\ UNCHANGED history

\* It may: on the best chain already, or once SetBestChain has put it there.
AcceptPendingSyncCheckpoint ==
    /\ pc = "checkpoint"
    /\ PendingArrived /\ ValidateSyncCheckpoint(hashPendingCheckpoint)
    /\ IF IsInMainChain(hashPendingCheckpoint)
       THEN pc' = "writesync" /\ UNCHANGED <<target, why>>
       ELSE pc' = "setbest" /\ target' = hashPendingCheckpoint /\ why' = "pending"
    /\ UNCHANGED <<index, orphans, sync, disk, cur, vpindexSecondary, vWorkQueue, upgraded>>
    /\ UNCHANGED history

WritePendingCheckpoint ==
    /\ pc = "writesync"
    /\ WriteSyncCheckpoint(hashPendingCheckpoint)
    /\ hashPendingCheckpoint' = NoBlock
    /\ FinishAccept(TRUE)
    /\ Commits
    /\ UNCHANGED <<index, setStakeSeen, blkFile, dbIndex, chainDB, dbPubKey, target, why>>
    /\ UNCHANGED <<vpindexSecondary, passedOver, refused, ahead>>

\* The commit fails: the checkpoint stays pending, and AcceptBlock does not mind.
PendingWriteFails ==
    /\ pc = "writesync" /\ StorageFails
    /\ FinishAccept(TRUE)
    /\ UNCHANGED <<index, setStakeSeen, sync, disk, target, why, vpindexSecondary, history>>

-----------------------------------------------------------------------------
StartUp == \/ Upgrade \/ InitGenesis \/ SetBestGenesis \/ InitSyncCheckpoint
           \/ LoadFails \/ LoadIndex \/ CheckPubKey \/ ResetSyncCheckpoint \/ ResetSyncWrite

ProcessBlock == \/ \E b \in Block : HoldOrphan(b) \/ AcceptNew(b)
                                       \/ AcceptOrphan(b) \/ DropOrphan(b)
                \/ AddToBlockIndex \/ IndexRefused
                \/ NextInQueue

SetBestChain == ExtendBest \/ Reorganize \/ ConnectSecondary \/ SecondaryFails \/ SetBestFails

PendingCheckpoint == NoCheckpoint \/ AcceptPendingSyncCheckpoint
                     \/ WritePendingCheckpoint \/ PendingWriteFails

Next == StartUp \/ ProcessBlock \/ SetBestChain \/ PendingCheckpoint \/ Crash

Spec == Init /\ [][Next]_vars

-----------------------------------------------------------------------------
(* Properties.                                                             *)

\* What is on disk describes one connected chain at every instant at which the
\* process may die, and still does after a postponed reconnect has failed, until
\* something is built on the block it left as the best one: the best block is indexed
\* with all its ancestors, hashNext links just its chain, and just its chain's
\* transactions are in the index.
DiskConsistent ==
    ~derailed /\ dbBest # NoBlock =>
        /\ Chain[dbBest] \subseteq dbIndex \cap blkFile
        /\ dbNext = LinksTo(dbBest)
        /\ dbConnected = Chain[dbBest] \ {Genesis}

\* Between two calls memory and disk agree: pnext and hashNext link the chain of
\* hashBestChain, which is that of pindexBest, or the part of it that was connected
\* before a postponed reconnect failed; and mapBlockIndex holds the blocks of the
\* database and besides at most those whose record LevelDB refused.
MemoryMatchesDisk ==
    ~derailed /\ pc = "idle" =>
        /\ pnext = dbNext /\ pnext = LinksTo(dbBest)
        /\ IF ahead THEN dbBest \in Chain[pindexBest] ELSE dbBest = pindexBest
        /\ dbIndex \subseteq mapBlockIndex /\ mapBlockIndex \subseteq dbIndex \cup refused
        /\ hashSyncCheckpoint = dbSync

\* The blocks that are best connect all the way down: no block that ConnectBlock
\* rejects, and no unknown one, is ever under the tip the node builds on, and none is
\* under the tip on disk even where a postponed reconnect failed.
BestChainIsValid ==
    ~derailed /\ pindexBest # NoBlock =>
        /\ Chain[pindexBest] \subseteq mapBlockIndex
        /\ ~ahead => Chain[pindexBest] \ {Genesis} \subseteq Valid
        /\ Chain[dbBest] \ {Genesis} \subseteq Valid

\* Between two calls no block whose whole chain connects has more trust than the
\* best one, except where SetBestChain was cut off or made to pass it over: by a
\* crash, a storage failure, a checkpoint, a rolled back chain, or a best block whose
\* postponed reconnect failed and whose trust the new block was compared with.
BestIsMostTrusted ==
    ~derailed /\ pc = "idle" =>
        \A b \in mapBlockIndex \ passedOver :
            (Chain[b] \ {Genesis} \subseteq Valid /\ \A c \in Chain[b] : CheckBlock(c))
                => Trust[b] <= Trust[pindexBest]

\* Every block in the index has its ancestors there, so that the pprev walks of
\* Reorganize and CheckSync end at genesis; and the one ancestor that the records of
\* the database can lack is one whose own record LevelDB refused.
IndexClosed == /\ \A b \in mapBlockIndex : Chain[b] \subseteq mapBlockIndex
               /\ \A b \in dbIndex : Chain[b] \subseteq dbIndex \cup refused

\* "sync-checkpoint should always be accepted block" (the assertion in CheckSync),
\* and it stays on the best chain unless a new release outlaws a block under it.
SyncCheckpointHolds ==
    ~derailed /\ pc = "idle" =>
        /\ hashSyncCheckpoint \in mapBlockIndex
        /\ \/ hashSyncCheckpoint \in Chain[pindexBest]
           \/ upgraded /\ Chain[hashSyncCheckpoint] \cap Obsolete # {}

\* Whatever the moment of a crash, the next start finds a database it can load, once
\* the first start got as far as its sync-checkpoint, unless the database holds a
\* descendant of a block whose own record LevelDB refused.
RestartSucceeds ==
    pc = "failed" => \/ dbSync = NoBlock \/ why = "reset"
                     \/ \E b \in dbIndex : Chain[b] \cap refused # {}

\* A step from one best block to another, made by AddToBlockIndex, adds trust.
TrustStep == pindexBest # pindexBest' /\ pindexBest # NoBlock /\ pindexBest' # NoBlock
                => Trust[pindexBest'] > Trust[pindexBest] \/ why # "new"

\* The trust of the best block only grows while a node runs, but for the switch
\* to a checkpoint and the rollback of a chain that is no longer accepted.
TrustGrows == [][TrustStep]_vars

\* The comment in SetBestChain: "errors now are not fatal, we still did a
\* reorganisation to a new chain in a valid way".
ReorganisedInAValidWay ==
    pc = "idle" => pindexBest = dbBest /\ Chain[pindexBest] \ {Genesis} \subseteq Valid

\* The comment in ProcessBlock: "If we don't already have its previous block, shunt
\* it off to holding area until we get it".
HeldUntilParentComes ==
    pc = "idle" => \A o \in mapOrphanBlocks : Parent[o] \notin mapBlockIndex
=============================================================================
