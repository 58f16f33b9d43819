------------------------- MODULE BlockChain_proofs -------------------------
(***************************************************************************)
(* Proofs about BlockChain, for every tree of blocks.                      *)
(*                                                                         *)
(* The properties are not inductive as they stand: that the database       *)
(* describes one chain after a commit depends on what memory held before   *)
(* it, on the index in memory being closed under parents, and, half way    *)
(* through a switch of chains, on the postponed reconnects being just the  *)
(* rest of the way.  IInv says so, in a part that always holds (Structure) *)
(* and one that holds until something is built on a best block whose       *)
(* postponed reconnect failed (Coherent).                                  *)
(* For the best block and the sync-checkpoint LeadInv adds what the        *)
(* database promises while a switch is under way: that nothing on disk has *)
(* more trust but the block being switched to (Topped), and that every     *)
(* chain aimed at runs through the checkpoint (Anchored).                  *)
(***************************************************************************)
EXTENDS BlockChain, WellFoundedInduction, TLAPS

\* Every nonempty set of blocks has a lowest one: the CHOOSEs of ForkBlock,
\* Intermediate and NextSecondary find what they look for.
LEMMA LowestExists ==
  ASSUME NEW S \in SUBSET Block, S # {}
  PROVE  \E b \in S : \A c \in S : Height[b] <= Height[c]
<1> DEFINE R == {ss \in Nat \X Nat : ss[1] < ss[2]}
           H == {Height[b] : b \in S}
<1>1. IsWellFoundedOn(R, Nat)
  BY NatLessThanWellFounded DEF OpToRel
<1>2. H \subseteq Nat /\ H # {}
  BY TreeAssumption
<1>3. \E x \in H : \A y \in H : ~ (<<y, x>> \in R)
  <2> HIDE DEF R, H
  <2> QED BY <1>1, <1>2, WFMin
<1>4. PICK x \in H : \A y \in H : ~ (y < x)
  BY <1>2, <1>3
<1>5. PICK b \in S : x = Height[b]
  OBVIOUS
<1>6. \A c \in S : Height[c] \in Nat /\ Height[b] \in Nat /\ ~ (Height[c] < Height[b])
  BY <1>4, <1>5, TreeAssumption
<1> QED BY <1>6

-----------------------------------------------------------------------------
(* Type correctness.                                                       *)

USE DEF index, orphans, sync, disk, chainDB, control, history, MaybeBlock

\* The blocks SetBestChain works on are blocks.
LEMMA IntermediateType ==
  ASSUME NEW t \in Block
  PROVE  Intermediate(t) \in Chain[t] /\ Secondary(t) \subseteq Chain[t] /\ Chain[t] \subseteq Block
<1>1. Better(t) \in SUBSET Block /\ t \in Chain[t] /\ Chain[t] \subseteq Block
  BY TreeAssumption, ChainAssumption DEF Better
<1>2. Better(t) # {} => Intermediate(t) \in Better(t)
  BY <1>1, LowestExists DEF Intermediate
<1> QED BY <1>1, <1>2 DEF Intermediate, Secondary, Better

\* Reorganize goes to a block of more trust, or straight to its target.
LEMMA IntermediateIsBetter ==
  ASSUME NEW t \in Block
  PROVE  \/ Intermediate(t) = t /\ Better(t) = {}
         \/ Intermediate(t) \in Chain[t] /\ Trust[Intermediate(t)] > Trust[pindexBest]
<1>1. Better(t) \in SUBSET Block
  BY TreeAssumption DEF Better
<1>2. CASE Better(t) = {}
  BY <1>2 DEF Intermediate
<1>3. CASE Better(t) # {}
  <2>1. Intermediate(t) \in Better(t)
    BY <1>1, <1>3, LowestExists DEF Intermediate
  <2> QED BY <2>1 DEF Better
<1> QED BY <1>2, <1>3

\* The block LoadBlockIndex rolls back to is on the best chain.
LEMMA ForkType ==
  ASSUME dbBest \in Block, BadBlocks # {}
  PROVE  ForkBlock \in Chain[dbBest] /\ Chain[dbBest] \subseteq Block
<1>1. BadBlocks \in SUBSET Block /\ Chain[dbBest] \subseteq Block
  BY TreeAssumption DEF BadBlocks
<1>2. PICK b \in BadBlocks : ForkBlock = Parent[b]
  BY <1>1, LowestExists DEF ForkBlock
<1>3. b \in Block /\ b # Genesis /\ b \in Chain[dbBest]
  BY <1>1, ValidityAssumption DEF BadBlocks, CheckBlock
<1>4. Parent[b] \in Block /\ Chain[b] = Chain[Parent[b]] \cup {b} /\ Parent[b] \in Chain[Parent[b]]
  BY <1>3, TreeAssumption, ChainAssumption
<1> QED BY <1>1, <1>2, <1>3, <1>4, ChainAssumption

\* It is not the best block itself.
LEMMA ForkIsBelow ==
  ASSUME dbBest \in Block, BadBlocks # {}
  PROVE  ForkBlock \in Chain[dbBest] /\ ForkBlock # dbBest
<1>1. BadBlocks \in SUBSET Block
  BY TreeAssumption DEF BadBlocks
<1>2. PICK b \in BadBlocks : ForkBlock = Parent[b]
  BY <1>1, LowestExists DEF ForkBlock
<1>3. b \in Block /\ b # Genesis /\ b \in Chain[dbBest]
  BY <1>1, ValidityAssumption DEF BadBlocks, CheckBlock
<1>4. /\ Parent[b] \in Block /\ Height[b] = Height[Parent[b]] + 1
      /\ Height[b] \in Nat /\ Height[Parent[b]] \in Nat /\ Height[dbBest] \in Nat
  BY <1>3, TreeAssumption, TrustAssumption
<1>5. b # dbBest => Height[b] < Height[dbBest]
  BY <1>3, TrustAssumption
<1> QED BY <1>2, <1>4, <1>5, ForkType

\* No block has less trust than genesis, so that Reorganize never postpones it.
LEMMA GenesisIsWorst ==
  ASSUME NEW t \in Block, pindexBest \in Block
  PROVE  Genesis \notin Secondary(t)
<1>1. Genesis \in Chain[pindexBest] /\ Genesis \in Block
  BY TreeAssumption, ChainAssumption
<1>2. Genesis # pindexBest => Trust[Genesis] < Trust[pindexBest]
  BY <1>1, TrustAssumption
<1>3. Trust[Genesis] \in Nat /\ Trust[pindexBest] \in Nat
  BY <1>1, TreeAssumption
<1> QED BY <1>2, <1>3 DEF Secondary, Better

\* The postponed reconnects are made from the lowest up.
LEMMA SecondaryType ==
  ASSUME vpindexSecondary \in SUBSET Block, vpindexSecondary # {}
  PROVE  /\ NextSecondary \in vpindexSecondary
         /\ \A c \in vpindexSecondary : Height[NextSecondary] <= Height[c]
BY LowestExists DEF NextSecondary

\* Records are written for blocks.
LEMMA RecordsType ==
  ASSUME NEW S \in SUBSET Block, NEW D \in SUBSET Block
  PROVE  RecordsOf(S, D) \subseteq Block
BY TreeAssumption DEF RecordsOf

\* The first start finds every variable well typed.
LEMMA InitType == Init => TypeOK
<1>1. Init => DataType BY TreeAssumption DEF Init, DataType, NoLinks
<1>2. Init => FlagType BY DEF Init, FlagType
<1>3. Init => ControlType BY DEF Init, ControlType, PCs, Callers, InAccept, InPending
<1>4. Init => QueueType BY DEF Init, QueueType
<1> QED BY <1>1, <1>2, <1>3, <1>4 DEF TypeOK

\* Blocks, links and sets of blocks stay what they are in every step.
LEMMA DataStep == TypeOK /\ [Next]_vars => DataType'
<1> SUFFICES ASSUME TypeOK, [Next]_vars PROVE DataType'
  OBVIOUS
<1> USE TreeAssumption DEF TypeOK, DataType, ControlType, InAccept, InPending
<1>1. CASE StartUp
  <2>1. CASE Upgrade BY <2>1 DEF Upgrade
  <2>2. CASE InitGenesis BY <2>2 DEF InitGenesis
  <2>3. CASE SetBestGenesis BY <2>3 DEF SetBestGenesis
  <2>4. CASE InitSyncCheckpoint BY <2>4 DEF InitSyncCheckpoint, WriteSyncCheckpoint
  <2>5. CASE LoadFails BY <2>5 DEF LoadFails, ClearMemory, NoLinks
  <2>6. CASE LoadIndex
    <3>1. BadBlocks # {} => ForkBlock \in Block
      BY <2>6, ForkType DEF LoadIndex, Loadable
    <3> QED BY <2>6, <3>1 DEF LoadIndex
  <2>7. CASE CheckPubKey BY <2>7 DEF CheckPubKey
  <2>8. CASE ResetSyncCheckpoint BY <2>8, ValidityAssumption DEF ResetSyncCheckpoint
  <2>9. CASE ResetSyncWrite BY <2>9 DEF ResetSyncWrite, WriteSyncCheckpoint, Commits
  <2> QED BY <1>1, <2>1, <2>2, <2>3, <2>4, <2>5, <2>6, <2>7, <2>8, <2>9 DEF StartUp
<1>2. CASE ProcessBlock
  <2>1. ASSUME NEW b \in Block, HoldOrphan(b) PROVE DataType' BY <2>1 DEF HoldOrphan
  <2>2. ASSUME NEW b \in Block, AcceptNew(b) PROVE DataType' BY <2>2 DEF AcceptNew, WriteToDisk
  <2>3. ASSUME NEW b \in Block, AcceptOrphan(b) PROVE DataType'
    BY <2>3 DEF AcceptOrphan, WriteToDisk
  <2>4. ASSUME NEW b \in Block, DropOrphan(b) PROVE DataType' BY <2>4 DEF DropOrphan
  <2>5. CASE AddToBlockIndex BY <2>5 DEF AddToBlockIndex, EnterIndex, WriteBlockIndex
  <2>6. CASE IndexRefused BY <2>6 DEF IndexRefused, EnterIndex, FinishAccept
  <2>7. CASE NextInQueue BY <2>7 DEF NextInQueue
  <2> QED BY <1>2, <2>1, <2>2, <2>3, <2>4, <2>5, <2>6, <2>7 DEF ProcessBlock
<1>3. CASE SetBestChain
  <2>1. CASE ExtendBest
    <3>1. RecordsOf({target}, {}) \subseteq Block
      BY <2>1, RecordsType DEF ExtendBest
    <3> QED BY <2>1, <3>1 DEF ExtendBest, WriteBlockIndex, SetBestDone
  <2>2. CASE Reorganize
    <3>1. Intermediate(target) \in Block /\ Secondary(target) \subseteq Block
      BY <2>2, IntermediateType DEF Reorganize, ReorganizeTo
    <3>2. /\ vConnect(Intermediate(target)) \subseteq Block
          /\ vDisconnect(Intermediate(target)) \subseteq Block
      <4>1. pindexBest \in Block
        BY <2>2 DEF Reorganize, ReorganizeTo
      <4> QED BY <3>1, <4>1 DEF vConnect, vDisconnect
    <3>3. \A S \in SUBSET Block, b \in Block : NextOn(S, b) \in MaybeBlock
      BY DEF NextOn
    <3>4. Relinked(Intermediate(target)) \in [Block -> MaybeBlock]
      BY <3>2, <3>3 DEF Relinked
    <3>5. RelinkedOnDisk(Intermediate(target)) \in [Block -> MaybeBlock]
      BY <3>2, <3>3 DEF RelinkedOnDisk
    <3>6. RecordsOf(vConnect(Intermediate(target)), vDisconnect(Intermediate(target))) \subseteq Block
      BY <3>2, RecordsType
    <3> QED BY <2>2, <3>1, <3>2, <3>4, <3>5, <3>6
            DEF Reorganize, ReorganizeTo, WriteBlockIndex, SetBestDone
  <2>3. CASE ConnectSecondary
    <3>1. NextSecondary \in Block
      BY <2>3, SecondaryType DEF ConnectSecondary
    <3>2. RecordsOf({NextSecondary}, {}) \subseteq Block
      BY <3>1, RecordsType
    <3> QED BY <2>3, <3>1, <3>2 DEF ConnectSecondary, WriteBlockIndex, SetBestDone
  <2>4. CASE SecondaryFails BY <2>4 DEF SecondaryFails
  <2>5. CASE SetBestFails BY SMTT(30), <2>5 DEF SetBestFails, FinishAccept, ClearMemory, NoLinks
  <2> QED BY <1>3, <2>1, <2>2, <2>3, <2>4, <2>5 DEF SetBestChain
<1>4. CASE PendingCheckpoint
  <2>1. CASE NoCheckpoint BY <2>1 DEF NoCheckpoint, FinishAccept
  <2>2. CASE AcceptPendingSyncCheckpoint BY <2>2 DEF AcceptPendingSyncCheckpoint
  <2>3. CASE WritePendingCheckpoint
    BY <2>3 DEF WritePendingCheckpoint, WriteSyncCheckpoint, FinishAccept, Commits
  <2>4. CASE PendingWriteFails BY <2>4 DEF PendingWriteFails, FinishAccept
  <2> QED BY <1>4, <2>1, <2>2, <2>3, <2>4 DEF PendingCheckpoint
<1>5. CASE Crash BY <1>5 DEF Crash, ClearMemory, NoLinks
<1>6. CASE UNCHANGED vars BY <1>6 DEF vars
<1> QED BY <1>1, <1>2, <1>3, <1>4, <1>5, <1>6 DEF Next

\* ProcessBlock's queue gains a block or is emptied when AcceptBlock returns.
LEMMA FinishQueue ==
  ASSUME cur \in Block, vWorkQueue \in Seq(Block), NEW ok \in BOOLEAN, FinishAccept(ok)
  PROVE  vWorkQueue' \in Seq(Block)
<1>1. <<cur>> \in Seq(Block) /\ <<>> \in Seq(Block) /\ Append(vWorkQueue, cur) \in Seq(Block)
  OBVIOUS
<1>2. vWorkQueue' \in {<<cur>>, <<>>, Append(vWorkQueue, cur), vWorkQueue}
  BY DEF FinishAccept
<1> QED BY <1>1, <1>2

\* ProcessBlock's queue stays a sequence of blocks.
LEMMA QueueStep == TypeOK /\ [Next]_vars => QueueType'
<1> SUFFICES ASSUME TypeOK, [Next]_vars PROVE QueueType'
  OBVIOUS
<1> USE DEF TypeOK, ControlType, QueueType, InAccept
<1>1. CASE StartUp
  <2>1. CASE Upgrade BY <2>1 DEF Upgrade
  <2>2. CASE InitGenesis BY <2>2 DEF InitGenesis
  <2>3. CASE SetBestGenesis BY <2>3 DEF SetBestGenesis
  <2>4. CASE InitSyncCheckpoint BY <2>4 DEF InitSyncCheckpoint, WriteSyncCheckpoint
  <2>5. CASE LoadFails BY <2>5 DEF LoadFails, ClearMemory
  <2>6. CASE LoadIndex BY <2>6 DEF LoadIndex
  <2>7. CASE CheckPubKey BY <2>7 DEF CheckPubKey
  <2>8. CASE ResetSyncCheckpoint BY <2>8 DEF ResetSyncCheckpoint
  <2>9. CASE ResetSyncWrite BY <2>9 DEF ResetSyncWrite, WriteSyncCheckpoint, Commits
  <2> QED BY <1>1, <2>1, <2>2, <2>3, <2>4, <2>5, <2>6, <2>7, <2>8, <2>9 DEF StartUp
<1>2. CASE ProcessBlock
  <2>1. ASSUME NEW b \in Block, HoldOrphan(b) PROVE QueueType' BY <2>1 DEF HoldOrphan
  <2>2. ASSUME NEW b \in Block, AcceptNew(b) PROVE QueueType'
    BY <2>2 DEF AcceptNew, WriteToDisk
  <2>3. ASSUME NEW b \in Block, AcceptOrphan(b) PROVE QueueType'
    BY <2>3 DEF AcceptOrphan, WriteToDisk
  <2>4. ASSUME NEW b \in Block, DropOrphan(b) PROVE QueueType' BY <2>4 DEF DropOrphan
  <2>5. CASE AddToBlockIndex BY <2>5 DEF AddToBlockIndex, EnterIndex, WriteBlockIndex
  <2>6. CASE IndexRefused BY <2>6, FinishQueue DEF IndexRefused
  <2>7. CASE NextInQueue BY <2>7 DEF NextInQueue
  <2> QED BY <1>2, <2>1, <2>2, <2>3, <2>4, <2>5, <2>6, <2>7 DEF ProcessBlock
<1>3. CASE SetBestChain
  <2>1. CASE ExtendBest BY <2>1 DEF ExtendBest, WriteBlockIndex, Commits, SetBestDone
  <2>2. CASE Reorganize BY <2>2 DEF Reorganize, ReorganizeTo, WriteBlockIndex, Commits, SetBestDone
  <2>3. CASE ConnectSecondary BY <2>3 DEF ConnectSecondary, WriteBlockIndex, SetBestDone
  <2>4. CASE SecondaryFails BY <2>4 DEF SecondaryFails
  <2>5. CASE SetBestFails
    <3>1. CASE why \in {"new", "pending"}
      <4>1. FinishAccept(TRUE) \/ FinishAccept(FALSE)
        BY <2>5, <3>1 DEF SetBestFails, FinishAccept
      <4>2. cur \in Block /\ vWorkQueue \in Seq(Block)
        BY <2>5, <3>1 DEF SetBestFails
      <4> QED BY <4>1, <4>2, FinishQueue
    <3>2. CASE why \notin {"new", "pending"}
      <4>1. vWorkQueue' = vWorkQueue \/ vWorkQueue' = <<>>
        BY <2>5, <3>2 DEF SetBestFails, ClearMemory
      <4>2. <<>> \in Seq(Block)
        OBVIOUS
      <4> QED BY <4>1, <4>2
    <3> QED BY <3>1, <3>2
  <2> QED BY <1>3, <2>1, <2>2, <2>3, <2>4, <2>5 DEF SetBestChain
<1>4. CASE PendingCheckpoint
  <2>1. CASE NoCheckpoint
    BY <2>1, FinishQueue DEF NoCheckpoint
  <2>2. CASE AcceptPendingSyncCheckpoint BY <2>2 DEF AcceptPendingSyncCheckpoint
  <2>3. CASE WritePendingCheckpoint
    BY <2>3, FinishQueue DEF WritePendingCheckpoint
  <2>4. CASE PendingWriteFails
    BY <2>4, FinishQueue DEF PendingWriteFails
  <2> QED BY <1>4, <2>1, <2>2, <2>3, <2>4 DEF PendingCheckpoint
<1>5. CASE Crash BY <1>5 DEF Crash, ClearMemory
<1>6. CASE UNCHANGED vars BY <1>6 DEF vars
<1> QED BY <1>1, <1>2, <1>3, <1>4, <1>5, <1>6 DEF Next

\* The flags stay flags.
LEMMA FlagStep == TypeOK /\ [Next]_vars => FlagType'
<1> SUFFICES ASSUME TypeOK, [Next]_vars PROVE FlagType'
  OBVIOUS
<1> USE DEF TypeOK, FlagType
<1>1. CASE StartUp
  <2>1. CASE Upgrade BY <2>1 DEF Upgrade
  <2>2. CASE InitGenesis BY <2>2 DEF InitGenesis
  <2>3. CASE SetBestGenesis BY <2>3 DEF SetBestGenesis
  <2>4. CASE InitSyncCheckpoint BY <2>4 DEF InitSyncCheckpoint, WriteSyncCheckpoint
  <2>5. CASE LoadFails BY <2>5 DEF LoadFails, ClearMemory
  <2>6. CASE LoadIndex BY <2>6 DEF LoadIndex
  <2>7. CASE CheckPubKey BY <2>7 DEF CheckPubKey
  <2>8. CASE ResetSyncCheckpoint BY <2>8 DEF ResetSyncCheckpoint
  <2>9. CASE ResetSyncWrite BY <2>9 DEF ResetSyncWrite, WriteSyncCheckpoint, Commits
  <2> QED BY <1>1, <2>1, <2>2, <2>3, <2>4, <2>5, <2>6, <2>7, <2>8, <2>9 DEF StartUp
<1>2. CASE ProcessBlock
  <2>1. ASSUME NEW b \in Block, HoldOrphan(b) PROVE FlagType' BY <2>1 DEF HoldOrphan
  <2>2. ASSUME NEW b \in Block, AcceptNew(b) PROVE FlagType' BY <2>2 DEF AcceptNew, WriteToDisk
  <2>3. ASSUME NEW b \in Block, AcceptOrphan(b) PROVE FlagType'
    BY <2>3 DEF AcceptOrphan, WriteToDisk
  <2>4. ASSUME NEW b \in Block, DropOrphan(b) PROVE FlagType' BY <2>4 DEF DropOrphan
  <2>5. CASE AddToBlockIndex BY <2>5 DEF AddToBlockIndex, EnterIndex, WriteBlockIndex
  <2>6. CASE IndexRefused BY <2>6 DEF IndexRefused, EnterIndex, FinishAccept
  <2>7. CASE NextInQueue BY <2>7 DEF NextInQueue
  <2> QED BY <1>2, <2>1, <2>2, <2>3, <2>4, <2>5, <2>6, <2>7 DEF ProcessBlock
<1>3. CASE SetBestChain
  <2>1. CASE ExtendBest BY <2>1 DEF ExtendBest, WriteBlockIndex, Commits, SetBestDone
  <2>2. CASE Reorganize BY <2>2 DEF Reorganize, ReorganizeTo, WriteBlockIndex, Commits, SetBestDone
  <2>3. CASE ConnectSecondary BY <2>3 DEF ConnectSecondary, WriteBlockIndex, SetBestDone
  <2>4. CASE SecondaryFails BY <2>4 DEF SecondaryFails
  <2>5. CASE SetBestFails BY <2>5 DEF SetBestFails, FinishAccept, ClearMemory
  <2> QED BY <1>3, <2>1, <2>2, <2>3, <2>4, <2>5 DEF SetBestChain
<1>4. CASE PendingCheckpoint
  <2>1. CASE NoCheckpoint BY <2>1 DEF NoCheckpoint, FinishAccept
  <2>2. CASE AcceptPendingSyncCheckpoint BY <2>2 DEF AcceptPendingSyncCheckpoint
  <2>3. CASE WritePendingCheckpoint
    BY <2>3 DEF WritePendingCheckpoint, WriteSyncCheckpoint, FinishAccept, Commits
  <2>4. CASE PendingWriteFails BY <2>4 DEF PendingWriteFails, FinishAccept
  <2> QED BY <1>4, <2>1, <2>2, <2>3, <2>4 DEF PendingCheckpoint
<1>5. CASE Crash BY <1>5 DEF Crash, ClearMemory
<1>6. CASE UNCHANGED vars BY <1>6 DEF vars
<1> QED BY <1>1, <1>2, <1>3, <1>4, <1>5, <1>6 DEF Next

\* A call in progress keeps the block it was made for.
LEMMA ControlStep == TypeOK /\ [Next]_vars => ControlType'
<1> SUFFICES ASSUME TypeOK, [Next]_vars PROVE ControlType'
  OBVIOUS
<1> USE TreeAssumption DEF TypeOK, DataType, ControlType, PCs, Callers, InAccept, InPending
<1>1. CASE StartUp
  <2>1. CASE Upgrade BY <2>1 DEF Upgrade
  <2>2. CASE InitGenesis BY <2>2 DEF InitGenesis
  <2>3. CASE SetBestGenesis BY <2>3 DEF SetBestGenesis
  <2>4. CASE InitSyncCheckpoint BY <2>4 DEF InitSyncCheckpoint, WriteSyncCheckpoint
  <2>5. CASE LoadFails BY <2>5 DEF LoadFails, ClearMemory
  <2>6. CASE LoadIndex
    <3>1. BadBlocks # {} => ForkBlock \in Block
      BY <2>6, ForkType DEF LoadIndex, Loadable
    <3> QED BY <2>6, <3>1 DEF LoadIndex, Loadable
  <2>7. CASE CheckPubKey BY <2>7 DEF CheckPubKey
  <2>8. CASE ResetSyncCheckpoint BY <2>8 DEF ResetSyncCheckpoint
  <2>9. CASE ResetSyncWrite BY <2>9 DEF ResetSyncWrite, WriteSyncCheckpoint, Commits
  <2> QED BY <1>1, <2>1, <2>2, <2>3, <2>4, <2>5, <2>6, <2>7, <2>8, <2>9 DEF StartUp
<1>2. CASE ProcessBlock
  <2>1. ASSUME NEW b \in Block, HoldOrphan(b) PROVE ControlType' BY <2>1 DEF HoldOrphan
  <2>2. ASSUME NEW b \in Block, AcceptNew(b) PROVE ControlType'
    BY <2>2 DEF AcceptNew, WriteToDisk
  <2>3. ASSUME NEW b \in Block, AcceptOrphan(b) PROVE ControlType'
    BY <2>3 DEF AcceptOrphan, WriteToDisk
  <2>4. ASSUME NEW b \in Block, DropOrphan(b) PROVE ControlType' BY <2>4 DEF DropOrphan
  <2>5. CASE AddToBlockIndex BY <2>5 DEF AddToBlockIndex, EnterIndex, WriteBlockIndex
  <2>6. CASE IndexRefused BY <2>6 DEF IndexRefused, EnterIndex, FinishAccept
  <2>7. CASE NextInQueue BY <2>7 DEF NextInQueue
  <2> QED BY <1>2, <2>1, <2>2, <2>3, <2>4, <2>5, <2>6, <2>7 DEF ProcessBlock
<1>3. CASE SetBestChain
  <2>1. CASE ExtendBest BY <2>1 DEF ExtendBest, WriteBlockIndex, Commits, SetBestDone, AfterSetBest
  <2>2. CASE Reorganize BY <2>2 DEF Reorganize, ReorganizeTo, WriteBlockIndex, Commits, SetBestDone, AfterSetBest
  <2>3. CASE ConnectSecondary BY <2>3 DEF ConnectSecondary, WriteBlockIndex, SetBestDone, AfterSetBest
  <2>4. CASE SecondaryFails BY <2>4 DEF SecondaryFails, AfterSetBest
  <2>5. CASE SetBestFails BY <2>5 DEF SetBestFails, FinishAccept, ClearMemory
  <2> QED BY <1>3, <2>1, <2>2, <2>3, <2>4, <2>5 DEF SetBestChain
<1>4. CASE PendingCheckpoint
  <2>1. CASE NoCheckpoint BY <2>1 DEF NoCheckpoint, FinishAccept
  <2>2. CASE AcceptPendingSyncCheckpoint
    BY <2>2 DEF AcceptPendingSyncCheckpoint, PendingArrived
  <2>3. CASE WritePendingCheckpoint
    BY <2>3 DEF WritePendingCheckpoint, WriteSyncCheckpoint, FinishAccept, Commits
  <2>4. CASE PendingWriteFails BY <2>4 DEF PendingWriteFails, FinishAccept
  <2> QED BY <1>4, <2>1, <2>2, <2>3, <2>4 DEF PendingCheckpoint
<1>5. CASE Crash BY <1>5 DEF Crash, ClearMemory
<1>6. CASE UNCHANGED vars BY <1>6 DEF vars
<1> QED BY <1>1, <1>2, <1>3, <1>4, <1>5, <1>6 DEF Next

\* Every variable keeps its type, and every call the block it works on, for any
\* tree of blocks, any release and any failure.
THEOREM TypeCorrect == Spec => []TypeOK
<1>1. TypeOK /\ [Next]_vars => TypeOK'
  BY DataStep, QueueStep, FlagStep, ControlStep DEF TypeOK
<1> QED BY <1>1, InitType, PTL DEF Spec

-----------------------------------------------------------------------------
(* Chains and their forward links.                                         *)

\* The pprev walk from a block of a chain stays on the chain.
LEMMA ParentOnChain ==
  ASSUME NEW t \in Block, NEW c \in Chain[t], c # Genesis
  PROVE  /\ c \in Block /\ Parent[c] \in Chain[t] /\ Parent[c] \in Block /\ Parent[c] # c
         /\ Height[c] = Height[Parent[c]] + 1 /\ Height[Parent[c]] \in Nat
<1>1. c \in Block /\ Chain[c] \subseteq Chain[t]
  BY TreeAssumption, ChainAssumption
<1>2. Parent[c] \in Block
  BY <1>1, TreeAssumption
<1>3. Parent[c] \in Chain[c]
  BY <1>1, <1>2, ChainAssumption
<1>4. Height[c] = Height[Parent[c]] + 1 /\ Height[Parent[c]] \in Nat
  BY <1>1, <1>2, TreeAssumption, TrustAssumption
<1> QED BY <1>1, <1>2, <1>3, <1>4

\* On one chain no two blocks have the same parent.
LEMMA OnlyChild ==
  ASSUME NEW t \in Block, NEW a \in Chain[t], NEW c \in Chain[t], Parent[a] = Parent[c]
  PROVE  a = c
<1>1. a \in Block /\ c \in Block
  BY TreeAssumption
<1>2. CASE a = Genesis \/ c = Genesis
  BY <1>1, <1>2, TreeAssumption
<1>3. CASE a # Genesis /\ c # Genesis
  <2>1. Height[a] = Height[c] /\ Height[a] \in Nat
    BY <1>1, <1>3, ParentOnChain, TreeAssumption
  <2>2. a \in Chain[c]
    BY <2>1, ChainAssumption
  <2>3. a # c => Height[a] < Height[c]
    BY <1>1, <2>2, TrustAssumption
  <2> QED BY <2>1, <2>3
<1> QED BY <1>2, <1>3

\* On a part of a chain, what follows the parent of a block is that block.
LEMMA NextOnIs ==
  ASSUME NEW t \in Block, NEW S, S \subseteq Chain[t], NEW c \in S
  PROVE  NextOn(S, Parent[c]) = c
<1> DEFINE d == CHOOSE d \in S : Parent[d] = Parent[c]
<1>1. d \in S /\ Parent[d] = Parent[c]
  OBVIOUS
<1>2. d = c
  BY <1>1, OnlyChild
<1> QED BY <1>2 DEF NextOn

\* Nothing follows a block without children.
LEMMA NextOnNone ==
  ASSUME NEW S, NEW b, \A c \in S : Parent[c] # b
  PROVE  NextOn(S, b) = NoBlock
BY DEF NextOn

\* A block off the chain has no link.
LEMMA NoLinkOff ==
  ASSUME NEW t \in Block, NEW b \in Block, b \notin Chain[t]
  PROVE  NextOn(Chain[t], b) = NoBlock
<1>1. \A c \in Chain[t] : Parent[c] # b
  BY ParentOnChain, TreeAssumption
<1> QED BY <1>1, NextOnNone

\* The genesis block alone has no links.
LEMMA LinksOfGenesis == LinksTo(Genesis) = NoLinks
<1>1. \A b \in Block : NextOn(Chain[Genesis], b) = NoBlock
  BY TreeAssumption, ChainAssumption, NextOnNone
<1> QED BY <1>1 DEF LinksTo, NoLinks

\* What ConnectBlock and SetBestChainInner do to the links of the chain they extend.
LEMMA LinksOfChild ==
  ASSUME NEW t \in Block, t # Genesis
  PROVE  /\ LinksTo(t) = [LinksTo(Parent[t]) EXCEPT ![t] = LinksTo(Parent[t])[t], ![Parent[t]] = t]
         /\ LinksTo(t) = [LinksTo(Parent[t]) EXCEPT ![Parent[t]] = t]
<1> DEFINE p == Parent[t]
<1>1. p \in Block /\ Chain[t] = Chain[p] \cup {t} /\ p # t /\ t \in Chain[t]
  BY TreeAssumption, ChainAssumption, ParentOnChain
<1>2. NextOn(Chain[t], p) = t
  BY <1>1, NextOnIs
<1>3. ASSUME NEW b \in Block, b # p PROVE NextOn(Chain[t], b) = NextOn(Chain[p], b)
  <2>1. CASE \E c \in Chain[p] : Parent[c] = b
    <3>1. PICK c \in Chain[p] : Parent[c] = b
      BY <2>1
    <3>2. NextOn(Chain[t], b) = c
      BY <1>1, <3>1, NextOnIs
    <3>3. NextOn(Chain[p], b) = c
      BY <1>1, <3>1, NextOnIs
    <3> QED BY <3>2, <3>3
  <2>2. CASE ~ \E c \in Chain[p] : Parent[c] = b
    <3>1. NextOn(Chain[p], b) = NoBlock
      BY <2>2, NextOnNone
    <3>2. NextOn(Chain[t], b) = NoBlock
      BY <1>1, <1>3, <2>2, NextOnNone
    <3> QED BY <3>1, <3>2
  <2> QED BY <2>1, <2>2
<1> HIDE DEF p
<1>4. \A b \in Block : LinksTo(t)[b] = IF b = p THEN t ELSE LinksTo(p)[b]
  BY <1>2, <1>3 DEF LinksTo
<1> QED BY <1>1, <1>4 DEF LinksTo, p

\* What Reorganize does to the links of the old best chain, in memory.
LEMMA RelinkedIsLinks ==
  ASSUME NEW a \in Block, pindexBest \in Block, pnext = LinksTo(pindexBest)
  PROVE  Relinked(a) = LinksTo(a)
<1> DEFINE A == Chain[a]
           P == Chain[pindexBest]
<1>1. ASSUME NEW b \in Block PROVE Relinked(a)[b] = NextOn(A, b)
  <2>0. Relinked(a)[b] = IF NextOn(A \ P, b) # NoBlock THEN NextOn(A \ P, b)
                         ELSE IF NextOn(P \ A, b) # NoBlock THEN NoBlock ELSE NextOn(P, b)
    BY DEF Relinked, vConnect, vDisconnect, LinksTo
  <2>1. CASE \E c \in A \ P : Parent[c] = b
    <3>1. PICK c \in A \ P : Parent[c] = b
      BY <2>1
    <3>2. NextOn(A \ P, b) = c /\ NextOn(A, b) = c
      BY <3>1, NextOnIs
    <3>3. c # NoBlock
      BY <3>1, TreeAssumption
    <3> QED BY <2>0, <3>2, <3>3
  <2>2. CASE \A c \in A \ P : Parent[c] # b
    <3>0. NextOn(A \ P, b) = NoBlock
      BY <2>2, NextOnNone
    <3>1. CASE \E d \in P \ A : Parent[d] = b
      <4>1. PICK d \in P \ A : Parent[d] = b
        BY <3>1
      <4>2. NextOn(P \ A, b) = d
        BY <4>1, NextOnIs
      <4>2a. d # NoBlock
        BY <4>1, TreeAssumption
      <4>3. \A c \in A : Parent[c] # b
        BY <2>2, <4>1, OnlyChild
      <4> QED BY <2>0, <3>0, <4>2, <4>2a, <4>3, NextOnNone
    <3>2. CASE \A d \in P \ A : Parent[d] # b
      <4>0. NextOn(P \ A, b) = NoBlock
        BY <3>2, NextOnNone
      <4>1. CASE \E c \in P : Parent[c] = b
        <5>1. PICK c \in P : Parent[c] = b
          BY <4>1
        <5>2. NextOn(P, b) = c /\ NextOn(A, b) = c
          BY <3>2, <5>1, NextOnIs
        <5> QED BY <2>0, <3>0, <4>0, <5>2
      <4>2. CASE \A c \in P : Parent[c] # b
        <5>1. NextOn(P, b) = NoBlock /\ NextOn(A, b) = NoBlock
          BY <2>2, <4>2, NextOnNone
        <5> QED BY <2>0, <3>0, <4>0, <5>1
      <4> QED BY <4>1, <4>2
    <3> QED BY <3>1, <3>2
  <2> QED BY <2>1, <2>2
<1> QED BY <1>1 DEF Relinked, LinksTo

\* The same on disk, where ConnectBlock also writes the record of the new block.
LEMMA RelinkedOnDiskIsLinks ==
  ASSUME NEW a \in Block, pindexBest \in Block, pnext = LinksTo(pindexBest), dbNext = pnext
  PROVE  RelinkedOnDisk(a) = LinksTo(a)
<1>1. ASSUME NEW b \in Block PROVE RelinkedOnDisk(a)[b] = Relinked(a)[b]
  <2>1. CASE b \in vConnect(a) /\ NextOn(vConnect(a), b) = NoBlock
    <3>1. pnext[b] = NoBlock
      BY <2>1, NoLinkOff DEF vConnect, LinksTo
    <3> QED BY <2>1, <3>1 DEF RelinkedOnDisk, Relinked
  <2>2. CASE b \notin vConnect(a) \/ NextOn(vConnect(a), b) # NoBlock
    BY <2>2 DEF RelinkedOnDisk, Relinked
  <2> QED BY <2>1, <2>2
<1>2. RelinkedOnDisk(a) = Relinked(a)
  BY <1>1 DEF RelinkedOnDisk, Relinked
<1> QED BY <1>2, RelinkedIsLinks

-----------------------------------------------------------------------------
(* The inductive invariant.                                                *)

Down == pc \in {"off", "failed"}

\* Memory is closed under parents and backed by the block file, and the records of the
\* database lack no parent but for those that LevelDB refused.
Closed == /\ \A b \in mapBlockIndex : Chain[b] \subseteq mapBlockIndex
          /\ \A b \in dbIndex : Chain[b] \subseteq dbIndex \cup refused
          /\ dbIndex \cup mapBlockIndex \subseteq blkFile

\* Memory holds the index on disk, the sync-checkpoint and the blocks that LevelDB refused.
Mirrored == /\ IF Down THEN /\ mapBlockIndex = {} /\ pnext = NoLinks /\ ~ahead
                            /\ pindexBest = NoBlock /\ hashSyncCheckpoint = NoBlock
                       ELSE /\ dbIndex \subseteq mapBlockIndex
                            /\ mapBlockIndex \subseteq dbIndex \cup refused
                            /\ hashSyncCheckpoint = dbSync
            /\ refused \subseteq passedOver

\* A best block is known, on disk from SetBestGenesis on and in memory while running.
Rooted == /\ dbIndex = {} => dbBest = NoBlock
          /\ dbBest # NoBlock => dbBest \in dbIndex
          /\ dbBest = NoBlock => dbNext = NoLinks /\ dbConnected = {} /\ dbSync = NoBlock
          /\ pc = "gen_best" => /\ Genesis \in dbIndex /\ dbBest = NoBlock
                                /\ pindexBest = NoBlock /\ pnext = NoLinks
          /\ ~Down /\ pc # "gen_best" => dbBest # NoBlock /\ pindexBest \in mapBlockIndex

\* Whatever a call works on is known, and a new best block has more trust.
Working == /\ pc \in {"setbest", "secondary"} => target \in mapBlockIndex
           /\ pc = "setbest" => target # pindexBest
           /\ pc \in {"setbest", "secondary"} /\ why = "new" => Trust[target] > Trust[pindexBest]
           /\ pc = "secondary" => vpindexSecondary \subseteq mapBlockIndex \ {Genesis}
           /\ pc = "index" => /\ cur \in blkFile /\ cur \notin mapBlockIndex
                              /\ Parent[cur] \in mapBlockIndex

\* What holds whether or not a postponed reconnect has failed.
Structure == Closed /\ Mirrored /\ Rooted /\ Working /\ RestartSucceeds

\* Disk and memory until something is built on a block whose postponed reconnect failed:
\* the database describes the chain of its best block, memory follows it, up to such a
\* block if that is the best one, and between two reconnects what is missing is just
\* the rest of the way to the target.
Coherent ==
    /\ dbBest # NoBlock => /\ Chain[dbBest] \subseteq dbIndex
                           /\ dbNext = LinksTo(dbBest)
                           /\ dbConnected = Chain[dbBest] \ {Genesis}
                           /\ Chain[dbBest] \ {Genesis} \subseteq Valid
    /\ ~Down => pnext = dbNext
    /\ ~Down /\ pc # "secondary" =>
           IF ahead THEN dbBest # NoBlock /\ dbBest \in Chain[pindexBest] ELSE pindexBest = dbBest
    /\ pc = "secondary" => /\ ~ahead
                           /\ dbBest \in Chain[target]
                           /\ vpindexSecondary = Chain[target] \ Chain[dbBest]
                           /\ Chain[pindexBest] \ {Genesis} \subseteq Valid

IInv == TypeOK /\ Structure /\ (~derailed => Coherent)

\* On a chain every block but the last has a child.
LEMMA ChildOnChain ==
  ASSUME NEW t \in Block, NEW a \in Chain[t], a # t
  PROVE  \E n \in Chain[t] \ Chain[a] : Parent[n] = a /\ n # Genesis
<1> DEFINE R == Chain[t] \ Chain[a]
<1>1. a \in Block /\ R \in SUBSET Block
  BY TreeAssumption
<1>2. t \in R
  <2>1. t \in Chain[t]
    BY ChainAssumption
  <2>2. t \in Chain[a] => Height[t] < Height[a] /\ Height[a] < Height[t]
    BY <1>1, TrustAssumption
  <2>3. Height[a] \in Nat /\ Height[t] \in Nat
    BY <1>1, TreeAssumption
  <2> QED BY <2>1, <2>2, <2>3
<1>3. PICK n \in R : \A c \in R : Height[n] <= Height[c]
  BY <1>1, <1>2, LowestExists
<1>4. n \in Block /\ n # Genesis
  BY <1>1, ChainAssumption
<1>5. /\ Parent[n] \in Chain[t] /\ Parent[n] \in Block
      /\ Height[n] = Height[Parent[n]] + 1 /\ Height[Parent[n]] \in Nat
  BY <1>3, <1>4, ParentOnChain
<1>6. Height[n] \in Nat /\ Height[a] \in Nat
  BY <1>1, <1>4, TreeAssumption
<1>7. Parent[n] \in Chain[a]
  BY <1>3, <1>5, <1>6
<1>8. Parent[n] = a
  <2>1. Parent[n] # a => Height[Parent[n]] < Height[a]
    BY <1>1, <1>7, TrustAssumption
  <2>2. Height[n] <= Height[a] => n \in Chain[a]
    BY <1>3, ChainAssumption
  <2> QED BY <1>3, <1>5, <1>6, <2>1, <2>2
<1> QED BY <1>4, <1>8

\* ConnectBlock and DisconnectBlock write the records of blocks in the index, and
\* that of the new best block is among them.
LEMMA RecordsKnown ==
  ASSUME TypeOK, Structure
  PROVE  /\ ExtendBest => RecordsOf({target}, {}) \subseteq mapBlockIndex
         /\ ConnectSecondary => RecordsOf({NextSecondary}, {}) \subseteq mapBlockIndex
         /\ Reorganize => LET a == Intermediate(target)
                              S == RecordsOf(vConnect(a), vDisconnect(a))
                          IN  a \in mapBlockIndex /\ S \subseteq mapBlockIndex /\ a \in S
<1> USE DEF TypeOK, DataType, ControlType, Structure
<1>1. ASSUME ExtendBest PROVE RecordsOf({target}, {}) \subseteq mapBlockIndex
  BY <1>1 DEF ExtendBest, RecordsOf, Working, Rooted, Down
<1>2. ASSUME NEW b \in mapBlockIndex, b # Genesis PROVE Parent[b] \in mapBlockIndex
  <2>1. b \in Block /\ b \in Chain[b]
    BY ChainAssumption
  <2>2. Parent[b] \in Chain[b]
    BY <1>2, <2>1, ParentOnChain
  <2> QED BY <2>2 DEF Closed
<1>3. ASSUME ConnectSecondary PROVE RecordsOf({NextSecondary}, {}) \subseteq mapBlockIndex
  <2>1. NextSecondary \in mapBlockIndex /\ NextSecondary # Genesis
    BY <1>3, SecondaryType DEF ConnectSecondary, Working
  <2> QED BY <1>2, <2>1 DEF RecordsOf
<1>4. ASSUME Reorganize
      PROVE  LET a == Intermediate(target)
                 S == RecordsOf(vConnect(a), vDisconnect(a))
             IN  a \in mapBlockIndex /\ S \subseteq mapBlockIndex /\ a \in S
  <2>0. PICK a : a = Intermediate(target)
    OBVIOUS
  <2>1. target \in mapBlockIndex /\ pindexBest \in mapBlockIndex /\ pc = "setbest"
    BY <1>4 DEF Reorganize, ReorganizeTo, Working, Rooted, Down
  <2>2. /\ target \in Block /\ pindexBest \in Block
        /\ Chain[target] \subseteq mapBlockIndex /\ Chain[pindexBest] \subseteq mapBlockIndex
    BY <2>1 DEF Closed
  <2>3. a \in Chain[target] /\ a \in Block /\ a \in mapBlockIndex
    BY <2>0, <2>2, IntermediateType
  <2>4. Chain[a] \subseteq mapBlockIndex
    BY <2>3 DEF Closed
  <2>5. Genesis \in Chain[a] /\ Genesis \in Chain[pindexBest] /\ a \in Chain[a]
    BY <2>2, <2>3, ChainAssumption
  <2>6. /\ vConnect(a) \subseteq mapBlockIndex \ {Genesis}
        /\ vDisconnect(a) \subseteq mapBlockIndex \ {Genesis}
    BY <2>2, <2>4, <2>5 DEF vConnect, vDisconnect
  <2>7. RecordsOf(vConnect(a), vDisconnect(a)) \subseteq mapBlockIndex
    BY <1>2, <2>6 DEF RecordsOf
  <2>8. a \in RecordsOf(vConnect(a), vDisconnect(a))
    <3>1. CASE a \notin Chain[pindexBest]
      BY <2>5, <3>1 DEF RecordsOf, vConnect
    <3>2. CASE a \in Chain[pindexBest]
      <4>1. a # pindexBest
        <5>1. a = target \/ Trust[a] > Trust[pindexBest]
          BY <2>0, <2>2, IntermediateIsBetter
        <5>2. Trust[pindexBest] \in Nat
          BY <2>2, TreeAssumption
        <5> QED BY <2>1, <5>1, <5>2 DEF Working
      <4>2. PICK n \in Chain[pindexBest] \ Chain[a] : Parent[n] = a
        BY <2>2, <3>2, <4>1, ChildOnChain
      <4>3. a # NoBlock
        BY <2>3, TreeAssumption
      <4> QED BY <4>2, <4>3 DEF RecordsOf, vDisconnect
    <3> QED BY <3>1, <3>2
  <2> QED BY <2>0, <2>3, <2>7, <2>8
<1> QED BY <1>1, <1>3, <1>4

\* Writing the records of blocks in the index keeps it closed and mirrored.
LEMMA RecordsKeepClosed ==
  ASSUME Structure, ~Down, NEW S, S \subseteq mapBlockIndex, WriteBlockIndex(S),
         mapBlockIndex' = mapBlockIndex, blkFile' = blkFile, passedOver \subseteq passedOver',
         hashSyncCheckpoint' = hashSyncCheckpoint, dbSync' = dbSync, ~Down'
  PROVE  Closed' /\ Mirrored'
<1>1. dbIndex \cup refused \subseteq dbIndex' \cup refused' /\ refused' \subseteq refused
  BY DEF WriteBlockIndex
<1>2. dbIndex' \subseteq mapBlockIndex /\ dbIndex \subseteq dbIndex'
  BY DEF WriteBlockIndex, Structure, Mirrored
<1>3. Closed'
  BY <1>1, <1>2 DEF Structure, Closed, Mirrored
<1>4. Mirrored'
  BY <1>1, <1>2 DEF Structure, Mirrored
<1> QED BY <1>3, <1>4

\* AddToBlockIndex indexes a block only after its parent, and after writing it.
LEMMA ClosedStep == TypeOK /\ Structure /\ [Next]_vars => Closed'
<1> SUFFICES ASSUME TypeOK /\ Structure, [Next]_vars PROVE Closed'
  OBVIOUS
<1> USE TreeAssumption, ChainAssumption DEF TypeOK, DataType, ControlType, PCs, Callers, Structure, Closed, Mirrored, Working
<1>1. CASE StartUp
  <2>1. CASE Upgrade BY <2>1 DEF Upgrade
  <2>2. CASE InitGenesis BY <2>2 DEF InitGenesis
  <2>3. CASE SetBestGenesis BY <2>3 DEF SetBestGenesis
  <2>4. CASE InitSyncCheckpoint BY <2>4 DEF InitSyncCheckpoint, WriteSyncCheckpoint
  <2>5. CASE LoadFails BY <2>5 DEF LoadFails, ClearMemory
  <2>6. CASE LoadIndex BY <2>6 DEF LoadIndex, Loadable
  <2>7. CASE CheckPubKey BY <2>7 DEF CheckPubKey
  <2>8. CASE ResetSyncCheckpoint BY <2>8 DEF ResetSyncCheckpoint
  <2>9. CASE ResetSyncWrite BY <2>9 DEF ResetSyncWrite, WriteSyncCheckpoint, Commits
  <2> QED BY <1>1, <2>1, <2>2, <2>3, <2>4, <2>5, <2>6, <2>7, <2>8, <2>9 DEF StartUp
<1>2. CASE ProcessBlock
  <2>1. ASSUME NEW b \in Block, HoldOrphan(b) PROVE Closed' BY <2>1 DEF HoldOrphan
  <2>2. ASSUME NEW b \in Block, AcceptNew(b) PROVE Closed' BY <2>2 DEF AcceptNew, WriteToDisk
  <2>3. ASSUME NEW b \in Block, AcceptOrphan(b) PROVE Closed'
    BY <2>3 DEF AcceptOrphan, WriteToDisk
  <2>4. ASSUME NEW b \in Block, DropOrphan(b) PROVE Closed' BY <2>4 DEF DropOrphan
  <2>5. CASE AddToBlockIndex
    <3>1. cur \in blkFile /\ Parent[cur] \in mapBlockIndex /\ cur \in Block /\ cur # Genesis
      BY <2>5 DEF AddToBlockIndex, InAccept
    <3>2. Chain[cur] = Chain[Parent[cur]] \cup {cur} /\ Chain[Parent[cur]] \subseteq mapBlockIndex
      BY <3>1
    <3>3. mapBlockIndex \subseteq dbIndex \cup refused
      BY <2>5 DEF AddToBlockIndex, Down
    <3> QED BY <2>5, <3>1, <3>2, <3>3 DEF AddToBlockIndex, EnterIndex, WriteBlockIndex
  <2>6. CASE IndexRefused
    <3>1. cur \in blkFile /\ Parent[cur] \in mapBlockIndex /\ cur \in Block /\ cur # Genesis
      BY <2>6 DEF IndexRefused, InAccept
    <3>2. Chain[cur] = Chain[Parent[cur]] \cup {cur} /\ Chain[Parent[cur]] \subseteq mapBlockIndex
      BY <3>1
    <3> QED BY <2>6, <3>1, <3>2 DEF IndexRefused, EnterIndex
  <2>7. CASE NextInQueue BY <2>7 DEF NextInQueue
  <2> QED BY <1>2, <2>1, <2>2, <2>3, <2>4, <2>5, <2>6, <2>7 DEF ProcessBlock
<1>3. CASE SetBestChain
  <2>1. CASE ExtendBest
    <3>1. PICK S : S \subseteq mapBlockIndex /\ WriteBlockIndex(S)
      BY <2>1, RecordsKnown DEF ExtendBest
    <3> QED BY <2>1, <3>1, RecordsKeepClosed DEF ExtendBest, SetBestDone, AfterSetBest, Down
  <2>2. CASE Reorganize
    <3>1. PICK S : S \subseteq mapBlockIndex /\ WriteBlockIndex(S)
      BY <2>2, RecordsKnown DEF Reorganize, ReorganizeTo
    <3> QED BY <2>2, <3>1, RecordsKeepClosed
            DEF Reorganize, ReorganizeTo, SetBestDone, AfterSetBest, Down
  <2>3. CASE ConnectSecondary
    <3>1. PICK S : S \subseteq mapBlockIndex /\ WriteBlockIndex(S)
      BY <2>3, RecordsKnown DEF ConnectSecondary
    <3> QED BY <2>3, <3>1, RecordsKeepClosed DEF ConnectSecondary, SetBestDone, AfterSetBest, Down
  <2>4. CASE SecondaryFails BY <2>4 DEF SecondaryFails
  <2>5. CASE SetBestFails BY <2>5 DEF SetBestFails, FinishAccept, ClearMemory
  <2> QED BY <1>3, <2>1, <2>2, <2>3, <2>4, <2>5 DEF SetBestChain
<1>4. CASE PendingCheckpoint
  <2>1. CASE NoCheckpoint BY <2>1 DEF NoCheckpoint, FinishAccept
  <2>2. CASE AcceptPendingSyncCheckpoint BY <2>2 DEF AcceptPendingSyncCheckpoint
  <2>3. CASE WritePendingCheckpoint
    BY <2>3 DEF WritePendingCheckpoint, WriteSyncCheckpoint, FinishAccept, Commits
  <2>4. CASE PendingWriteFails BY <2>4 DEF PendingWriteFails, FinishAccept
  <2> QED BY <1>4, <2>1, <2>2, <2>3, <2>4 DEF PendingCheckpoint
<1>5. CASE Crash BY <1>5 DEF Crash, ClearMemory
<1>6. CASE UNCHANGED vars BY <1>6 DEF vars
<1> QED BY <1>1, <1>2, <1>3, <1>4, <1>5, <1>6 DEF Next

\* Memory is filled from disk and changed together with it.
LEMMA MirroredStep == TypeOK /\ Structure /\ [Next]_vars => Mirrored'
<1> SUFFICES ASSUME TypeOK /\ Structure, [Next]_vars PROVE Mirrored'
  OBVIOUS
<1> USE TreeAssumption DEF TypeOK, DataType, ControlType, Structure, Mirrored, Rooted, Down, PCs, Callers
<1>1. CASE StartUp
  <2>1. CASE Upgrade BY <2>1 DEF Upgrade
  <2>2. CASE InitGenesis BY <2>2 DEF InitGenesis
  <2>3. CASE SetBestGenesis BY <2>3 DEF SetBestGenesis
  <2>4. CASE InitSyncCheckpoint BY <2>4 DEF InitSyncCheckpoint, WriteSyncCheckpoint
  <2>5. CASE LoadFails BY <2>5 DEF LoadFails, ClearMemory
  <2>6. CASE LoadIndex BY <2>6 DEF LoadIndex
  <2>7. CASE CheckPubKey BY <2>7 DEF CheckPubKey
  <2>8. CASE ResetSyncCheckpoint BY <2>8 DEF ResetSyncCheckpoint
  <2>9. CASE ResetSyncWrite BY <2>9 DEF ResetSyncWrite, WriteSyncCheckpoint, Commits
  <2> QED BY <1>1, <2>1, <2>2, <2>3, <2>4, <2>5, <2>6, <2>7, <2>8, <2>9 DEF StartUp
<1>2. CASE ProcessBlock
  <2>1. ASSUME NEW b \in Block, HoldOrphan(b) PROVE Mirrored' BY <2>1 DEF HoldOrphan
  <2>2. ASSUME NEW b \in Block, AcceptNew(b) PROVE Mirrored' BY <2>2 DEF AcceptNew, WriteToDisk
  <2>3. ASSUME NEW b \in Block, AcceptOrphan(b) PROVE Mirrored'
    BY <2>3 DEF AcceptOrphan, WriteToDisk
  <2>4. ASSUME NEW b \in Block, DropOrphan(b) PROVE Mirrored' BY <2>4 DEF DropOrphan
  <2>5. CASE AddToBlockIndex BY <2>5 DEF AddToBlockIndex, EnterIndex, WriteBlockIndex
  <2>6. CASE IndexRefused BY <2>6 DEF IndexRefused, EnterIndex, FinishAccept
  <2>7. CASE NextInQueue BY <2>7 DEF NextInQueue
  <2> QED BY <1>2, <2>1, <2>2, <2>3, <2>4, <2>5, <2>6, <2>7 DEF ProcessBlock
<1>3. CASE SetBestChain
  <2>1. CASE ExtendBest
    <3>1. PICK S : S \subseteq mapBlockIndex /\ WriteBlockIndex(S)
      BY <2>1, RecordsKnown DEF ExtendBest
    <3> QED BY <2>1, <3>1, RecordsKeepClosed DEF ExtendBest, SetBestDone, AfterSetBest, Down
  <2>2. CASE Reorganize
    <3>1. PICK S : S \subseteq mapBlockIndex /\ WriteBlockIndex(S)
      BY <2>2, RecordsKnown DEF Reorganize, ReorganizeTo
    <3> QED BY <2>2, <3>1, RecordsKeepClosed
            DEF Reorganize, ReorganizeTo, SetBestDone, AfterSetBest, Down
  <2>3. CASE ConnectSecondary
    <3>1. PICK S : S \subseteq mapBlockIndex /\ WriteBlockIndex(S)
      BY <2>3, RecordsKnown DEF ConnectSecondary
    <3> QED BY <2>3, <3>1, RecordsKeepClosed DEF ConnectSecondary, SetBestDone, AfterSetBest, Down
  <2>4. CASE SecondaryFails BY <2>4 DEF SecondaryFails, AfterSetBest
  <2>5. CASE SetBestFails BY <2>5 DEF SetBestFails, FinishAccept, ClearMemory
  <2> QED BY <1>3, <2>1, <2>2, <2>3, <2>4, <2>5 DEF SetBestChain
<1>4. CASE PendingCheckpoint
  <2>1. CASE NoCheckpoint BY <2>1 DEF NoCheckpoint, FinishAccept
  <2>2. CASE AcceptPendingSyncCheckpoint BY <2>2 DEF AcceptPendingSyncCheckpoint
  <2>3. CASE WritePendingCheckpoint
    BY <2>3 DEF WritePendingCheckpoint, WriteSyncCheckpoint, FinishAccept, Commits
  <2>4. CASE PendingWriteFails BY <2>4 DEF PendingWriteFails, FinishAccept
  <2> QED BY <1>4, <2>1, <2>2, <2>3, <2>4 DEF PendingCheckpoint
<1>5. CASE Crash BY <1>5 DEF Crash, ClearMemory
<1>6. CASE UNCHANGED vars BY <1>6 DEF vars
<1> QED BY <1>1, <1>2, <1>3, <1>4, <1>5, <1>6 DEF Next

\* Every commit of hashBestChain names an indexed block.
LEMMA RootedStep == TypeOK /\ Structure /\ [Next]_vars => Rooted'
<1> SUFFICES ASSUME TypeOK /\ Structure, [Next]_vars PROVE Rooted'
  OBVIOUS
<1> USE TreeAssumption DEF TypeOK, DataType, ControlType, Structure, Mirrored, Rooted, Working, Down, PCs, Callers
<1>1. CASE StartUp
  <2>1. CASE Upgrade BY <2>1 DEF Upgrade
  <2>2. CASE InitGenesis BY <2>2 DEF InitGenesis
  <2>3. CASE SetBestGenesis BY <2>3 DEF SetBestGenesis
  <2>4. CASE InitSyncCheckpoint BY <2>4 DEF InitSyncCheckpoint, WriteSyncCheckpoint
  <2>5. CASE LoadFails BY <2>5 DEF LoadFails, ClearMemory
  <2>6. CASE LoadIndex
    BY <2>6 DEF LoadIndex, Loadable
  <2>7. CASE CheckPubKey BY <2>7 DEF CheckPubKey
  <2>8. CASE ResetSyncCheckpoint BY <2>8 DEF ResetSyncCheckpoint
  <2>9. CASE ResetSyncWrite BY <2>9 DEF ResetSyncWrite, WriteSyncCheckpoint, Commits
  <2> QED BY <1>1, <2>1, <2>2, <2>3, <2>4, <2>5, <2>6, <2>7, <2>8, <2>9 DEF StartUp
<1>2. CASE ProcessBlock
  <2>1. ASSUME NEW b \in Block, HoldOrphan(b) PROVE Rooted' BY <2>1 DEF HoldOrphan
  <2>2. ASSUME NEW b \in Block, AcceptNew(b) PROVE Rooted' BY <2>2 DEF AcceptNew, WriteToDisk
  <2>3. ASSUME NEW b \in Block, AcceptOrphan(b) PROVE Rooted'
    BY <2>3 DEF AcceptOrphan, WriteToDisk
  <2>4. ASSUME NEW b \in Block, DropOrphan(b) PROVE Rooted' BY <2>4 DEF DropOrphan
  <2>5. CASE AddToBlockIndex BY <2>5 DEF AddToBlockIndex, EnterIndex, WriteBlockIndex
  <2>6. CASE IndexRefused BY <2>6 DEF IndexRefused, EnterIndex, FinishAccept
  <2>7. CASE NextInQueue BY <2>7 DEF NextInQueue
  <2> QED BY <1>2, <2>1, <2>2, <2>3, <2>4, <2>5, <2>6, <2>7 DEF ProcessBlock
<1>3. CASE SetBestChain
  <2>1. CASE ExtendBest
    <3>1. target \in RecordsOf({target}, {}) /\ RecordsOf({target}, {}) \subseteq mapBlockIndex
      BY <2>1, RecordsKnown DEF RecordsOf
    <3> QED BY <2>1, <3>1 DEF ExtendBest, WriteBlockIndex, SetBestDone, AfterSetBest
  <2>2. CASE Reorganize
    <3>1. Intermediate(target) \in dbIndex' /\ Intermediate(target) # NoBlock
      BY <2>2, RecordsKnown DEF Reorganize, ReorganizeTo, WriteBlockIndex
    <3> QED BY <2>2, <3>1 DEF Reorganize, ReorganizeTo, SetBestDone, AfterSetBest
  <2>3. CASE ConnectSecondary
    <3>1. NextSecondary \in dbIndex' /\ NextSecondary # NoBlock
      BY <2>3, SecondaryType DEF ConnectSecondary, WriteBlockIndex, RecordsOf
    <3> QED BY <2>3, <3>1 DEF ConnectSecondary, SetBestDone, AfterSetBest
  <2>4. CASE SecondaryFails BY <2>4 DEF SecondaryFails, AfterSetBest
  <2>5. CASE SetBestFails BY <2>5 DEF SetBestFails, FinishAccept, ClearMemory
  <2> QED BY <1>3, <2>1, <2>2, <2>3, <2>4, <2>5 DEF SetBestChain
<1>4. CASE PendingCheckpoint
  <2>1. CASE NoCheckpoint BY <2>1 DEF NoCheckpoint, FinishAccept
  <2>2. CASE AcceptPendingSyncCheckpoint BY <2>2 DEF AcceptPendingSyncCheckpoint
  <2>3. CASE WritePendingCheckpoint
    BY <2>3 DEF WritePendingCheckpoint, WriteSyncCheckpoint, FinishAccept, Commits
  <2>4. CASE PendingWriteFails BY <2>4 DEF PendingWriteFails, FinishAccept
  <2> QED BY <1>4, <2>1, <2>2, <2>3, <2>4 DEF PendingCheckpoint
<1>5. CASE Crash BY <1>5 DEF Crash, ClearMemory
<1>6. CASE UNCHANGED vars BY <1>6 DEF vars
<1> QED BY <1>1, <1>2, <1>3, <1>4, <1>5, <1>6 DEF Next

\* Every caller of SetBestChain hands it an indexed block.
LEMMA WorkingStep == TypeOK /\ Structure /\ [Next]_vars => Working'
<1> SUFFICES ASSUME TypeOK /\ Structure, [Next]_vars PROVE Working'
  OBVIOUS
<1> USE TreeAssumption DEF TypeOK, DataType, ControlType, Structure, Mirrored, Rooted, Working, Down, PCs, Callers
<1>1. CASE StartUp
  <2>1. CASE Upgrade BY <2>1 DEF Upgrade
  <2>2. CASE InitGenesis BY <2>2 DEF InitGenesis
  <2>3. CASE SetBestGenesis BY <2>3 DEF SetBestGenesis
  <2>4. CASE InitSyncCheckpoint BY <2>4 DEF InitSyncCheckpoint, WriteSyncCheckpoint
  <2>5. CASE LoadFails BY <2>5 DEF LoadFails, ClearMemory
  <2>6. CASE LoadIndex
    <3>1. BadBlocks # {} => ForkBlock \in dbIndex /\ ForkBlock # dbBest
      BY <2>6, ForkIsBelow DEF LoadIndex, Loadable
    <3> QED BY <2>6, <3>1 DEF LoadIndex
  <2>7. CASE CheckPubKey BY <2>7 DEF CheckPubKey
  <2>8. CASE ResetSyncCheckpoint BY <2>8 DEF ResetSyncCheckpoint, IsInMainChain
  <2>9. CASE ResetSyncWrite BY <2>9 DEF ResetSyncWrite, WriteSyncCheckpoint, Commits
  <2> QED BY <1>1, <2>1, <2>2, <2>3, <2>4, <2>5, <2>6, <2>7, <2>8, <2>9 DEF StartUp
<1>2. CASE ProcessBlock
  <2>1. ASSUME NEW b \in Block, HoldOrphan(b) PROVE Working' BY <2>1 DEF HoldOrphan
  <2>2. ASSUME NEW b \in Block, AcceptNew(b) PROVE Working'
    BY <2>2 DEF AcceptNew, WriteToDisk, AcceptChecks
  <2>3. ASSUME NEW b \in Block, AcceptOrphan(b) PROVE Working'
    BY <2>3 DEF AcceptOrphan, WriteToDisk, AcceptChecks
  <2>4. ASSUME NEW b \in Block, DropOrphan(b) PROVE Working' BY <2>4 DEF DropOrphan
  <2>5. CASE AddToBlockIndex BY <2>5 DEF AddToBlockIndex, EnterIndex, WriteBlockIndex, IsNewBest
  <2>6. CASE IndexRefused BY <2>6 DEF IndexRefused, EnterIndex, FinishAccept
  <2>7. CASE NextInQueue BY <2>7 DEF NextInQueue
  <2> QED BY <1>2, <2>1, <2>2, <2>3, <2>4, <2>5, <2>6, <2>7 DEF ProcessBlock
<1>3. CASE SetBestChain
  <2>1. CASE ExtendBest BY <2>1 DEF ExtendBest, WriteBlockIndex, Commits, SetBestDone, AfterSetBest
  <2>2. CASE Reorganize
    <3>1. Secondary(target) \subseteq mapBlockIndex \ {Genesis}
      BY <2>2, IntermediateType, GenesisIsWorst DEF Reorganize, ReorganizeTo, Closed
    <3> QED BY <2>2, <3>1 DEF Reorganize, ReorganizeTo, SetBestDone, AfterSetBest
  <2>3. CASE ConnectSecondary BY <2>3 DEF ConnectSecondary, WriteBlockIndex, SetBestDone, AfterSetBest
  <2>4. CASE SecondaryFails BY <2>4 DEF SecondaryFails, AfterSetBest
  <2>5. CASE SetBestFails BY <2>5 DEF SetBestFails, FinishAccept, ClearMemory
  <2> QED BY <1>3, <2>1, <2>2, <2>3, <2>4, <2>5 DEF SetBestChain
<1>4. CASE PendingCheckpoint
  <2>1. CASE NoCheckpoint BY <2>1 DEF NoCheckpoint, FinishAccept
  <2>2. CASE AcceptPendingSyncCheckpoint
    BY <2>2 DEF AcceptPendingSyncCheckpoint, PendingArrived, IsInMainChain
  <2>3. CASE WritePendingCheckpoint
    BY <2>3 DEF WritePendingCheckpoint, WriteSyncCheckpoint, FinishAccept, Commits
  <2>4. CASE PendingWriteFails BY <2>4 DEF PendingWriteFails, FinishAccept
  <2> QED BY <1>4, <2>1, <2>2, <2>3, <2>4 DEF PendingCheckpoint
<1>5. CASE Crash BY <1>5 DEF Crash, ClearMemory
<1>6. CASE UNCHANGED vars BY <1>6 DEF vars
<1> QED BY <1>1, <1>2, <1>3, <1>4, <1>5, <1>6 DEF Next

\* LoadBlockIndex refuses only a database that was never completed, or lacks a parent.
LEMMA RestartStep == TypeOK /\ Structure /\ [Next]_vars => RestartSucceeds'
<1> SUFFICES ASSUME TypeOK /\ Structure, [Next]_vars PROVE RestartSucceeds'
  OBVIOUS
<1> USE TreeAssumption DEF TypeOK, DataType, ControlType, Structure, Rooted, RestartSucceeds, Down, PCs, Callers
<1>1. CASE StartUp
  <2>1. CASE Upgrade BY <2>1 DEF Upgrade
  <2>2. CASE InitGenesis BY <2>2 DEF InitGenesis
  <2>3. CASE SetBestGenesis BY <2>3 DEF SetBestGenesis
  <2>4. CASE InitSyncCheckpoint BY <2>4 DEF InitSyncCheckpoint, WriteSyncCheckpoint
  <2>5. CASE LoadFails
    <3>1. ASSUME dbSync # NoBlock, \A b \in dbIndex : Chain[b] \cap refused = {} PROVE Loadable
      <4>1. \A b \in dbIndex : Chain[b] \subseteq dbIndex
        BY <3>1 DEF Closed
      <4>2. dbBest \in dbIndex /\ Chain[dbBest] \subseteq blkFile
        BY <3>1, <4>1 DEF Closed
      <4> QED BY <3>1, <4>1, <4>2 DEF Loadable
    <3> QED BY <2>5, <3>1 DEF LoadFails, ClearMemory
  <2>6. CASE LoadIndex BY <2>6 DEF LoadIndex
  <2>7. CASE CheckPubKey BY <2>7 DEF CheckPubKey
  <2>8. CASE ResetSyncCheckpoint BY <2>8 DEF ResetSyncCheckpoint
  <2>9. CASE ResetSyncWrite BY <2>9 DEF ResetSyncWrite, WriteSyncCheckpoint, Commits
  <2> QED BY <1>1, <2>1, <2>2, <2>3, <2>4, <2>5, <2>6, <2>7, <2>8, <2>9 DEF StartUp
<1>2. CASE ProcessBlock
  <2>1. ASSUME NEW b \in Block, HoldOrphan(b) PROVE RestartSucceeds' BY <2>1 DEF HoldOrphan
  <2>2. ASSUME NEW b \in Block, AcceptNew(b) PROVE RestartSucceeds'
    BY <2>2 DEF AcceptNew, WriteToDisk
  <2>3. ASSUME NEW b \in Block, AcceptOrphan(b) PROVE RestartSucceeds'
    BY <2>3 DEF AcceptOrphan, WriteToDisk
  <2>4. ASSUME NEW b \in Block, DropOrphan(b) PROVE RestartSucceeds' BY <2>4 DEF DropOrphan
  <2>5. CASE AddToBlockIndex BY <2>5 DEF AddToBlockIndex, EnterIndex, WriteBlockIndex
  <2>6. CASE IndexRefused BY <2>6 DEF IndexRefused, EnterIndex, FinishAccept
  <2>7. CASE NextInQueue BY <2>7 DEF NextInQueue
  <2> QED BY <1>2, <2>1, <2>2, <2>3, <2>4, <2>5, <2>6, <2>7 DEF ProcessBlock
<1>3. CASE SetBestChain
  <2>1. CASE ExtendBest BY <2>1 DEF ExtendBest, WriteBlockIndex, Commits, SetBestDone, AfterSetBest
  <2>2. CASE Reorganize BY <2>2 DEF Reorganize, ReorganizeTo, WriteBlockIndex, Commits, SetBestDone, AfterSetBest
  <2>3. CASE ConnectSecondary BY <2>3 DEF ConnectSecondary, WriteBlockIndex, SetBestDone, AfterSetBest
  <2>4. CASE SecondaryFails BY <2>4 DEF SecondaryFails, AfterSetBest
  <2>5. CASE SetBestFails BY <2>5 DEF SetBestFails, FinishAccept, ClearMemory
  <2> QED BY <1>3, <2>1, <2>2, <2>3, <2>4, <2>5 DEF SetBestChain
<1>4. CASE PendingCheckpoint
  <2>1. CASE NoCheckpoint BY <2>1 DEF NoCheckpoint, FinishAccept
  <2>2. CASE AcceptPendingSyncCheckpoint BY <2>2 DEF AcceptPendingSyncCheckpoint
  <2>3. CASE WritePendingCheckpoint
    BY <2>3 DEF WritePendingCheckpoint, WriteSyncCheckpoint, FinishAccept, Commits
  <2>4. CASE PendingWriteFails BY <2>4 DEF PendingWriteFails, FinishAccept
  <2> QED BY <1>4, <2>1, <2>2, <2>3, <2>4 DEF PendingCheckpoint
<1>5. CASE Crash BY <1>5 DEF Crash, ClearMemory
<1>6. CASE UNCHANGED vars BY <1>6 DEF vars
<1> QED BY <1>1, <1>2, <1>3, <1>4, <1>5, <1>6 DEF Next

\* Reorganize stops at the intermediate block, and what it postpones is just the
\* rest of the way to the target.
LEMMA PostponedIsRest ==
  ASSUME NEW t \in Block, pindexBest \in Block
  PROVE  /\ Secondary(t) = Chain[t] \ Chain[Intermediate(t)]
         /\ Secondary(t) = {} => Intermediate(t) = t
<1> DEFINE a == Intermediate(t)
<1>1. a \in Chain[t] /\ a \in Block /\ Chain[t] \subseteq Block
  BY IntermediateType, TreeAssumption
<1>2. Secondary(t) = Chain[t] \ Chain[a]
  <2>1. CASE Better(t) = {}
    BY <2>1 DEF Secondary, Intermediate
  <2>2. CASE Better(t) # {}
    <3>1. a \in Better(t) /\ \A c \in Better(t) : Height[a] <= Height[c]
      <4>1. Better(t) \in SUBSET Block
        BY <1>1 DEF Better
      <4> QED BY <2>2, <4>1, LowestExists DEF Intermediate
    <3>2. ASSUME NEW c \in Better(t), c # a PROVE c \notin Chain[a]
      <4>1. c \in Chain[a] => Height[c] < Height[a]
        BY <1>1, <3>2, TrustAssumption
      <4>2. Height[a] <= Height[c] /\ Height[a] \in Nat /\ Height[c] \in Nat
        BY <1>1, <3>1, <3>2, TreeAssumption DEF Better
      <4> QED BY <4>1, <4>2
    <3>3. ASSUME NEW c \in Chain[t], c \notin Chain[a] PROVE c \in Better(t) /\ c # a
      <4>1. c \in Block /\ c # a
        BY <1>1, <3>3, ChainAssumption
      <4>2. Height[a] \in Nat /\ Height[c] \in Nat
        BY <1>1, <4>1, TreeAssumption
      <4>3. a \in Chain[c]
        BY <1>1, <3>3, <4>2, ChainAssumption
      <4>4. Trust[a] < Trust[c]
        BY <4>1, <4>3, TrustAssumption
      <4>5. Trust[a] > Trust[pindexBest]
        BY <3>1 DEF Better
      <4>6. Trust[a] \in Nat /\ Trust[c] \in Nat /\ Trust[pindexBest] \in Nat
        BY <1>1, <4>1, TreeAssumption
      <4> QED BY <4>1, <4>4, <4>5, <4>6 DEF Better
    <3>4. a \in Chain[a]
      BY <1>1, ChainAssumption
    <3> QED BY <3>2, <3>3, <3>4 DEF Secondary, Better
  <2> QED BY <2>1, <2>2
<1>3. ASSUME Chain[t] \ Chain[a] = {} PROVE a = t
  <2>1. t \in Chain[a]
    BY <1>3, ChainAssumption
  <2>2. a # t => Height[a] < Height[t] /\ Height[t] < Height[a]
    BY <1>1, <2>1, TrustAssumption
  <2>3. Height[a] \in Nat /\ Height[t] \in Nat
    BY <1>1, TreeAssumption
  <2> QED BY <2>2, <2>3
<1> QED BY <1>2, <1>3

\* The next postponed reconnect is a child of the best block on disk.
LEMMA NextPostponed ==
  ASSUME NEW t \in Block, dbBest \in Chain[t],
         vpindexSecondary = Chain[t] \ Chain[dbBest], vpindexSecondary # {}
  PROVE  LET n == NextSecondary
         IN  /\ n \in Chain[t] /\ n \in Block /\ n # Genesis /\ Parent[n] = dbBest
             /\ vpindexSecondary \ {n} = Chain[t] \ Chain[n]
             /\ vpindexSecondary = {n} => n = t
<1> DEFINE n == NextSecondary
<1>1. Chain[t] \subseteq Block /\ dbBest \in Block
  BY TreeAssumption
<1>2. n \in Chain[t] \ Chain[dbBest] /\ \A c \in vpindexSecondary : Height[n] <= Height[c]
  BY <1>1, SecondaryType
<1>3. n \in Block /\ n # Genesis
  BY <1>1, <1>2, ChainAssumption
<1> HIDE DEF n
<1>4. /\ Parent[n] \in Chain[t] /\ Parent[n] \in Block /\ Parent[n] # n
      /\ Height[n] = Height[Parent[n]] + 1 /\ Height[Parent[n]] \in Nat
  BY <1>2, <1>3, ParentOnChain
<1>5. Height[n] \in Nat /\ Height[dbBest] \in Nat
  BY <1>1, <1>3, TreeAssumption
<1>6. Parent[n] \in Chain[dbBest]
  BY <1>2, <1>4, <1>5
<1>7. Parent[n] = dbBest
  <2>1. Parent[n] # dbBest => Height[Parent[n]] < Height[dbBest]
    BY <1>1, <1>6, TrustAssumption
  <2>2. Height[n] <= Height[dbBest] => n \in Chain[dbBest]
    BY <1>2, ChainAssumption
  <2> QED BY <1>2, <1>4, <1>5, <2>1, <2>2
<1>8. Chain[n] = Chain[dbBest] \cup {n}
  BY <1>3, <1>7, ChainAssumption
<1>9. ASSUME vpindexSecondary = {n} PROVE n = t
  <2>1. t \in Chain[t] /\ (t \in Chain[dbBest] => Chain[t] \subseteq Chain[dbBest])
    BY <1>1, ChainAssumption
  <2> QED BY <1>9, <2>1
<1> QED BY <1>2, <1>3, <1>7, <1>8, <1>9 DEF n

\* What a call that connects one block leaves behind.
LEMMA ConnectOne ==
  ASSUME NEW t \in Block, Parent[t] = dbBest, dbBest \in Block, pnext = dbNext,
         dbNext = LinksTo(dbBest), dbConnected = Chain[dbBest] \ {Genesis},
         Chain[dbBest] \ {Genesis} \subseteq Valid, CanConnect(t, dbConnected)
  PROVE  /\ [dbNext EXCEPT ![t] = pnext[t], ![dbBest] = t] = LinksTo(t)
         /\ [pnext EXCEPT ![dbBest] = t] = LinksTo(t)
         /\ dbConnected \cup {t} = Chain[t] \ {Genesis}
         /\ Chain[t] \ {Genesis} \subseteq Valid
<1>1. t # Genesis
  BY TreeAssumption
<1>2. Chain[t] = Chain[dbBest] \cup {t}
  BY <1>1, ChainAssumption
<1>3. t \in Valid
  BY DEF CanConnect
<1>4. /\ LinksTo(t) = [LinksTo(dbBest) EXCEPT ![t] = LinksTo(dbBest)[t], ![dbBest] = t]
      /\ LinksTo(t) = [LinksTo(dbBest) EXCEPT ![dbBest] = t]
  BY <1>1, LinksOfChild
<1> QED BY <1>1, <1>2, <1>3, <1>4

\* What is built on a block that is not connected is never undone.
LEMMA DerailedStays == derailed /\ [Next]_vars => derailed'
<1> SUFFICES ASSUME derailed, [Next]_vars PROVE derailed'
  OBVIOUS
<1> USE DEF vars
<1>1. CASE StartUp
  <2>1. CASE Upgrade BY <2>1 DEF Upgrade
  <2>2. CASE InitGenesis BY <2>2 DEF InitGenesis
  <2>3. CASE SetBestGenesis BY <2>3 DEF SetBestGenesis
  <2>4. CASE InitSyncCheckpoint BY <2>4 DEF InitSyncCheckpoint, WriteSyncCheckpoint
  <2>5. CASE LoadFails BY <2>5 DEF LoadFails, ClearMemory
  <2>6. CASE LoadIndex BY <2>6 DEF LoadIndex
  <2>7. CASE CheckPubKey BY <2>7 DEF CheckPubKey
  <2>8. CASE ResetSyncCheckpoint BY <2>8 DEF ResetSyncCheckpoint
  <2>9. CASE ResetSyncWrite BY <2>9 DEF ResetSyncWrite, WriteSyncCheckpoint, Commits
  <2> QED BY <1>1, <2>1, <2>2, <2>3, <2>4, <2>5, <2>6, <2>7, <2>8, <2>9 DEF StartUp
<1>2. CASE ProcessBlock
  <2>1. ASSUME NEW b \in Block, HoldOrphan(b) PROVE derailed' BY <2>1 DEF HoldOrphan
  <2>2. ASSUME NEW b \in Block, AcceptNew(b) PROVE derailed' BY <2>2 DEF AcceptNew, WriteToDisk
  <2>3. ASSUME NEW b \in Block, AcceptOrphan(b) PROVE derailed'
    BY <2>3 DEF AcceptOrphan, WriteToDisk
  <2>4. ASSUME NEW b \in Block, DropOrphan(b) PROVE derailed' BY <2>4 DEF DropOrphan
  <2>5. CASE AddToBlockIndex BY <2>5 DEF AddToBlockIndex, EnterIndex, WriteBlockIndex
  <2>6. CASE IndexRefused BY <2>6 DEF IndexRefused, EnterIndex, FinishAccept
  <2>7. CASE NextInQueue BY <2>7 DEF NextInQueue
  <2> QED BY <1>2, <2>1, <2>2, <2>3, <2>4, <2>5, <2>6, <2>7 DEF ProcessBlock
<1>3. CASE SetBestChain
  <2>1. CASE ExtendBest BY <2>1 DEF ExtendBest, WriteBlockIndex, Commits, SetBestDone
  <2>2. CASE Reorganize BY <2>2 DEF Reorganize, ReorganizeTo, WriteBlockIndex, Commits, SetBestDone
  <2>3. CASE ConnectSecondary BY <2>3 DEF ConnectSecondary, WriteBlockIndex, SetBestDone
  <2>4. CASE SecondaryFails BY <2>4 DEF SecondaryFails
  <2>5. CASE SetBestFails BY <2>5 DEF SetBestFails, FinishAccept, ClearMemory
  <2> QED BY <1>3, <2>1, <2>2, <2>3, <2>4, <2>5 DEF SetBestChain
<1>4. CASE PendingCheckpoint
  <2>1. CASE NoCheckpoint BY <2>1 DEF NoCheckpoint, FinishAccept
  <2>2. CASE AcceptPendingSyncCheckpoint BY <2>2 DEF AcceptPendingSyncCheckpoint
  <2>3. CASE WritePendingCheckpoint
    BY <2>3 DEF WritePendingCheckpoint, WriteSyncCheckpoint, FinishAccept, Commits
  <2>4. CASE PendingWriteFails BY <2>4 DEF PendingWriteFails, FinishAccept
  <2> QED BY <1>4, <2>1, <2>2, <2>3, <2>4 DEF PendingCheckpoint
<1>5. CASE Crash BY <1>5 DEF Crash, ClearMemory
<1>6. CASE UNCHANGED vars BY <1>6 DEF vars
<1> QED BY <1>1, <1>2, <1>3, <1>4, <1>5, <1>6 DEF Next

\* Every commit leads from one connected chain to another.
LEMMA CoherentStep == TypeOK /\ Structure /\ Coherent /\ ~derailed' /\ [Next]_vars => Coherent'
<1> SUFFICES ASSUME TypeOK /\ Structure /\ Coherent /\ ~derailed', [Next]_vars PROVE Coherent'
  OBVIOUS
<1> USE TreeAssumption DEF TypeOK, DataType, ControlType, Structure, Coherent, Down, PCs, Callers
<1>1. CASE StartUp
  <2>1. CASE Upgrade BY <2>1 DEF Upgrade
  <2>2. CASE InitGenesis
    BY <2>2 DEF InitGenesis, Mirrored, Rooted
  <2>3. CASE SetBestGenesis
    BY <2>3, LinksOfGenesis, ChainAssumption DEF SetBestGenesis, Rooted
  <2>4. CASE InitSyncCheckpoint BY <2>4 DEF InitSyncCheckpoint, WriteSyncCheckpoint
  <2>5. CASE LoadFails BY <2>5 DEF LoadFails, ClearMemory
  <2>6. CASE LoadIndex BY <2>6 DEF LoadIndex, Mirrored
  <2>7. CASE CheckPubKey BY <2>7 DEF CheckPubKey
  <2>8. CASE ResetSyncCheckpoint BY <2>8 DEF ResetSyncCheckpoint
  <2>9. CASE ResetSyncWrite BY <2>9 DEF ResetSyncWrite, WriteSyncCheckpoint, Commits
  <2> QED BY <1>1, <2>1, <2>2, <2>3, <2>4, <2>5, <2>6, <2>7, <2>8, <2>9 DEF StartUp
<1>2. CASE ProcessBlock
  <2>1. ASSUME NEW b \in Block, HoldOrphan(b) PROVE Coherent' BY <2>1 DEF HoldOrphan
  <2>2. ASSUME NEW b \in Block, AcceptNew(b) PROVE Coherent' BY <2>2 DEF AcceptNew, WriteToDisk
  <2>3. ASSUME NEW b \in Block, AcceptOrphan(b) PROVE Coherent'
    BY <2>3 DEF AcceptOrphan, WriteToDisk
  <2>4. ASSUME NEW b \in Block, DropOrphan(b) PROVE Coherent' BY <2>4 DEF DropOrphan
  <2>5. CASE AddToBlockIndex
    <3>1. cur \in Block /\ dbBest \in Block /\ cur \notin Chain[dbBest]
      BY <2>5 DEF AddToBlockIndex, InAccept, Working, Rooted, Mirrored
    <3>2. dbNext = LinksTo(dbBest)
      BY <2>5, <3>1 DEF AddToBlockIndex
    <3>3. dbNext[cur] = NoBlock
      BY <3>1, <3>2, NoLinkOff DEF LinksTo
    <3>4. dbNext' = dbNext
      BY <2>5, <3>3 DEF AddToBlockIndex
    <3> QED BY <2>5, <3>4 DEF AddToBlockIndex, WriteBlockIndex
  <2>6. CASE IndexRefused BY <2>6 DEF IndexRefused, EnterIndex, FinishAccept
  <2>7. CASE NextInQueue BY <2>7 DEF NextInQueue
  <2> QED BY <1>2, <2>1, <2>2, <2>3, <2>4, <2>5, <2>6, <2>7 DEF ProcessBlock
<1>3. CASE SetBestChain
  <2>1. CASE ExtendBest
    <3>1. /\ target \in Block /\ dbBest \in Block /\ pindexBest = dbBest /\ Parent[target] = dbBest
          /\ ~ahead /\ ahead' = ahead
      BY <2>1 DEF ExtendBest, Commits, Rooted
    <3>2. /\ [dbNext EXCEPT ![target] = pnext[target], ![dbBest] = target] = LinksTo(target)
          /\ [pnext EXCEPT ![dbBest] = target] = LinksTo(target)
          /\ dbConnected \cup {target} = Chain[target] \ {Genesis}
          /\ Chain[target] \ {Genesis} \subseteq Valid
      BY <2>1, <3>1, ConnectOne DEF ExtendBest
    <3>3. pc' # "secondary" /\ dbBest' # NoBlock
      BY <2>1, <3>1 DEF ExtendBest, SetBestDone, AfterSetBest
    <3>4. Chain[target] \subseteq dbIndex'
      <4>1. Chain[target] = Chain[dbBest] \cup {target}
        BY <3>1, ChainAssumption
      <4> QED BY <2>1, <3>1, <4>1 DEF ExtendBest, WriteBlockIndex, RecordsOf
    <3> QED BY <2>1, <3>1, <3>2, <3>3, <3>4 DEF ExtendBest, SetBestDone
  <2>2. CASE Reorganize
    <3> DEFINE a == Intermediate(target)
    <3>1. /\ target \in Block /\ pindexBest = dbBest /\ dbBest \in Block /\ pc = "setbest"
          /\ ~ahead /\ ahead' = ahead
      BY <2>2 DEF Reorganize, ReorganizeTo, Commits, Rooted
    <3>2. a \in Chain[target] /\ a \in Block
      BY <3>1, IntermediateType
    <3>3. pnext = LinksTo(pindexBest) /\ dbNext = pnext /\ dbConnected = Chain[dbBest] \ {Genesis}
      BY <3>1
    <3>4. dbNext' = LinksTo(a) /\ pnext' = LinksTo(a) /\ dbBest' = a
      BY <2>2, <3>1, <3>2, <3>3, RelinkedIsLinks, RelinkedOnDiskIsLinks DEF Reorganize, ReorganizeTo
    <3>5. dbConnected' = Chain[a] \ {Genesis}
      <4>1. dbConnected' = (dbConnected \ (Chain[dbBest] \ Chain[a])) \cup (Chain[a] \ Chain[dbBest])
        BY <2>2, <3>1 DEF Reorganize, ReorganizeTo, vDisconnect, vConnect
      <4>2. Genesis \in Chain[dbBest]
        BY <3>1, ChainAssumption
      <4> QED BY <3>3, <4>1, <4>2
    <3>6. Chain[a] \ {Genesis} \subseteq Valid
      <4>1. Chain[a] \ Chain[dbBest] \subseteq Valid
        BY <2>2, <3>1, <3>3 DEF Reorganize, ReorganizeTo, CanReorganize, vConnect
      <4> QED BY <3>1, <4>1
    <3>7. Secondary(target) = Chain[target] \ Chain[a] /\ (Secondary(target) = {} => a = target)
      BY <3>1, PostponedIsRest
    <3>7a. Chain[a] \subseteq dbIndex'
      <4>1. Chain[a] \subseteq Chain[dbBest] \cup vConnect(a)
        BY <3>1 DEF vConnect
      <4>2. vConnect(a) \subseteq dbIndex' /\ dbIndex \subseteq dbIndex'
        BY <2>2 DEF Reorganize, ReorganizeTo, WriteBlockIndex, RecordsOf
      <4> QED BY <3>1, <4>1, <4>2
    <3>8. CASE Secondary(target) = {}
      <4>1. pindexBest' = target /\ pc' # "secondary"
        BY <2>2, <3>8 DEF Reorganize, ReorganizeTo, SetBestDone, AfterSetBest
      <4> QED BY <3>1, <3>2, <3>4, <3>5, <3>6, <3>7, <3>7a, <3>8, <4>1
    <3>9. CASE Secondary(target) # {}
      <4>1. /\ pc' = "secondary" /\ pindexBest' = pindexBest /\ target' = target
            /\ vpindexSecondary' = Secondary(target)
        BY <2>2, <3>9 DEF Reorganize, ReorganizeTo
      <4> QED BY <3>1, <3>2, <3>4, <3>5, <3>6, <3>7, <3>7a, <4>1
    <3> QED BY <3>8, <3>9
  <2>3. CASE ConnectSecondary
    <3> DEFINE n == NextSecondary
    <3>1. /\ target \in Block /\ dbBest \in Block /\ pc = "secondary" /\ dbNext = LinksTo(dbBest)
          /\ ~ahead /\ ahead' = ahead
      BY <2>3 DEF ConnectSecondary, Rooted
    <3>2. /\ n \in Chain[target] /\ n \in Block /\ n # Genesis /\ Parent[n] = dbBest
          /\ vpindexSecondary \ {n} = Chain[target] \ Chain[n]
          /\ vpindexSecondary = {n} => n = target
      BY <3>1, NextPostponed
    <3> HIDE DEF n
    <3>3. /\ [dbNext EXCEPT ![n] = pnext[n], ![dbBest] = n] = LinksTo(n)
          /\ [pnext EXCEPT ![dbBest] = n] = LinksTo(n)
          /\ dbConnected \cup {n} = Chain[n] \ {Genesis}
          /\ Chain[n] \ {Genesis} \subseteq Valid
      BY <2>3, <3>1, <3>2, ConnectOne DEF ConnectSecondary, n
    <3>4. /\ dbBest' = n /\ dbNext' = LinksTo(n) /\ pnext' = LinksTo(n)
          /\ dbConnected' = Chain[n] \ {Genesis} /\ target' = target
          /\ vpindexSecondary' = vpindexSecondary \ {n}
      BY <2>3, <3>2, <3>3 DEF ConnectSecondary, n
    <3>4a. Chain[n] \subseteq dbIndex'
      <4>1. Chain[n] = Chain[dbBest] \cup {n}
        BY <3>2, ChainAssumption
      <4>2. n \in dbIndex' /\ dbIndex \subseteq dbIndex'
        BY <2>3 DEF ConnectSecondary, WriteBlockIndex, RecordsOf, n
      <4> QED BY <3>1, <4>1, <4>2
    <3>5. CASE vpindexSecondary = {n}
      <4>1. pindexBest' = target /\ pc' # "secondary"
        BY <2>3, <3>5 DEF ConnectSecondary, SetBestDone, AfterSetBest, n
      <4> QED BY <3>1, <3>2, <3>3, <3>4, <3>4a, <3>5, <4>1
    <3>6. CASE vpindexSecondary # {n}
      <4>1. pindexBest' = pindexBest /\ pc' = pc
        BY <2>3, <3>6 DEF ConnectSecondary, n
      <4> QED BY <3>1, <3>2, <3>3, <3>4, <3>4a, <4>1
    <3> QED BY <3>5, <3>6
  <2>4. CASE SecondaryFails
    <3>1. pc' # "secondary" /\ ~Down' /\ dbBest \in Block /\ dbBest # NoBlock
      BY <2>4 DEF SecondaryFails, AfterSetBest, Rooted
    <3> QED BY <2>4, <3>1 DEF SecondaryFails
  <2>5. CASE SetBestFails BY <2>5 DEF SetBestFails, FinishAccept, ClearMemory
  <2> QED BY <1>3, <2>1, <2>2, <2>3, <2>4, <2>5 DEF SetBestChain
<1>4. CASE PendingCheckpoint
  <2>1. CASE NoCheckpoint BY <2>1 DEF NoCheckpoint, FinishAccept
  <2>2. CASE AcceptPendingSyncCheckpoint BY <2>2 DEF AcceptPendingSyncCheckpoint
  <2>3. CASE WritePendingCheckpoint
    BY <2>3 DEF WritePendingCheckpoint, WriteSyncCheckpoint, FinishAccept, Commits
  <2>4. CASE PendingWriteFails BY <2>4 DEF PendingWriteFails, FinishAccept
  <2> QED BY <1>4, <2>1, <2>2, <2>3, <2>4 DEF PendingCheckpoint
<1>5. CASE Crash BY <1>5 DEF Crash, ClearMemory
<1>6. CASE UNCHANGED vars BY <1>6 DEF vars
<1> QED BY <1>1, <1>2, <1>3, <1>4, <1>5, <1>6 DEF Next

\* The invariant holds at the first start.
LEMMA InitInv == Init => IInv
<1> SUFFICES ASSUME Init PROVE IInv
  OBVIOUS
<1>1. TypeOK
  BY InitType
<1>2. Structure
  BY DEF Init, Structure, Closed, Mirrored, Rooted, Working, RestartSucceeds, Down
<1>3. Coherent
  BY DEF Init, Coherent, Down
<1> QED BY <1>1, <1>2, <1>3 DEF IInv

\* It is kept by every step.
LEMMA InvStep == IInv /\ [Next]_vars => IInv'
<1> SUFFICES ASSUME IInv, [Next]_vars PROVE IInv'
  OBVIOUS
<1>1. TypeOK'
  BY DataStep, QueueStep, FlagStep, ControlStep DEF IInv, TypeOK
<1>2. Structure'
  BY ClosedStep, MirroredStep, RootedStep, WorkingStep, RestartStep DEF IInv, Structure
<1>3. ASSUME ~derailed' PROVE Coherent'
  <2>1. ~derailed
    BY <1>3, DerailedStays
  <2> QED BY <1>3, <2>1, CoherentStep DEF IInv
<1> QED BY <1>1, <1>2, <1>3 DEF IInv

\* So it holds always.
LEMMA Invariance == Spec => []IInv
BY InitInv, InvStep, PTL DEF Spec

\* SetBestChain is called by AddToBlockIndex only for more trust.
LEMMA TrustOfStep == TypeOK /\ Structure /\ [Next]_vars => TrustStep
<1> SUFFICES ASSUME TypeOK /\ Structure, [Next]_vars PROVE TrustStep
  OBVIOUS
<1> USE TreeAssumption DEF TypeOK, DataType, ControlType, Structure, Mirrored, Rooted, Down, PCs, TrustStep
<1>1. CASE StartUp
  <2>1. CASE Upgrade BY <2>1 DEF Upgrade
  <2>2. CASE InitGenesis BY <2>2 DEF InitGenesis
  <2>3. CASE SetBestGenesis BY <2>3 DEF SetBestGenesis
  <2>4. CASE InitSyncCheckpoint BY <2>4 DEF InitSyncCheckpoint, WriteSyncCheckpoint
  <2>5. CASE LoadFails BY <2>5 DEF LoadFails, ClearMemory
  <2>6. CASE LoadIndex BY <2>6 DEF LoadIndex
  <2>7. CASE CheckPubKey BY <2>7 DEF CheckPubKey
  <2>8. CASE ResetSyncCheckpoint BY <2>8 DEF ResetSyncCheckpoint
  <2>9. CASE ResetSyncWrite BY <2>9 DEF ResetSyncWrite, WriteSyncCheckpoint, Commits
  <2> QED BY <1>1, <2>1, <2>2, <2>3, <2>4, <2>5, <2>6, <2>7, <2>8, <2>9 DEF StartUp
<1>2. CASE ProcessBlock
  <2>1. ASSUME NEW b \in Block, HoldOrphan(b) PROVE TrustStep BY <2>1 DEF HoldOrphan
  <2>2. ASSUME NEW b \in Block, AcceptNew(b) PROVE TrustStep
    BY <2>2 DEF AcceptNew, WriteToDisk
  <2>3. ASSUME NEW b \in Block, AcceptOrphan(b) PROVE TrustStep
    BY <2>3 DEF AcceptOrphan, WriteToDisk
  <2>4. ASSUME NEW b \in Block, DropOrphan(b) PROVE TrustStep BY <2>4 DEF DropOrphan
  <2>5. CASE AddToBlockIndex BY <2>5 DEF AddToBlockIndex, EnterIndex, WriteBlockIndex
  <2>6. CASE IndexRefused BY <2>6 DEF IndexRefused, EnterIndex, FinishAccept
  <2>7. CASE NextInQueue BY <2>7 DEF NextInQueue
  <2> QED BY <1>2, <2>1, <2>2, <2>3, <2>4, <2>5, <2>6, <2>7 DEF ProcessBlock
<1>3. CASE SetBestChain
  <2>1. CASE ExtendBest
    BY <2>1 DEF ExtendBest, WriteBlockIndex, Commits, SetBestDone, Working
  <2>2. CASE Reorganize
    BY <2>2 DEF Reorganize, ReorganizeTo, WriteBlockIndex, Commits, SetBestDone, Working
  <2>3. CASE ConnectSecondary
    BY <2>3 DEF ConnectSecondary, WriteBlockIndex, SetBestDone, Working
  <2>4. CASE SecondaryFails
    BY <2>4 DEF SecondaryFails, Working
  <2>5. CASE SetBestFails BY <2>5 DEF SetBestFails, FinishAccept, ClearMemory
  <2> QED BY <1>3, <2>1, <2>2, <2>3, <2>4, <2>5 DEF SetBestChain
<1>4. CASE PendingCheckpoint
  <2>1. CASE NoCheckpoint BY <2>1 DEF NoCheckpoint, FinishAccept
  <2>2. CASE AcceptPendingSyncCheckpoint BY <2>2 DEF AcceptPendingSyncCheckpoint
  <2>3. CASE WritePendingCheckpoint
    BY <2>3 DEF WritePendingCheckpoint, WriteSyncCheckpoint, FinishAccept, Commits
  <2>4. CASE PendingWriteFails BY <2>4 DEF PendingWriteFails, FinishAccept
  <2> QED BY <1>4, <2>1, <2>2, <2>3, <2>4 DEF PendingCheckpoint
<1>5. CASE Crash BY <1>5 DEF Crash, ClearMemory
<1>6. CASE UNCHANGED vars BY <1>6 DEF vars
<1> QED BY <1>1, <1>2, <1>3, <1>4, <1>5, <1>6 DEF Next

-----------------------------------------------------------------------------
(* The best block and the sync-checkpoint.                                 *)

\* AddToBlockIndex has indexed a block of more trust and calls SetBestChain for it.
Switching == pc \in {"setbest", "secondary"} /\ why = "new"

\* On disk, whenever the process dies: no indexed block has more trust than the
\* best one, but for those passed over and the one the node is switching to.
Topped ==
    /\ dbBest = NoBlock => dbIndex \subseteq {Genesis}
    /\ dbBest # NoBlock => \A b \in dbIndex \ passedOver :
                              Trust[b] <= Trust[dbBest] \/ (Switching /\ b = target)

\* The chain of t runs through the sync-checkpoint, or the release outlaws that one.
Anchor(t) == dbSync \in Chain[t] \/ (upgraded /\ Chain[dbSync] \cap Obsolete # {})

\* Every chain SetBestChain is asked for, and every one it leaves on disk, runs
\* through the sync-checkpoint that the next start will load.
Anchored ==
    /\ dbSync \in {NoBlock, Genesis, Checkpoint}
    /\ hashPendingCheckpoint \in {NoBlock, Checkpoint}
    /\ dbSync # NoBlock => dbSync \in dbIndex /\ Anchor(dbBest)
    /\ pc \notin {"off", "failed", "gen_best", "gen_sync"} => dbSync # NoBlock
    /\ pc = "index" => Anchor(cur)
    /\ pc \in {"setbest", "secondary"} => Anchor(target)
    /\ pc \in {"setbest", "secondary"} /\ why = "pending" => target = hashPendingCheckpoint
    /\ pc = "writesync" => ahead \/ hashPendingCheckpoint \in Chain[dbBest]

\* The invariant that BestIsMostTrusted and SyncCheckpointHolds need.
LeadInv == IInv /\ (~derailed => Topped /\ Anchored)

\* Blocks linked in memory are on the best chain.
LEMMA LinkedIsOnChain ==
  ASSUME NEW b \in Block, pindexBest \in Block, pnext = LinksTo(pindexBest), IsInMainChain(b)
  PROVE  b \in Chain[pindexBest]
<1>1. CASE b = pindexBest
  BY <1>1, ChainAssumption
<1>2. CASE b # pindexBest
  <2>1. NextOn(Chain[pindexBest], b) # NoBlock
    BY <1>2 DEF IsInMainChain, LinksTo
  <2> QED BY <2>1, NoLinkOff
<1> QED BY <1>1, <1>2

\* A chain contains the chains of its members, and trust grows along it.
LEMMA AlongChain ==
  ASSUME NEW t \in Block, NEW a \in Chain[t]
  PROVE  /\ a \in Block /\ Chain[a] \subseteq Chain[t] /\ Trust[a] <= Trust[t]
         /\ Trust[a] \in Nat /\ Trust[t] \in Nat /\ Height[a] \in Nat /\ Height[t] \in Nat
<1>1. a \in Block /\ Trust[a] \in Nat /\ Trust[t] \in Nat /\ Height[a] \in Nat /\ Height[t] \in Nat
  BY TreeAssumption
<1>2. Chain[a] \subseteq Chain[t]
  BY ChainAssumption
<1>3. a # t => Trust[a] < Trust[t]
  BY TrustAssumption
<1> QED BY <1>1, <1>2, <1>3

\* A block that the best chain and the target's chain share is on the chain that
\* Reorganize commits first: a postponed reconnect never leaves it out.
LEMMA SharedIsKept ==
  ASSUME NEW t \in Block, pindexBest \in Block, NEW s \in Chain[t], s \in Chain[pindexBest]
  PROVE  s \in Chain[Intermediate(t)]
<1>1. PICK a : a = Intermediate(t)
  OBVIOUS
<1>2. CASE a = t
  BY <1>1, <1>2
<1>3. CASE a # t
  <2>1. a \in Chain[t] /\ Trust[a] > Trust[pindexBest]
    BY <1>1, <1>3, IntermediateIsBetter
  <2>2. s \in Block /\ Trust[s] <= Trust[pindexBest] /\ Trust[s] \in Nat /\ Trust[pindexBest] \in Nat
    BY AlongChain
  <2>3. a \in Block /\ Trust[a] \in Nat /\ Height[a] \in Nat /\ Height[s] \in Nat
    BY <2>1, <2>2, AlongChain, TreeAssumption
  <2>4. s \in Chain[a] \/ a \in Chain[s]
    BY <2>1, <2>3, ChainAssumption
  <2>5. a \in Chain[s] => Trust[a] <= Trust[s]
    BY <2>2, AlongChain
  <2> QED BY <1>1, <2>1, <2>2, <2>3, <2>4, <2>5
<1> QED BY <1>2, <1>3

\* The rollback of LoadBlockIndex drops the sync-checkpoint only with a block under
\* it that the new release outlaws.
LEMMA ForkKeepsAnchor ==
  ASSUME dbBest \in Block, BadBlocks # {}, dbSync \in Block, Anchor(dbBest)
  PROVE  Anchor(ForkBlock)
<1>1. BadBlocks \in SUBSET Block /\ Chain[dbBest] \subseteq Block
  BY TreeAssumption DEF BadBlocks
<1>2. PICK b \in BadBlocks : ForkBlock = Parent[b]
  BY <1>1, LowestExists DEF ForkBlock
<1>3. b \in Block /\ b # Genesis /\ b \in Chain[dbBest] /\ upgraded /\ b \in Obsolete
  BY <1>1, ValidityAssumption DEF BadBlocks, CheckBlock
<1>4. /\ Parent[b] \in Block /\ Parent[b] \in Chain[dbBest]
      /\ Height[b] = Height[Parent[b]] + 1 /\ Height[Parent[b]] \in Nat
  BY <1>3, ParentOnChain
<1>5. Height[b] \in Nat /\ Height[dbSync] \in Nat
  BY <1>3, TreeAssumption
<1>6. CASE dbSync \in Chain[dbBest]
  <2>1. dbSync \in Chain[Parent[b]] \/ b \in Chain[dbSync]
    BY <1>3, <1>4, <1>5, <1>6, ChainAssumption
  <2> QED BY <1>2, <1>3, <2>1 DEF Anchor
<1>7. CASE dbSync \notin Chain[dbBest]
  BY <1>7 DEF Anchor
<1> QED BY <1>6, <1>7

\* Reorganize and the reconnects after it never leave the sync-checkpoint.
LEMMA ReorganizeKeepsAnchor ==
  ASSUME NEW t \in Block, pindexBest \in Block, Anchor(pindexBest), Anchor(t)
  PROVE  Anchor(Intermediate(t))
BY SharedIsKept DEF Anchor

\* A record that the database lacked is one of a block that was passed over.
LEMMA WrittenWerePassed ==
  ASSUME Structure, ~Down, NEW S, S \subseteq mapBlockIndex, WriteBlockIndex(S)
  PROVE  dbIndex' \ passedOver = dbIndex \ passedOver /\ dbIndex' \subseteq mapBlockIndex
BY DEF Structure, Mirrored, WriteBlockIndex

\* A best block of more trust, part of the way to the target.
LEMMA MoreTrust ==
  ASSUME TypeOK, Structure, Topped, dbBest \in Block, pc \in {"setbest", "secondary"},
         NEW a \in Block, dbBest' = a, Trust[a] > Trust[dbBest],
         pc' = "secondary", why' = why, target' = target, passedOver' = passedOver,
         NEW S, S \subseteq mapBlockIndex, WriteBlockIndex(S)
  PROVE  Topped'
<1>1. Switching' <=> Switching
  BY DEF Switching
<1>2. Trust[a] \in Nat /\ Trust[dbBest] \in Nat /\ \A b \in dbIndex : Trust[b] \in Nat
  BY TreeAssumption DEF TypeOK, DataType
<1>3. dbIndex' \ passedOver = dbIndex \ passedOver
  BY WrittenWerePassed DEF Down
<1>4. ASSUME NEW b \in dbIndex \ passedOver PROVE Trust[b] <= Trust[a] \/ (Switching /\ b = target)
  <2>1. Trust[b] <= Trust[dbBest] \/ (Switching /\ b = target)
    BY TreeAssumption DEF Topped
  <2> QED BY <1>2, <2>1
<1> QED BY <1>1, <1>3, <1>4, TreeAssumption DEF Topped

\* SetBestChain is through: the target leads, or what it does not lead was passed over.
LEMMA ArrivedAtTarget ==
  ASSUME TypeOK, Structure, Topped, Coherent, pc \in {"setbest", "secondary"}, SetBestDone,
         ~ahead, dbBest \in Block, target \in Block, dbBest' = target,
         NEW S, S \subseteq mapBlockIndex, WriteBlockIndex(S)
  PROVE  Topped'
<1>1. Trust[target] \in Nat /\ Trust[dbBest] \in Nat /\ \A b \in mapBlockIndex : Trust[b] \in Nat
  BY TreeAssumption DEF TypeOK, DataType
<1>2. dbIndex' \ passedOver = dbIndex \ passedOver /\ dbIndex' \subseteq mapBlockIndex
  BY WrittenWerePassed DEF Down
<1>3. CASE why = "new"
  <2>1. passedOver' = passedOver /\ Trust[dbBest] <= Trust[target]
    <3>1. CASE pc = "setbest"
      BY <1>1, <1>3, <3>1 DEF SetBestDone, Structure, Working, Coherent, Down
    <3>2. CASE pc = "secondary"
      BY <1>3, <3>2, AlongChain DEF SetBestDone, Coherent
    <3> QED BY <3>1, <3>2
  <2>2. ASSUME NEW b \in dbIndex \ passedOver PROVE Trust[b] <= Trust[target]
    <3>1. Trust[b] <= Trust[dbBest] \/ b = target
      BY TreeAssumption DEF Topped
    <3>2. Trust[b] \in Nat
      BY <1>1, <1>2, <2>2 DEF WriteBlockIndex
    <3> QED BY <1>1, <2>1, <3>1, <3>2
  <2> QED BY <1>2, <2>1, <2>2, TreeAssumption DEF Topped
<1>4. CASE why # "new"
  <2>1. passedOver' = passedOver \cup {b \in mapBlockIndex : Trust[b] > Trust[target]}
    BY <1>4 DEF SetBestDone
  <2>2. ASSUME NEW b \in dbIndex' \ passedOver' PROVE Trust[b] <= Trust[target]
    BY <1>1, <1>2, <2>1, <2>2
  <2> QED BY <2>2, TreeAssumption DEF Topped
<1> QED BY <1>3, <1>4

\* The best block on disk leads, step by step.
LEMMA ToppedStep == TypeOK /\ Structure /\ Coherent /\ Topped /\ ~derailed' /\ [Next]_vars => Topped'
<1> SUFFICES ASSUME TypeOK /\ Structure /\ Coherent /\ Topped /\ ~derailed', [Next]_vars PROVE Topped'
  OBVIOUS
<1> USE TreeAssumption DEF TypeOK, DataType, ControlType, Structure, Topped, Switching, Down, PCs, Callers
<1>1. CASE StartUp
  <2>1. CASE Upgrade BY <2>1 DEF Upgrade
  <2>2. CASE InitGenesis BY <2>2 DEF InitGenesis, Rooted
  <2>3. CASE SetBestGenesis
    <3>1. dbIndex \subseteq {Genesis} /\ Trust[Genesis] \in Nat
      BY <2>3 DEF SetBestGenesis, Rooted
    <3>2. Trust[Genesis] <= Trust[Genesis]
      BY <3>1
    <3> QED BY <2>3, <3>1, <3>2 DEF SetBestGenesis
  <2>4. CASE InitSyncCheckpoint BY <2>4 DEF InitSyncCheckpoint, WriteSyncCheckpoint
  <2>5. CASE LoadFails BY <2>5 DEF LoadFails, ClearMemory
  <2>6. CASE LoadIndex BY <2>6 DEF LoadIndex
  <2>7. CASE CheckPubKey BY <2>7 DEF CheckPubKey
  <2>8. CASE ResetSyncCheckpoint BY <2>8 DEF ResetSyncCheckpoint
  <2>9. CASE ResetSyncWrite BY <2>9 DEF ResetSyncWrite, WriteSyncCheckpoint, Commits
  <2> QED BY <1>1, <2>1, <2>2, <2>3, <2>4, <2>5, <2>6, <2>7, <2>8, <2>9 DEF StartUp
<1>2. CASE ProcessBlock
  <2>1. ASSUME NEW b \in Block, HoldOrphan(b) PROVE Topped' BY <2>1 DEF HoldOrphan
  <2>2. ASSUME NEW b \in Block, AcceptNew(b) PROVE Topped' BY <2>2 DEF AcceptNew, WriteToDisk
  <2>3. ASSUME NEW b \in Block, AcceptOrphan(b) PROVE Topped' BY <2>3 DEF AcceptOrphan, WriteToDisk
  <2>4. ASSUME NEW b \in Block, DropOrphan(b) PROVE Topped' BY <2>4 DEF DropOrphan
  <2>5. CASE AddToBlockIndex
    <3>1. /\ cur \in Block /\ dbBest \in Block /\ (~ahead => pindexBest = dbBest)
          /\ Trust[cur] \in Nat /\ Trust[dbBest] \in Nat
      BY <2>5 DEF AddToBlockIndex, InAccept, Rooted, Coherent
    <3>1a. dbIndex' = dbIndex \cup {cur} /\ dbBest' = dbBest
      BY <2>5 DEF AddToBlockIndex, WriteBlockIndex
    <3>2. CASE IsNewBest(cur)
      <4>1. Switching' /\ target' = cur
        BY <2>5, <3>2 DEF AddToBlockIndex
      <4> QED BY <2>5, <3>1, <3>1a, <3>2, <4>1 DEF AddToBlockIndex
    <3>3. CASE ~IsNewBest(cur)
      <4>1. Trust[cur] <= Trust[dbBest] \/ cur \in passedOver'
        BY <2>5, <3>1, <3>3 DEF IsNewBest, AddToBlockIndex
      <4>2. passedOver \subseteq passedOver' /\ ~Switching
        BY <2>5 DEF AddToBlockIndex
      <4> QED BY <3>1, <3>1a, <4>1, <4>2
    <3> QED BY <3>2, <3>3
  <2>6. CASE IndexRefused BY <2>6 DEF IndexRefused, EnterIndex, FinishAccept
  <2>7. CASE NextInQueue BY <2>7 DEF NextInQueue
  <2> QED BY <1>2, <2>1, <2>2, <2>3, <2>4, <2>5, <2>6, <2>7 DEF ProcessBlock
<1>3. CASE SetBestChain
  <2>1. CASE ExtendBest
    <3>1. /\ target \in Block /\ dbBest \in Block /\ pc = "setbest"
          /\ ~ahead /\ dbBest' = target /\ SetBestDone
      BY <2>1 DEF ExtendBest, Commits, Rooted
    <3>2. PICK S : S \subseteq mapBlockIndex /\ WriteBlockIndex(S)
      BY <2>1, RecordsKnown DEF ExtendBest
    <3> QED BY <3>1, <3>2, ArrivedAtTarget
  <2>2. CASE Reorganize
    <3>1. /\ target \in Block /\ dbBest \in Block /\ pindexBest = dbBest /\ pc = "setbest"
          /\ ~ahead /\ dbBest' = Intermediate(target)
      BY <2>2 DEF Reorganize, ReorganizeTo, Commits, Rooted, Coherent
    <3>1a. PICK S : S \subseteq mapBlockIndex /\ WriteBlockIndex(S)
      BY <2>2, RecordsKnown DEF Reorganize, ReorganizeTo
    <3>2. CASE Secondary(target) = {}
      <4>1. SetBestDone /\ dbBest' = target
        BY <2>2, <3>1, <3>2, PostponedIsRest DEF Reorganize, ReorganizeTo
      <4> QED BY <3>1, <3>1a, <4>1, ArrivedAtTarget
    <3>3. CASE Secondary(target) # {}
      <4>1. PICK a : a = Intermediate(target)
        OBVIOUS
      <4>2. a \in Chain[target] /\ Trust[a] > Trust[dbBest]
        BY <3>1, <3>3, <4>1, IntermediateIsBetter DEF Secondary
      <4>3. /\ a \in Block /\ dbBest' = a /\ passedOver' = passedOver
            /\ pc' = "secondary" /\ why' = why /\ target' = target
        BY <2>2, <3>1, <3>3, <4>1, <4>2 DEF Reorganize, ReorganizeTo
      <4> QED BY <3>1, <3>1a, <4>2, <4>3, MoreTrust
    <3> QED BY <3>2, <3>3
  <2>3. CASE ConnectSecondary
    <3>1. PICK n : n = NextSecondary
      OBVIOUS
    <3>2. /\ target \in Block /\ dbBest \in Block /\ pc = "secondary"
          /\ ~ahead /\ dbBest' = n
      BY <2>3, <3>1 DEF ConnectSecondary, Rooted, Coherent
    <3>2a. PICK S : S \subseteq mapBlockIndex /\ WriteBlockIndex(S)
      BY <2>3, RecordsKnown DEF ConnectSecondary
    <3>3. n \in Block /\ Parent[n] = dbBest /\ (vpindexSecondary = {n} => n = target)
      BY <3>1, <3>2, NextPostponed DEF Coherent
    <3>4. CASE vpindexSecondary = {n}
      <4>1. SetBestDone /\ dbBest' = target
        BY <2>3, <3>1, <3>2, <3>3, <3>4 DEF ConnectSecondary
      <4> QED BY <3>2, <3>2a, <4>1, ArrivedAtTarget
    <3>5. CASE vpindexSecondary # {n}
      <4>1. passedOver' = passedOver /\ pc' = "secondary" /\ why' = why /\ target' = target
        BY <2>3, <3>1, <3>2, <3>5 DEF ConnectSecondary
      <4>2. n # Genesis /\ n \in Chain[n]
        BY <3>2, <3>3, ChainAssumption
      <4>3. dbBest \in Chain[n] /\ dbBest # n
        BY <3>3, <4>2, ParentOnChain
      <4>4. Trust[n] > Trust[dbBest]
        BY <3>2, <3>3, <4>3, TrustAssumption
      <4> QED BY <3>2, <3>2a, <3>3, <4>1, <4>4, MoreTrust
    <3> QED BY <3>4, <3>5
  <2>4. CASE SecondaryFails
    <3>1. /\ pc = "secondary" /\ target \in Block /\ dbBest \in Block
          /\ passedOver' = passedOver \cup vpindexSecondary /\ vpindexSecondary # {}
          /\ vpindexSecondary = Chain[target] \ Chain[dbBest]
      BY <2>4 DEF SecondaryFails, Rooted, Coherent
    <3>2. target \in passedOver'
      <4>1. target \in Chain[target] /\ (target \in Chain[dbBest] => Chain[target] \subseteq Chain[dbBest])
        BY <3>1, ChainAssumption
      <4> QED BY <3>1, <4>1
    <3>3. dbIndex' = dbIndex /\ dbBest' = dbBest
      BY <2>4 DEF SecondaryFails
    <3> QED BY <3>1, <3>2, <3>3
  <2>5. CASE SetBestFails BY <2>5 DEF SetBestFails, FinishAccept, ClearMemory
  <2> QED BY <1>3, <2>1, <2>2, <2>3, <2>4, <2>5 DEF SetBestChain
<1>4. CASE PendingCheckpoint
  <2>1. CASE NoCheckpoint BY <2>1 DEF NoCheckpoint, FinishAccept
  <2>2. CASE AcceptPendingSyncCheckpoint BY <2>2 DEF AcceptPendingSyncCheckpoint
  <2>3. CASE WritePendingCheckpoint
    BY <2>3 DEF WritePendingCheckpoint, WriteSyncCheckpoint, FinishAccept, Commits
  <2>4. CASE PendingWriteFails BY <2>4 DEF PendingWriteFails, FinishAccept
  <2> QED BY <1>4, <2>1, <2>2, <2>3, <2>4 DEF PendingCheckpoint
<1>5. CASE Crash BY <1>5 DEF Crash, ClearMemory
<1>6. CASE UNCHANGED vars BY <1>6 DEF vars
<1> QED BY <1>1, <1>2, <1>3, <1>4, <1>5, <1>6 DEF Next

\* CheckSync lets through only blocks above the sync-checkpoint.
LEMMA CheckedIsAnchored ==
  ASSUME TypeOK, Structure, Anchored, pc \in {"idle", "orphans"}, NEW b \in Block, AcceptChecks(b)
  PROVE  Anchor(b)
<1>1. dbSync \in mapBlockIndex /\ hashSyncCheckpoint = dbSync /\ dbSync \in Block
  BY DEF TypeOK, DataType, Structure, Mirrored, Down, Anchored
<1>2. b \notin mapBlockIndex /\ Parent[b] \in mapBlockIndex /\ CheckSync(b)
  BY DEF AcceptChecks
<1>3. Height[b] \in Nat /\ Height[dbSync] \in Nat
  BY <1>1, TreeAssumption
<1>4. b # dbSync /\ ~(Height[b] < Height[dbSync])
  BY <1>1, <1>2 DEF CheckSync
<1>5. dbSync \in Chain[Parent[b]]
  BY <1>1, <1>2, <1>3, <1>4 DEF CheckSync
<1>6. b # Genesis
  BY <1>2, TreeAssumption DEF TypeOK, DataType
<1> QED BY <1>5, <1>6, ChainAssumption DEF Anchor

\* No commit leaves the best chain off the sync-checkpoint.
LEMMA AnchoredStep == TypeOK /\ Structure /\ Coherent /\ Anchored /\ ~derailed' /\ [Next]_vars => Anchored'
<1> SUFFICES ASSUME TypeOK /\ Structure /\ Coherent /\ Anchored /\ ~derailed', [Next]_vars PROVE Anchored'
  OBVIOUS
<1> USE TreeAssumption DEF TypeOK, DataType, FlagType, ControlType, Structure, Anchored, Anchor, Down, PCs, Callers
<1>1. CASE StartUp
  <2>1. CASE Upgrade BY <2>1 DEF Upgrade
  <2>2. CASE InitGenesis BY <2>2 DEF InitGenesis
  <2>3. CASE SetBestGenesis BY <2>3 DEF SetBestGenesis, Rooted
  <2>4. CASE InitSyncCheckpoint
    <3>1. dbBest \in Block /\ Genesis \in Chain[dbBest] /\ dbBest \in dbIndex
      BY <2>4, ChainAssumption DEF InitSyncCheckpoint, Rooted
    <3>2. Genesis \in dbIndex
      BY <3>1 DEF Coherent
    <3> QED BY <2>4, <3>1, <3>2 DEF InitSyncCheckpoint, WriteSyncCheckpoint
  <2>5. CASE LoadFails BY <2>5 DEF LoadFails, ClearMemory
  <2>6. CASE LoadIndex
    <3>1. BadBlocks # {} => Anchor(ForkBlock)
      BY <2>6, ForkKeepsAnchor DEF LoadIndex, Loadable
    <3> QED BY <2>6, <3>1 DEF LoadIndex, Loadable
  <2>7. CASE CheckPubKey BY <2>7 DEF CheckPubKey
  <2>8. CASE ResetSyncCheckpoint
    <3>1. Anchor(Checkpoint)
      BY <2>8, ChainAssumption, ValidityAssumption DEF ResetSyncCheckpoint
    <3> QED BY <2>8, <3>1 DEF ResetSyncCheckpoint
  <2>9. CASE ResetSyncWrite
    <3>1. /\ dbBest \in Block /\ dbBest \in dbIndex /\ pindexBest = dbBest
          /\ pnext = LinksTo(dbBest) /\ Chain[dbBest] \subseteq dbIndex
      BY <2>9 DEF ResetSyncWrite, Commits, Rooted, Coherent
    <3>2. Genesis \in Chain[dbBest] /\ Genesis \in dbIndex
      BY <3>1, ChainAssumption
    <3>3. Checkpoint \in mapBlockIndex /\ IsInMainChain(Checkpoint) => Checkpoint \in Chain[dbBest]
      BY <3>1, LinkedIsOnChain
    <3> QED BY <2>9, <3>1, <3>2, <3>3 DEF ResetSyncWrite, WriteSyncCheckpoint
  <2> QED BY <1>1, <2>1, <2>2, <2>3, <2>4, <2>5, <2>6, <2>7, <2>8, <2>9 DEF StartUp
<1>2. CASE ProcessBlock
  <2>1. ASSUME NEW b \in Block, HoldOrphan(b) PROVE Anchored' BY <2>1 DEF HoldOrphan
  <2>2. ASSUME NEW b \in Block, AcceptNew(b) PROVE Anchored'
    <3>1. Anchor(b)
      BY <2>2, CheckedIsAnchored DEF AcceptNew
    <3> QED BY <2>2, <3>1 DEF AcceptNew, WriteToDisk
  <2>3. ASSUME NEW b \in Block, AcceptOrphan(b) PROVE Anchored'
    <3>1. Anchor(b)
      BY <2>3, CheckedIsAnchored DEF AcceptOrphan
    <3> QED BY <2>3, <3>1 DEF AcceptOrphan, WriteToDisk
  <2>4. ASSUME NEW b \in Block, DropOrphan(b) PROVE Anchored' BY <2>4 DEF DropOrphan
  <2>5. CASE AddToBlockIndex BY <2>5 DEF AddToBlockIndex, WriteBlockIndex
  <2>6. CASE IndexRefused BY <2>6 DEF IndexRefused, EnterIndex, FinishAccept
  <2>7. CASE NextInQueue BY <2>7 DEF NextInQueue
  <2> QED BY <1>2, <2>1, <2>2, <2>3, <2>4, <2>5, <2>6, <2>7 DEF ProcessBlock
<1>3. CASE SetBestChain
  <2>1. CASE ExtendBest
    <3>1. /\ target \in Block /\ target \in Chain[target]
          /\ dbSync' = dbSync /\ dbIndex \subseteq dbIndex'
      BY <2>1, ChainAssumption DEF ExtendBest, WriteBlockIndex
    <3> QED BY <2>1, <3>1 DEF ExtendBest, SetBestDone, AfterSetBest
  <2>2. CASE Reorganize
    <3>1. /\ target \in Block /\ target \in Chain[target]
          /\ pindexBest \in Block /\ pindexBest = dbBest
          /\ dbSync' = dbSync /\ dbIndex \subseteq dbIndex'
      BY <2>2, ChainAssumption DEF Reorganize, ReorganizeTo, Commits, WriteBlockIndex, Rooted, Coherent
    <3>2. Anchor(Intermediate(target))
      BY <2>2, <3>1, ReorganizeKeepsAnchor DEF Reorganize, ReorganizeTo
    <3>3. Secondary(target) = {} => Intermediate(target) = target
      BY <3>1, PostponedIsRest
    <3> QED BY <2>2, <3>1, <3>2, <3>3 DEF Reorganize, ReorganizeTo, SetBestDone, AfterSetBest
  <2>3. CASE ConnectSecondary
    <3>1. PICK n : n = NextSecondary
      OBVIOUS
    <3>2. target \in Block /\ target \in Chain[target] /\ dbBest \in Block /\ pc = "secondary"
      BY <2>3, ChainAssumption DEF ConnectSecondary, Rooted
    <3>3. n \in Block /\ n # Genesis /\ Parent[n] = dbBest /\ (vpindexSecondary = {n} => n = target)
      BY <3>1, <3>2, NextPostponed DEF Coherent
    <3>4. Chain[n] = Chain[dbBest] \cup {n}
      BY <3>3, ChainAssumption
    <3>5. /\ dbBest' = n /\ target' = target /\ why' = why /\ dbSync' = dbSync /\ dbIndex \subseteq dbIndex'
          /\ hashPendingCheckpoint' = hashPendingCheckpoint /\ upgraded' = upgraded
      BY <2>3, <3>1 DEF ConnectSecondary, WriteBlockIndex
    <3>6. Anchor(n)
      BY <3>2, <3>4
    <3>7. pc' = "secondary" \/ (n = target /\ pc' = AfterSetBest)
      BY <2>3, <3>1, <3>2, <3>3 DEF ConnectSecondary, SetBestDone
    <3> QED BY <3>2, <3>5, <3>6, <3>7 DEF AfterSetBest
  <2>4. CASE SecondaryFails BY <2>4 DEF SecondaryFails, AfterSetBest
  <2>5. CASE SetBestFails BY SMTT(30), <2>5 DEF SetBestFails, FinishAccept, ClearMemory
  <2> QED BY <1>3, <2>1, <2>2, <2>3, <2>4, <2>5 DEF SetBestChain
<1>4. CASE PendingCheckpoint
  <2>1. CASE NoCheckpoint BY <2>1 DEF NoCheckpoint, FinishAccept
  <2>2. CASE AcceptPendingSyncCheckpoint
    <3>1. /\ dbBest \in Block /\ (~ahead => pindexBest = dbBest) /\ pnext = LinksTo(dbBest)
          /\ hashPendingCheckpoint \in Block /\ hashSyncCheckpoint = dbSync
      BY <2>2 DEF AcceptPendingSyncCheckpoint, PendingArrived, Rooted, Coherent, Mirrored
    <3>2. IsInMainChain(hashPendingCheckpoint) => ahead \/ hashPendingCheckpoint \in Chain[dbBest]
      BY <3>1, LinkedIsOnChain
    <3>3. Anchor(hashPendingCheckpoint)
      BY <2>2, <3>1 DEF AcceptPendingSyncCheckpoint, ValidateSyncCheckpoint
    <3> QED BY <2>2, <3>2, <3>3 DEF AcceptPendingSyncCheckpoint
  <2>3. CASE WritePendingCheckpoint
    <3>1. dbBest \in dbIndex /\ hashPendingCheckpoint \in Chain[dbBest] /\ hashPendingCheckpoint \in Block
      BY <2>3 DEF WritePendingCheckpoint, Commits, Rooted
    <3>2. hashPendingCheckpoint \in dbIndex
      BY <3>1 DEF Coherent
    <3> QED BY <2>3, <3>1, <3>2 DEF WritePendingCheckpoint, WriteSyncCheckpoint, FinishAccept, Commits
  <2>4. CASE PendingWriteFails BY <2>4 DEF PendingWriteFails, FinishAccept
  <2> QED BY <1>4, <2>1, <2>2, <2>3, <2>4 DEF PendingCheckpoint
<1>5. CASE Crash BY <1>5 DEF Crash, ClearMemory
<1>6. CASE UNCHANGED vars BY <1>6 DEF vars
<1> QED BY <1>1, <1>2, <1>3, <1>4, <1>5, <1>6 DEF Next

\* Both hold at the first start and are kept by every step.
LEMMA LeadInvariance == Spec => []LeadInv
<1>1. Init => LeadInv
  <2> SUFFICES ASSUME Init PROVE LeadInv
    OBVIOUS
  <2>1. IInv
    BY InitInv
  <2>2. Topped /\ Anchored
    BY TreeAssumption DEF Init, Topped, Anchored, Switching
  <2> QED BY <2>1, <2>2 DEF LeadInv
<1>2. LeadInv /\ [Next]_vars => LeadInv'
  <2> SUFFICES ASSUME LeadInv, [Next]_vars PROVE LeadInv'
    OBVIOUS
  <2>1. IInv'
    BY InvStep DEF LeadInv
  <2>2. ASSUME ~derailed' PROVE Topped' /\ Anchored'
    <3>1. ~derailed
      BY <2>2, DerailedStays
    <3>2. TypeOK /\ Structure /\ Coherent /\ Topped /\ Anchored
      BY <3>1 DEF LeadInv, IInv
    <3> QED BY <2>2, <3>2, ToppedStep, AnchoredStep
  <2> QED BY <2>1, <2>2 DEF LeadInv
<1> QED BY <1>1, <1>2, PTL DEF Spec

-----------------------------------------------------------------------------
(* The theorems.                                                           *)

\* Whatever the tree of blocks and whenever the process dies, what is on disk
\* describes one connected chain: the commits of ConnectBlock, DisconnectBlock,
\* Reorganize and AddToBlockIndex leave no other state behind.
THEOREM DiskStaysConsistent == Spec => []DiskConsistent
<1>1. IInv => DiskConsistent
  BY TreeAssumption DEF IInv, TypeOK, DataType, Structure, Closed, Rooted, Coherent, DiskConsistent
<1> QED BY <1>1, Invariance, PTL

\* Between two calls of ProcessBlock memory and disk agree on the forward links, the
\* sync-checkpoint and the index, but for blocks whose record LevelDB refused, and on
\* the best block, but for one whose postponed reconnect failed.
THEOREM MemoryStaysInStep == Spec => []MemoryMatchesDisk
<1>1. IInv => MemoryMatchesDisk
  BY TreeAssumption
     DEF IInv, TypeOK, DataType, Structure, Mirrored, Rooted, Coherent, Down, MemoryMatchesDisk
<1> QED BY <1>1, Invariance, PTL

\* The node never builds on a block that ConnectBlock rejects, through any sequence
\* of extensions, reorganisations, refused writes and restarts.
THEOREM BestChainStaysValid == Spec => []BestChainIsValid
<1>1. IInv => BestChainIsValid
  <2> SUFFICES ASSUME IInv, ~derailed, pindexBest # NoBlock
               PROVE  /\ Chain[pindexBest] \subseteq mapBlockIndex
                      /\ ~ahead => Chain[pindexBest] \ {Genesis} \subseteq Valid
                      /\ Chain[dbBest] \ {Genesis} \subseteq Valid
    BY DEF BestChainIsValid
  <2>1. ~Down /\ pc # "gen_best"
    BY DEF IInv, Structure, Mirrored, Rooted, Down
  <2>2. Chain[pindexBest] \subseteq mapBlockIndex
    BY <2>1 DEF IInv, Structure, Closed, Rooted
  <2>3. /\ ~ahead => Chain[pindexBest] \ {Genesis} \subseteq Valid
        /\ Chain[dbBest] \ {Genesis} \subseteq Valid
    BY <2>1 DEF IInv, Structure, Rooted, Coherent
  <2> QED BY <2>2, <2>3
<1> QED BY <1>1, Invariance, PTL

\* Every pprev walk ends at genesis: memory never holds a block without its
\* ancestors, and the one that a record of the database can lack is a block whose own
\* record LevelDB refused.
THEOREM IndexStaysClosed == Spec => []IndexClosed
<1>1. IInv => IndexClosed
  BY DEF IInv, Structure, Closed, IndexClosed
<1> QED BY <1>1, Invariance, PTL

\* LoadBlockIndex never meets a database it refuses, once the first start has
\* written its sync-checkpoint: no crash leaves one behind, and of the failed writes
\* only that of an index record whose block then gets a child.
THEOREM RestartAlwaysSucceeds == Spec => []RestartSucceeds
<1>1. IInv => RestartSucceeds
  BY DEF IInv, Structure
<1> QED BY <1>1, Invariance, PTL

\* A new block replaces the best one only by one of more trust.
THEOREM TrustAlwaysGrows == Spec => TrustGrows
<1>1. IInv /\ [Next]_vars => [TrustStep]_vars
  BY TrustOfStep DEF IInv
<1> QED BY <1>1, Invariance, PTL DEF Spec, TrustGrows

\* SetBestChain follows the most trusted chain: between two calls no indexed block
\* whose chain connects has more trust than the best one, but for the blocks that a
\* crash, a failure, a checkpoint or a rollback made it pass over.
THEOREM BestStaysMostTrusted == Spec => []BestIsMostTrusted
<1>1. LeadInv => BestIsMostTrusted
  <2> SUFFICES ASSUME LeadInv, ~derailed, pc = "idle", NEW b \in mapBlockIndex \ passedOver
               PROVE  Trust[b] <= Trust[pindexBest]
    BY DEF BestIsMostTrusted
  <2>1. ~Down /\ pc # "secondary" /\ pc # "gen_best" /\ ~Switching
    BY DEF Down, Switching
  <2>2. /\ b \in dbIndex /\ dbBest # NoBlock /\ pindexBest \in mapBlockIndex
        /\ dbBest \in Chain[pindexBest]
    BY <2>1, ChainAssumption
       DEF LeadInv, IInv, TypeOK, DataType, Structure, Mirrored, Rooted, Coherent
  <2>3. Trust[b] <= Trust[dbBest]
    BY <2>1, <2>2 DEF LeadInv, Topped
  <2>4. b \in Block /\ pindexBest \in Block
    BY <2>2 DEF LeadInv, IInv, TypeOK, DataType
  <2>5. Trust[b] \in Nat /\ Trust[dbBest] \in Nat /\ Trust[pindexBest] \in Nat
    BY <2>2, <2>4, TreeAssumption, AlongChain
  <2>6. Trust[dbBest] <= Trust[pindexBest]
    BY <2>2, <2>4, AlongChain
  <2> QED BY <2>3, <2>5, <2>6
<1> QED BY <1>1, LeadInvariance, PTL

\* The assertion of CheckSync never fires and the node never leaves the chain of its
\* sync-checkpoint, through any reorganisation, crash between two commits of one, or
\* restart, unless a new release outlaws a block under it.
THEOREM SyncCheckpointAlwaysHolds == Spec => []SyncCheckpointHolds
<1>1. LeadInv => SyncCheckpointHolds
  <2> SUFFICES ASSUME LeadInv, ~derailed, pc = "idle"
               PROVE  /\ hashSyncCheckpoint \in mapBlockIndex
                      /\ \/ hashSyncCheckpoint \in Chain[pindexBest]
                         \/ upgraded /\ Chain[hashSyncCheckpoint] \cap Obsolete # {}
    BY DEF SyncCheckpointHolds
  <2>1. ~Down /\ pc # "secondary" /\ pc # "gen_best"
    BY DEF Down
  <2>2. /\ dbIndex \subseteq mapBlockIndex /\ hashSyncCheckpoint = dbSync
        /\ pindexBest \in Block /\ dbBest \in Chain[pindexBest]
    BY <2>1, ChainAssumption
       DEF LeadInv, IInv, TypeOK, DataType, Structure, Mirrored, Rooted, Coherent
  <2>3. dbSync \in dbIndex /\ Anchor(dbBest)
    BY DEF LeadInv, Anchored
  <2>4. Chain[dbBest] \subseteq Chain[pindexBest]
    BY <2>2, ChainAssumption
  <2> QED BY <2>2, <2>3, <2>4 DEF Anchor
<1> QED BY <1>1, LeadInvariance, PTL
=============================================================================
