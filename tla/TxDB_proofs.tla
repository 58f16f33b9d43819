---------------------------- MODULE TxDB_proofs ----------------------------
(***************************************************************************)
(* Proofs about CTxDB, for any keys, values and handles: type correctness, *)
(* and that scanning an ordered batch and applying it at the commit        *)
(* implements the atomic store the callers rely on.                        *)
(***************************************************************************)
EXTENDS TxDB, TLAPS

-----------------------------------------------------------------------------
(* What a scan of a batch finds.                                           *)

\* A scan yields a stored value, a delete, or nothing.
LEMMA ScanBatchType ==
    ASSUME NEW b \in Seq(Op), NEW k
    PROVE  ScanBatch(b, k) \in Stored \cup {Untouched}
<1>1. \A i \in LastMention(b, k) : b[i] \in Op
  BY DEF LastMention, Mentions
<1>2. \A i \in LastMention(b, k) : b[i].val \in Stored
  BY <1>1 DEF Op
<1> QED BY <1>2 DEF ScanBatch

\* An empty batch (new leveldb::WriteBatch()) mentions no key.
LEMMA ScanEmptyBatch ==
    ASSUME NEW k
    PROVE  ScanBatch(<<>>, k) = Untouched
BY DEF ScanBatch, LastMention, Mentions

\* Appending a put or a delete changes the answer for its key to the new entry
\* and leaves the answer for every other key alone.
LEMMA ScanAppend ==
    ASSUME NEW b \in Seq(Op), NEW op \in Op, NEW k
    PROVE  ScanBatch(Append(b, op), k) = IF k = op.key THEN op.val ELSE ScanBatch(b, k)
<1> DEFINE c == Append(b, op)
<1>0. /\ c \in Seq(Op) /\ Len(c) = Len(b) + 1 /\ Len(b) \in Nat
      /\ c[Len(b) + 1] = op
      /\ \A i \in 1..Len(b) : c[i] = b[i]
  OBVIOUS
<1>1. CASE k = op.key
  <2>1. LastMention(c, k) = {Len(b) + 1}
    BY <1>0, <1>1 DEF LastMention, Mentions
  <2>2. (CHOOSE i \in LastMention(c, k) : TRUE) = Len(b) + 1
    BY <2>1
  <2> QED BY <1>0, <1>1, <2>1, <2>2 DEF ScanBatch
<1>2. CASE k # op.key
  <2>1. Mentions(c, k) = Mentions(b, k)
    BY <1>0, <1>2 DEF Mentions
  <2>2. LastMention(c, k) = LastMention(b, k)
    BY <2>1 DEF LastMention
  <2>3. LastMention(b, k) \subseteq 1..Len(b)
    BY DEF LastMention, Mentions
  <2> HIDE DEF c
  <2>4. CASE LastMention(b, k) = {}
    BY <1>2, <2>2, <2>4 DEF ScanBatch, c
  <2>5. CASE LastMention(b, k) # {}
    <3>1. PICK i \in LastMention(b, k) : i = (CHOOSE j \in LastMention(b, k) : TRUE)
      BY <2>5
    <3>2. c[i] = b[i]
      BY <1>0, <2>3, <3>1
    <3> QED BY <1>2, <2>2, <2>5, <3>1, <3>2 DEF ScanBatch, c
  <2> QED BY <2>4, <2>5
<1> QED BY <1>1, <1>2

-----------------------------------------------------------------------------
(* Type correctness.                                                       *)

\* Every handle's batch is a sequence of puts and deletes, only existing handles
\* have one, and the database maps keys to values, whatever calls are made.
THEOREM TypeCorrect == Spec => []TypeOK
<1> DEFINE Answers == [op : CallNames, by : Handle \cup {NotFound},
                       key : Key \cup {NotFound}, val : Stored]
<1> DEFINE Probes == [exists : BOOLEAN, read : Stored,
                     batch : Stored \cup {Untouched}, failed : BOOLEAN]
<1>0. NoCall \in Answers /\ NoProbe \in Probes /\ <<>> \in Seq(Op)
  BY DEF NoCall, Call, CallNames, NoProbe, Stored
<1>C. ASSUME NEW op \in CallNames, NEW h \in Handle, NEW k \in Key \cup {NotFound}, NEW v \in Stored
      PROVE  Call(op, h, k, v) \in Answers
  BY DEF Call
<1>1. Init => TypeOK
  <2> SUFFICES ASSUME Init PROVE TypeOK
    OBVIOUS
  <2>1. ret \in Answers /\ found \in Probes
    BY <1>0 DEF Init
  <2> HIDE DEF Answers, Probes
  <2>2. pdb \in [Key -> Stored] /\ txdb \in BOOLEAN /\ live = {} /\ batching = {}
    BY DEF Init
  <2>3. fReadOnly \in [Handle -> BOOLEAN] /\ activeBatch \in [Handle -> Seq(Op)]
    BY <1>0 DEF Init
  <2> QED BY <2>1, <2>2, <2>3 DEF TypeOK, Answers, Probes
<1>2. TypeOK /\ [Next]_vars => TypeOK'
  <2> SUFFICES ASSUME TypeOK, [Next]_vars PROVE TypeOK'
    OBVIOUS
  <2> USE <1>0 DEF TypeOK
  <2>C. ASSUME NEW op \in CallNames, NEW h \in Handle, NEW k \in Key \cup {NotFound},
               NEW v \in Stored, Returns(Call(op, h, k, v))
        PROVE  ret' \in Answers /\ found' \in Probes
    BY <1>C, <2>C DEF Returns
  <2>N. ASSUME Returns(NoCall)
        PROVE  ret' \in Answers /\ found' \in Probes
    BY <2>N DEF Returns
  <2>S. NotFound \in Stored
    BY DEF Stored
  <2>0. \A h \in Handle, k \in Key : ScanBatch(activeBatch[h], k) \in Stored \cup {Untouched}
    BY ScanBatchType
  <2>1. CASE Crash
    BY <2>1, <2>N DEF Crash
  <2>2. ASSUME NEW h \in Handle, OpenFirst(h) PROVE TypeOK'
    <3>0. DatabaseVersion \in Stored /\ NotFound \in Stored
      BY VersionAssumption DEF Stored
    <3>1. pdb' \in [Key -> Stored]
      BY <2>2, <3>0, KeyAssumption DEF OpenFirst
    <3> QED BY <2>2, <2>N, <3>1 DEF OpenFirst
  <2>3. ASSUME NEW h \in Handle, NEW r \in BOOLEAN, OpenHandle(h, r) PROVE TypeOK'
    BY <2>3, <2>N DEF OpenHandle
  <2>4. ASSUME NEW h \in Handle, Destroy(h) PROVE TypeOK'
    <3>1. ret' \in Answers /\ found' \in Probes
      BY <2>4, <2>C, <2>S DEF Destroy, CallNames
    <3> QED BY <2>4, <3>1 DEF Destroy
  <2>5. ASSUME NEW h \in Handle, TxnBegin(h) PROVE TypeOK'
    <3>1. ret' \in Answers /\ found' \in Probes
      BY <2>5, <2>C, <2>S DEF TxnBegin, CallNames
    <3> QED BY <2>5, <3>1 DEF TxnBegin
  <2>6. ASSUME NEW h \in Handle, TxnCommit(h) PROVE TypeOK'
    <3>1. pdb' \in [Key -> Stored]
      BY <2>0, <2>6 DEF TxnCommit, Applied
    <3>2. ret' \in Answers /\ found' \in Probes
      BY <2>6, <2>C, <2>S DEF TxnCommit, CallNames
    <3> QED BY <2>6, <3>1, <3>2 DEF TxnCommit
  <2>7. ASSUME NEW h \in Handle, TxnAbort(h) PROVE TypeOK'
    <3>1. ret' \in Answers /\ found' \in Probes
      BY <2>7, <2>C, <2>S DEF TxnAbort, CallNames
    <3> QED BY <2>7, <3>1 DEF TxnAbort
  <2>8. ASSUME NEW h \in Handle, NEW k \in DataKey, Read(h, k) PROVE TypeOK'
    <3>1. \A got \in BOOLEAN : ReadValue(h, k, got) \in Stored
      BY <2>0, <2>S DEF ReadValue, InBatch, DataKey
    <3>2. PICK got \in BOOLEAN : Returns(Call("read", h, k, ReadValue(h, k, got)))
      BY <2>8 DEF Read
    <3>3. ret' \in Answers /\ found' \in Probes
      BY <2>C, <3>1, <3>2 DEF CallNames, DataKey
    <3> QED BY <2>8, <3>3 DEF Read
  <2>9. ASSUME NEW h \in Handle, NEW k \in DataKey, Exists(h, k) PROVE TypeOK'
    <3>1. \A got \in BOOLEAN : ReadValue(h, k, got) \in Stored
      BY <2>0, <2>S DEF ReadValue, InBatch, DataKey
    <3>2. \A seen \in BOOLEAN : ExistsValue(h, k, seen) \in BOOLEAN
      BY DEF ExistsValue
    <3>3. InBatch(h, k) \in Stored \cup {Untouched}
      BY <2>0 DEF InBatch, DataKey
    <3> QED BY <2>9, <3>1, <3>2, <3>3 DEF Exists
  <2>10. ASSUME NEW h \in Handle, NEW k \in DataKey, NEW v \in DataValue \cup {NotFound},
                Put(h, k, v)
         PROVE TypeOK'
    <3>0. v \in Stored /\ k \in Key
      BY DEF DataValue, DataKey, Stored
    <3>1. ret' \in Answers /\ found' \in Probes
      BY <2>10, <2>C, <3>0 DEF Put, CallNames
    <3>2. CASE h \in batching
      <4>1. [key |-> k, val |-> v] \in Op
        BY <3>0 DEF Op
      <4>2. Append(activeBatch[h], [key |-> k, val |-> v]) \in Seq(Op)
        BY <4>1
      <4> QED BY <2>10, <3>1, <3>2, <4>2 DEF Put
    <3>3. CASE h \notin batching
      <4>1. pdb' \in [Key -> Stored] /\ activeBatch' = activeBatch
        BY <2>10, <3>0, <3>3 DEF Put
      <4> QED BY <2>10, <3>1, <4>1 DEF Put
    <3> QED BY <3>2, <3>3
  <2>11. CASE UNCHANGED vars
    BY <2>11 DEF vars
  <2> QED BY <2>1, <2>2, <2>3, <2>4, <2>5, <2>6, <2>7, <2>8, <2>9, <2>10, <2>11 DEF Next
<1> QED BY <1>1, <1>2, PTL DEF Spec

\* Exists and Read look up the same thing, but for a key that the handle's own batch
\* deletes or that LevelDB fails to give back, whatever calls came before on any handle.
THEOREM ReadsAlwaysAgree == Spec => []ReadsAgree
<1> DEFINE Agree == FoundExists /\ BatchAnswers /\ ExistsUnread
<1> USE ValueAssumption DEF FoundExists, BatchAnswers, ExistsUnread
<1>1. Init => Agree
  BY DEF Init, NoProbe
<1>2. TypeOK /\ Agree /\ [Next]_vars => Agree'
  <2> SUFFICES ASSUME TypeOK, Agree, [Next]_vars
               PROVE  Agree'
    OBVIOUS
  <2>1. CASE found' = NoProbe
    BY <2>1 DEF NoProbe
  <2>2. CASE UNCHANGED vars
    BY <2>2 DEF vars
  <2>3. ASSUME NEW h \in Handle, NEW k \in DataKey, Exists(h, k)
        PROVE  Agree'
    <3>1. PICK seen \in BOOLEAN, got \in BOOLEAN :
            found' = [exists |-> ExistsValue(h, k, seen), read |-> ReadValue(h, k, got),
                      batch |-> InBatch(h, k), failed |-> ~(seen /\ got)]
      BY <2>3 DEF Exists
    <3>2. /\ found'.exists = ExistsValue(h, k, seen) /\ found'.read = ReadValue(h, k, got)
          /\ found'.batch = InBatch(h, k) /\ found'.failed = ~(seen /\ got)
      BY <3>1
    <3>3. CASE InBatch(h, k) # Untouched
      BY <3>2, <3>3 DEF ExistsValue, ReadValue
    <3>4. CASE InBatch(h, k) = Untouched
      BY <3>2, <3>4 DEF ExistsValue, ReadValue
    <3> QED BY <3>3, <3>4
  <2>4. \/ found' = NoProbe \/ UNCHANGED vars
        \/ \E h \in Handle, k \in DataKey : Exists(h, k)
    BY DEF Next, Crash, OpenFirst, OpenHandle, Destroy, TxnBegin, TxnCommit, TxnAbort,
           Read, Put, Returns
  <2> QED BY <2>1, <2>2, <2>3, <2>4
<1> QED BY <1>1, <1>2, TypeCorrect, PTL DEF Spec, ReadsAgree

-----------------------------------------------------------------------------
(* The batch implements the transaction of the atomic store.               *)

\* A handle without a batch has no entries: TxnCommit, TxnAbort and ~CTxDB all
\* delete the batch, so TxnBegin starts from an empty one.
NoBatchIsEmpty == \A h \in Handle : h \notin batching => activeBatch[h] = <<>>

\* CTxDB objects exist only while the global instance is open.
LiveIsOpen == live # {} => txdb

\* The three facts about CTxDB objects hold together after every call.
LEMMA BatchInvariant == Spec => [](TypeOK /\ NoBatchIsEmpty /\ LiveIsOpen)
<1>1. Init => NoBatchIsEmpty /\ LiveIsOpen
  BY DEF Init, NoBatchIsEmpty, LiveIsOpen
<1>2. TypeOK /\ NoBatchIsEmpty /\ LiveIsOpen /\ [Next]_vars => (NoBatchIsEmpty /\ LiveIsOpen)'
  BY ZenonT(60) DEF TypeOK, NoBatchIsEmpty, LiveIsOpen, Next, vars, Crash, OpenFirst, OpenHandle, Destroy,
         TxnBegin, TxnCommit, TxnAbort, Read, Exists, Put
<1> QED BY <1>1, <1>2, TypeCorrect, PTL DEF Spec

\* CTxDB's batches implement the transactions of the atomic store: every call
\* is a step of the store, with each batch read as what it leaves of each key.
THEOREM RefinesStore == Spec => ImplementsStore
<1> DEFINE Pend(b) == [k \in Key |-> ScanBatch(b, k)]
           pending == [h \in Handle |-> Pend(activeBatch[h])]
<1>0. Pend(<<>>) = Store!Nothing
  BY ScanEmptyBatch DEF Store!Nothing
<1>1. Init => Store!Init
  BY <1>0 DEF Init, Store!Init, NoCall, Store!NoCall, Call, Store!Call, Stored
<1>2. TypeOK /\ NoBatchIsEmpty /\ LiveIsOpen /\ [Next]_vars => [Store!Next]_(Store!vars)
  <2> SUFFICES ASSUME TypeOK, NoBatchIsEmpty, LiveIsOpen, [Next]_vars
               PROVE  [Store!Next]_(Store!vars)
    OBVIOUS
  <2> USE DEF Returns, NoCall, Store!NoCall, Call, Store!Call
  <2>D. ASSUME NEW h \in Handle, activeBatch' = [activeBatch EXCEPT ![h] = <<>>]
        PROVE  pending' = [pending EXCEPT ![h] = Store!Nothing]
    BY <1>0, <2>D DEF TypeOK
  <2>1. CASE Crash
    <3>1. Store!Crash
      BY <2>1, <1>0 DEF Crash, Store!Crash
    <3> QED BY <3>1 DEF Store!Next
  <2>2. ASSUME NEW h \in Handle, OpenFirst(h) PROVE Store!Next
    <3>0. h \notin batching
      BY <2>2 DEF OpenFirst, LiveIsOpen, TypeOK
    <3>1. Store!Open
      BY <2>2, <3>0 DEF OpenFirst, Store!Open, ExistsValue, ReadValue, InBatch
    <3> QED BY <3>1 DEF Store!Next
  <2>3. ASSUME NEW h \in Handle, NEW r \in BOOLEAN, OpenHandle(h, r) PROVE Store!Next
    <3>1. Store!Idle
      BY <2>3 DEF OpenHandle, Store!Idle
    <3> QED BY <3>1 DEF Store!Next
  <2>4. ASSUME NEW h \in Handle, Destroy(h) PROVE Store!Next
    <3>1. Store!Abort(h, "abort")
      BY <2>4, <2>D DEF Destroy, Store!Abort, LiveIsOpen
    <3> QED BY <3>1 DEF Store!Next
  <2>5. ASSUME NEW h \in Handle, TxnBegin(h) PROVE Store!Next
    <3>1. activeBatch' = activeBatch
      BY <2>5 DEF TxnBegin, NoBatchIsEmpty, TypeOK
    <3>2. Store!Begin(h)
      BY <2>5, <3>1 DEF TxnBegin, Store!Begin, LiveIsOpen
    <3> QED BY <3>2 DEF Store!Next
  <2>6. ASSUME NEW h \in Handle, TxnCommit(h) PROVE Store!Next
    <3>0. txdb /\ pending' = [pending EXCEPT ![h] = Store!Nothing]
      BY <2>6, <2>D DEF TxnCommit, LiveIsOpen, TypeOK
    <3>1. CASE pdb' = pdb /\ Returns(Call("refused", h, NotFound, NotFound))
      <4>1. Store!Abort(h, "refused")
        BY <2>6, <3>0, <3>1 DEF TxnCommit, Store!Abort
      <4> QED BY <4>1 DEF Store!Next
    <3>2. CASE /\ pdb' = Applied(activeBatch[h])
               /\ Returns(Call("commit", h, NotFound, NotFound))
      <4>1. Applied(activeBatch[h]) = [k \in Key |-> Store!View(h, k)]
        BY <2>6 DEF TxnCommit, Applied, Store!View
      <4>2. Store!Commit(h)
        BY <2>6, <3>0, <3>2, <4>1 DEF TxnCommit, Store!Commit
      <4> QED BY <4>2 DEF Store!Next
    <3> QED BY <2>6, <3>1, <3>2 DEF TxnCommit
  <2>7. ASSUME NEW h \in Handle, TxnAbort(h) PROVE Store!Next
    <3>1. Store!Abort(h, "abort")
      BY <2>7, <2>D DEF TxnAbort, Store!Abort, LiveIsOpen
    <3> QED BY <3>1 DEF Store!Next
  <2>8. ASSUME NEW h \in Handle, NEW k \in DataKey, Read(h, k) PROVE Store!Next
    <3>1. Store!Read(h, k)
      BY <2>8 DEF Read, Store!Read, Store!View, ReadValue, InBatch, LiveIsOpen, DataKey
    <3> QED BY <3>1 DEF Store!Next, DataKey
  <2>9. ASSUME NEW h \in Handle, NEW k \in DataKey, Exists(h, k) PROVE Store!Next
    <3>1. Store!Idle
      BY <2>9 DEF Exists, Store!Idle
    <3> QED BY <3>1 DEF Store!Next
  <2>10. ASSUME NEW h \in Handle, NEW k \in DataKey, NEW v \in DataValue \cup {NotFound}, Put(h, k, v)
         PROVE Store!Next
    <3>0. k \in Key /\ v \in Value \cup {NotFound} /\ txdb
      BY <2>10 DEF Put, DataKey, DataValue, LiveIsOpen
    <3>1. CASE h \notin batching
      <4>1. Store!Put(h, k, v) \/ Store!Fail(h, k, v)
        BY <2>10, <3>0, <3>1 DEF Put, Store!Put, Store!Fail
      <4> QED BY <3>0, <4>1 DEF Store!Next
    <3>2. CASE h \in batching
      <4> DEFINE op == [key |-> k, val |-> v]
      <4>1. op \in Op /\ activeBatch[h] \in Seq(Op)
        BY <3>0 DEF Op, Stored, TypeOK
      <4>2. activeBatch' = [activeBatch EXCEPT ![h] = Append(activeBatch[h], op)]
        BY <2>10, <3>2 DEF Put
      <4>3. Pend(Append(activeBatch[h], op)) = [Pend(activeBatch[h]) EXCEPT ![k] = v]
        <5>1. \A q \in Key : ScanBatch(Append(activeBatch[h], op), q)
                                = IF q = k THEN v ELSE ScanBatch(activeBatch[h], q)
          BY <4>1, ScanAppend
        <5> QED BY <5>1, <3>0
      <4>4. pending' = [pending EXCEPT ![h][k] = v]
        <5>1. \A g \in Handle : Pend(activeBatch'[g])
                   = IF g = h THEN [Pend(activeBatch[h]) EXCEPT ![k] = v] ELSE Pend(activeBatch[g])
          BY <4>2, <4>3 DEF TypeOK
        <5> QED BY <5>1
      <4>5. Store!Put(h, k, v)
        BY <2>10, <3>0, <3>2, <4>4 DEF Put, Store!Put
      <4> QED BY <3>0, <4>5 DEF Store!Next
    <3> QED BY <3>1, <3>2
  <2>11. CASE UNCHANGED vars
    BY <2>11 DEF vars, Store!vars
  <2> QED BY <2>1, <2>2, <2>3, <2>4, <2>5, <2>6, <2>7, <2>8, <2>9, <2>10, <2>11 DEF Next
<1> QED BY <1>1, <1>2, BatchInvariant, PTL DEF Spec, ImplementsStore, Store!Spec
=============================================================================
