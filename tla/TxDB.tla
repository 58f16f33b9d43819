------------------------------- MODULE TxDB -------------------------------
(***************************************************************************)
(* CTxDB (txdb-leveldb.h, txdb-leveldb.cpp): the block and transaction     *)
(* index.  Every CTxDB object is a handle on one global LevelDB instance;  *)
(* while it has an activeBatch its writes and deletes are appended to that *)
(* batch, and a read scans the batch, in order, before it asks LevelDB.    *)
(* LevelDB itself is external: a map whose batch write is atomic and       *)
(* survives the death of the process, and which may fail at any call: it   *)
(* refuses a write, or gives no readable bytes for a key (an error status, *)
(* or bytes that Read cannot unserialize).                                 *)
(***************************************************************************)
EXTENDS Integers, Sequences

CONSTANTS Key,        \* keys: ("tx", hash), ("blockindex", hash), "hashBestChain"...
          Value,      \* serialized values
          Handle,     \* CTxDB objects
          NotFound,   \* LevelDB's NotFound status
          Untouched,  \* of the abstract store: a key a batch does not mention
          VersionKey, \* "version"
          DatabaseVersion, \* DATABASE_VERSION
          OldVersion, \* the versions below it, whose databases are not read
          MaxBatch    \* bound on the length of a batch

ASSUME KeyAssumption == VersionKey \in Key
ASSUME VersionAssumption == /\ DatabaseVersion \in Value \ OldVersion
                            /\ OldVersion \subseteq Value
ASSUME ValueAssumption == /\ NotFound \notin Value
                          /\ Untouched \notin Value
                          /\ NotFound # Untouched
ASSUME BatchAssumption == MaxBatch \in Nat

VARIABLES pdb,          \* the LevelDB contents
          txdb,         \* the global pointer: is LevelDB open?
          fReadOnly,    \* [Handle -> BOOLEAN]: the handle's mode is "r"
          live,         \* the handles that exist
          batching,     \* the handles whose activeBatch is not NULL
          activeBatch,  \* [Handle -> Seq(Op)]: the pending puts and deletes, in order
          ret,          \* the call just made, with what it returned
          found         \* the same for Exists, with what Read says of the key

vars == <<pdb, txdb, fReadOnly, live, batching, activeBatch, ret, found>>

Stored == Value \cup {NotFound}

\* The keys other than "version", which only the constructor touches, and
\* the values that are not old version numbers.
DataKey == Key \ {VersionKey}
DataValue == Value \ OldVersion

\* A batch entry: a Put, or a Delete (val = NotFound).
Op == [key : Key, val : Stored]

\* A call and its outcome, as the caller sees them.
Call(op, h, k, v) == [op |-> op, by |-> h, key |-> k, val |-> v]
NoCall == Call("none", NotFound, NotFound, NotFound)
CallNames == {"none", "read", "put", "failed", "begin", "commit", "refused", "abort"}
NoProbe == [exists |-> FALSE, read |-> NotFound, batch |-> Untouched, failed |-> FALSE]
Returns(c) == ret' = c /\ found' = NoProbe

TypeOK == /\ pdb \in [Key -> Stored]
          /\ txdb \in BOOLEAN
          /\ fReadOnly \in [Handle -> BOOLEAN]
          /\ live \subseteq Handle
          /\ batching \subseteq live
          /\ activeBatch \in [Handle -> Seq(Op)]
          /\ ret \in [op : CallNames, by : Handle \cup {NotFound},
                      key : Key \cup {NotFound}, val : Stored]
          /\ found \in [exists : BOOLEAN, read : Stored,
                        batch : Stored \cup {Untouched}, failed : BOOLEAN]

-----------------------------------------------------------------------------
\* The entries of a batch about one key.
Mentions(b, k) == {i \in 1..Len(b) : b[i].key = k}

\* The position of the last of them, or no position.
LastMention(b, k) == {i \in Mentions(b, k) : \A j \in Mentions(b, k) : j <= i}

FirstMention(b, k) == {i \in Mentions(b, k) : \A j \in Mentions(b, k) : i <= j}

\* Mutant: the scan stops at the first entry of the key.
ScanBatchFirst(b, k) == IF FirstMention(b, k) = {} THEN Untouched
                        ELSE b[CHOOSE i \in FirstMention(b, k) : TRUE].val

\* CBatchScanner is run over the whole batch, each entry of the key overwriting
\* what an earlier one said: the last one wins.  Untouched: foundEntry is false.
ScanBatch(b, k) == IF LastMention(b, k) = {} THEN Untouched
                   ELSE b[CHOOSE i \in LastMention(b, k) : TRUE].val

\* What the handle's own batch says of a key, if it has a batch.
InBatch(h, k) == IF h \in batching THEN ScanBatch(activeBatch[h], k) ELSE Untouched

\* The value Read(key, value) delivers; NotFound when it returns false, which it
\* does too when LevelDB is asked and gives no readable bytes (got is FALSE).
ReadValue(h, k, got) == IF InBatch(h, k) # Untouched THEN InBatch(h, k)
                        ELSE IF got THEN pdb[k] ELSE NotFound

\* Mutant: a key the batch does not mention is reported as missing.
ExistsValueBatchOnly(h, k, got) ==
    IF h \in batching THEN InBatch(h, k) \notin {Untouched, NotFound}
                      ELSE ~got \/ pdb[k] # NotFound

\* What Exists(key) returns: a put found in the batch answers at once, anything
\* else, a delete in the batch too, goes on to LevelDB; every status but NotFound,
\* an error too, means that the key is there.
ExistsValue(h, k, got) == \/ InBatch(h, k) \notin {Untouched, NotFound}
                          \/ ~got
                          \/ pdb[k] # NotFound

\* The LevelDB contents after the batch b: every entry applied in order.
Applied(b) == [k \in Key |-> IF ScanBatch(b, k) = Untouched THEN pdb[k]
                                                            ELSE ScanBatch(b, k)]

-----------------------------------------------------------------------------
\* At the start no database is open; what is on disk was left by some version
\* of the program, perhaps without the version record it failed to write.
Init == /\ pdb \in [Key -> Stored]
        /\ \A k \in DataKey : pdb[k] \in DataValue \cup {NotFound}
        /\ txdb = FALSE
        /\ fReadOnly = [h \in Handle |-> TRUE]
        /\ live = {}
        /\ batching = {}
        /\ activeBatch = [h \in Handle |-> <<>>]
        /\ ret = NoCall
        /\ found = NoProbe

\* CTxDB("cr+"), the first one: opens LevelDB, replaces a database that an older
\* version wrote by an empty one, and gives it, and one that has no version record
\* yet, that record.  A record that cannot be read reads as version 0, which is older
\* than any, so its database is removed as well; nobody looks at what WriteVersion
\* returns.
OpenFirst(h) ==
    /\ ~txdb
    /\ txdb' = TRUE
    /\ live' = live \cup {h}
    /\ fReadOnly' = [fReadOnly EXCEPT ![h] = FALSE]
    /\ \E seen, got, written \in BOOLEAN :
          LET old == ReadValue(h, VersionKey, got) \in OldVersion \cup {NotFound}
              version == IF written THEN DatabaseVersion ELSE NotFound
          IN  pdb' = IF ~ExistsValue(h, VersionKey, seen)
                     THEN [pdb EXCEPT ![VersionKey] = version]
                     ELSE IF old THEN [k \in Key |-> IF k = VersionKey THEN version ELSE NotFound]
                     ELSE pdb
    /\ Returns(NoCall)
    /\ UNCHANGED <<batching, activeBatch>>

\* A further CTxDB object attaches itself to the open instance.
OpenHandle(h, readOnly) ==
    /\ txdb /\ h \notin live
    /\ live' = live \cup {h}
    /\ fReadOnly' = [fReadOnly EXCEPT ![h] = readOnly]
    /\ Returns(NoCall)
    /\ UNCHANGED <<pdb, txdb, batching, activeBatch>>

\* ~CTxDB: the batch dies with the object, the global instance does not.
Destroy(h) ==
    /\ h \in live
    /\ live' = live \ {h}
    /\ batching' = batching \ {h}
    /\ activeBatch' = [activeBatch EXCEPT ![h] = <<>>]
    /\ fReadOnly' = [fReadOnly EXCEPT ![h] = TRUE]
    /\ Returns(Call("abort", h, NotFound, NotFound))
    /\ UNCHANGED <<pdb, txdb>>

Read(h, k) ==
    /\ h \in live
    /\ \E got \in BOOLEAN : Returns(Call("read", h, k, ReadValue(h, k, got)))
    /\ UNCHANGED <<pdb, txdb, fReadOnly, live, batching, activeBatch>>

\* Exists(key); found keeps the answer beside the one a Read of the key gives, what
\* the batch says of the key, and whether LevelDB failed one of the two.
Exists(h, k) ==
    /\ h \in live
    /\ ret' = NoCall
    /\ \E seen, got \in BOOLEAN :
          found' = [exists |-> ExistsValue(h, k, seen), read |-> ReadValue(h, k, got),
                    batch |-> InBatch(h, k), failed |-> ~(seen /\ got)]
    /\ UNCHANGED <<pdb, txdb, fReadOnly, live, batching, activeBatch>>

\* Write (v a value) and Erase (v = NotFound): into the batch if there is one,
\* else to LevelDB, which may refuse it.  The read-only assertion is a guard: no caller trips it.
Put(h, k, v) ==
    /\ h \in live /\ ~fReadOnly[h]
    /\ \/ /\ h \in batching
          /\ Len(activeBatch[h]) < MaxBatch
          /\ activeBatch' = [activeBatch EXCEPT ![h] = Append(@, [key |-> k, val |-> v])]
          /\ pdb' = pdb
          /\ Returns(Call("put", h, k, v))
       \/ /\ h \notin batching
          /\ \/ pdb' = [pdb EXCEPT ![k] = v] /\ Returns(Call("put", h, k, v))
             \/ pdb' = pdb /\ Returns(Call("failed", h, k, v))
          /\ activeBatch' = activeBatch
    /\ UNCHANGED <<txdb, fReadOnly, live, batching>>

TxnBegin(h) ==
    /\ h \in live /\ h \notin batching
    /\ batching' = batching \cup {h}
    /\ activeBatch' = [activeBatch EXCEPT ![h] = <<>>]
    /\ Returns(Call("begin", h, NotFound, NotFound))
    /\ UNCHANGED <<pdb, txdb, fReadOnly, live>>

\* TxnCommit: LevelDB takes the whole batch or, when its status is not ok,
\* none of it; the batch is deleted in both cases.
TxnCommit(h) ==
    /\ h \in batching
    /\ \/ pdb' = Applied(activeBatch[h]) /\ Returns(Call("commit", h, NotFound, NotFound))
       \/ pdb' = pdb /\ Returns(Call("refused", h, NotFound, NotFound))
    /\ batching' = batching \ {h}
    /\ activeBatch' = [activeBatch EXCEPT ![h] = <<>>]
    /\ UNCHANGED <<txdb, fReadOnly, live>>

TxnAbort(h) ==
    /\ h \in live
    /\ batching' = batching \ {h}
    /\ activeBatch' = [activeBatch EXCEPT ![h] = <<>>]
    /\ Returns(Call("abort", h, NotFound, NotFound))
    /\ UNCHANGED <<pdb, txdb, fReadOnly, live>>

\* The process dies, or Close() at shutdown: every object in memory is gone.
Crash == /\ txdb
         /\ txdb' = FALSE
         /\ live' = {} /\ batching' = {}
         /\ activeBatch' = [h \in Handle |-> <<>>]
         /\ fReadOnly' = [h \in Handle |-> TRUE]
         /\ Returns(NoCall)
         /\ UNCHANGED pdb

Next == \/ Crash
        \/ \E h \in Handle : \/ OpenFirst(h)
                             \/ \E r \in BOOLEAN : OpenHandle(h, r)
                             \/ Destroy(h)
                             \/ TxnBegin(h)
                             \/ TxnCommit(h)
                             \/ TxnAbort(h)
                             \/ \E k \in DataKey : Read(h, k)
                             \/ \E k \in DataKey : Exists(h, k)
                             \/ \E k \in DataKey, v \in DataValue \cup {NotFound} : Put(h, k, v)

Spec == Init /\ [][Next]_vars

-----------------------------------------------------------------------------
\* The abstract store: a batch stands for what it would leave of each key.
Store == INSTANCE AtomicStore WITH
             db      <- pdb,
             opened  <- txdb,
             txn     <- batching,
             pending <- [h \in Handle |-> [k \in Key |-> ScanBatch(activeBatch[h], k)]]

\* CTxDB is an atomic store: a handle reads its own uncommitted batch and no
\* other handle's (ScanBatch before Get), and a commit, a refused commit, an
\* abort, a destructor or a crash applies all of a batch or nothing of it.
ImplementsStore == Store!Spec

\* A key that Read finds exists, whatever the batch holds and whichever of the two
\* lookups LevelDB fails.
FoundExists == found.read # NotFound => found.exists

\* What a put in the handle's own batch says, Exists and Read both say, and LevelDB
\* failing does not change it.
BatchAnswers == found.batch \notin {Untouched, NotFound} =>
                   found.exists /\ found.read = found.batch

\* Exists says yes where Read finds nothing for two reasons only: the handle's own
\* batch deletes the key, or LevelDB failed one of the two lookups.
ExistsUnread == found.exists /\ found.read = NotFound =>
                   found.batch = NotFound \/ found.failed

\* The batches and the database keep their types, and the two ways to look a key up
\* (CTxDB::Exists, CTxDB::Read) agree but for those two cases.
ReadsAgree == TypeOK /\ FoundExists /\ BatchAnswers /\ ExistsUnread
=============================================================================
