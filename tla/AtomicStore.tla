---------------------------- MODULE AtomicStore ----------------------------
(***************************************************************************)
(* What the rest of the program assumes of its transaction database: a     *)
(* key-value store with several handles, where a handle may collect its    *)
(* writes in a transaction.  The writes of a transaction are visible to    *)
(* that handle at once, to nobody else before the commit, to everybody     *)
(* after it, and never in part.  A crash forgets the open transactions and *)
(* nothing else.  Opening a database that an older version wrote, or whose *)
(* version cannot be read, empties it.  The storage may fail: a write is   *)
(* refused as a whole, a read finds nothing.                               *)
(***************************************************************************)
CONSTANTS Key,        \* the database keys
          Value,      \* the database values
          Handle,     \* the handles through which the program uses the store
          NotFound,   \* the answer for a key that has no value
          Untouched,  \* a key that an open transaction has not written
          VersionKey, \* the key of the version record
          DatabaseVersion, \* the version this program writes
          OldVersion  \* the versions it does not read

VARIABLES db,       \* [Key -> Value or NotFound]: what is committed
          opened,   \* is the store open?
          txn,      \* the handles that have an open transaction
          pending,  \* [Handle -> [Key -> a value, NotFound (erased) or Untouched]]
          ret       \* the call just made, with what it returned

vars == <<db, opened, txn, pending, ret>>

Nothing == [k \in Key |-> Untouched]

Call(op, h, k, v) == [op |-> op, by |-> h, key |-> k, val |-> v]
NoCall == Call("none", NotFound, NotFound, NotFound)

\* The store as handle h sees it.
View(h, k) == IF h \in txn /\ pending[h][k] # Untouched THEN pending[h][k] ELSE db[k]

Init == /\ db \in [Key -> Value \cup {NotFound}]
        /\ opened = FALSE
        /\ txn = {}
        /\ pending = [h \in Handle |-> Nothing]
        /\ ret = NoCall

\* A database of this version is kept, and one without a version record gets it, if
\* the storage takes it; one of an older version, or whose version the storage does
\* not give back, is emptied.
Open == /\ ~opened
        /\ opened' = TRUE
        /\ \E version \in {DatabaseVersion, NotFound} :
              \/ db[VersionKey] \notin OldVersion \cup {NotFound} /\ db' = db
              \/ db[VersionKey] = NotFound /\ db' = [db EXCEPT ![VersionKey] = version]
              \/ db' = [k \in Key |-> IF k = VersionKey THEN version ELSE NotFound]
        /\ ret' = NoCall
        /\ UNCHANGED <<txn, pending>>

\* A read of what the open transaction wrote cannot fail; any other finds nothing if
\* the storage fails, and the caller cannot tell that from a missing key.
Read(h, k) == /\ opened
              /\ \/ ret' = Call("read", h, k, View(h, k))
                 \/ /\ ~(h \in txn /\ pending[h][k] # Untouched)
                    /\ ret' = Call("read", h, k, NotFound)
              /\ UNCHANGED <<db, opened, txn, pending>>

\* A write or, with v = NotFound, an erase.
Put(h, k, v) == /\ opened
                /\ IF h \in txn
                   THEN pending' = [pending EXCEPT ![h][k] = v] /\ db' = db
                   ELSE db' = [db EXCEPT ![k] = v] /\ pending' = pending
                /\ ret' = Call("put", h, k, v)
                /\ UNCHANGED <<opened, txn>>

\* A write the storage refused.
Fail(h, k, v) == /\ ret' = Call("failed", h, k, v)
                 /\ UNCHANGED <<db, opened, txn, pending>>

Begin(h) == /\ opened
            /\ h \notin txn
            /\ txn' = txn \cup {h}
            /\ ret' = Call("begin", h, NotFound, NotFound)
            /\ UNCHANGED <<db, opened, pending>>

Commit(h) == /\ opened
             /\ h \in txn
             /\ db' = [k \in Key |-> View(h, k)]
             /\ txn' = txn \ {h}
             /\ pending' = [pending EXCEPT ![h] = Nothing]
             /\ ret' = Call("commit", h, NotFound, NotFound)
             /\ UNCHANGED opened

\* An abort, a commit the storage refused, or the end of the handle.
Abort(h, how) == /\ opened
                 /\ txn' = txn \ {h}
                 /\ pending' = [pending EXCEPT ![h] = Nothing]
                 /\ ret' = Call(how, h, NotFound, NotFound)
                 /\ UNCHANGED <<db, opened>>

Crash == /\ opened' = FALSE
         /\ txn' = {}
         /\ pending' = [h \in Handle |-> Nothing]
         /\ ret' = NoCall
         /\ db' = db

\* Anything that touches neither the store nor a transaction.
Idle == ret' = NoCall /\ UNCHANGED <<db, opened, txn, pending>>

Next == \/ Open
        \/ Crash
        \/ Idle
        \/ \E h \in Handle : \/ Begin(h)
                             \/ Commit(h)
                             \/ \E how \in {"abort", "refused"} : Abort(h, how)
                             \/ \E k \in Key : Read(h, k)
                             \/ \E k \in Key, v \in Value \cup {NotFound} : Put(h, k, v) \/ Fail(h, k, v)

Spec == Init /\ [][Next]_vars
=============================================================================
