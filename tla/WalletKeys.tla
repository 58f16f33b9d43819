----------------------------- MODULE WalletKeys -----------------------------
(***************************************************************************)
(* The keys of a wallet: the key store, the key pool and the encryption    *)
(* (wallet.cpp, keystore.cpp, walletdb.*, rpcwallet.cpp).                  *)
(*                                                                         *)
(* The calls run one at a time, under cs_wallet.  An action ends where     *)
(* wallet.dat changes, since there the process may die, or where the       *)
(* wallet's being locked matters: Lock() takes only cs_KeyStore, and a     *)
(* timer or the graphical wallet calls it at any moment.                   *)
(*                                                                         *)
(* Keys are numbered in the order in which they are made.  A master key is *)
(* known by its id, since ids are used again only after a restart that     *)
(* found the wallet unencrypted.                                           *)
(***************************************************************************)
EXTENDS Integers, FiniteSets, FiniteSetsExt, Functions

CONSTANTS
    Size,          \* -keypool
    Pass,          \* passphrases
    MaxKey,        \* bound: how many keys are ever made
    MaxMaster,     \* bound: how many times encryption is tried in one process
    MaxRefusals,   \* bound: how often wallet.dat refuses a read or a write
    None           \* no key, no master key, no passphrase

ASSUME KeysAssumption ==
    /\ Size \in Nat /\ MaxKey \in Nat /\ MaxMaster \in Nat /\ MaxRefusals \in Nat
    /\ None \notin Nat /\ None \notin Pass

Key    == 1 .. MaxKey
Master == 1 .. MaxMaster
Index  == 1 .. MaxKey

\* Memory.
VARIABLES
    fUseCrypto, mapKeys,
    mapCryptedKeys,   \* key -> the master key it is encrypted with
    vMasterKey,       \* None: locked, if encrypted
    mapMasterKeys,    \* id -> the passphrase that opens it
    setKeyPool, vchDefaultKey

\* wallet.dat: the records "key", "ckey", "mkey", "pool" and "defaultkey".
VARIABLES dbKey, dbCKey, dbMKey, dbPool, dbDefault

\* The call in progress.
VARIABLES
    pc,      \* where it is
    call,    \* which one it is
    nIndex,  \* the pool index it holds or is about to write
    newKey,  \* the key it has made, or wants for the default key
    toErase  \* the pool indices NewKeyPool has yet to erase

VARIABLE refusals \* how often wallet.dat has refused a read or a write

VARIABLE nKeys    \* how many keys were made; the next one has the next number

\* History, read by no action.
VARIABLES
    given,       \* keys from the pool that somebody was given
    plain,       \* keys that wallet.dat has held unencrypted
    told,        \* the passphrase the user believes in
    slipped,     \* has the code passed over a refusal by wallet.dat?
    interrupted  \* did the process die while NewKeyPool was erasing?

memory  == <<fUseCrypto, mapKeys, mapCryptedKeys, vMasterKey, mapMasterKeys, setKeyPool,
             vchDefaultKey>>
secrets == <<fUseCrypto, mapKeys, mapCryptedKeys>>
disk    == <<dbKey, dbCKey, dbMKey, dbPool, dbDefault>>
control == <<pc, call, nIndex, newKey, toErase>>
past    == <<nKeys, given, plain, told, slipped, interrupted>>
history == <<past, refusals>>
vars    == <<memory, disk, control, history>>

Calls == {"none", "first", "address", "default", "send", "peek", "refill", "encrypt"}

Partial(S, T) == UNION {[D -> T] : D \in SUBSET S}

TypeOK ==
    /\ fUseCrypto \in BOOLEAN /\ mapKeys \subseteq Key
    /\ mapCryptedKeys \in Partial(Key, Master)
    /\ vMasterKey \in Master \cup {None}
    /\ mapMasterKeys \in Partial(Master, Pass)
    /\ setKeyPool \subseteq Index /\ vchDefaultKey \in Key \cup {None}
    /\ dbKey \subseteq Key /\ dbCKey \in Partial(Key, Master)
    /\ dbMKey \in Partial(Master, Pass)
    /\ dbPool \in Partial(Index, Key) /\ dbDefault \in Key \cup {None}
    /\ pc \in {"off", "idle", "topup", "write", "reserve", "hold", "default", "flush", "fill",
               "fillwrite", "rewrite", "failed"}
    /\ call \in Calls
    /\ nIndex \in 0 .. MaxKey + 1 /\ newKey \in 0 .. MaxKey /\ toErase \subseteq Index
    /\ nKeys \in 0 .. MaxKey /\ given \subseteq Key /\ plain \subseteq Key
    /\ told \in Pass \cup {None} /\ slipped \in BOOLEAN /\ interrupted \in BOOLEAN
    /\ refusals \in 0 .. MaxRefusals

NoFun == [x \in {} |-> x]

Put(f, x, v) == [y \in DOMAIN f \cup {x} |-> IF y = x THEN v ELSE f[y]]
Drop(f, x)   == [y \in DOMAIN f \ {x} |-> f[y]]

Forget == /\ fUseCrypto' = FALSE /\ mapKeys' = {} /\ mapCryptedKeys' = NoFun
          /\ vMasterKey' = None /\ mapMasterKeys' = NoFun
          /\ setKeyPool' = {} /\ vchDefaultKey' = None
          /\ pc' = "off" /\ call' = "none" /\ nIndex' = 0 /\ newKey' = 0 /\ toErase' = {}

\* No wallet.dat yet.
Init == /\ fUseCrypto = FALSE /\ mapKeys = {} /\ mapCryptedKeys = NoFun
        /\ vMasterKey = None /\ mapMasterKeys = NoFun
        /\ setKeyPool = {} /\ vchDefaultKey = None
        /\ dbKey = {} /\ dbCKey = NoFun /\ dbMKey = NoFun /\ dbPool = NoFun
        /\ dbDefault = None
        /\ pc = "off" /\ call = "none" /\ nIndex = 0 /\ newKey = 0 /\ toErase = {}
        /\ nKeys = 0 /\ given = {} /\ plain = {} /\ told = None
        /\ slipped = FALSE /\ interrupted = FALSE /\ refusals = 0

\* wallet.dat does what it is asked to do, or refuses.
Done(ok) == /\ ok \/ refusals < MaxRefusals
            /\ refusals' = IF ok THEN refusals ELSE refusals + 1

-----------------------------------------------------------------------------
(* The key store.                                                          *)

IsLocked   == fUseCrypto /\ vMasterKey = None
HaveKey(k) == IF fUseCrypto THEN k \in DOMAIN mapCryptedKeys ELSE k \in mapKeys

\* Lock(), from a timer, from walletlock or from the graphical wallet.
Lock == /\ pc # "off" /\ fUseCrypto /\ vMasterKey # None
        /\ vMasterKey' = None
        /\ UNCHANGED <<secrets, mapMasterKeys, setKeyPool, vchDefaultKey, disk, control, history>>

\* Mutant: the master key is not tried on any key.
FitsAlways(id, ckeys) == TRUE

\* Does this master key decrypt the first key that comes, here that with the lowest
\* number?  (SetCrypted, before that, fails only while there are plain keys.)
KeyFits(id, ckeys) == \A k \in DOMAIN ckeys : (\A j \in DOMAIN ckeys : k <= j) => ckeys[k] = id

\* The master key that the loop over mapMasterKeys ends with, or None.  One that is
\* encrypted with another passphrase ends it, unless its padding comes out right by
\* chance.
Unlocked(p, masters, ckeys, chance) ==
    LET right == {id \in DOMAIN masters : masters[id] = p /\ KeyFits(id, ckeys)}
        ends  == IF chance THEN {} ELSE {id \in DOMAIN masters : masters[id] # p}
    IN  IF right # {} /\ \A id \in ends : Min(right) < id THEN Min(right) ELSE None

\* walletpassphrase.  (What it starts is in WalletLock, and for ThreadTopUpKeyPool in
\* "refill": that an exception ends that thread's process is a Crash.)
Unlock(p, chance) ==
    /\ pc = "idle" /\ IsLocked
    /\ vMasterKey' = Unlocked(p, mapMasterKeys, mapCryptedKeys, chance)
    /\ UNCHANGED <<secrets, mapMasterKeys, setKeyPool, vchDefaultKey, disk, control, history>>

\* walletpassphrasechange.  Nobody looks whether the record was written.
ChangeWalletPassphrase(old, new, chance, written) ==
    LET id == Unlocked(old, mapMasterKeys, mapCryptedKeys, chance) IN
    /\ pc = "idle" /\ fUseCrypto
    /\ Done(written)
    /\ IF id = None
       THEN /\ vMasterKey' = None
            /\ UNCHANGED <<mapMasterKeys, dbMKey, told, slipped>>
       ELSE /\ mapMasterKeys' = [mapMasterKeys EXCEPT ![id] = new]
            /\ dbMKey' = IF written THEN Put(dbMKey, id, new) ELSE dbMKey
            /\ vMasterKey' = IF IsLocked THEN None ELSE id
            /\ told' = new /\ slipped' = (slipped \/ ~written)
    /\ UNCHANGED <<secrets, setKeyPool, vchDefaultKey, dbKey, dbCKey, dbPool, dbDefault, control,
                   nKeys, given, plain, interrupted>>

-----------------------------------------------------------------------------
(* Start and end of the process.                                           *)

\* ReadKeyValue.  The plain keys come first in the file; after one of them an encrypted
\* one is refused, and the wallet is corrupt.
LoadsCrypted == dbKey = {} /\ DOMAIN dbCKey # {}
Corrupt      == dbKey # {} /\ DOMAIN dbCKey # {}

\* A wallet without a default key is new, unless it is corrupt.
fFirstRun == dbDefault = None /\ ~Corrupt

\* LoadWallet, for which a corrupt wallet is only worth a warning, and the key that
\* AppInit2 takes for a new wallet.
Start ==
    /\ pc = "off"
    /\ fUseCrypto' = LoadsCrypted /\ mapKeys' = dbKey
    /\ mapCryptedKeys' = IF LoadsCrypted THEN dbCKey ELSE NoFun
    /\ vMasterKey' = None /\ mapMasterKeys' = dbMKey
    /\ setKeyPool' = DOMAIN dbPool /\ vchDefaultKey' = dbDefault
    /\ call' = IF fFirstRun THEN "first" ELSE "none"
    /\ pc' = IF ~fFirstRun THEN "idle" ELSE IF LoadsCrypted THEN "reserve" ELSE "topup"
    /\ UNCHANGED <<disk, nIndex, newKey, toErase, history>>

Crash == /\ pc # "off"
         /\ Forget
         /\ interrupted' = (interrupted \/ pc = "flush")
         /\ UNCHANGED <<disk, nKeys, given, plain, told, slipped, refusals>>

-----------------------------------------------------------------------------
(* The calls that need a key.                                              *)

End(at) == pc' = at /\ call' = "none" /\ nIndex' = 0 /\ newKey' = 0 /\ toErase' = {}
Return == End("idle")

\* An exception ends the call, and in AppInit2 the process, which is then a Crash.
Throw  == End(IF call = "first" THEN "failed" ELSE "idle")

\* getnewaddress and whatever else calls GetKeyFromPool, a used default key (AddToWallet),
\* CreateTransaction, a block template or getinfo, keypoolrefill (for the usual size).
Begin(c) ==
    /\ pc = "idle"
    /\ c = "refill" => ~IsLocked
    /\ call' = c /\ pc' = IF IsLocked THEN "reserve" ELSE "topup"
    /\ UNCHANGED <<memory, disk, nIndex, newKey, toErase, history>>

\* Mutant: a wallet.dat that does not take the key is passed over.
WritesKeyUnchecked(wrote, after) ==
    /\ Done(wrote)
    /\ newKey' = nKeys + 1
    /\ pc' = after /\ UNCHANGED <<call, nIndex, toErase>>

\* ... which the code does not.
WritesKey(wrote, after) ==
    /\ Done(wrote)
    /\ IF wrote THEN /\ newKey' = nKeys + 1 /\ pc' = after
                     /\ UNCHANGED <<call, nIndex, toErase>>
                ELSE Throw

\* GenerateNewKey and AddKeyPubKey.  A key that cannot be written stays in memory.
GenerateNewKey(after, wrote) ==
    LET k == nKeys + 1 IN
    /\ nKeys < MaxKey /\ nKeys' = k
    /\ fUseCrypto => vMasterKey # None
    /\ WritesKey(wrote, after)
    /\ IF fUseCrypto
       THEN /\ mapCryptedKeys' = Put(mapCryptedKeys, k, vMasterKey)
            /\ dbCKey' = IF wrote THEN Put(dbCKey, k, vMasterKey) ELSE dbCKey
            /\ UNCHANGED <<mapKeys, dbKey, plain>>
       ELSE /\ mapKeys' = mapKeys \cup {k}
            /\ dbKey' = IF wrote THEN dbKey \cup {k} ELSE dbKey
            /\ plain' = IF wrote THEN plain \cup {k} ELSE plain
            /\ UNCHANGED <<mapCryptedKeys, dbCKey>>

\* TopUpKeyPool: another key ...
TopUp(wrote) ==
    /\ pc = "topup" /\ Cardinality(setKeyPool) < Size + 1
    /\ GenerateNewKey("write", wrote)
    /\ UNCHANGED <<fUseCrypto, vMasterKey, mapMasterKeys, setKeyPool, vchDefaultKey, dbMKey, dbPool,
                   dbDefault, given, told, slipped, interrupted>>

\* ... unless the wallet has been locked since TopUpKeyPool or NewKeyPool looked ...
LockedOut ==
    /\ pc \in {"topup", "fill"} /\ IsLocked
    /\ IF pc = "topup" THEN Cardinality(setKeyPool) < Size + 1 ELSE nIndex <= Size
    /\ Throw
    /\ UNCHANGED <<memory, disk, history>>

nEnd == IF setKeyPool = {} THEN 1 ELSE Max(setKeyPool) + 1

\* ... and its place in the pool.
TopUpWrite(wrote) ==
    /\ pc = "write" /\ Done(wrote)
    /\ IF wrote THEN /\ dbPool' = Put(dbPool, nEnd, newKey)
                     /\ setKeyPool' = setKeyPool \cup {nEnd}
                     /\ pc' = "topup" /\ newKey' = 0 /\ UNCHANGED <<call, nIndex, toErase>>
                ELSE Throw /\ UNCHANGED <<dbPool, setKeyPool>>
    /\ UNCHANGED <<secrets, vMasterKey, mapMasterKeys, vchDefaultKey, dbKey, dbCKey, dbMKey,
                   dbDefault, past>>

TopUpDone ==
    /\ pc = "topup" /\ Cardinality(setKeyPool) >= Size + 1
    /\ IF call = "refill" THEN Return
                          ELSE pc' = "reserve" /\ UNCHANGED <<call, nIndex, newKey, toErase>>
    /\ UNCHANGED <<memory, disk, history>>

\* ReserveKeyFromKeyPool of a locked wallet without keys: an error, or the default
\* key once more.  (An unlocked one has been topped up.)
ReserveNothing ==
    /\ pc = "reserve" /\ setKeyPool = {}
    /\ Return
    /\ UNCHANGED <<memory, disk, history>>

\* The oldest key.  An exception here leaves its record behind.
Reserve(read) ==
    LET oldest == Min(setKeyPool)
        known  == oldest \in DOMAIN dbPool /\ HaveKey(dbPool[oldest])
    IN
    /\ pc = "reserve" /\ setKeyPool # {}
    /\ Done(read)
    /\ setKeyPool' = setKeyPool \ {oldest}
    /\ IF read /\ known THEN /\ pc' = "hold" /\ nIndex' = oldest
                             /\ UNCHANGED <<call, newKey, toErase, slipped>>
                        ELSE Throw /\ slipped' = TRUE
    /\ UNCHANGED <<secrets, vMasterKey, mapMasterKeys, vchDefaultKey, disk, nKeys, given, plain,
                   told, interrupted>>

\* Mutant: a key that is kept stays in wallet.dat.
KeepKeyInMemory(erased) ==
    /\ given' = given \cup {dbPool[nIndex]}
    /\ UNCHANGED <<dbPool, slipped>>

\* KeepKey.  Nobody looks whether the record was erased.
KeepKey(erased) ==
    /\ given' = given \cup {dbPool[nIndex]}
    /\ dbPool' = IF erased THEN Drop(dbPool, nIndex) ELSE dbPool
    /\ slipped' = (slipped \/ ~erased)

Keep(erased) ==
    /\ pc = "hold" /\ call # "peek" /\ Done(erased)
    /\ KeepKey(erased)
    /\ IF call \in {"first", "default"}
       THEN pc' = "default" /\ newKey' = dbPool[nIndex] /\ UNCHANGED <<call, nIndex, toErase>>
       ELSE Return
    /\ UNCHANGED <<memory, dbKey, dbCKey, dbMKey, dbDefault, nKeys, plain, told, interrupted>>

\* ReturnKey: of a transaction that is not sent, and of everything that only looks.
ReturnKey ==
    /\ pc = "hold" /\ call \in {"send", "peek"}
    /\ setKeyPool' = setKeyPool \cup {nIndex}
    /\ Return
    /\ UNCHANGED <<secrets, vMasterKey, mapMasterKeys, vchDefaultKey, disk, history>>

\* SetDefaultKey, whose result nobody looks at.
SetDefaultKey(wrote) ==
    /\ pc = "default" /\ Done(wrote)
    /\ dbDefault' = IF wrote THEN newKey ELSE dbDefault
    /\ vchDefaultKey' = dbDefault'
    /\ Return
    /\ UNCHANGED <<secrets, vMasterKey, mapMasterKeys, setKeyPool, dbKey, dbCKey, dbMKey, dbPool,
                   past>>

-----------------------------------------------------------------------------
(* EncryptWallet.                                                          *)

nMasterKeyMaxID == IF mapMasterKeys = NoFun THEN 0 ELSE Max(DOMAIN mapMasterKeys)

\* TxnBegin is refused: the master key is in the map already, and stays there.
EncryptRefused(p) ==
    /\ pc = "idle" /\ ~fUseCrypto /\ Done(FALSE)
    /\ nMasterKeyMaxID < MaxMaster
    /\ mapMasterKeys' = Put(mapMasterKeys, nMasterKeyMaxID + 1, p)
    /\ UNCHANGED <<secrets, vMasterKey, setKeyPool, vchDefaultKey, disk, control, past>>

\* What the transaction writes, where nobody looks whether the master key was
\* written and the plain keys were erased.
Records(id, p, lost, left) ==
    /\ dbCKey' = [k \in DOMAIN dbCKey \cup mapKeys |-> IF k \in mapKeys THEN id ELSE dbCKey[k]]
    /\ dbMKey' = IF lost THEN dbMKey ELSE Put(dbMKey, id, p)
    /\ dbKey' = dbKey \cap left

\* TxnCommit, with all before it, and the unlocking after it.  (The exit(1) of a
\* refused commit or key, such as one that is there already, is a Crash.)
Encrypt(p, lost, left, chance) ==
    LET id == nMasterKeyMaxID + 1 IN
    /\ pc = "idle" /\ ~fUseCrypto
    /\ id <= MaxMaster /\ mapKeys \cap DOMAIN dbCKey = {}
    /\ Done(~lost /\ left = {})
    /\ fUseCrypto' = TRUE /\ mapKeys' = {}
    /\ mapCryptedKeys' = [k \in mapKeys |-> id]
    /\ mapMasterKeys' = Put(mapMasterKeys, id, p)
    /\ vMasterKey' = Unlocked(p, mapMasterKeys', mapCryptedKeys', chance)
    /\ Records(id, p, lost, left)
    /\ told' = p /\ slipped' = (slipped \/ lost \/ left # {})
    /\ pc' = "flush" /\ call' = "encrypt" /\ toErase' = setKeyPool
    /\ UNCHANGED <<setKeyPool, vchDefaultKey, dbPool, dbDefault, nIndex, newKey, nKeys, given, plain,
                   interrupted>>

\* NewKeyPool erases the records of the pool, one by one ...
NewKeyPoolErase(erased) ==
    /\ pc = "flush" /\ toErase # {} /\ Done(erased)
    /\ toErase' = toErase \ {Min(toErase)}
    /\ dbPool' = IF erased THEN Drop(dbPool, Min(toErase)) ELSE dbPool
    /\ slipped' = (slipped \/ ~erased)
    /\ UNCHANGED <<memory, dbKey, dbCKey, dbMKey, dbDefault, pc, call, nIndex, newKey, nKeys, given,
                   plain, told, interrupted>>

NewKeyPoolClear == setKeyPool' = {}

\* ... empties it, and fills it if the wallet is unlocked ...
NewKeyPoolCleared ==
    /\ pc = "flush" /\ toErase = {}
    /\ NewKeyPoolClear
    /\ pc' = IF IsLocked THEN "rewrite" ELSE "fill"
    /\ nIndex' = 1
    /\ UNCHANGED <<secrets, vMasterKey, mapMasterKeys, vchDefaultKey, disk, call, newKey, toErase,
                   history>>

NewKeyPoolFill(wrote) ==
    /\ pc = "fill" /\ nIndex <= Size
    /\ GenerateNewKey("fillwrite", wrote)
    /\ UNCHANGED <<fUseCrypto, vMasterKey, mapMasterKeys, setKeyPool, vchDefaultKey, dbMKey, dbPool,
                   dbDefault, given, told, slipped, interrupted>>

\* ... where nobody looks whether the pool's record was written.
NewKeyPoolWrite(wrote) ==
    /\ pc = "fillwrite" /\ Done(wrote)
    /\ dbPool' = IF wrote THEN Put(dbPool, nIndex, newKey) ELSE dbPool
    /\ setKeyPool' = setKeyPool \cup {nIndex}
    /\ slipped' = (slipped \/ ~wrote)
    /\ pc' = "fill" /\ nIndex' = nIndex + 1 /\ newKey' = 0
    /\ UNCHANGED <<secrets, vMasterKey, mapMasterKeys, vchDefaultKey, dbKey, dbCKey, dbMKey,
                   dbDefault, call, toErase, nKeys, given, plain, told, interrupted>>

NewKeyPoolDone ==
    /\ pc = "fill" /\ nIndex > Size
    /\ pc' = "rewrite"
    /\ UNCHANGED <<memory, disk, call, nIndex, newKey, toErase, history>>

\* Lock, Rewrite, which keeps the records, and StartShutdown.
EncryptDone ==
    /\ pc = "rewrite"
    /\ Forget
    /\ UNCHANGED <<disk, history>>

-----------------------------------------------------------------------------
Next ==
    \/ Start \/ Crash \/ Lock
    \/ \E p \in Pass, chance \in BOOLEAN : Unlock(p, chance)
    \/ \E old, new \in Pass, chance, written \in BOOLEAN :
          ChangeWalletPassphrase(old, new, chance, written)
    \/ \E c \in Calls \ {"none", "first", "encrypt"} : Begin(c)
    \/ \E wrote \in BOOLEAN : TopUp(wrote) \/ TopUpWrite(wrote)
    \/ LockedOut \/ TopUpDone \/ ReserveNothing
    \/ \E read \in BOOLEAN : Reserve(read)
    \/ \E erased \in BOOLEAN : Keep(erased) \/ NewKeyPoolErase(erased)
    \/ ReturnKey
    \/ \E wrote \in BOOLEAN : SetDefaultKey(wrote) \/ NewKeyPoolFill(wrote) \/ NewKeyPoolWrite(wrote)
    \/ \E p \in Pass : EncryptRefused(p)
    \/ \E p \in Pass, lost, chance \in BOOLEAN, left \in {{}} \cup {{k} : k \in mapKeys} :
          Encrypt(p, lost, left, chance)
    \/ NewKeyPoolCleared \/ NewKeyPoolDone \/ EncryptDone

Spec == Init /\ [][Next]_vars

-----------------------------------------------------------------------------
(* Properties.                                                             *)

Stored == dbKey \cup DOMAIN dbCKey

\* Every key that somebody was given, that is in the pool's records or that is the
\* default key has its secret in wallet.dat, at every moment at which the process
\* may die; and every variable keeps its type.
NothingLost == TypeOK /\ given \cup Range(dbPool) \cup ({dbDefault} \ {None}) \subseteq Stored

\* wallet.dat never holds plain keys beside encrypted ones: a start would stop
\* loading at the first encrypted one.  (Until a refused erasure is passed over.)
NeverBoth == ~slipped => dbKey = {} \/ DOMAIN dbCKey = {}

\* A start would find every encrypted key opened by the passphrase the user believes
\* in, whatever encryptions failed before, and whichever master key the wallet was
\* unlocked with when the key was made.
KeysOpen ==
    ~slipped /\ DOMAIN dbCKey # {} =>
        LET id == Unlocked(told, dbMKey, dbCKey, FALSE)
        IN  id # None /\ \A k \in DOMAIN dbCKey : dbCKey[k] = id

\* Whenever the process dies, the next start reads all of wallet.dat and opens
\* every key in it.
StartOpens == NeverBoth /\ KeysOpen

\* No key from the pool is given twice, over restarts: none is still recorded when it
\* has been given, and none is recorded twice.
GivenOnce ==
    ~slipped => /\ Range(dbPool) \cap given = {}
                /\ \A i, j \in DOMAIN dbPool : dbPool[i] = dbPool[j] => i = j

\* Every index of the pool has a record with a key that the store knows.
PoolReadable ==
    ~slipped /\ pc \notin {"off", "flush"} =>
        \A i \in setKeyPool : i \in DOMAIN dbPool /\ HaveKey(dbPool[i])

\* Once an encryption has come through, no key that wallet.dat has held unencrypted
\* is given any more, not even after a restart.
FreshAfterEncryption ==
    ~slipped /\ ~interrupted /\ pc # "flush" /\ DOMAIN dbCKey # {} => Range(dbPool) \cap plain = {}

\* The pool's records are keys that can be read, that nobody has been given and that
\* were never stored unencrypted.
PoolSound == GivenOnce /\ PoolReadable /\ FreshAfterEncryption
=============================================================================
