-------------------------- MODULE WalletKeys_proofs --------------------------
(***************************************************************************)
(* The keys of a wallet, for any number of keys, master keys, passphrases  *)
(* and refusals by wallet.dat, whenever the process dies: no key that      *)
(* somebody relies on is lost, the next start opens every key, and the     *)
(* pool gives no key twice.  And its unlock timers.                        *)
(***************************************************************************)
EXTENDS WalletKeys, WalletLock, FiniteSetTheorems, WellFoundedInduction, TLAPS

\* Keys and places in the pool are at most as many as keys were made.
Numbered ==
    /\ mapKeys \cup DOMAIN mapCryptedKeys \cup Stored \cup given \cup plain \subseteq 1 .. nKeys
    /\ setKeyPool \cup DOMAIN dbPool \subseteq 1 .. nKeys
    /\ pc = "write" => nKeys \notin setKeyPool
    /\ pc = "fill" => nIndex \in 1 .. nKeys + 1
    /\ pc = "fillwrite" => nIndex \in 1 .. nKeys

\* A key on its way into the pool is the newest one, stored, and known to nobody.
Making ==
    pc \in {"write", "fillwrite"} =>
      /\ newKey = nKeys /\ newKey \in Stored
      /\ newKey \notin given /\ newKey \notin Range(dbPool)
      /\ fUseCrypto => newKey \notin plain

\* A key that is held is out of the pool and still in wallet.dat; the default key to be
\* was given.
Held == /\ pc = "hold" => nIndex \in DOMAIN dbPool /\ nIndex \notin setKeyPool
        /\ pc = "default" => newKey \in given

\* Whoever relies on a key finds it stored.
Relied == given \cup Range(dbPool) \cup ({dbDefault} \ {None}) \subseteq Stored

\* Memory has what wallet.dat has ...
InMemory == pc # "off" /\ ~fUseCrypto => dbKey \subseteq mapKeys

\* ... and is encrypted exactly if wallet.dat is.
OneMode ==
    ~slipped =>
      /\ dbKey = {} \/ DOMAIN dbCKey = {}
      /\ pc # "off" /\ fUseCrypto => dbKey = {} /\ DOMAIN dbCKey # {}
                                     /\ DOMAIN dbCKey \subseteq DOMAIN mapCryptedKeys
      /\ pc # "off" /\ ~fUseCrypto => DOMAIN dbCKey = {}

\* wallet.dat has one master key, with which all keys are encrypted, in memory too,
\* though there may be other master keys.
OneMaster ==
    ~slipped =>
      /\ DOMAIN dbCKey = {} => DOMAIN dbMKey = {}
      /\ \A k \in DOMAIN dbCKey : DOMAIN dbMKey = {dbCKey[k]} /\ dbMKey[dbCKey[k]] = told
      /\ pc # "off" /\ fUseCrypto =>
           \A k \in DOMAIN dbCKey :
             /\ \A j \in DOMAIN mapCryptedKeys : mapCryptedKeys[j] = dbCKey[k]
             /\ vMasterKey \in {None, dbCKey[k]}

\* Only the first run of a wallet finds no key in it.
KeysMade ==
    ~slipped /\ (pc \in {"idle", "reserve", "hold", "default"}
                   \/ (pc \notin {"off", "failed"} /\ call # "first"))
      => Stored # {}

\* The pool in memory is that of wallet.dat, but for the key that is held and for
\* those that NewKeyPool is erasing.
PoolInStep ==
    ~slipped =>
      /\ pc \notin {"off", "flush", "hold"} => setKeyPool = DOMAIN dbPool
      /\ pc = "hold" => setKeyPool \cup {nIndex} = DOMAIN dbPool
      /\ pc = "flush" => toErase = DOMAIN dbPool

\* The inductive invariant.
Inv == /\ TypeOK /\ Numbered /\ Making /\ Held /\ Relied /\ InMemory
       /\ OneMode /\ OneMaster /\ KeysMade /\ PoolInStep
       /\ GivenOnce /\ FreshAfterEncryption
-----------------------------------------------------------------------------
(* Partial functions and least elements.                                   *)

\* A partial function is a function on some subset.
LEMMA PartialIs ==
  ASSUME NEW S, NEW T, NEW f
  PROVE  f \in Partial(S, T) <=> \E D \in SUBSET S : f \in [D -> T]
BY DEF Partial

\* A record that is written (Put).
LEMMA PutIs ==
  ASSUME NEW S, NEW T, NEW f \in Partial(S, T), NEW x \in S, NEW v \in T
  PROVE  /\ Put(f, x, v) \in Partial(S, T) /\ DOMAIN Put(f, x, v) = DOMAIN f \cup {x}
         /\ Put(f, x, v)[x] = v /\ \A y \in DOMAIN f \ {x} : Put(f, x, v)[y] = f[y]
         /\ Range(Put(f, x, v)) \subseteq Range(f) \cup {v}
<1>1. PICK D \in SUBSET S : f \in [D -> T]
  BY PartialIs
<1>2. Put(f, x, v) \in [D \cup {x} -> T] /\ D \cup {x} \in SUBSET S
  BY <1>1 DEF Put
<1>3. Put(f, x, v) \in Partial(S, T)
  BY <1>2, PartialIs
<1>4. /\ DOMAIN Put(f, x, v) = DOMAIN f \cup {x}
      /\ Put(f, x, v)[x] = v /\ \A y \in DOMAIN f \ {x} : Put(f, x, v)[y] = f[y]
  BY DEF Put
<1>5. Range(Put(f, x, v)) \subseteq Range(f) \cup {v}
  BY <1>4 DEF Range
<1> QED BY <1>3, <1>4, <1>5

\* A record that is erased (Drop).
LEMMA DropIs ==
  ASSUME NEW S, NEW T, NEW f \in Partial(S, T), NEW x
  PROVE  /\ Drop(f, x) \in Partial(S, T) /\ DOMAIN Drop(f, x) = DOMAIN f \ {x}
         /\ \A y \in DOMAIN f \ {x} : Drop(f, x)[y] = f[y]
         /\ Range(Drop(f, x)) \subseteq Range(f)
<1>1. PICK D \in SUBSET S : f \in [D -> T]
  BY PartialIs
<1>2. Drop(f, x) \in [D \ {x} -> T] /\ D \ {x} \in SUBSET S
  BY <1>1 DEF Drop
<1>3. Drop(f, x) \in Partial(S, T)
  BY <1>2, PartialIs
<1>4. DOMAIN Drop(f, x) = DOMAIN f \ {x} /\ \A y \in DOMAIN f \ {x} : Drop(f, x)[y] = f[y]
  BY DEF Drop
<1> QED BY <1>3, <1>4 DEF Range

\* What a partial function gives.
LEMMA PartialGives ==
  ASSUME NEW S, NEW T, NEW f \in Partial(S, T)
  PROVE  /\ DOMAIN f \subseteq S /\ \A x \in DOMAIN f : f[x] \in T
         /\ Range(f) \subseteq T /\ \A x \in DOMAIN f : f[x] \in Range(f)
         /\ DOMAIN f = {} => f = NoFun
<1>1. PICK D \in SUBSET S : f \in [D -> T]
  BY PartialIs
<1> QED BY <1>1 DEF Range, NoFun

\* The empty one.
LEMMA NoFunIs ==
  ASSUME NEW S, NEW T PROVE NoFun \in Partial(S, T) /\ DOMAIN NoFun = {} /\ Range(NoFun) = {}
<1>1. NoFun \in [{} -> T] /\ {} \in SUBSET S
  BY DEF NoFun
<1> QED BY <1>1, PartialIs DEF NoFun, Range

\* The least number of a set (the front of a std::set or std::map).
LEMMA LeastIs ==
  ASSUME NEW S, S \subseteq Nat, S # {}
  PROVE  Min(S) \in S /\ \A x \in S : Min(S) <= x
<1> DEFINE R == {ss \in Nat \X Nat : ss[1] < ss[2]}
<1>1. \E x \in S : \A y \in S : ~(<<y, x>> \in R)
  <2> HIDE DEF R
  <2>1. IsWellFoundedOn(R, Nat)
    BY NatLessThanWellFounded DEF R, OpToRel
  <2> QED BY <2>1, WFMin
<1>2. PICK m \in S : \A y \in S : ~(<<y, m>> \in R)
  BY <1>1
<1>3. ASSUME NEW y \in S PROVE m <= y
  <2>1. y \in Nat /\ m \in Nat /\ ~(<<y, m>> \in R)
    BY <1>2
  <2>2. ~(y < m)
    BY <2>1
  <2> QED BY <2>1, <2>2
<1> QED BY <1>3 DEF Min

\* The greatest number of a bounded set (its back).
LEMMA GreatestIs ==
  ASSUME NEW b \in Nat, NEW S, S \subseteq 1 .. b, S # {}
  PROVE  Max(S) \in S /\ \A x \in S : x <= Max(S)
<1> DEFINE T == {b - x : x \in S}
<1>0. \A x \in S : x \in Nat /\ b - x \in Nat
  OBVIOUS
<1>1. T \subseteq Nat /\ T # {}
  BY <1>0
<1>2. Min(T) \in T /\ \A y \in T : Min(T) <= y
  BY <1>1, LeastIs
<1>3. PICK m \in S : Min(T) = b - m
  BY <1>2
<1> HIDE DEF T
<1>4. ASSUME NEW x \in S PROVE m >= x
  <2>0. b - x \in T
    BY DEF T
  <2>1. x \in Int /\ m \in Int
    BY <1>0
  <2>2. Min(T) <= b - x
    BY <1>2, <2>0
  <2>3. b - m <= b - x
    BY <1>3, <2>2
  <2> QED BY <2>1, <2>3
<1>5. Max(S) \in S /\ \A x \in S : Max(S) >= x
  BY <1>4 DEF Max
<1> QED BY <1>0, <1>5

\* What Unlock ends with is a master key of the passphrase that decrypts the first key.
LEMMA UnlockedIs ==
  ASSUME NEW p, NEW masters \in Partial(Master, Pass), NEW ckeys, NEW chance \in BOOLEAN,
         Unlocked(p, masters, ckeys, chance) # None
  PROVE  /\ Unlocked(p, masters, ckeys, chance) \in DOMAIN masters
         /\ KeyFits(Unlocked(p, masters, ckeys, chance), ckeys)
<1> DEFINE right == {id \in DOMAIN masters : masters[id] = p /\ KeyFits(id, ckeys)}
<1>1. right # {} /\ Unlocked(p, masters, ckeys, chance) = Min(right)
  BY DEF Unlocked
<1>2. right \subseteq Nat
  BY PartialGives DEF Master
<1>3. Min(right) \in right
  BY <1>1, <1>2, LeastIs
<1> QED BY <1>1, <1>3

\* ... the one all keys are encrypted with, if there is one for all.
LEMMA FitsIs ==
  ASSUME NEW ckeys, DOMAIN ckeys \subseteq Nat, DOMAIN ckeys # {}, NEW m,
         \A k \in DOMAIN ckeys : ckeys[k] = m, NEW id, KeyFits(id, ckeys)
  PROVE  id = m
<1>1. Min(DOMAIN ckeys) \in DOMAIN ckeys /\ \A j \in DOMAIN ckeys : Min(DOMAIN ckeys) <= j
  BY LeastIs
<1> QED BY <1>1 DEF KeyFits

\* The least values.
LEMMA Zero == 0 \in 0 .. MaxKey + 1 /\ 0 \in 0 .. MaxKey /\ 1 \in 0 .. MaxKey + 1
BY KeysAssumption

\* Lock() forgets the master key, in the middle of any call.
LEMMA LockKeeps == ASSUME Inv, Lock PROVE Inv'
<1> USE DEF Inv, Lock, memory, secrets, disk, control, past, history
<1>1. TypeOK'
  BY DEF TypeOK
<1>2. Numbered'
  BY DEF Numbered, Stored
<1>3. Making'
  BY DEF Making, Stored
<1>4. Held'
  BY DEF Held
<1>5. Relied'
  BY DEF Relied, Stored
<1>6. InMemory'
  BY DEF InMemory
<1>7. OneMode'
  BY DEF OneMode
<1>8. OneMaster'
  BY DEF OneMaster
<1>9. KeysMade'
  BY DEF KeysMade, Stored
<1>10. PoolInStep'
  BY DEF PoolInStep
<1>11. GivenOnce'
  BY DEF GivenOnce
<1>12. FreshAfterEncryption'
  BY DEF FreshAfterEncryption
<1> QED BY <1>1, <1>2, <1>3, <1>4, <1>5, <1>6, <1>7, <1>8, <1>9, <1>10, <1>11, <1>12

\* A call that needs a key begins.
LEMMA BeginKeeps == ASSUME Inv, NEW c \in Calls \ {"none", "first", "encrypt"}, Begin(c) PROVE Inv'
<1> USE DEF Inv, Begin, IsLocked, Calls, memory, secrets, disk, control, past, history
<1>1. TypeOK'
  BY DEF TypeOK
<1>2. Numbered'
  BY DEF Numbered, Stored
<1>3. Making'
  BY DEF Making, Stored
<1>4. Held'
  BY DEF Held
<1>5. Relied'
  BY DEF Relied, Stored
<1>6. InMemory'
  BY DEF InMemory
<1>7. OneMode'
  BY DEF OneMode
<1>8. OneMaster'
  BY DEF OneMaster
<1>9. KeysMade'
  BY DEF KeysMade, Stored
<1>10. PoolInStep'
  BY DEF PoolInStep
<1>11. GivenOnce'
  BY DEF GivenOnce
<1>12. FreshAfterEncryption'
  BY DEF FreshAfterEncryption
<1> QED BY <1>1, <1>2, <1>3, <1>4, <1>5, <1>6, <1>7, <1>8, <1>9, <1>10, <1>11, <1>12

\* A wallet that was locked meanwhile ends the call.
LEMMA LockedOutKeeps == ASSUME Inv, LockedOut PROVE Inv'
<1> USE DEF Inv, LockedOut, Throw, End, Calls, memory, secrets, disk, control, past, history
<1>1. TypeOK'
  BY Zero DEF TypeOK
<1>2. Numbered'
  BY DEF Numbered, Stored
<1>3. Making'
  BY DEF Making, Stored
<1>4. Held'
  BY DEF Held
<1>5. Relied'
  BY DEF Relied, Stored
<1>6. InMemory'
  BY DEF InMemory
<1>7. OneMode'
  BY DEF OneMode
<1>8. OneMaster'
  BY DEF OneMaster
<1>9. KeysMade'
  BY DEF KeysMade, Stored
<1>10. PoolInStep'
  BY DEF PoolInStep
<1>11. GivenOnce'
  BY DEF GivenOnce
<1>12. FreshAfterEncryption'
  BY DEF FreshAfterEncryption
<1> QED BY <1>1, <1>2, <1>3, <1>4, <1>5, <1>6, <1>7, <1>8, <1>9, <1>10, <1>11, <1>12

\* TopUpKeyPool finds the pool full.
LEMMA TopUpDoneKeeps == ASSUME Inv, TopUpDone PROVE Inv'
<1> USE DEF Inv, TopUpDone, Return, End, Calls, memory, secrets, disk, control, past, history
<1>1. TypeOK'
  BY Zero DEF TypeOK
<1>2. Numbered'
  BY DEF Numbered, Stored
<1>3. Making'
  BY DEF Making, Stored
<1>4. Held'
  BY DEF Held
<1>5. Relied'
  BY DEF Relied, Stored
<1>6. InMemory'
  BY DEF InMemory
<1>7. OneMode'
  BY DEF OneMode
<1>8. OneMaster'
  BY DEF OneMaster
<1>9. KeysMade'
  <2> SUFFICES ASSUME ~slipped, pc' = "reserve" PROVE Stored # {}
    BY DEF KeysMade, Stored
  <2>1. setKeyPool # {} /\ setKeyPool = DOMAIN dbPool
    BY FS_EmptySet, KeysAssumption DEF PoolInStep
  <2> QED BY <2>1 DEF Relied, Range
<1>10. PoolInStep'
  BY DEF PoolInStep
<1>11. GivenOnce'
  BY DEF GivenOnce
<1>12. FreshAfterEncryption'
  BY DEF FreshAfterEncryption
<1> QED BY <1>1, <1>2, <1>3, <1>4, <1>5, <1>6, <1>7, <1>8, <1>9, <1>10, <1>11, <1>12

\* There is no key to reserve.
LEMMA ReserveNothingKeeps == ASSUME Inv, ReserveNothing PROVE Inv'
<1> USE DEF Inv, ReserveNothing, Return, End, Calls, memory, secrets, disk, control, past, history
<1>1. TypeOK'
  BY Zero DEF TypeOK
<1>2. Numbered'
  BY DEF Numbered, Stored
<1>3. Making'
  BY DEF Making, Stored
<1>4. Held'
  BY DEF Held
<1>5. Relied'
  BY DEF Relied, Stored
<1>6. InMemory'
  BY DEF InMemory
<1>7. OneMode'
  BY DEF OneMode
<1>8. OneMaster'
  BY DEF OneMaster
<1>9. KeysMade'
  BY DEF KeysMade, Stored
<1>10. PoolInStep'
  BY DEF PoolInStep
<1>11. GivenOnce'
  BY DEF GivenOnce
<1>12. FreshAfterEncryption'
  BY DEF FreshAfterEncryption
<1> QED BY <1>1, <1>2, <1>3, <1>4, <1>5, <1>6, <1>7, <1>8, <1>9, <1>10, <1>11, <1>12

\* A key that nobody took goes back to the pool.
LEMMA ReturnKeyKeeps == ASSUME Inv, ReturnKey PROVE Inv'
<1> USE DEF Inv, ReturnKey, Return, End, Calls, memory, secrets, disk, control, past, history
<1>1. TypeOK'
  BY Zero, PartialGives DEF TypeOK, Held
<1>2. Numbered'
  BY DEF Numbered, Stored, Held
<1>3. Making'
  BY DEF Making, Stored
<1>4. Held'
  BY DEF Held
<1>5. Relied'
  BY DEF Relied, Stored
<1>6. InMemory'
  BY DEF InMemory
<1>7. OneMode'
  BY DEF OneMode
<1>8. OneMaster'
  BY DEF OneMaster
<1>9. KeysMade'
  BY DEF KeysMade, Stored
<1>10. PoolInStep'
  BY DEF PoolInStep
<1>11. GivenOnce'
  BY DEF GivenOnce
<1>12. FreshAfterEncryption'
  BY DEF FreshAfterEncryption
<1> QED BY <1>1, <1>2, <1>3, <1>4, <1>5, <1>6, <1>7, <1>8, <1>9, <1>10, <1>11, <1>12

\* NewKeyPool is done.
LEMMA NewKeyPoolDoneKeeps == ASSUME Inv, NewKeyPoolDone PROVE Inv'
<1> USE DEF Inv, NewKeyPoolDone, memory, secrets, disk, control, past, history
<1>1. TypeOK'
  BY DEF TypeOK
<1>2. Numbered'
  BY DEF Numbered, Stored
<1>3. Making'
  BY DEF Making, Stored
<1>4. Held'
  BY DEF Held
<1>5. Relied'
  BY DEF Relied, Stored
<1>6. InMemory'
  BY DEF InMemory
<1>7. OneMode'
  BY DEF OneMode
<1>8. OneMaster'
  BY DEF OneMaster
<1>9. KeysMade'
  BY DEF KeysMade, Stored
<1>10. PoolInStep'
  BY DEF PoolInStep
<1>11. GivenOnce'
  BY DEF GivenOnce
<1>12. FreshAfterEncryption'
  BY DEF FreshAfterEncryption
<1> QED BY <1>1, <1>2, <1>3, <1>4, <1>5, <1>6, <1>7, <1>8, <1>9, <1>10, <1>11, <1>12

\* NewKeyPool has erased the records of the old pool, so that none is left.
LEMMA NewKeyPoolClearedKeeps == ASSUME Inv, NewKeyPoolCleared PROVE Inv'
<1> USE DEF Inv, NewKeyPoolCleared, NewKeyPoolClear, IsLocked, memory, secrets, disk, control, past, history
<1>1. TypeOK'
  BY Zero DEF TypeOK
<1>2. Numbered'
  BY DEF Numbered, Stored, TypeOK
<1>3. Making'
  BY DEF Making, Stored
<1>4. Held'
  BY DEF Held
<1>5. Relied'
  BY DEF Relied, Stored
<1>6. InMemory'
  BY DEF InMemory
<1>7. OneMode'
  BY DEF OneMode
<1>8. OneMaster'
  BY DEF OneMaster
<1>9. KeysMade'
  BY DEF KeysMade, Stored
<1>10. PoolInStep'
  BY DEF PoolInStep
<1>11. GivenOnce'
  BY DEF GivenOnce
<1>12. FreshAfterEncryption'
  BY DEF FreshAfterEncryption, PoolInStep, Range
<1> QED BY <1>1, <1>2, <1>3, <1>4, <1>5, <1>6, <1>7, <1>8, <1>9, <1>10, <1>11, <1>12

\* The process ends after an encryption.
LEMMA EncryptDoneKeeps == ASSUME Inv, EncryptDone PROVE Inv'
<1> USE DEF Inv, EncryptDone, Forget, Calls, memory, secrets, disk, control, past, history
<1>1. TypeOK'
  BY Zero, NoFunIs DEF TypeOK
<1>2. Numbered'
  BY NoFunIs DEF Numbered, Stored
<1>3. Making'
  BY DEF Making, Stored
<1>4. Held'
  BY DEF Held
<1>5. Relied'
  BY DEF Relied, Stored
<1>6. InMemory'
  BY DEF InMemory
<1>7. OneMode'
  BY DEF OneMode
<1>8. OneMaster'
  BY DEF OneMaster
<1>9. KeysMade'
  BY DEF KeysMade, Stored
<1>10. PoolInStep'
  BY DEF PoolInStep
<1>11. GivenOnce'
  BY DEF GivenOnce
<1>12. FreshAfterEncryption'
  BY DEF FreshAfterEncryption
<1> QED BY <1>1, <1>2, <1>3, <1>4, <1>5, <1>6, <1>7, <1>8, <1>9, <1>10, <1>11, <1>12

\* The process dies.
LEMMA CrashKeeps == ASSUME Inv, Crash PROVE Inv'
<1> USE DEF Inv, Crash, Forget, Calls, memory, secrets, disk, control, past, history
<1>1. TypeOK'
  BY Zero, NoFunIs DEF TypeOK
<1>2. Numbered'
  BY NoFunIs DEF Numbered, Stored
<1>3. Making'
  BY DEF Making, Stored
<1>4. Held'
  BY DEF Held
<1>5. Relied'
  BY DEF Relied, Stored
<1>6. InMemory'
  BY DEF InMemory
<1>7. OneMode'
  BY DEF OneMode
<1>8. OneMaster'
  BY DEF OneMaster
<1>9. KeysMade'
  BY DEF KeysMade, Stored
<1>10. PoolInStep'
  BY DEF PoolInStep
<1>11. GivenOnce'
  BY DEF GivenOnce
<1>12. FreshAfterEncryption'
  BY DEF FreshAfterEncryption
<1> QED BY <1>1, <1>2, <1>3, <1>4, <1>5, <1>6, <1>7, <1>8, <1>9, <1>10, <1>11, <1>12

\* LoadWallet reads what wallet.dat has.
LEMMA StartKeeps == ASSUME Inv, Start PROVE Inv'
<1> USE DEF Inv, Start, LoadsCrypted, Corrupt, fFirstRun, Calls, memory, secrets, disk, control, past, history
<1>1. TypeOK'
  BY NoFunIs, PartialGives DEF TypeOK
<1>2. Numbered'
  BY NoFunIs DEF Numbered, Stored
<1>3. Making'
  BY DEF Making, Stored
<1>4. Held'
  BY DEF Held
<1>5. Relied'
  BY DEF Relied, Stored
<1>6. InMemory'
  BY DEF InMemory
<1>7. OneMode'
  BY DEF OneMode
<1>8. OneMaster'
  <2>1. ASSUME ~slipped, NEW j \in DOMAIN dbCKey, NEW k \in DOMAIN dbCKey PROVE dbCKey[j] = dbCKey[k]
    BY <2>1 DEF OneMaster
  <2> QED BY <2>1 DEF OneMaster
<1>9. KeysMade'
  BY DEF KeysMade, Stored, Relied
<1>10. PoolInStep'
  BY DEF PoolInStep
<1>11. GivenOnce'
  BY DEF GivenOnce
<1>12. FreshAfterEncryption'
  BY DEF FreshAfterEncryption
<1> QED BY <1>1, <1>2, <1>3, <1>4, <1>5, <1>6, <1>7, <1>8, <1>9, <1>10, <1>11, <1>12

-----------------------------------------------------------------------------
(* Passphrases.                                                            *)

\* Unlock and ChangeWalletPassphrase end with the master key that all keys are
\* encrypted with, whatever other master keys there are.
LEMMA MasterFound ==
  ASSUME Inv, NEW p, NEW chance \in BOOLEAN, NEW id,
         id = Unlocked(p, mapMasterKeys, mapCryptedKeys, chance)
  PROVE  /\ id \in Master \cup {None} /\ (id # None => id \in DOMAIN mapMasterKeys)
         /\ ~slipped /\ pc # "off" /\ fUseCrypto => \A k \in DOMAIN dbCKey : id \in {None, dbCKey[k]}
<1>1. mapMasterKeys \in Partial(Master, Pass) /\ DOMAIN mapMasterKeys \subseteq Master
  BY PartialGives DEF Inv, TypeOK
<1>2. id # None => id \in DOMAIN mapMasterKeys /\ KeyFits(id, mapCryptedKeys)
  BY <1>1, UnlockedIs
<1>3. ASSUME ~slipped, pc # "off", fUseCrypto, NEW k \in DOMAIN dbCKey, id # None PROVE id = dbCKey[k]
  <2>0. mapCryptedKeys \in Partial(Key, Master) /\ Key \subseteq Nat
    BY DEF Inv, TypeOK, Key
  <2>1. DOMAIN mapCryptedKeys \subseteq Nat
    BY <2>0, PartialGives
  <2>2. DOMAIN mapCryptedKeys # {} /\ \A j \in DOMAIN mapCryptedKeys : mapCryptedKeys[j] = dbCKey[k]
    BY <1>3 DEF Inv, OneMode, OneMaster
  <2> QED BY <1>2, <1>3, <2>1, <2>2, FitsIs
<1> QED BY <1>1, <1>2, <1>3

\* walletpassphrase.
LEMMA UnlockKeeps == ASSUME Inv, NEW p \in Pass, NEW chance \in BOOLEAN, Unlock(p, chance) PROVE Inv'
<1> USE DEF Inv, memory, secrets, disk, control, past, history
<1>1. /\ UNCHANGED <<secrets, mapMasterKeys, setKeyPool, vchDefaultKey, disk, control, history>>
      /\ pc = "idle" /\ fUseCrypto
  BY DEF Unlock, IsLocked
<1>2. /\ vMasterKey' \in Master \cup {None}
      /\ ~slipped => \A k \in DOMAIN dbCKey : vMasterKey' \in {None, dbCKey[k]}
  <2>1. vMasterKey' = Unlocked(p, mapMasterKeys, mapCryptedKeys, chance)
    BY DEF Unlock
  <2> QED BY <1>1, <2>1, MasterFound
<1>3. TypeOK'
  BY <1>1, <1>2 DEF TypeOK
<1>4. Numbered' /\ Making' /\ Held' /\ Relied' /\ InMemory'
  BY <1>1 DEF Numbered, Making, Held, Relied, InMemory, Stored
<1>5. OneMode' /\ KeysMade' /\ PoolInStep'
  BY <1>1 DEF OneMode, KeysMade, PoolInStep, Stored
<1>6. OneMaster'
  BY <1>1, <1>2 DEF OneMaster
<1>7. GivenOnce' /\ FreshAfterEncryption'
  BY <1>1 DEF GivenOnce, FreshAfterEncryption
<1> QED BY <1>3, <1>4, <1>5, <1>6, <1>7

\* walletpassphrasechange: the record of the one master key has the new passphrase.
LEMMA ChangeKeeps ==
  ASSUME Inv, NEW old \in Pass, NEW new \in Pass, NEW chance \in BOOLEAN, NEW written \in BOOLEAN,
         ChangeWalletPassphrase(old, new, chance, written)
  PROVE  Inv'
<1> USE DEF Inv, secrets, disk, control
<1>1. /\ UNCHANGED <<secrets, setKeyPool, vchDefaultKey, dbKey, dbCKey, dbPool, dbDefault, control,
                     nKeys, given, plain, interrupted>>
      /\ pc = "idle" /\ fUseCrypto
  BY DEF ChangeWalletPassphrase
<1>2. PICK id : id = Unlocked(old, mapMasterKeys, mapCryptedKeys, chance)
  OBVIOUS
<1>3. /\ id \in Master \cup {None} /\ (id # None => id \in DOMAIN mapMasterKeys)
      /\ ~slipped => \A k \in DOMAIN dbCKey : id \in {None, dbCKey[k]}
  BY <1>1, <1>2, MasterFound
<1>4. /\ refusals' \in 0 .. MaxRefusals /\ slipped' \in BOOLEAN /\ told' \in Pass \cup {None}
      /\ vMasterKey' \in {None, id} /\ (slipped => slipped')
  <2>1. refusals' \in 0 .. MaxRefusals
    BY KeysAssumption DEF ChangeWalletPassphrase, Done, TypeOK
  <2>2. slipped' \in BOOLEAN /\ (slipped => slipped')
    BY <1>2 DEF ChangeWalletPassphrase, TypeOK
  <2>3. told' \in Pass \cup {None} /\ vMasterKey' \in {None, id}
    BY <1>2 DEF ChangeWalletPassphrase, TypeOK
  <2> QED BY <2>1, <2>2, <2>3
<1>5. mapMasterKeys' \in Partial(Master, Pass) /\ dbMKey' \in Partial(Master, Pass)
  <2>1. CASE id = None
    BY <1>2, <2>1 DEF ChangeWalletPassphrase, TypeOK
  <2>2. CASE id # None
    <3>1. mapMasterKeys' = [mapMasterKeys EXCEPT ![id] = new]
          /\ dbMKey' = IF written THEN Put(dbMKey, id, new) ELSE dbMKey
      BY <1>2, <2>2 DEF ChangeWalletPassphrase
    <3>2. dbMKey' \in Partial(Master, Pass)
      BY <1>3, <2>2, <3>1, PutIs DEF TypeOK
    <3>3. PICK D \in SUBSET Master : mapMasterKeys \in [D -> Pass]
      BY PartialIs DEF TypeOK
    <3>4. mapMasterKeys' \in [D -> Pass]
      BY <3>1, <3>3
    <3> QED BY <3>2, <3>3, <3>4, PartialIs
  <2> QED BY <2>1, <2>2
<1>6. TypeOK'
  BY <1>1, <1>3, <1>4, <1>5 DEF TypeOK
<1>7. Numbered' /\ Making' /\ Held' /\ Relied' /\ InMemory'
  BY <1>1 DEF Numbered, Making, Held, Relied, InMemory, Stored
<1>8. OneMode' /\ KeysMade' /\ PoolInStep'
  BY <1>1, <1>4 DEF OneMode, KeysMade, PoolInStep, Stored
<1>9. OneMaster'
  <2> SUFFICES ASSUME ~slipped' PROVE OneMaster'
    BY DEF OneMaster
  <2>1. ~slipped /\ DOMAIN dbCKey # {}
    BY <1>1, <1>4 DEF OneMode
  <2>2. \A k \in DOMAIN dbCKey : vMasterKey' \in {None, dbCKey[k]}
    BY <1>3, <1>4, <2>1
  <2>3. \A k \in DOMAIN dbCKey : DOMAIN dbMKey' = {dbCKey[k]} /\ dbMKey'[dbCKey[k]] = told'
    <3>1. CASE id = None
      BY <1>2, <2>1, <3>1 DEF ChangeWalletPassphrase, OneMaster
    <3>2. CASE id # None
      <4>1. dbMKey' = Put(dbMKey, id, new) /\ told' = new
        BY <1>2, <3>2 DEF ChangeWalletPassphrase
      <4>2. DOMAIN dbMKey' = DOMAIN dbMKey \cup {id} /\ dbMKey'[id] = new
        <5>1. dbMKey \in Partial(Master, Pass) /\ id \in Master
          BY <1>3, <3>2 DEF TypeOK
        <5> QED BY <4>1, <5>1, PutIs
      <4> QED BY <1>3, <2>1, <3>2, <4>1, <4>2 DEF OneMaster
    <3> QED BY <3>1, <3>2
  <2> QED BY <1>1, <2>1, <2>2, <2>3 DEF OneMaster
<1>10. GivenOnce' /\ FreshAfterEncryption'
  BY <1>1, <1>4 DEF GivenOnce, FreshAfterEncryption
<1> QED BY <1>6, <1>7, <1>8, <1>9, <1>10

-----------------------------------------------------------------------------
(* The pool.                                                               *)

\* GenerateNewKey and AddKeyPubKey, in TopUpKeyPool and in NewKeyPool.
LEMMA GenerateKeeps ==
  ASSUME Inv, NEW wrote \in BOOLEAN,
         \/ pc = "topup" /\ GenerateNewKey("write", wrote)
         \/ pc = "fill" /\ GenerateNewKey("fillwrite", wrote),
         UNCHANGED <<fUseCrypto, vMasterKey, mapMasterKeys, setKeyPool, vchDefaultKey, dbMKey, dbPool,
                     dbDefault, given, told, slipped, interrupted>>
  PROVE  Inv'
<1> USE DEF Inv
<1>1. PICK k : k = nKeys + 1
  OBVIOUS
<1>2. /\ nKeys' = k /\ k \in Key /\ nKeys \in Nat /\ k \notin 1 .. nKeys /\ 1 .. k = 1 .. nKeys \cup {k}
  BY <1>1, KeysAssumption DEF GenerateNewKey, TypeOK, Key
<1>3. /\ wrote => /\ newKey' = k /\ UNCHANGED <<call, nIndex, toErase>>
                  /\ pc' = IF pc = "topup" THEN "write" ELSE "fillwrite"
      /\ ~wrote => Throw
      /\ refusals' \in 0 .. MaxRefusals
  BY <1>1, KeysAssumption DEF GenerateNewKey, WritesKey, Done, TypeOK
<1>4. pc' \in {"write", "fillwrite", "idle", "failed"} /\ (pc' \in {"write", "fillwrite"} <=> wrote)
      /\ (~wrote => call' = "none" /\ (pc' = "idle" => call # "first"))
  BY <1>3 DEF Throw, End
<1>5. /\ mapCryptedKeys' \in Partial(Key, Master) /\ dbCKey' \in Partial(Key, Master)
      /\ mapKeys' \subseteq Key /\ dbKey' \subseteq Key /\ plain' \subseteq Key
      /\ fUseCrypto =>
           /\ UNCHANGED <<mapKeys, dbKey, plain>>
           /\ vMasterKey \in Master /\ mapCryptedKeys' = Put(mapCryptedKeys, k, vMasterKey)
           /\ dbCKey' = IF wrote THEN Put(dbCKey, k, vMasterKey) ELSE dbCKey
           /\ DOMAIN mapCryptedKeys' = DOMAIN mapCryptedKeys \cup {k}
           /\ DOMAIN dbCKey' = DOMAIN dbCKey \cup IF wrote THEN {k} ELSE {}
      /\ ~fUseCrypto =>
           /\ UNCHANGED <<mapCryptedKeys, dbCKey>> /\ mapKeys' = mapKeys \cup {k}
           /\ dbKey' = dbKey \cup IF wrote THEN {k} ELSE {}
           /\ plain' = plain \cup IF wrote THEN {k} ELSE {}
  <2>1. CASE fUseCrypto
    <3>1. /\ UNCHANGED <<mapKeys, dbKey, plain>>
          /\ vMasterKey \in Master /\ mapCryptedKeys' = Put(mapCryptedKeys, k, vMasterKey)
          /\ dbCKey' = IF wrote THEN Put(dbCKey, k, vMasterKey) ELSE dbCKey
      BY <1>1, <2>1 DEF GenerateNewKey, TypeOK
    <3>2. /\ Put(mapCryptedKeys, k, vMasterKey) \in Partial(Key, Master)
          /\ Put(dbCKey, k, vMasterKey) \in Partial(Key, Master)
          /\ DOMAIN Put(mapCryptedKeys, k, vMasterKey) = DOMAIN mapCryptedKeys \cup {k}
          /\ DOMAIN Put(dbCKey, k, vMasterKey) = DOMAIN dbCKey \cup {k}
      <4>1. mapCryptedKeys \in Partial(Key, Master) /\ dbCKey \in Partial(Key, Master)
        BY DEF TypeOK
      <4> QED BY <1>2, <3>1, <4>1, PutIs
    <3> QED BY <2>1, <3>1, <3>2 DEF TypeOK
  <2>2. CASE ~fUseCrypto
    BY <1>1, <1>2, <2>2 DEF GenerateNewKey, TypeOK
  <2> QED BY <2>1, <2>2
<1>6. Stored' = Stored \cup IF wrote THEN {k} ELSE {}
  BY <1>5 DEF Stored
<1>7. Range(dbPool) \subseteq Stored /\ Stored \subseteq 1 .. nKeys /\ given \subseteq 1 .. nKeys
      /\ plain \subseteq 1 .. nKeys
  BY DEF Relied, Numbered
<1>8. TypeOK'
  BY <1>2, <1>3, <1>4, <1>5, Zero DEF TypeOK, Throw, End, Key, Calls
<1>9. Numbered'
  <2>1. mapKeys' \cup DOMAIN mapCryptedKeys' \cup Stored' \cup given' \cup plain' \subseteq 1 .. k
    BY <1>2, <1>5, <1>6 DEF Numbered
  <2>2. setKeyPool' \cup DOMAIN dbPool' \subseteq 1 .. k /\ k \notin setKeyPool
    BY <1>2 DEF Numbered
  <2>3. pc' = "fillwrite" => nIndex' \in 1 .. k
    BY <1>1, <1>3, <1>4 DEF Numbered
  <2> QED BY <1>2, <1>4, <2>1, <2>2, <2>3 DEF Numbered
<1>10. Making'
  BY <1>2, <1>3, <1>4, <1>5, <1>6, <1>7 DEF Making
<1>11. Held' /\ Relied' /\ InMemory'
  BY <1>4, <1>5, <1>6 DEF Held, Relied, InMemory
<1>12. OneMode'
  BY <1>4, <1>5 DEF OneMode
<1>13. OneMaster'
  <2> SUFFICES ASSUME ~slipped PROVE OneMaster'
    BY DEF OneMaster
  <2>1. CASE fUseCrypto
    <3>1. PICK j \in DOMAIN dbCKey : TRUE
      BY <2>1 DEF OneMode
    <3>2. /\ \A i \in DOMAIN mapCryptedKeys : mapCryptedKeys[i] = dbCKey[j]
          /\ \A i \in DOMAIN dbCKey : dbCKey[i] = dbCKey[j]
          /\ vMasterKey = dbCKey[j] /\ DOMAIN dbMKey = {dbCKey[j]} /\ dbMKey[dbCKey[j]] = told
      <4>1. \A i \in DOMAIN dbCKey : {dbCKey[i]} = {dbCKey[j]}
        BY <3>1 DEF OneMaster
      <4>2. vMasterKey # None
        BY <1>5, <2>1, KeysAssumption DEF Master
      <4> QED BY <2>1, <3>1, <4>1, <4>2 DEF OneMaster
    <3>3. \A i \in DOMAIN mapCryptedKeys' : mapCryptedKeys'[i] = dbCKey[j]
      BY <1>5, <2>1, <3>2 DEF Put
    <3>4. \A i \in DOMAIN dbCKey' : dbCKey'[i] = dbCKey[j]
      BY <1>5, <2>1, <3>2 DEF Put
    <3>5. DOMAIN dbCKey' # {}
      BY <1>5, <2>1, <3>1
    <3> QED BY <3>2, <3>3, <3>4, <3>5 DEF OneMaster
  <2>2. CASE ~fUseCrypto
    BY <1>5, <2>2 DEF OneMaster
  <2> QED BY <2>1, <2>2
<1>14. KeysMade'
  BY <1>3, <1>4, <1>6 DEF KeysMade
<1>15. PoolInStep' /\ GivenOnce'
  BY <1>4 DEF PoolInStep, GivenOnce
<1>16. FreshAfterEncryption'
  BY <1>4, <1>5, <1>7, <1>2 DEF FreshAfterEncryption, OneMode
<1> QED BY <1>8, <1>9, <1>10, <1>11, <1>12, <1>13, <1>14, <1>15, <1>16

\* TopUpKeyPool writes the new key behind the last one.
LEMMA TopUpWriteKeeps == ASSUME Inv, NEW wrote \in BOOLEAN, TopUpWrite(wrote) PROVE Inv'
<1> USE DEF Inv, secrets, past
<1>1. /\ UNCHANGED <<secrets, vMasterKey, mapMasterKeys, vchDefaultKey, dbKey, dbCKey, dbMKey,
                     dbDefault, past>>
      /\ pc = "write" /\ refusals' \in 0 .. MaxRefusals
  BY KeysAssumption DEF TopUpWrite, Done, TypeOK
<1>2. Stored' = Stored
  BY <1>1 DEF Stored
<1>3. CASE ~wrote
  <2>1. UNCHANGED <<dbPool, setKeyPool>> /\ Throw /\ pc' \in {"idle", "failed"}
        /\ (pc' = "idle" => call # "first")
    BY <1>3 DEF TopUpWrite, Throw, End
  <2>2. TypeOK'
    BY <1>1, <2>1, Zero DEF TypeOK, Throw, End, Calls
  <2>3. Numbered' /\ Making' /\ Held' /\ Relied' /\ InMemory'
    BY <1>1, <1>2, <2>1 DEF Numbered, Making, Held, Relied, InMemory
  <2>4. OneMode' /\ OneMaster' /\ KeysMade' /\ PoolInStep'
    BY <1>1, <1>2, <2>1 DEF OneMode, OneMaster, KeysMade, PoolInStep
  <2>5. GivenOnce' /\ FreshAfterEncryption'
    BY <1>1, <2>1 DEF GivenOnce, FreshAfterEncryption
  <2> QED BY <2>2, <2>3, <2>4, <2>5
<1>4. CASE wrote
  <2>1. /\ dbPool' = Put(dbPool, nEnd, newKey) /\ setKeyPool' = setKeyPool \cup {nEnd}
        /\ pc' = "topup" /\ newKey' = 0 /\ UNCHANGED <<call, nIndex, toErase>>
    BY <1>4 DEF TopUpWrite
  <2>2. nKeys \in Nat /\ newKey = nKeys /\ newKey \in Stored /\ newKey \in 1 .. nKeys
        /\ setKeyPool \subseteq 1 .. nKeys /\ nKeys \notin setKeyPool /\ nKeys <= MaxKey
    BY <1>1 DEF TypeOK, Making, Numbered
  <2>3. nEnd \in 1 .. nKeys
    <3>1. CASE setKeyPool = {}
      BY <2>2, <3>1 DEF nEnd
    <3>2. CASE setKeyPool # {}
      <4>1. Max(setKeyPool) \in setKeyPool
        BY <2>2, <3>2, GreatestIs
      <4>2. Max(setKeyPool) \in 1 .. nKeys /\ Max(setKeyPool) # nKeys
        BY <2>2, <4>1
      <4> QED BY <2>2, <3>2, <4>2 DEF nEnd
    <3> QED BY <3>1, <3>2
  <2>4. nEnd \in Index /\ newKey \in Key
    BY <2>2, <2>3, KeysAssumption DEF Index, Key
  <2>5. /\ dbPool' \in Partial(Index, Key) /\ DOMAIN dbPool' = DOMAIN dbPool \cup {nEnd}
        /\ dbPool'[nEnd] = newKey /\ \A i \in DOMAIN dbPool \ {nEnd} : dbPool'[i] = dbPool[i]
        /\ Range(dbPool') \subseteq Range(dbPool) \cup {newKey}
    BY <2>1, <2>4, PutIs DEF TypeOK
  <2>6. newKey \notin given /\ newKey \notin Range(dbPool) /\ (fUseCrypto => newKey \notin plain)
    BY <1>1 DEF Making
  <2>7. TypeOK'
    BY <1>1, <2>1, <2>4, <2>5, Zero DEF TypeOK
  <2>8. Numbered'
    BY <1>1, <1>2, <2>1, <2>3, <2>5 DEF Numbered
  <2>9. Making' /\ Held' /\ Relied' /\ InMemory'
    BY <1>1, <1>2, <2>1, <2>2, <2>5 DEF Making, Held, Relied, InMemory
  <2>10. OneMode' /\ OneMaster' /\ KeysMade' /\ PoolInStep'
    BY <1>1, <1>2, <2>1, <2>5 DEF OneMode, OneMaster, KeysMade, PoolInStep
  <2>11. GivenOnce'
    <3>1. \A i \in DOMAIN dbPool : dbPool[i] # newKey
      BY <2>6 DEF Range
    <3> QED BY <1>1, <2>5, <2>6, <3>1 DEF GivenOnce
  <2>12. FreshAfterEncryption'
    BY <1>1, <2>1, <2>5, <2>6 DEF FreshAfterEncryption, OneMode
  <2> QED BY <2>7, <2>8, <2>9, <2>10, <2>11, <2>12
<1> QED BY <1>3, <1>4

\* ReserveKeyFromKeyPool takes the oldest key out of the pool in memory.
LEMMA ReserveKeeps == ASSUME Inv, NEW read \in BOOLEAN, Reserve(read) PROVE Inv'
<1> USE DEF Inv, secrets, disk
<1>1. /\ UNCHANGED <<secrets, vMasterKey, mapMasterKeys, vchDefaultKey, disk, nKeys, given, plain,
                     told, interrupted>>
      /\ pc = "reserve" /\ setKeyPool # {}
      /\ refusals' \in 0 .. MaxRefusals
  BY KeysAssumption DEF Reserve, Done, TypeOK
<1>2. PICK oldest : oldest = Min(setKeyPool)
  OBVIOUS
<1>3. oldest \in setKeyPool /\ oldest \in Index
  <2>1. setKeyPool \subseteq Nat /\ setKeyPool \subseteq Index
    BY DEF TypeOK, Index
  <2> QED BY <1>1, <1>2, <2>1, LeastIs
<1>4. setKeyPool' = setKeyPool \ {oldest}
  BY <1>2 DEF Reserve
<1>5. \/ /\ oldest \in DOMAIN dbPool /\ pc' = "hold" /\ nIndex' = oldest
         /\ UNCHANGED <<call, newKey, toErase, slipped>>
      \/ Throw /\ slipped'
  BY <1>2 DEF Reserve
<1>6. pc' \in {"hold", "idle", "failed"} /\ slipped' \in BOOLEAN /\ (slipped => slipped')
  BY <1>5 DEF Throw, End, TypeOK
<1>7. Stored' = Stored
  BY <1>1 DEF Stored
<1>8. TypeOK'
  <2>1. nIndex' \in 0 .. MaxKey + 1
    BY <1>3, <1>5, Zero, KeysAssumption DEF Index, Throw, End
  <2>2. call' \in Calls /\ newKey' \in 0 .. MaxKey /\ toErase' \subseteq Index
    BY <1>5, Zero DEF Throw, End, TypeOK, Calls
  <2> QED BY <1>1, <1>4, <1>6, <2>1, <2>2 DEF TypeOK
<1>9. Numbered' /\ Making' /\ Held' /\ Relied' /\ InMemory'
  <2>1. pc' = "hold" => nIndex' \in DOMAIN dbPool /\ nIndex' \notin setKeyPool'
    BY <1>4, <1>5 DEF Throw, End
  <2> QED BY <1>1, <1>4, <1>6, <1>7, <2>1 DEF Numbered, Making, Held, Relied, InMemory
<1>10. OneMode' /\ OneMaster'
  BY <1>1, <1>6 DEF OneMode, OneMaster
<1>11. KeysMade'
  BY <1>1, <1>6, <1>7 DEF KeysMade
<1>12. PoolInStep'
  <2> SUFFICES ASSUME ~slipped' PROVE PoolInStep'
    BY DEF PoolInStep
  <2>1. pc' = "hold" /\ nIndex' = oldest /\ setKeyPool = DOMAIN dbPool
    BY <1>1, <1>5, <1>6 DEF PoolInStep
  <2> QED BY <1>1, <1>3, <1>4, <2>1 DEF PoolInStep
<1>13. GivenOnce' /\ FreshAfterEncryption'
  BY <1>1, <1>6 DEF GivenOnce, FreshAfterEncryption
<1> QED BY <1>8, <1>9, <1>10, <1>11, <1>12, <1>13

\* KeepKey: the key that is held is given, and its record goes.
LEMMA KeepKeeps == ASSUME Inv, NEW erased \in BOOLEAN, Keep(erased) PROVE Inv'
<1> USE DEF Inv, memory
<1>1. /\ UNCHANGED <<memory, dbKey, dbCKey, dbMKey, dbDefault, nKeys, plain, told, interrupted>>
      /\ pc = "hold" /\ refusals' \in 0 .. MaxRefusals
      /\ dbPool' = IF erased THEN Drop(dbPool, nIndex) ELSE dbPool
      /\ slipped' = (slipped \/ ~erased)
  BY KeysAssumption DEF Keep, KeepKey, Done, TypeOK
<1>2. PICK k : k = dbPool[nIndex]
  OBVIOUS
<1>3. nIndex \in DOMAIN dbPool /\ nIndex \notin setKeyPool
  BY <1>1 DEF Held
<1>4. dbPool \in Partial(Index, Key)
  BY DEF TypeOK
<1>5. k \in Key /\ k \in Range(dbPool) /\ k \in Stored
  BY <1>2, <1>3, <1>4, PartialGives DEF Relied
<1>6. /\ dbPool' \in Partial(Index, Key) /\ DOMAIN dbPool' \subseteq DOMAIN dbPool
      /\ Range(dbPool') \subseteq Range(dbPool)
      /\ erased => DOMAIN dbPool' = DOMAIN dbPool \ {nIndex}
      /\ \A i \in DOMAIN dbPool' : dbPool'[i] = dbPool[i]
  <2>1. CASE erased
    BY <1>1, <1>4, <2>1, DropIs
  <2>2. CASE ~erased
    BY <1>1, <1>4, <2>2
  <2> QED BY <2>1, <2>2
<1>7. given' = given \cup {k}
  BY <1>2 DEF Keep, KeepKey
<1>8. \/ /\ pc' = "default" /\ newKey' = k /\ UNCHANGED <<call, nIndex, toErase>>
      \/ Return
  BY <1>2 DEF Keep
<1>9. pc' \in {"default", "idle"} /\ (pc' = "default" => newKey' = k)
  BY <1>8 DEF Return, End
<1>10. Stored' = Stored
  BY <1>1 DEF Stored
<1>11. TypeOK'
  <2>1. k \in 0 .. MaxKey
    BY <1>5, KeysAssumption DEF Key
  <2>2. /\ call' \in Calls /\ newKey' \in 0 .. MaxKey /\ toErase' \subseteq Index
        /\ nIndex' \in 0 .. MaxKey + 1
    BY <1>8, <2>1, Zero DEF Return, End, TypeOK, Calls
  <2> QED BY <1>1, <1>5, <1>6, <1>7, <1>9, <2>2 DEF TypeOK
<1>12. Numbered'
  BY <1>1, <1>5, <1>6, <1>7, <1>9, <1>10 DEF Numbered
<1>13. Making' /\ Held' /\ Relied' /\ InMemory'
  BY <1>1, <1>5, <1>6, <1>7, <1>9, <1>10 DEF Making, Held, Relied, InMemory
<1>14. OneMode' /\ OneMaster' /\ KeysMade'
  BY <1>1, <1>9, <1>10 DEF OneMode, OneMaster, KeysMade
<1>15. PoolInStep'
  BY <1>1, <1>3, <1>6, <1>9 DEF PoolInStep
<1>16. GivenOnce'
  <2> SUFFICES ASSUME ~slipped' PROVE GivenOnce'
    BY DEF GivenOnce
  <2>1. ~slipped /\ erased
    BY <1>1
  <2>2. \A i \in DOMAIN dbPool' : dbPool'[i] # k /\ dbPool'[i] \notin given
    BY <1>2, <1>3, <1>6, <2>1 DEF GivenOnce, Range
  <2>3. \A i, j \in DOMAIN dbPool' : dbPool'[i] = dbPool'[j] => i = j
    BY <1>6, <2>1 DEF GivenOnce
  <2> QED BY <1>7, <2>2, <2>3 DEF GivenOnce, Range
<1>17. FreshAfterEncryption'
  BY <1>1, <1>6, <1>9 DEF FreshAfterEncryption
<1> QED BY <1>11, <1>12, <1>13, <1>14, <1>15, <1>16, <1>17

\* SetDefaultKey.
LEMMA SetDefaultKeyKeeps == ASSUME Inv, NEW wrote \in BOOLEAN, SetDefaultKey(wrote) PROVE Inv'
<1> USE DEF Inv, secrets, past
<1>1. /\ UNCHANGED <<secrets, vMasterKey, mapMasterKeys, setKeyPool, dbKey, dbCKey, dbMKey, dbPool, past>>
      /\ pc = "default" /\ refusals' \in 0 .. MaxRefusals /\ Return
      /\ dbDefault' \in {dbDefault, newKey} /\ vchDefaultKey' = dbDefault'
  BY KeysAssumption DEF SetDefaultKey, Done, TypeOK
<1>2. newKey \in given /\ newKey \in Key /\ newKey \in Stored
  BY <1>1 DEF Held, TypeOK, Relied
<1>3. Stored' = Stored /\ pc' = "idle"
  BY <1>1 DEF Stored, Return, End
<1>4. TypeOK'
  BY <1>1, <1>2, Zero DEF TypeOK, Return, End, Calls
<1>5. Numbered' /\ Making' /\ Held' /\ Relied' /\ InMemory'
  BY <1>1, <1>2, <1>3 DEF Numbered, Making, Held, Relied, InMemory
<1>6. OneMode' /\ OneMaster' /\ KeysMade' /\ PoolInStep'
  BY <1>1, <1>3 DEF OneMode, OneMaster, KeysMade, PoolInStep
<1>7. GivenOnce' /\ FreshAfterEncryption'
  BY <1>1, <1>3 DEF GivenOnce, FreshAfterEncryption
<1> QED BY <1>4, <1>5, <1>6, <1>7

-----------------------------------------------------------------------------
(* EncryptWallet.                                                          *)

\* The next master key has a number of its own.
LEMMA NextMaster ==
  ASSUME Inv, nMasterKeyMaxID < MaxMaster
  PROVE  nMasterKeyMaxID + 1 \in Master
<1>1. mapMasterKeys \in Partial(Master, Pass) /\ DOMAIN mapMasterKeys \subseteq Master
  BY PartialGives DEF Inv, TypeOK
<1>2. CASE mapMasterKeys = NoFun
  BY <1>2, KeysAssumption DEF nMasterKeyMaxID, Master
<1>3. CASE mapMasterKeys # NoFun
  <2>1. DOMAIN mapMasterKeys # {}
    BY <1>1, <1>3, PartialGives
  <2>2. Max(DOMAIN mapMasterKeys) \in Master
    BY <1>1, <2>1, GreatestIs, KeysAssumption DEF Master
  <2> QED BY <1>3, <2>2, KeysAssumption DEF nMasterKeyMaxID, Master
<1> QED BY <1>2, <1>3

\* An encryption that fails at once leaves its master key in memory.
LEMMA EncryptRefusedKeeps == ASSUME Inv, NEW p \in Pass, EncryptRefused(p) PROVE Inv'
<1> USE DEF Inv, secrets, disk, control, past
<1>1. /\ UNCHANGED <<secrets, vMasterKey, setKeyPool, vchDefaultKey, disk, control, past>>
      /\ pc = "idle" /\ refusals' \in 0 .. MaxRefusals
  BY KeysAssumption DEF EncryptRefused, Done, TypeOK
<1>2. mapMasterKeys' \in Partial(Master, Pass)
  <2>1. nMasterKeyMaxID + 1 \in Master /\ mapMasterKeys \in Partial(Master, Pass)
    BY NextMaster DEF EncryptRefused, TypeOK
  <2>2. mapMasterKeys' = Put(mapMasterKeys, nMasterKeyMaxID + 1, p)
    BY DEF EncryptRefused
  <2> QED BY <2>1, <2>2, PutIs
<1>3. TypeOK'
  BY <1>1, <1>2 DEF TypeOK
<1>4. Numbered' /\ Making' /\ Held' /\ Relied' /\ InMemory'
  BY <1>1 DEF Numbered, Making, Held, Relied, InMemory, Stored
<1>5. OneMode' /\ OneMaster' /\ KeysMade' /\ PoolInStep'
  BY <1>1 DEF OneMode, OneMaster, KeysMade, PoolInStep, Stored
<1>6. GivenOnce' /\ FreshAfterEncryption'
  BY <1>1 DEF GivenOnce, FreshAfterEncryption
<1> QED BY <1>3, <1>4, <1>5, <1>6

\* The transaction that encrypts the wallet: every plain key goes and comes back
\* encrypted with the new master key, of which wallet.dat had none.
LEMMA EncryptKeeps ==
  ASSUME Inv, NEW p \in Pass, NEW lost \in BOOLEAN, NEW chance \in BOOLEAN,
         NEW left, Encrypt(p, lost, left, chance)
  PROVE  Inv'
<1> USE DEF Inv
<1>1. /\ UNCHANGED <<setKeyPool, vchDefaultKey, dbPool, dbDefault, nIndex, newKey, nKeys, given, plain,
                     interrupted>>
      /\ pc = "idle" /\ ~fUseCrypto /\ fUseCrypto' = TRUE /\ mapKeys' = {}
      /\ told' = p /\ slipped' = (slipped \/ lost \/ left # {})
      /\ pc' = "flush" /\ call' = "encrypt" /\ toErase' = setKeyPool
      /\ refusals' \in 0 .. MaxRefusals
  BY KeysAssumption DEF Encrypt, Done, TypeOK
<1>2. PICK id : id = nMasterKeyMaxID + 1
  OBVIOUS
<1>3. id \in Master
  <2>1. id <= MaxMaster
    BY <1>2 DEF Encrypt
  <2>2. nMasterKeyMaxID \in Nat
    <3>1. mapMasterKeys \in Partial(Master, Pass) /\ DOMAIN mapMasterKeys \subseteq Master
      BY PartialGives DEF TypeOK
    <3>2. CASE mapMasterKeys # NoFun
      <4>1. Max(DOMAIN mapMasterKeys) \in Master
        BY <3>1, <3>2, PartialGives, GreatestIs, KeysAssumption DEF Master
      <4> QED BY <3>2, <4>1, KeysAssumption DEF nMasterKeyMaxID, Master
    <3> QED BY <3>2 DEF nMasterKeyMaxID
  <2> QED BY <1>2, <2>1, <2>2, KeysAssumption DEF Master
<1>4. /\ mapCryptedKeys' = [k \in mapKeys |-> id]
      /\ mapMasterKeys' = Put(mapMasterKeys, id, p)
      /\ vMasterKey' = Unlocked(p, mapMasterKeys', mapCryptedKeys', chance)
      /\ dbCKey' = [k \in DOMAIN dbCKey \cup mapKeys |-> IF k \in mapKeys THEN id ELSE dbCKey[k]]
      /\ dbMKey' = IF lost THEN dbMKey ELSE Put(dbMKey, id, p)
      /\ dbKey' = dbKey \cap left
  BY <1>2 DEF Encrypt, Records
<1>5. /\ mapKeys \subseteq Key /\ dbCKey \in Partial(Key, Master) /\ mapMasterKeys \in Partial(Master, Pass)
      /\ dbMKey \in Partial(Master, Pass)
  BY DEF TypeOK
<1>6. mapCryptedKeys' \in Partial(Key, Master) /\ dbCKey' \in Partial(Key, Master)
  <2>1. mapCryptedKeys' \in [mapKeys -> Master] /\ mapKeys \in SUBSET Key
    BY <1>3, <1>4, <1>5
  <2>2. PICK D \in SUBSET Key : dbCKey \in [D -> Master]
    BY <1>5, PartialIs
  <2>3. dbCKey' \in [D \cup mapKeys -> Master] /\ D \cup mapKeys \in SUBSET Key
    BY <1>3, <1>4, <1>5, <2>2
  <2> QED BY <2>1, <2>3, PartialIs
<1>7. /\ mapMasterKeys' \in Partial(Master, Pass) /\ dbMKey' \in Partial(Master, Pass)
      /\ DOMAIN Put(dbMKey, id, p) = DOMAIN dbMKey \cup {id} /\ Put(dbMKey, id, p)[id] = p
  <2>1. Put(mapMasterKeys, id, p) \in Partial(Master, Pass)
    BY <1>3, <1>5, PutIs
  <2>2. /\ Put(dbMKey, id, p) \in Partial(Master, Pass)
        /\ DOMAIN Put(dbMKey, id, p) = DOMAIN dbMKey \cup {id} /\ Put(dbMKey, id, p)[id] = p
    <3>1. Put(dbMKey, id, p) \in Partial(Master, Pass)
      BY <1>3, <1>5, PutIs
    <3> QED BY <3>1 DEF Put
  <2> QED BY <1>4, <1>5, <2>1, <2>2
<1>8. vMasterKey' # None => vMasterKey' \in Master /\ KeyFits(vMasterKey', mapCryptedKeys')
  <2>1. DOMAIN mapMasterKeys' \subseteq Master
    BY <1>7, PartialGives
  <2> QED BY <1>4, <1>7, <2>1, UnlockedIs
<1>9. /\ DOMAIN mapCryptedKeys' = mapKeys /\ DOMAIN dbCKey' = DOMAIN dbCKey \cup mapKeys
      /\ \A k \in mapKeys : mapCryptedKeys'[k] = id /\ dbCKey'[k] = id
  BY <1>4
<1>10. Stored \subseteq Stored' /\ Stored' \subseteq Stored \cup mapKeys
  BY <1>1, <1>4, <1>9 DEF Stored, InMemory
<1>11. ~slipped' => /\ ~slipped /\ ~lost /\ left = {} /\ dbKey' = {} /\ DOMAIN dbCKey = {}
                    /\ DOMAIN dbCKey' = mapKeys /\ mapKeys # {} /\ DOMAIN dbMKey = {}
  <2> SUFFICES ASSUME ~slipped'
               PROVE  /\ ~slipped /\ ~lost /\ left = {} /\ dbKey' = {} /\ DOMAIN dbCKey = {}
                      /\ DOMAIN dbCKey' = mapKeys /\ mapKeys # {} /\ DOMAIN dbMKey = {}
    OBVIOUS
  <2>1. ~slipped /\ ~lost /\ left = {} /\ dbKey' = {}
    BY <1>1, <1>4
  <2>2. DOMAIN dbCKey = {} /\ dbKey \subseteq mapKeys
    BY <1>1, <2>1 DEF OneMode, InMemory
  <2>3. dbKey # {}
    BY <1>1, <2>1, <2>2 DEF KeysMade, Stored
  <2> QED BY <1>9, <2>1, <2>2, <2>3 DEF OneMaster
<1>12. TypeOK'
  BY <1>1, <1>4, <1>6, <1>7, <1>8 DEF TypeOK, Calls
<1>13. Numbered'
  BY <1>1, <1>9, <1>10 DEF Numbered
<1>14. Making' /\ Held' /\ InMemory'
  BY <1>1 DEF Making, Held, InMemory
<1>15. Relied'
  BY <1>1, <1>10 DEF Relied
<1>16. OneMode'
  BY <1>1, <1>9, <1>11 DEF OneMode
<1>17. OneMaster'
  <2> SUFFICES ASSUME ~slipped' PROVE OneMaster'
    BY DEF OneMaster
  <2>1. dbMKey' = Put(dbMKey, id, p) /\ DOMAIN dbMKey' = {id} /\ dbMKey'[id] = told'
    BY <1>1, <1>4, <1>7, <1>11
  <2>2. \A k \in DOMAIN dbCKey' : dbCKey'[k] = id
    BY <1>9, <1>11
  <2>3. vMasterKey' \in {None, id}
    <3>1. mapKeys \subseteq Nat
      BY <1>5 DEF Key
    <3> QED BY <1>8, <1>9, <1>11, <3>1, FitsIs
  <2> QED BY <1>9, <1>11, <2>1, <2>2, <2>3 DEF OneMaster
<1>18. KeysMade'
  BY <1>9, <1>11 DEF KeysMade, Stored
<1>19. PoolInStep'
  BY <1>1, <1>11 DEF PoolInStep
<1>20. GivenOnce' /\ FreshAfterEncryption'
  BY <1>1, <1>11 DEF GivenOnce, FreshAfterEncryption
<1> QED BY <1>12, <1>13, <1>14, <1>15, <1>16, <1>17, <1>18, <1>19, <1>20

\* NewKeyPool erases the record of the oldest key.
LEMMA NewKeyPoolEraseKeeps == ASSUME Inv, NEW erased \in BOOLEAN, NewKeyPoolErase(erased) PROVE Inv'
<1> USE DEF Inv, memory
<1>1. /\ UNCHANGED <<memory, dbKey, dbCKey, dbMKey, dbDefault, pc, call, nIndex, newKey, nKeys, given,
                     plain, told, interrupted>>
      /\ pc = "flush" /\ refusals' \in 0 .. MaxRefusals
      /\ toErase' = toErase \ {Min(toErase)}
      /\ dbPool' = IF erased THEN Drop(dbPool, Min(toErase)) ELSE dbPool
      /\ slipped' = (slipped \/ ~erased)
  BY KeysAssumption DEF NewKeyPoolErase, Done, TypeOK
<1>2. dbPool \in Partial(Index, Key)
  BY DEF TypeOK
<1>3. /\ dbPool' \in Partial(Index, Key) /\ DOMAIN dbPool' \subseteq DOMAIN dbPool
      /\ Range(dbPool') \subseteq Range(dbPool)
      /\ erased => DOMAIN dbPool' = DOMAIN dbPool \ {Min(toErase)}
      /\ \A i \in DOMAIN dbPool' : dbPool'[i] = dbPool[i]
  <2>1. CASE erased
    <3>1. PICK i : i = Min(toErase)
      OBVIOUS
    <3>2. dbPool' = Drop(dbPool, i)
      BY <1>1, <2>1, <3>1
    <3>3. /\ Drop(dbPool, i) \in Partial(Index, Key) /\ DOMAIN Drop(dbPool, i) = DOMAIN dbPool \ {i}
          /\ \A j \in DOMAIN dbPool \ {i} : Drop(dbPool, i)[j] = dbPool[j]
          /\ Range(Drop(dbPool, i)) \subseteq Range(dbPool)
      BY <1>2, DropIs
    <3> QED BY <3>1, <3>2, <3>3
  <2>2. CASE ~erased
    BY <1>1, <1>2, <2>2
  <2> QED BY <2>1, <2>2
<1>4. Stored' = Stored
  BY <1>1 DEF Stored
<1>5. TypeOK'
  BY <1>1, <1>3 DEF TypeOK
<1>6. Numbered' /\ Making' /\ Held' /\ Relied' /\ InMemory'
  BY <1>1, <1>3, <1>4 DEF Numbered, Making, Held, Relied, InMemory
<1>7. OneMode' /\ OneMaster' /\ KeysMade' /\ PoolInStep'
  BY <1>1, <1>3, <1>4 DEF OneMode, OneMaster, KeysMade, PoolInStep
<1>8. GivenOnce' /\ FreshAfterEncryption'
  BY <1>1, <1>3 DEF GivenOnce, FreshAfterEncryption
<1> QED BY <1>5, <1>6, <1>7, <1>8

\* NewKeyPool writes the new key at the next place.
LEMMA NewKeyPoolWriteKeeps == ASSUME Inv, NEW wrote \in BOOLEAN, NewKeyPoolWrite(wrote) PROVE Inv'
<1> USE DEF Inv, secrets
<1>1. /\ UNCHANGED <<secrets, vMasterKey, mapMasterKeys, vchDefaultKey, dbKey, dbCKey, dbMKey,
                     dbDefault, call, toErase, nKeys, given, plain, told, interrupted>>
      /\ pc = "fillwrite" /\ refusals' \in 0 .. MaxRefusals
      /\ dbPool' = IF wrote THEN Put(dbPool, nIndex, newKey) ELSE dbPool
      /\ setKeyPool' = setKeyPool \cup {nIndex} /\ slipped' = (slipped \/ ~wrote)
      /\ pc' = "fill" /\ nIndex' = nIndex + 1 /\ newKey' = 0
  BY KeysAssumption DEF NewKeyPoolWrite, Done, TypeOK
<1>2. /\ nKeys \in Nat /\ newKey = nKeys /\ newKey \in Stored /\ newKey \in 1 .. nKeys
      /\ nIndex \in 1 .. nKeys /\ nKeys <= MaxKey
  BY <1>1 DEF TypeOK, Making, Numbered
<1>3. nIndex \in Index /\ newKey \in Key /\ nIndex + 1 \in 0 .. MaxKey + 1
  BY <1>2, KeysAssumption DEF Index, Key
<1>4. dbPool \in Partial(Index, Key)
  BY DEF TypeOK
<1>5. /\ dbPool' \in Partial(Index, Key) /\ DOMAIN dbPool' \subseteq DOMAIN dbPool \cup {nIndex}
      /\ wrote => DOMAIN dbPool' = DOMAIN dbPool \cup {nIndex} /\ dbPool'[nIndex] = newKey
                  /\ \A i \in DOMAIN dbPool \ {nIndex} : dbPool'[i] = dbPool[i]
      /\ Range(dbPool') \subseteq Range(dbPool) \cup {newKey}
  <2>1. CASE wrote
    BY <1>1, <1>3, <1>4, <2>1, PutIs
  <2>2. CASE ~wrote
    BY <1>1, <1>4, <2>2
  <2> QED BY <2>1, <2>2
<1>6. newKey \notin given /\ newKey \notin Range(dbPool) /\ (fUseCrypto => newKey \notin plain)
  BY <1>1 DEF Making
<1>7. Stored' = Stored
  BY <1>1 DEF Stored
<1>8. TypeOK'
  BY <1>1, <1>3, <1>5, Zero DEF TypeOK
<1>9. Numbered'
  <2>1. nIndex' \in 1 .. nKeys' + 1
    BY <1>1, <1>2
  <2> QED BY <1>1, <1>2, <1>5, <1>7, <2>1 DEF Numbered
<1>10. Making' /\ Held' /\ Relied' /\ InMemory'
  BY <1>1, <1>2, <1>5, <1>7 DEF Making, Held, Relied, InMemory
<1>11. OneMode' /\ OneMaster' /\ KeysMade' /\ PoolInStep'
  BY <1>1, <1>5, <1>7 DEF OneMode, OneMaster, KeysMade, PoolInStep
<1>12. GivenOnce'
  <2> SUFFICES ASSUME ~slipped' PROVE GivenOnce'
    BY DEF GivenOnce
  <2>1. \A i \in DOMAIN dbPool : dbPool[i] # newKey
    BY <1>6 DEF Range
  <2>2. ~slipped /\ wrote
    BY <1>1
  <2>3. \A i, j \in DOMAIN dbPool' : dbPool'[i] = dbPool'[j] => i = j
    BY <1>5, <2>1, <2>2 DEF GivenOnce
  <2>4. Range(dbPool') \cap given' = {}
    BY <1>1, <1>5, <1>6, <2>2 DEF GivenOnce
  <2> QED BY <2>3, <2>4 DEF GivenOnce
<1>13. FreshAfterEncryption'
  BY <1>1, <1>5, <1>6 DEF FreshAfterEncryption, OneMode
<1> QED BY <1>8, <1>9, <1>10, <1>11, <1>12, <1>13

-----------------------------------------------------------------------------
\* Before the first start there is no wallet.dat.
LEMMA Initially == Init => Inv
<1> SUFFICES ASSUME Init PROVE Inv
  OBVIOUS
<1> USE DEF Init
<1>1. TypeOK
  <2>1. /\ NoFun \in Partial(Key, Master) /\ NoFun \in Partial(Master, Pass)
        /\ NoFun \in Partial(Index, Key)
    BY NoFunIs
  <2>2. 0 \in 0 .. MaxRefusals
    BY KeysAssumption
  <2> QED BY <2>1, <2>2, Zero DEF TypeOK, Calls
<1>2. Numbered /\ Making /\ Held /\ Relied /\ InMemory
  BY NoFunIs DEF Numbered, Making, Held, Relied, InMemory, Stored
<1>3. OneMode /\ OneMaster /\ KeysMade /\ PoolInStep
  BY NoFunIs DEF OneMode, OneMaster, KeysMade, PoolInStep
<1>4. GivenOnce /\ FreshAfterEncryption
  BY NoFunIs DEF GivenOnce, FreshAfterEncryption
<1> QED BY <1>1, <1>2, <1>3, <1>4 DEF Inv

\* Every step of a call, every end of the process and every start keeps the invariant.
LEMMA StepKeeps == Inv /\ [Next]_vars => Inv'
<1> SUFFICES ASSUME Inv, [Next]_vars PROVE Inv'
  OBVIOUS
<1>1. ASSUME NEW wrote \in BOOLEAN, TopUp(wrote) \/ NewKeyPoolFill(wrote) PROVE Inv'
  BY <1>1, GenerateKeeps DEF TopUp, NewKeyPoolFill
<1>2. CASE UNCHANGED vars
  <2> USE <1>2 DEF vars, memory, disk, control, past, history
  <2>1. TypeOK' /\ Numbered' /\ Making' /\ Held' /\ Relied' /\ InMemory'
    BY DEF Inv, TypeOK, Numbered, Making, Held, Relied, InMemory, Stored
  <2>2. OneMode' /\ OneMaster' /\ KeysMade' /\ PoolInStep'
    BY DEF Inv, OneMode, OneMaster, KeysMade, PoolInStep, Stored
  <2>3. GivenOnce' /\ FreshAfterEncryption'
    BY DEF Inv, GivenOnce, FreshAfterEncryption
  <2> QED BY <2>1, <2>2, <2>3 DEF Inv
<1>3. CASE Start \/ Crash \/ Lock \/ LockedOut \/ TopUpDone \/ ReserveNothing \/ ReturnKey
           \/ NewKeyPoolCleared \/ NewKeyPoolDone \/ EncryptDone
  BY <1>3, StartKeeps, CrashKeeps, LockKeeps, LockedOutKeeps, TopUpDoneKeeps, ReserveNothingKeeps,
     ReturnKeyKeeps, NewKeyPoolClearedKeeps, NewKeyPoolDoneKeeps, EncryptDoneKeeps
<1>4. ASSUME NEW b \in BOOLEAN,
             TopUpWrite(b) \/ Reserve(b) \/ Keep(b) \/ NewKeyPoolErase(b) \/ SetDefaultKey(b)
               \/ NewKeyPoolWrite(b)
      PROVE  Inv'
  BY <1>4, TopUpWriteKeeps, ReserveKeeps, KeepKeeps, NewKeyPoolEraseKeeps, SetDefaultKeyKeeps,
     NewKeyPoolWriteKeeps
<1> QED BY <1>1, <1>2, <1>3, <1>4, UnlockKeeps, ChangeKeeps, BeginKeeps, EncryptRefusedKeeps,
           EncryptKeeps DEF Next

\* The invariant holds throughout.
LEMMA Invariant == Spec => []Inv
<1>1. Init => Inv
  BY Initially
<1>2. Inv /\ [Next]_vars => Inv'
  BY StepKeeps
<1> QED BY <1>1, <1>2, PTL DEF Spec

\* Whenever the process dies, wallet.dat has the secret of every key that was given, is
\* recorded in the pool or is the default key (AddKeyPubKey before WritePool,
\* EncryptWallet's transaction).
THEOREM NothingIsLost == Spec => []NothingLost
<1>1. Inv => NothingLost
  BY DEF Inv, NothingLost, Relied
<1> QED BY <1>1, Invariant, PTL

\* Whenever the process dies, LoadWallet reads all keys and the passphrase the user
\* believes in opens them, whatever encryptions failed and whatever passphrases were
\* changed before.
THEOREM StartAlwaysOpens == Spec => []StartOpens
<1>1. Inv => StartOpens
  <2> SUFFICES ASSUME Inv, ~slipped PROVE NeverBoth /\ KeysOpen
    BY DEF StartOpens, NeverBoth, KeysOpen
  <2>1. NeverBoth
    BY DEF Inv, OneMode, NeverBoth
  <2>2. ASSUME NEW k \in DOMAIN dbCKey
        PROVE  /\ Unlocked(told, dbMKey, dbCKey, FALSE) = dbCKey[k] /\ dbCKey[k] # None
    <3>1. PICK id : id = dbCKey[k]
      OBVIOUS
    <3>2. id \in Nat /\ id # None
      <4>1. dbCKey \in Partial(Key, Master)
        BY DEF Inv, TypeOK
      <4>2. id \in Master
        BY <3>1, <4>1, PartialGives
      <4> QED BY <4>2, KeysAssumption DEF Master
    <3>3. DOMAIN dbMKey = {id} /\ dbMKey[id] = told
      BY <3>1 DEF Inv, OneMaster
    <3>4. \A j \in DOMAIN dbCKey : dbCKey[j] = id
      <4>1. \A j \in DOMAIN dbCKey : {dbCKey[j]} = {id}
        BY <3>3 DEF Inv, OneMaster
      <4> QED BY <4>1
    <3>5. {i \in DOMAIN dbMKey : dbMKey[i] = told /\ KeyFits(i, dbCKey)} = {id}
      BY <3>3, <3>4 DEF KeyFits
    <3>6. {i \in DOMAIN dbMKey : dbMKey[i] # told} = {}
      BY <3>3
    <3>7. Min({id}) = id
      BY <3>2, LeastIs
    <3> QED BY <3>1, <3>2, <3>5, <3>6, <3>7 DEF Unlocked
  <2>3. KeysOpen
    BY <2>2 DEF KeysOpen
  <2> QED BY <2>1, <2>3
<1> QED BY <1>1, Invariant, PTL

\* No key of the pool is given twice, over restarts; every place of the pool can be read;
\* and after an encryption no key that was stored unencrypted is given any more
\* (ReserveKeyFromKeyPool, KeepKey, ReturnKey, NewKeyPool).
THEOREM PoolStaysSound == Spec => []PoolSound
<1>1. Inv => PoolSound
  <2> SUFFICES ASSUME Inv PROVE PoolReadable
    BY DEF Inv, PoolSound
  <2> SUFFICES ASSUME ~slipped, pc \notin {"off", "flush"}, NEW i \in setKeyPool
               PROVE  i \in DOMAIN dbPool /\ HaveKey(dbPool[i])
    BY DEF PoolReadable
  <2>1. i \in DOMAIN dbPool
    BY DEF Inv, PoolInStep
  <2>2. dbPool[i] \in Stored
    BY <2>1 DEF Inv, Relied, Range
  <2> QED BY <2>1, <2>2 DEF Inv, Stored, OneMode, InMemory, HaveKey
<1> QED BY <1>1, Invariant, PTL

-----------------------------------------------------------------------------
(* The unlock timers of the same wallet (WalletLock), for any number of    *)
(* threads and timeouts: an unlocked wallet always has one that will lock  *)
(* it, and none locks it before the time the last walletpassphrase asked   *)
(* for.                                                                    *)

\* While a time is set, a thread sleeps until then: whoever else sleeps, walletlock
\* and a thread whose time is up both take the time away.
SetIsAsleep == nWalletUnlockTime # NoTime => \E t \in Timer : thread[t] = "asleep"

\* Is the wallet unlocked, or will walletpassphrasechange leave it so?
LeftUnlocked ==
    CASE change = "none"     -> ~locked
      [] change = "unlocked" -> ~locked /\ ~fWasLocked
      [] OTHER               -> ~fWasLocked

\* ChangeWalletPassphrase has locked it before it tries the passphrase.
ChangeLocked == change = "locked" => locked

LeftIsTimed == LeftUnlocked /\ ~relit => Timed

\* What the last walletpassphrase asked for is what its timer brings along ...
OwedIsCarried == latest # NoTime /\ thread[latest] = "enter" => owed = wait[latest]

\* ... and not more than the time set, once it has entered the critical section.
OwedIsSet ==
    latest # NoTime /\ thread[latest] \notin {"new", "enter"}
      => owed = 0 \/ (nWalletUnlockTime # NoTime /\ owed <= nWalletUnlockTime)

\* The inductive invariant.
TimerInv == TimerTypeOK /\ SetIsAsleep /\ ChangeLocked /\ LeftIsTimed /\ OwedIsCarried /\ OwedIsSet
-----------------------------------------------------------------------------

\* One unit less is still a time, or still none (Left, in every Tick).
LEMMA LeftType ==
  /\ \A n \in Time : Left(n) \in Time /\ (n # 0 => Left(n) = n - 1) /\ (n = 0 => Left(n) = 0)
  /\ Left(NoTime) = NoTime
BY TimeAssumption DEF Left, Time

\* Every step of the calls and of the threads keeps the type invariant.
LEMMA TimerTypeStep == TimerTypeOK /\ [TimerNext]_timerVars => TimerTypeOK'
<1> SUFFICES ASSUME TimerTypeOK, [TimerNext]_timerVars PROVE TimerTypeOK'
  OBVIOUS
<1>0. 0 \in Time
  BY TimeAssumption DEF Time
<1>1. CASE Call
  <2>1. ASSUME NEW t \in Timer, NEW timeout \in Time, walletpassphrase(t, timeout) PROVE TimerTypeOK'
    BY <1>0, <2>1 DEF walletpassphrase, TimerTypeOK
  <2>2. CASE walletlock
    BY <1>0, <2>2 DEF walletlock, timers, TimerTypeOK
  <2>3. CASE ChangeBegin
    BY <2>3 DEF ChangeBegin, timers, timerHistory, TimerTypeOK
  <2> QED BY <1>1, <2>1, <2>2, <2>3 DEF Call
<1>2. CASE Change
  <2>1. CASE ChangeLock
    BY <2>1 DEF ChangeLock, timers, timerHistory, TimerTypeOK
  <2>2. CASE ChangeUnlock
    BY <2>2 DEF ChangeUnlock, timers, timerHistory, TimerTypeOK
  <2>3. CASE ChangeRefused
    BY <1>0, <2>3 DEF ChangeRefused, timers, TimerTypeOK
  <2>4. CASE ChangeEnd
    BY <2>4 DEF ChangeEnd, Relock, timers, timerHistory, TimerTypeOK
  <2> QED BY <1>2, <2>1, <2>2, <2>3, <2>4 DEF Change
<1>3. ASSUME NEW t \in Timer, Clean(t) PROVE TimerTypeOK'
  <2>1. CASE SetWakeTime(t)
    BY <2>1 DEF SetWakeTime, TimerTypeOK
  <2>2. CASE Extend(t)
    BY <1>0, <2>2, TimeAssumption DEF Extend, Later, TimerTypeOK, timerHistory
  <2>3. CASE StartTimer(t)
    <3>1. CASE TimeUp(t)
      BY <1>0, <3>1 DEF TimeUp, TimerTypeOK
    <3>2. CASE Sleep(t, wait[t])
      BY <3>2 DEF Sleep, TimerTypeOK, timerHistory
    <3> QED BY <2>3, <3>1, <3>2 DEF StartTimer
  <2>4. CASE Wake(t)
    <3>1. CASE TimeUp(t)
      BY <1>0, <3>1 DEF TimeUp, TimerTypeOK
    <3>2. CASE Sleep(t, nWalletUnlockTime)
      BY <2>4, <3>2 DEF Wake, Sleep, TimerTypeOK, timerHistory
    <3> QED BY <2>4, <3>1, <3>2 DEF Wake
  <2>5. CASE WakeInVain(t)
    BY <2>5 DEF WakeInVain, TimerTypeOK, timerHistory
  <2> QED BY <1>3, <2>1, <2>2, <2>3, <2>4, <2>5 DEF Clean
<1>4. CASE Tick
  <2>1. nWalletUnlockTime' \in Time \cup {NoTime} /\ owed' \in Time
    BY <1>4, LeftType DEF Tick, TimerTypeOK
  <2>2. wait' \in [Timer -> Time]
    BY <1>4, LeftType DEF Tick, TimerTypeOK
  <2> QED BY <1>4, <2>1, <2>2 DEF Tick, TimerTypeOK
<1>5. CASE UNCHANGED timerVars
  BY <1>5 DEF timerVars, timers, timerHistory, TimerTypeOK
<1> QED BY <1>1, <1>2, <1>3, <1>4, <1>5 DEF TimerNext

\* With a sleeper for every time that is set, a time set is enough to be timed
\* (ThreadCleanWalletPassphrase holds the time exactly while it sleeps).
LEMMA TimedIs ==
  SetIsAsleep => (Timed <=> nWalletUnlockTime # NoTime
                              \/ \E t \in Timer : thread[t] \in {"new", "enter"})
BY DEF SetIsAsleep, Timed

\* The time up (ThreadCleanWalletPassphrase's last lines): nothing set, locked,
\* nothing owed.
LEMMA TimeUpKeeps ==
  ASSUME TimerInv, NEW t \in Timer, TimeUp(t), TimerTypeOK'
  PROVE  TimerInv'
<1>1. SetIsAsleep' /\ OwedIsCarried' /\ OwedIsSet'
  BY DEF TimeUp, SetIsAsleep, OwedIsCarried, OwedIsSet
<1>2. ChangeLocked' /\ LeftIsTimed'
  BY DEF TimeUp, ChangeLocked, LeftIsTimed, LeftUnlocked, TimerInv, TimerTypeOK
<1> QED BY <1>1, <1>2 DEF TimerInv

\* A call keeps the invariant: one that unlocks the wallet starts a timer.
LEMMA CallKeeps == TimerInv /\ Call /\ TimerTypeOK' => TimerInv'
<1> SUFFICES ASSUME TimerInv, Call, TimerTypeOK' PROVE TimerInv'
  OBVIOUS
<1> USE TimeAssumption
<1>1. ASSUME NEW t \in Timer, NEW timeout \in Time, walletpassphrase(t, timeout) PROVE TimerInv'
  <2>1. thread' = [thread EXCEPT ![t] = "new"] /\ thread \in [Timer -> {"none", "new", "enter", "asleep"}]
        /\ thread[t] = "none" /\ thread'[t] = "new" /\ latest' = t /\ t # NoTime
        /\ UNCHANGED nWalletUnlockTime
    BY <1>1 DEF walletpassphrase, TimerInv, TimerTypeOK
  <2>2. SetIsAsleep'
    BY <2>1 DEF TimerInv, SetIsAsleep
  <2>3. ChangeLocked' /\ LeftIsTimed'
    BY <1>1, <2>1 DEF walletpassphrase, ChangeLocked, LeftIsTimed, Timed
  <2>4. OwedIsCarried' /\ OwedIsSet'
    BY <2>1 DEF OwedIsCarried, OwedIsSet
  <2> QED BY <2>2, <2>3, <2>4 DEF TimerInv
<1>2. CASE walletlock
  BY <1>2 DEF walletlock, timers, TimerInv, SetIsAsleep, ChangeLocked, LeftIsTimed, LeftUnlocked, OwedIsCarried, OwedIsSet
<1>3. CASE ChangeBegin
  BY <1>3 DEF ChangeBegin, timers, timerHistory, TimerInv, TimerTypeOK, SetIsAsleep, ChangeLocked,
              LeftIsTimed, LeftUnlocked, Timed, OwedIsCarried, OwedIsSet
<1> QED BY <1>1, <1>2, <1>3 DEF Call

\* So does each step of walletpassphrasechange, which leaves the timers alone.
LEMMA TimerChangeKeeps == TimerInv /\ Change /\ TimerTypeOK' => TimerInv'
<1> SUFFICES ASSUME TimerInv, Change, TimerTypeOK' PROVE TimerInv'
  OBVIOUS
<1>1. SetIsAsleep' /\ OwedIsCarried' /\ OwedIsSet'
  BY DEF Change, ChangeLock, ChangeUnlock, ChangeRefused, ChangeEnd, timers, timerHistory,
         TimerInv, SetIsAsleep, OwedIsCarried, OwedIsSet
<1>2. ChangeLocked'
  BY DEF Change, ChangeLock, ChangeUnlock, ChangeRefused, ChangeEnd, ChangeLocked
<1>3. Timed' <=> Timed
  BY DEF Change, ChangeLock, ChangeUnlock, ChangeRefused, ChangeEnd, timers, Timed
<1>4. LeftIsTimed'
  <2>1. CASE ChangeLock \/ ChangeUnlock
    BY <2>1, <1>3 DEF ChangeLock, ChangeUnlock, timerHistory, TimerInv, LeftIsTimed, LeftUnlocked
  <2>2. CASE ChangeRefused
    <3>1. locked
      BY <2>2 DEF ChangeRefused, TimerInv, ChangeLocked
    <3> QED BY <2>2, <3>1 DEF ChangeRefused, LeftIsTimed, LeftUnlocked
  <2>3. CASE ChangeEnd
    BY <2>3, <1>3 DEF ChangeEnd, Relock, timerHistory, TimerInv, TimerTypeOK, LeftIsTimed, LeftUnlocked
  <2> QED BY <2>1, <2>2, <2>3 DEF Change
<1> QED BY <1>1, <1>2, <1>4 DEF TimerInv

\* Working out the wake time lets the timer run (ThreadCleanWalletPassphrase before
\* its critical section); from then on the time counts.
LEMMA SetWakeTimeKeeps ==
  ASSUME TimerInv, NEW t \in Timer, SetWakeTime(t), TimerTypeOK'
  PROVE  TimerInv'
<1>1. thread \in [Timer -> {"none", "new", "enter", "asleep"}] /\ thread[t] = "new"
      /\ thread' = [thread EXCEPT ![t] = "enter"] /\ thread'[t] = "enter"
      /\ UNCHANGED <<nWalletUnlockTime, wait, latest, locked, change, fWasLocked, relit>>
  BY DEF SetWakeTime, TimerInv, TimerTypeOK
<1>2. SetIsAsleep' /\ ChangeLocked' /\ LeftIsTimed'
  BY <1>1 DEF TimerInv, SetIsAsleep, ChangeLocked, LeftIsTimed, LeftUnlocked, Timed
<1>3. OwedIsCarried' /\ OwedIsSet'
  <2>1. CASE t = latest
    BY <1>1, <2>1 DEF SetWakeTime, OwedIsCarried, OwedIsSet
  <2>2. CASE t # latest
    <3>1. owed' = owed /\ (latest # NoTime => latest \in Timer /\ thread'[latest] = thread[latest])
      BY <1>1, <2>2 DEF SetWakeTime, TimerInv, TimerTypeOK
    <3> QED BY <1>1, <3>1 DEF TimerInv, OwedIsCarried, OwedIsSet
  <2> QED BY <2>1, <2>2
<1> QED BY <1>2, <1>3 DEF TimerInv

\* A timer that finds a time set puts it off and goes: the sleeper stays.
LEMMA ExtendKeeps ==
  ASSUME TimerInv, NEW t \in Timer, Extend(t), TimerTypeOK'
  PROVE  TimerInv'
<1> USE TimeAssumption
<1>1. /\ thread \in [Timer -> {"none", "new", "enter", "asleep"}] /\ thread[t] = "enter"
      /\ thread' = [thread EXCEPT ![t] = "none"] /\ thread'[t] = "none"
      /\ wait \in [Timer -> Time] /\ wait' = [wait EXCEPT ![t] = 0]
      /\ UNCHANGED <<latest, owed, locked, change, fWasLocked, relit>>
      /\ latest \in Timer \cup {NoTime}
  BY DEF Extend, timerHistory, TimerInv, TimerTypeOK
<1>2. /\ nWalletUnlockTime \in Time /\ wait[t] \in Time /\ owed \in Time
      /\ nWalletUnlockTime' \in Time
      /\ nWalletUnlockTime <= nWalletUnlockTime' /\ wait[t] <= nWalletUnlockTime'
  BY DEF Extend, Later, TimerInv, TimerTypeOK, Time
<1>3. nWalletUnlockTime # NoTime /\ nWalletUnlockTime' # NoTime
  BY <1>2 DEF Time
<1>4. SetIsAsleep' /\ ChangeLocked'
  BY <1>1, <1>3 DEF TimerInv, SetIsAsleep, ChangeLocked
<1>5. LeftIsTimed'
  BY <1>3, <1>4 DEF SetIsAsleep, LeftIsTimed, Timed
<1>6. OwedIsCarried' /\ OwedIsSet'
  <2>1. CASE t = latest
    BY <1>1, <1>2, <1>3, <2>1 DEF TimerInv, OwedIsCarried, OwedIsSet
  <2>2. CASE t # latest /\ latest # NoTime
    <3>1. latest \in Timer /\ thread'[latest] = thread[latest] /\ wait'[latest] = wait[latest]
      BY <1>1, <2>2
    <3>2. OwedIsCarried'
      BY <1>1, <3>1 DEF TimerInv, OwedIsCarried
    <3>3. OwedIsSet'
      BY <1>1, <1>2, <1>3, <3>1 DEF TimerInv, OwedIsSet, Time
    <3> QED BY <3>2, <3>3
  <2>3. CASE latest = NoTime
    BY <1>1, <2>3 DEF OwedIsCarried, OwedIsSet
  <2> QED BY <2>1, <2>2, <2>3
<1> QED BY <1>4, <1>5, <1>6 DEF TimerInv

\* Going to sleep with a time set (the two MilliSleep of the thread): at least the
\* time that was set before, and the sleeper's own if it was the one to set it.
LEMMA SleepKeeps ==
  ASSUME TimerInv, NEW t \in Timer, NEW time \in Time, Sleep(t, time), TimerTypeOK',
         thread[t] \in {"enter", "asleep"},
         thread[t] = "enter" => nWalletUnlockTime = NoTime /\ time = wait[t],
         thread[t] = "asleep" => nWalletUnlockTime = time
  PROVE  TimerInv'
<1> USE TimeAssumption
<1>1. /\ thread \in [Timer -> {"none", "new", "enter", "asleep"}]
      /\ thread' = [thread EXCEPT ![t] = "asleep"] /\ thread'[t] = "asleep"
      /\ wait \in [Timer -> Time] /\ wait' = [wait EXCEPT ![t] = time]
      /\ nWalletUnlockTime' = time /\ time # NoTime /\ time \in Int
      /\ UNCHANGED <<latest, owed, locked, change, fWasLocked, relit>>
      /\ latest \in Timer \cup {NoTime} /\ owed \in Int
  BY DEF Sleep, timerHistory, TimerInv, TimerTypeOK, Time
<1>2. SetIsAsleep' /\ ChangeLocked' /\ LeftIsTimed'
  BY <1>1 DEF TimerInv, SetIsAsleep, ChangeLocked, LeftIsTimed, Timed
<1>3. OwedIsCarried' /\ OwedIsSet'
  <2>1. CASE t = latest
    BY <1>1, <2>1 DEF TimerInv, OwedIsCarried, OwedIsSet
  <2>2. CASE t # latest /\ latest # NoTime
    <3>1. latest \in Timer /\ thread'[latest] = thread[latest] /\ wait'[latest] = wait[latest]
      BY <1>1, <2>2
    <3> QED BY <1>1, <3>1 DEF TimerInv, OwedIsCarried, OwedIsSet
  <2>3. CASE latest = NoTime
    BY <1>1, <2>3 DEF OwedIsCarried, OwedIsSet
  <2> QED BY <2>1, <2>2, <2>3
<1> QED BY <1>2, <1>3 DEF TimerInv

\* Every step of a thread keeps the invariant.
LEMMA CleanKeeps ==
  ASSUME TimerInv, NEW t \in Timer, Clean(t), TimerTypeOK'
  PROVE  TimerInv'
<1>1. CASE SetWakeTime(t)
  BY <1>1, SetWakeTimeKeeps
<1>2. CASE Extend(t)
  BY <1>2, ExtendKeeps
<1>3. CASE StartTimer(t)
  <2>1. wait[t] \in Time /\ thread[t] = "enter" /\ nWalletUnlockTime = NoTime
    BY <1>3 DEF StartTimer, TimerInv, TimerTypeOK
  <2>2. CASE TimeUp(t)
    BY <2>2, TimeUpKeeps
  <2>3. CASE Sleep(t, wait[t])
    BY <2>1, <2>3, SleepKeeps
  <2> QED BY <1>3, <2>2, <2>3 DEF StartTimer
<1>4. CASE Wake(t)
  <2>1. nWalletUnlockTime \in Time /\ thread[t] = "asleep"
    BY <1>4 DEF Wake, TimerInv, TimerTypeOK
  <2>2. CASE TimeUp(t)
    BY <2>2, TimeUpKeeps
  <2>3. CASE Sleep(t, nWalletUnlockTime)
    BY <2>1, <2>3, SleepKeeps
  <2> QED BY <1>4, <2>2, <2>3 DEF Wake
<1>5. CASE WakeInVain(t)
  <2>1. /\ thread \in [Timer -> {"none", "new", "enter", "asleep"}] /\ thread[t] = "asleep"
        /\ thread' = [thread EXCEPT ![t] = "none"] /\ nWalletUnlockTime = NoTime
        /\ UNCHANGED <<locked, nWalletUnlockTime, wait, change, fWasLocked, latest, owed, relit>>
        /\ latest \in Timer \cup {NoTime}
    BY <1>5 DEF WakeInVain, timerHistory, TimerInv, TimerTypeOK
  <2>2. SetIsAsleep' /\ ChangeLocked'
    BY <2>1 DEF TimerInv, SetIsAsleep, ChangeLocked
  <2>3. LeftIsTimed'
    BY <2>1 DEF TimerInv, LeftIsTimed, LeftUnlocked, Timed
  <2>4. OwedIsCarried' /\ OwedIsSet'
    BY <2>1 DEF TimerInv, OwedIsCarried, OwedIsSet
  <2> QED BY <2>2, <2>3, <2>4 DEF TimerInv
<1> QED BY <1>1, <1>2, <1>3, <1>4, <1>5 DEF Clean

\* Time runs for the time set and for what is owed alike.
LEMMA TickKeeps == TimerInv /\ Tick /\ TimerTypeOK' => TimerInv'
<1> SUFFICES ASSUME TimerInv, Tick, TimerTypeOK' PROVE TimerInv'
  OBVIOUS
<1> USE TimeAssumption
<1>1. UNCHANGED <<locked, thread, change, fWasLocked, latest, relit>>
  BY DEF Tick
<1>2. nWalletUnlockTime' = NoTime <=> nWalletUnlockTime = NoTime
  BY LeftType DEF Tick, TimerInv, TimerTypeOK, Time
<1>3. SetIsAsleep' /\ ChangeLocked' /\ LeftIsTimed'
  BY <1>1, <1>2 DEF TimerInv, SetIsAsleep, ChangeLocked, LeftIsTimed, LeftUnlocked, Timed
<1>4. OwedIsCarried'
  <2> SUFFICES ASSUME latest # NoTime, thread[latest] = "enter" PROVE owed' = wait'[latest]
    BY <1>1 DEF OwedIsCarried
  <2>1. latest \in Timer /\ owed = wait[latest]
    BY DEF TimerInv, TimerTypeOK, OwedIsCarried
  <2> QED BY <2>1 DEF Tick
<1>5. OwedIsSet'
  <2> SUFFICES ASSUME latest # NoTime, thread[latest] \notin {"new", "enter"}, owed' # 0
               PROVE  nWalletUnlockTime' # NoTime /\ owed' <= nWalletUnlockTime'
    BY <1>1 DEF OwedIsSet
  <2>1. owed \in Nat /\ owed # 0 /\ owed' = owed - 1
    BY LeftType DEF Tick, TimerInv, TimerTypeOK, Time
  <2>2. nWalletUnlockTime # NoTime /\ owed <= nWalletUnlockTime
    BY <2>1 DEF TimerInv, OwedIsSet
  <2>3. nWalletUnlockTime \in Nat /\ nWalletUnlockTime # 0
    BY <2>1, <2>2 DEF TimerInv, TimerTypeOK, Time
  <2>4. nWalletUnlockTime' = nWalletUnlockTime - 1
    BY <2>2, <2>3 DEF Tick, Left
  <2> QED BY <1>2, <2>1, <2>2, <2>3, <2>4
<1> QED BY <1>3, <1>4, <1>5 DEF TimerInv
-----------------------------------------------------------------------------

\* The invariant holds in every state.
LEMMA TimerInvariant == TimerSpec => []TimerInv
<1>1. TimerInit => TimerInv
  <2>1. 0 \in Time
    BY TimeAssumption DEF Time
  <2>2. TimerInit => TimerTypeOK
    BY <2>1 DEF TimerInit, TimerTypeOK
  <2>3. TimerInit => SetIsAsleep /\ ChangeLocked /\ LeftIsTimed /\ OwedIsCarried /\ OwedIsSet
    BY DEF TimerInit, SetIsAsleep, ChangeLocked, LeftIsTimed, LeftUnlocked, OwedIsCarried, OwedIsSet
  <2> QED BY <2>2, <2>3 DEF TimerInv
<1>2. TimerInv /\ [TimerNext]_timerVars => TimerInv'
  <2> SUFFICES ASSUME TimerInv, [TimerNext]_timerVars PROVE TimerInv'
    OBVIOUS
  <2>1. TimerTypeOK'
    BY TimerTypeStep DEF TimerInv
  <2>2. CASE UNCHANGED timerVars
    BY <2>1, <2>2 DEF timerVars, timers, timerHistory, TimerInv, SetIsAsleep, ChangeLocked, LeftIsTimed,
       LeftUnlocked, Timed, OwedIsCarried, OwedIsSet
  <2> QED BY <2>1, <2>2, CallKeeps, TimerChangeKeeps, CleanKeeps, TickKeeps DEF TimerNext
<1> QED BY <1>1, <1>2, PTL DEF TimerSpec

\* An unlocked wallet always has a timer on its way or asleep that will lock it,
\* unless one has locked it under a walletpassphrasechange that found it unlocked
\* (ThreadCleanWalletPassphrase beside walletpassphrase, walletlock and
\* ChangeWalletPassphrase).
THEOREM UnlockedStaysTimed == TimerSpec => []UnlockedIsTimed
<1>1. TimerInv => UnlockedIsTimed
  BY DEF TimerInv, UnlockedIsTimed, LeftIsTimed, LeftUnlocked
<1> QED BY <1>1, TimerInvariant, PTL

\* No timer that wakes locks the wallet before the time is over that the last
\* walletpassphrase asked for (the loop of ThreadCleanWalletPassphrase over
\* nWalletUnlockTime).
THEOREM NeverCutShort == TimerSpec => NotCutShort
<1> DEFINE Step == \A t \in Timer : thread[t] = "asleep" /\ TimeUp(t)
                     => latest = NoTime \/ thread[latest] \in {"new", "enter"} \/ owed = 0
<1>1. TimerInv /\ [TimerNext]_timerVars => [Step]_timerVars
  <2> SUFFICES ASSUME TimerInv, TimerNext, NEW t \in Timer, thread[t] = "asleep", TimeUp(t),
                      latest # NoTime, thread[latest] \notin {"new", "enter"}
               PROVE  owed = 0
    OBVIOUS
  <2> USE TimeAssumption
  <2>1. thread \in [Timer -> {"none", "new", "enter", "asleep"}] /\ thread' = [thread EXCEPT ![t] = "none"]
        /\ thread'[t] = "none" /\ latest' = NoTime
    BY DEF TimeUp, TimerInv, TimerTypeOK
  <2>2. ~Call /\ ~Change /\ ~Tick
    BY <2>1 DEF Call, walletpassphrase, walletlock, ChangeBegin, Change, ChangeLock, ChangeUnlock,
       ChangeRefused, ChangeEnd, Tick, timers
  <2>3. PICK u \in Timer : Clean(u)
    BY <2>2 DEF TimerNext
  <2>4. u = t
    BY <2>1, <2>3 DEF Clean, SetWakeTime, Extend, StartTimer, Wake, WakeInVain, TimeUp, Sleep
  <2>5. Wake(t) \/ WakeInVain(t)
    BY <2>3, <2>4 DEF Clean, SetWakeTime, Extend, StartTimer
  <2>6. ~WakeInVain(t)
    BY <2>1 DEF WakeInVain, timerHistory
  <2>7. nWalletUnlockTime = 0
    BY <2>1, <2>5, <2>6 DEF Wake, Sleep
  <2> QED BY <2>7 DEF TimerInv, OwedIsSet, TimerTypeOK, Time
<1> QED BY <1>1, TimerInvariant, PTL DEF TimerSpec, NotCutShort
=============================================================================
