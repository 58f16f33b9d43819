------------------------------ MODULE AddrMan ------------------------------
(***************************************************************************)
(* CAddrMan (addrman.h, addrman.cpp): the addresses a node knows, in       *)
(* buckets of addresses it has not tried and of addresses it has reached,  *)
(* with three indexes over them and two counters, and the way they are     *)
(* written to peers.dat and read back.  Every operation runs under cs, so  *)
(* each is one action.                                                     *)
(*                                                                         *)
(* Times and random numbers decide which entry ShrinkNew and SelectTried   *)
(* give up and whether Add_ files an address again: every outcome is       *)
(* allowed here.  Attempt_ and Connected_ change times only.               *)
(***************************************************************************)
EXTENDS Integers, Sequences, FiniteSets, Functions, SequencesExt

CONSTANTS
    Service,      \* CService: an address with its port
    HostOf,       \* [Service -> host]: the CNetAddr
    Source,       \* who told us
    NewBucket, TriedBucket,
    GetNewBucket,   \* [Service \X Source -> NewBucket]: decided by nKey and the groups
    GetTriedBucket, \* [Service -> TriedBucket]
    NewSize,      \* ADDRMAN_NEW_BUCKET_SIZE
    TriedSize,    \* ADDRMAN_TRIED_BUCKET_SIZE
    MaxRef,       \* ADDRMAN_NEW_BUCKETS_PER_ADDRESS
    GetAddrPct,   \* ADDRMAN_GETADDR_MAX_PCT
    GetAddrMax,   \* ADDRMAN_GETADDR_MAX
    MaxId         \* bound on nIdCount

ASSUME AddrAssumption ==
    /\ GetNewBucket \in [Service \X Source -> NewBucket]
    /\ GetTriedBucket \in [Service -> TriedBucket]
    /\ HostOf \in [Service -> Range(HostOf)]
    /\ NewBucket \subseteq Nat /\ IsFiniteSet(NewBucket)
    /\ NewSize \in Nat \ {0} /\ TriedSize \in Nat \ {0} /\ MaxRef \in Nat \ {0}
    /\ GetAddrPct \in 0 .. 100 /\ GetAddrMax \in Nat /\ MaxId \in Nat

VARIABLES
    nIdCount,  \* the next id
    mapInfo,   \* a function from ids to CAddrInfo
    mapAddr,   \* a function from hosts to ids
    vRandom,   \* all ids, in random order
    nTried, nNew, \* the counters
    vvTried,   \* [TriedBucket -> Seq(id)]
    vvNew      \* [NewBucket -> SUBSET id]

vars == <<nIdCount, mapInfo, mapAddr, vRandom, nTried, nNew, vvTried, vvNew>>

\* The ids given out.
Id == 0 .. nIdCount - 1

\* A CAddrInfo.
Info == [svc : Service, source : Source, nRefCount : Int, fInTried : BOOLEAN,
         nRandomPos : Int]

TypeOK == /\ nIdCount \in 0 .. MaxId /\ nTried \in Int /\ nNew \in Int
          /\ DOMAIN mapInfo \subseteq Id /\ \A n \in DOMAIN mapInfo : mapInfo[n] \in Info
          /\ DOMAIN mapAddr \subseteq Range(HostOf) /\ Range(mapAddr) \subseteq Id
          /\ vRandom \in Seq(Id)
          /\ vvTried \in [TriedBucket -> Seq(Id)]
          /\ vvNew \in [NewBucket -> SUBSET Id]

Init == /\ nIdCount = 0 /\ mapInfo = [n \in {} |-> 0] /\ mapAddr = [h \in {} |-> 0]
        /\ vRandom = <<>> /\ nTried = 0 /\ nNew = 0
        /\ vvTried = [k \in TriedBucket |-> <<>>]
        /\ vvNew = [b \in NewBucket |-> {}]

-----------------------------------------------------------------------------
(* The indexes: mapInfo, mapAddr and vRandom, as one value.                *)

Index == [info |-> mapInfo, addr |-> mapAddr, rnd |-> vRandom]
SetIndex(x) == mapInfo' = x.info /\ mapAddr' = x.addr /\ vRandom' = x.rnd

\* Find(addr), and the entry is for the same port.
Finds(s) == HostOf[s] \in DOMAIN mapAddr
FindsExactly(s) == Finds(s) /\ mapInfo[mapAddr[HostOf[s]]].svc = s

\* Create(addr, source), for the id n.
Create(x, n, s, src) ==
    LET info == [svc |-> s, source |-> src, nRefCount |-> 0, fInTried |-> FALSE,
                 nRandomPos |-> Len(x.rnd) + 1]
    IN [info |-> [m \in DOMAIN x.info \cup {n} |-> IF m = n THEN info ELSE x.info[m]],
        addr |-> [h \in DOMAIN x.addr \cup {HostOf[s]} |-> IF h = HostOf[s] THEN n ELSE x.addr[h]],
        rnd  |-> Append(x.rnd, n)]

SwapRandom(x, i, j) ==
    IF i = j THEN x
    ELSE [info |-> [x.info EXCEPT ![x.rnd[i]].nRandomPos = j, ![x.rnd[j]].nRandomPos = i],
          addr |-> x.addr,
          rnd  |-> [x.rnd EXCEPT ![i] = x.rnd[j], ![j] = x.rnd[i]]]

\* The entry n leaves all three: swapped to the end of vRandom and popped.
Delete(x, n) ==
    LET y == SwapRandom(x, x.info[n].nRandomPos, Len(x.rnd))
    IN [info |-> [m \in DOMAIN y.info \ {n} |-> y.info[m]],
        addr |-> [h \in DOMAIN y.addr \ {HostOf[y.info[n].svc]} |-> y.addr[h]],
        rnd  |-> Front(y.rnd)]

\* --nRefCount, and the entry is deleted when it reaches zero.
Unref(x, n) == IF x.info[n].nRefCount = 1 THEN Delete(x, n)
                                          ELSE [x EXCEPT !.info[n].nRefCount = @ - 1]

-----------------------------------------------------------------------------
\* The end of Add_: the entry n goes into the new bucket b; if that is full,
\* ShrinkNew makes room.  x is the index, with n in it.
InsertNew(x, n, b) ==
    LET added == IF n \in DOMAIN mapInfo THEN 0 ELSE 1
        y == [x EXCEPT !.info[n].nRefCount = @ + 1]
    IN IF Cardinality(vvNew[b]) # NewSize
       THEN /\ vvNew' = [vvNew EXCEPT ![b] = @ \cup {n}]
            /\ SetIndex(y) /\ nNew' = nNew + added
       ELSE \E v \in vvNew[b] :
            /\ vvNew' = [vvNew EXCEPT ![b] = (@ \ {v}) \cup {n}]
            /\ SetIndex(Unref(y, v))
            /\ nNew' = nNew + added - (IF y.info[v].nRefCount = 1 THEN 1 ELSE 0)

\* Add_ of an address that is not known.
AddUnknown(s, src) ==
    /\ ~Finds(s) /\ nIdCount < MaxId
    /\ InsertNew(Create(Index, nIdCount, s, src), nIdCount, GetNewBucket[<<s, src>>])
    /\ nIdCount' = nIdCount + 1
    /\ UNCHANGED <<nTried, vvTried>>

\* Add_ of an address whose host is known: an entry that is not tried may get
\* into one more new bucket.
AddKnown(s, src) ==
    /\ Finds(s)
    /\ LET n == mapAddr[HostOf[s]]
           b == GetNewBucket[<<mapInfo[n].svc, src>>]
       IN /\ ~mapInfo[n].fInTried /\ mapInfo[n].nRefCount # MaxRef
          /\ n \notin vvNew[b]
          /\ InsertNew(Index, n, b)
    /\ UNCHANGED <<nIdCount, nTried, vvTried>>

-----------------------------------------------------------------------------
\* Mutant: the evicted entry keeps its reference count of zero.
EvictedUnref(info) == [info EXCEPT !.fInTried = FALSE]

\* The entry that makes room in a tried bucket goes back to a new one.
Evicted(info) == [info EXCEPT !.fInTried = FALSE, !.nRefCount = 1]

\* Where it goes: its own new bucket or, if that is full, the one the other
\* entry came from.
EvictTo(buckets, info, origin) ==
    LET own == GetNewBucket[<<info.svc, info.source>>]
    IN IF Cardinality(buckets[own]) < NewSize THEN own ELSE origin

\* Mutant: the entry that makes room is erased.
GoodDropsOld(s) ==
    LET n == mapAddr[HostOf[s]]
        k == GetTriedBucket[s]
        there == [Index EXCEPT !.info[n].nRefCount = 0, !.info[n].fInTried = TRUE]
    IN /\ FindsExactly(s) /\ ~mapInfo[n].fInTried
       /\ vvNew' = [b \in NewBucket |-> vvNew[b] \ {n}]
       /\ nNew' = nNew - 1
       /\ \/ /\ Len(vvTried[k]) < TriedSize
             /\ vvTried' = [vvTried EXCEPT ![k] = Append(@, n)]
             /\ nTried' = nTried + 1 /\ SetIndex(there)
          \/ /\ Len(vvTried[k]) >= TriedSize
             /\ \E p \in DOMAIN vvTried[k] :
                   /\ vvTried' = [vvTried EXCEPT ![k][p] = n]
                   /\ SetIndex(Delete(there, vvTried[k][p]))
             /\ UNCHANGED nTried
       /\ UNCHANGED nIdCount

\* SelectTried shuffles the bucket and gives up one of its places.
Shuffles(s) == {[i \in DOMAIN s |-> s[f[i]]] : f \in {g \in [DOMAIN s -> DOMAIN s] : IsInjective(g)}}

\* Good_ of an address in the tried table already, or for the first time: then
\* MakeTried moves it there, from all new buckets it is in.
Good(s) ==
    /\ FindsExactly(s)
    /\ LET n == mapAddr[HostOf[s]]
           holds == {b \in NewBucket : n \in vvNew[b]}
           left == [b \in NewBucket |-> vvNew[b] \ {n}]
           k == GetTriedBucket[s]
           there == [mapInfo EXCEPT ![n].nRefCount = @ - Cardinality(holds),
                                    ![n].fInTried = TRUE]
       IN /\ ~mapInfo[n].fInTried
          /\ \E origin \in holds :
             \/ /\ Len(vvTried[k]) < TriedSize
                /\ vvTried' = [vvTried EXCEPT ![k] = Append(@, n)]
                /\ nTried' = nTried + 1 /\ nNew' = nNew - 1
                /\ mapInfo' = there /\ vvNew' = left
             \/ /\ Len(vvTried[k]) >= TriedSize
                /\ \E shuffled \in Shuffles(vvTried[k]), p \in DOMAIN vvTried[k] :
                   LET old == shuffled[p]
                       to == EvictTo(left, mapInfo[old], origin)
                   IN /\ vvTried' = [vvTried EXCEPT ![k] = [shuffled EXCEPT ![p] = n]]
                      /\ mapInfo' = [there EXCEPT ![old] = Evicted(@)]
                      /\ vvNew' = [left EXCEPT ![to] = @ \cup {old}]
                /\ UNCHANGED <<nTried, nNew>>
    /\ UNCHANGED <<nIdCount, mapAddr, vRandom>>

\* The first n places of vRandom are filled, one after another, with what is at nRndPos.
Drawn(x, n, nRndPos) ==
    LET after[i \in 0 .. n] == IF i = 0 THEN x ELSE SwapRandom(after[i - 1], i, nRndPos[i])
    IN  after[n]

\* GetAddr_: a share of the entries, up to a limit, is brought to the front of
\* vRandom, each swapped with a later one.
GetAddr ==
    /\ LET share == (GetAddrPct * Len(vRandom)) \div 100
           n == IF share > GetAddrMax THEN GetAddrMax ELSE share
       IN \E nRndPos \in [1 .. n -> DOMAIN vRandom] :
          /\ \A i \in 1 .. n : nRndPos[i] >= i
          /\ SetIndex(Drawn(Index, n, nRndPos))
    /\ UNCHANGED <<nIdCount, nTried, nNew, vvTried, vvNew>>

-----------------------------------------------------------------------------
(* peers.dat.                                                              *)

\* The order of a map of ids.
Ascending(S) == CHOOSE s \in [1 .. Cardinality(S) -> S] : \A i, j \in DOMAIN s : i < j => s[i] < s[j]

\* The entries in the order in which they are written: the new ones, the tried
\* ones, each by id.
Written == Ascending({n \in DOMAIN mapInfo : mapInfo[n].nRefCount # 0})
           \o Ascending({n \in DOMAIN mapInfo : mapInfo[n].fInTried})

\* Mutant: filed by its source alone, as if the number of buckets had changed.
IntoOwn(n) == {GetNewBucket[<<mapInfo[n].svc, mapInfo[n].source>>]}

\* The new buckets that an entry is read back into, at most MaxRef.
Into(n) == {b \in NewBucket : /\ n \in vvNew[b]
                              /\ Cardinality({c \in NewBucket : c < b /\ n \in vvNew[c]}) < MaxRef}

\* The map is written, the program ends, and reads it back: the place of an
\* entry in the file becomes its id, the indexes are built anew, and a tried
\* entry is filed again under its bucket, lost if that is full.  (A file that
\* is older than the map gives a state that an earlier Reload gave.)
Reload ==
    LET w == Written
        bucket(n) == GetTriedBucket[mapInfo[n].svc]
        \* A tried entry finds its bucket full of those read before it.
        lost == {i \in nNew + 1 .. Len(w) :
                    Cardinality({j \in nNew + 1 .. i - 1 : bucket(w[j]) = bucket(w[i])}) >= TriedSize}
        kept == Ascending(DOMAIN w \ lost)
        read == [i \in DOMAIN kept |-> w[kept[i]]]
        index(n) == (CHOOSE i \in DOMAIN read : read[i] = n) - 1
    IN /\ nIdCount' = Len(read)
       /\ mapInfo' = [i \in 0 .. Len(read) - 1 |->
                        [mapInfo[read[i+1]] EXCEPT !.nRandomPos = i + 1, !.fInTried = (i >= nNew),
                                                   !.nRefCount = Cardinality(Into(read[i+1]))]]
       /\ mapAddr' = [h \in {HostOf[mapInfo[n].svc] : n \in Range(read)} |->
                        index(CHOOSE n \in Range(read) : HostOf[mapInfo[n].svc] = h)]
       /\ vRandom' = [i \in DOMAIN read |-> i - 1]
       /\ vvNew' = [b \in NewBucket |-> {index(n) : n \in {m \in vvNew[b] : b \in Into(m)}}]
       /\ vvTried' = [k \in TriedBucket |->
                        Ascending({i \in nNew .. Len(read) - 1 : bucket(read[i+1]) = k})]
       /\ nTried' = nTried - Cardinality(lost)
       /\ UNCHANGED nNew

Next == \/ \E s \in Service, src \in Source : AddUnknown(s, src) \/ AddKnown(s, src)
        \/ \E s \in Service : Good(s)
        \/ GetAddr
        \/ Reload

Spec == Init /\ [][Next]_vars

-----------------------------------------------------------------------------
(* Properties.                                                             *)

TriedIds == {n \in DOMAIN mapInfo : mapInfo[n].fInTried}
NewIds == DOMAIN mapInfo \ TriedIds
Holding(n) == {b \in NewBucket : n \in vvNew[b]}

\* Every entry is found through its host and through its place in vRandom, and
\* those lead to nothing else (Check_: -5, -7, -14).
Indexed ==
    /\ \A n \in DOMAIN mapInfo : /\ HostOf[mapInfo[n].svc] \in DOMAIN mapAddr
                                 /\ mapAddr[HostOf[mapInfo[n].svc]] = n
                                 /\ mapInfo[n].nRandomPos \in DOMAIN vRandom
                                 /\ vRandom[mapInfo[n].nRandomPos] = n
    /\ \A h \in DOMAIN mapAddr : mapAddr[h] \in DOMAIN mapInfo
    /\ \A i \in DOMAIN vRandom : vRandom[i] \in DOMAIN mapInfo /\ mapInfo[vRandom[i]].nRandomPos = i

\* A tried entry is in one place of one tried bucket, its own, and in no new
\* one; any other is in as many new buckets as it has references, at least one
\* and at most MaxRef.  So the assertion in MakeTried holds, and Select_ finds
\* an entry in either table when the counters say there is one (Check_: -1 to
\* -4, -9 to -15).
Filed ==
    /\ \A n \in TriedIds : /\ mapInfo[n].nRefCount = 0
                           /\ Holding(n) = {}
                           /\ Cardinality({i \in DOMAIN vvTried[GetTriedBucket[mapInfo[n].svc]] :
                                 vvTried[GetTriedBucket[mapInfo[n].svc]][i] = n}) = 1
    /\ \A n \in NewIds : /\ mapInfo[n].nRefCount = Cardinality(Holding(n))
                         /\ mapInfo[n].nRefCount \in 1 .. MaxRef
    /\ \A k \in TriedBucket : \A i \in DOMAIN vvTried[k] :
           vvTried[k][i] \in TriedIds /\ GetTriedBucket[mapInfo[vvTried[k][i]].svc] = k
    /\ \A b \in NewBucket : vvNew[b] \subseteq NewIds

\* The counters that Select_ relies on to end its loops, and the file on to be
\* read back, count the entries of either table.
Counted == nTried = Cardinality(TriedIds) /\ nNew = Cardinality(NewIds)

\* No bucket holds more than it may: MakeTried's "there is certainly place there".
Bounded == /\ \A b \in NewBucket : Cardinality(vvNew[b]) <= NewSize
           /\ \A k \in TriedBucket : Len(vvTried[k]) <= TriedSize

\* What Check_, which no build calls by default, would return 0 for after every
\* operation: the three indexes, the buckets, the reference counts and the two
\* counters agree, in their types and within their limits.
Consistent == TypeOK /\ Indexed /\ Filed /\ Counted /\ Bounded

\* What is known, without ids: of each address who told us, which
\* table it is in and which new buckets.
Known == {[svc |-> mapInfo[n].svc, source |-> mapInfo[n].source,
           tried |-> mapInfo[n].fInTried, in |-> Holding(n)] : n \in DOMAIN mapInfo}

\* Writing the addresses to peers.dat and reading them back loses and changes
\* nothing: the indices in the file lead to the entries they led to in memory.
ReloadKeeps == [][Reload => Known' = Known]_vars

\* An address in the tried table is forgotten by no operation: it leaves the
\* table for the new one only ("evicted from it, back to the new buckets"), even
\* when all new buckets are full and when the program restarts.
NeverForgotten ==
    [][\A h \in DOMAIN mapAddr : mapInfo[mapAddr[h]].fInTried => h \in DOMAIN mapAddr']_vars
=============================================================================
