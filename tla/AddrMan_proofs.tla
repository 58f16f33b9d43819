--------------------------- MODULE AddrMan_proofs ---------------------------
(***************************************************************************)
(* The address manager, for any addresses, buckets and limits: whatever is *)
(* added, tried, drawn and read back from peers.dat, Check_ would find     *)
(* nothing wrong, a restart loses nothing, and an address that was reached *)
(* is not forgotten when another takes its place.                          *)
(***************************************************************************)
EXTENDS AddrMan, SequenceTheorems, FiniteSetTheorems, WellFoundedInduction, TLAPS

-----------------------------------------------------------------------------
(* Induction, and loops.                                                   *)

\* Every nonempty set of natural numbers has a least one.
LEMMA LeastExists ==
  ASSUME NEW S, S \subseteq Nat, S # {}
  PROVE  \E n \in S : \A m \in S : n <= m
<1> DEFINE R == {ss \in Nat \X Nat : ss[1] < ss[2]}
<1>1. IsWellFoundedOn(R, Nat)
  BY NatLessThanWellFounded DEF OpToRel
<1>2. \E x \in S : \A y \in S : ~ (<<y, x>> \in R)
  <2> HIDE DEF R
  <2> QED BY <1>1, WFMin
<1>3. PICK x \in S : \A y \in S : ~ (y < x)
  BY <1>2
<1> QED BY <1>3

\* Induction up to n, on the set of the numbers for which something holds.
LEMMA UpTo ==
  ASSUME NEW n \in Nat, NEW S, 0 \in S, \A i \in 1 .. n : i - 1 \in S => i \in S
  PROVE  \A i \in 0 .. n : i \in S
<1> SUFFICES ASSUME ~(\A i \in 0 .. n : i \in S) PROVE FALSE
  OBVIOUS
<1> DEFINE B == {i \in 0 .. n : i \notin S}
<1>1. B \subseteq Nat /\ B # {}
  OBVIOUS
<1>2. PICK k \in B : \A m \in B : k <= m
  BY <1>1, LeastExists
<1>3. k \in 0 .. n /\ k # 0 /\ k - 1 \in 0 .. n /\ k - 1 \notin B
  BY <1>2
<1> QED BY <1>2, <1>3

\* A loop of n turns that begins with q, each turn a step F within D, and its states.
Turns(D, q, n, F) == q \in D /\ n \in Nat /\ F \in [D \X (1 .. n) -> D]
Trace(f, D, q, n, F) == /\ f \in [0 .. n -> D]
                        /\ f[0] = q /\ \A i \in 1 .. n : f[i] = F[<<f[i - 1], i>>]

\* It has a state after every turn.
LEMMA LoopExists ==
  ASSUME NEW D, NEW q, NEW n, NEW F, Turns(D, q, n, F)
  PROVE  \E f : Trace(f, D, q, n, F)
<1> USE DEF Turns
<1> DEFINE Runs(f, k) == f[0] = q /\ \A i \in 1 .. k : f[i] = F[<<f[i - 1], i>>]
           G == {k \in 0 .. n : \E f \in [0 .. k -> D] : Runs(f, k)}
<1>1. 0 \in G
  <2> DEFINE f == [i \in 0 .. 0 |-> q]
  <2>1. f \in [0 .. 0 -> D] /\ Runs(f, 0) /\ 0 \in 0 .. n
    OBVIOUS
  <2> HIDE DEF f
  <2> QED BY <2>1
<1>2. ASSUME NEW k \in 1 .. n, k - 1 \in G PROVE k \in G
  <2>1. PICK f \in [0 .. k - 1 -> D] : Runs(f, k - 1)
    BY <1>2
  <2> DEFINE v == F[<<f[k - 1], k>>]
             g == [i \in 0 .. k |-> IF i = k THEN v ELSE f[i]]
  <2>2. f[k - 1] \in D /\ v \in D
    OBVIOUS
  <2>3. \A i \in 0 .. k : i # k => i \in 0 .. k - 1 /\ g[i] = f[i]
    OBVIOUS
  <2>4. g[k] = v /\ g[k - 1] = f[k - 1] /\ g[0] = f[0] /\ g \in [0 .. k -> D]
    BY <2>2, <2>3
  <2> HIDE DEF g
  <2>5. ASSUME NEW i \in 1 .. k PROVE g[i] = F[<<g[i - 1], i>>]
    <3>1. CASE i = k
      BY <2>4, <3>1
    <3>2. CASE i # k
      <4>1. i \in 1 .. k - 1 /\ i - 1 \in 0 .. k /\ i - 1 # k /\ i \in 0 .. k
        BY <3>2
      <4>2. g[i] = f[i] /\ g[i - 1] = f[i - 1]
        BY <2>3, <3>2, <4>1
      <4> QED BY <2>1, <4>1, <4>2
    <3> QED BY <3>1, <3>2
  <2>6. Runs(g, k)
    BY <2>1, <2>4, <2>5
  <2> QED BY <2>4, <2>6
<1> HIDE DEF G
<1>3. \A i \in 0 .. n : i \in G
  BY <1>1, <1>2, UpTo
<1>4. n \in G
  BY <1>3
<1> QED BY <1>4 DEF G, Trace

-----------------------------------------------------------------------------
(* The three indexes.                                                      *)

\* Their types, with N ids given out.
Typed(info, addr, rnd, N) ==
  /\ DOMAIN info \subseteq 0 .. N - 1 /\ info \in [DOMAIN info -> Info]
  /\ DOMAIN addr \subseteq Range(HostOf)
  /\ rnd \in Seq(0 .. N - 1)

\* Indexed: an entry is found through its host, which leads to nothing else ...
ByHost(info, addr) ==
  /\ \A n \in DOMAIN info : HostOf[info[n].svc] \in DOMAIN addr /\ addr[HostOf[info[n].svc]] = n
  /\ \A h \in DOMAIN addr : addr[h] \in DOMAIN info /\ HostOf[info[addr[h]].svc] = h

\* ... and through its place in vRandom.
ByPlace(info, rnd) ==
  /\ \A n \in DOMAIN info : info[n].nRandomPos \in 1 .. Len(rnd) /\ rnd[info[n].nRandomPos] = n
  /\ \A i \in 1 .. Len(rnd) : rnd[i] \in DOMAIN info /\ info[rnd[i]].nRandomPos = i

\* Two maps of entries that differ in nRandomPos only.
Alike(e, f) == /\ e.svc = f.svc /\ e.source = f.source
               /\ e.nRefCount = f.nRefCount /\ e.fInTried = f.fInTried
AllAlike(g, info) == DOMAIN g = DOMAIN info /\ \A n \in DOMAIN info : Alike(g[n], info[n])

\* The place of one entry is changed.
Moved(info, a, j, g) == g = [info EXCEPT ![a].nRandomPos = j]

\* Nothing else of it is.
LEMMA PlaceIs ==
  ASSUME NEW info, info \in [DOMAIN info -> Info], NEW a \in DOMAIN info, NEW j \in Int,
         NEW g, Moved(info, a, j, g)
  PROVE  /\ g \in [DOMAIN info -> Info] /\ AllAlike(g, info) /\ g[a].nRandomPos = j
         /\ \A n \in DOMAIN info : n # a => g[n] = info[n]
<1>1. info[a] \in Info /\ [info[a] EXCEPT !.nRandomPos = j] \in Info
  BY DEF Info
<1>2. /\ g[a] = [info[a] EXCEPT !.nRandomPos = j]
      /\ \A n \in DOMAIN info : n # a => g[n] = info[n]
      /\ g = [n \in DOMAIN info |-> g[n]] /\ DOMAIN g = DOMAIN info
  BY DEF Moved
<1>3. \A n \in DOMAIN info : g[n] \in Info
  BY <1>1, <1>2
<1>4. Alike(g[a], info[a]) /\ g[a].nRandomPos = j
  BY <1>1, <1>2 DEF Alike, Info
<1>5. \A n \in DOMAIN info : Alike(g[n], info[n])
  BY <1>2, <1>4 DEF Alike
<1> QED BY <1>2, <1>3, <1>4, <1>5 DEF AllAlike

\* g and r are info and rnd with the places i and j of rnd swapped.
Swapped(info, rnd, i, j, g, r) ==
  /\ g = [info EXCEPT ![rnd[i]].nRandomPos = j, ![rnd[j]].nRandomPos = i]
  /\ r = [rnd EXCEPT ![i] = rnd[j], ![j] = rnd[i]]

\* Swapping two places of vRandom, seen from outside.
LEMMA SwapIs ==
  ASSUME NEW N \in Nat, NEW info, NEW addr, NEW rnd, Typed(info, addr, rnd, N), ByPlace(info, rnd),
         NEW i \in 1 .. Len(rnd), NEW j \in 1 .. Len(rnd), i # j,
         NEW g, NEW r, Swapped(info, rnd, i, j, g, r)
  PROVE  /\ r \in Seq(0 .. N - 1) /\ Len(r) = Len(rnd) /\ r[i] = rnd[j] /\ r[j] = rnd[i]
         /\ \A k \in 1 .. Len(rnd) : k # i /\ k # j => r[k] = rnd[k]
         /\ AllAlike(g, info) /\ g \in [DOMAIN info -> Info]
         /\ g[rnd[i]].nRandomPos = j /\ g[rnd[j]].nRandomPos = i
         /\ \A n \in DOMAIN info : n # rnd[i] /\ n # rnd[j] => g[n].nRandomPos = info[n].nRandomPos
<1>0. /\ info \in [DOMAIN info -> Info] /\ rnd \in Seq(0 .. N - 1) /\ Len(rnd) \in Nat
      /\ rnd[i] \in DOMAIN info /\ rnd[j] \in DOMAIN info /\ rnd[i] # rnd[j]
      /\ i \in Int /\ j \in Int /\ rnd[i] \in 0 .. N - 1 /\ rnd[j] \in 0 .. N - 1
  BY SMTT(30) DEF Typed, ByPlace
<1>1. PICK a \in DOMAIN info : a = rnd[i]
  BY <1>0
<1>2. PICK b \in DOMAIN info : b = rnd[j]
  BY <1>0
<1>3. PICK f : Moved(info, a, j, f)
  BY DEF Moved
<1>4. Moved(f, b, i, g)
  BY <1>1, <1>2, <1>3 DEF Swapped, Moved
<1>5. /\ f \in [DOMAIN info -> Info] /\ AllAlike(f, info) /\ f[a].nRandomPos = j
      /\ \A n \in DOMAIN info : n # a => f[n] = info[n]
  BY SMTT(30), <1>0, <1>3, PlaceIs
<1>6. /\ g \in [DOMAIN f -> Info] /\ AllAlike(g, f) /\ g[b].nRandomPos = i
      /\ \A n \in DOMAIN f : n # b => g[n] = f[n]
  <2>1. DOMAIN f = DOMAIN info
    BY <1>5
  <2> QED BY SMTT(30), <1>0, <1>4, <1>5, <2>1, PlaceIs
<1>7. AllAlike(g, info) /\ DOMAIN f = DOMAIN info
  BY <1>5, <1>6 DEF AllAlike, Alike
<1>8. /\ g[a].nRandomPos = j /\ g[b].nRandomPos = i
      /\ \A n \in DOMAIN info : n # a /\ n # b => g[n].nRandomPos = info[n].nRandomPos
  BY <1>0, <1>1, <1>2, <1>5, <1>6, <1>7
<1>9. /\ r \in Seq(0 .. N - 1) /\ Len(r) = Len(rnd) /\ r[i] = b /\ r[j] = a
      /\ \A k \in 1 .. Len(rnd) : k # i /\ k # j => r[k] = rnd[k]
  <2>1. PICK q : q = [rnd EXCEPT ![i] = b]
    OBVIOUS
  <2>2. r = [q EXCEPT ![j] = a]
    BY <1>1, <1>2, <2>1 DEF Swapped
  <2>3. /\ q \in Seq(0 .. N - 1) /\ Len(q) = Len(rnd) /\ q[i] = b
        /\ \A k \in 1 .. Len(rnd) : k # i => q[k] = rnd[k]
    BY <1>0, <1>2, <2>1
  <2>4. /\ r \in Seq(0 .. N - 1) /\ Len(r) = Len(q) /\ r[j] = a
        /\ \A k \in 1 .. Len(q) : k # j => r[k] = q[k]
    BY <1>0, <1>1, <2>2, <2>3
  <2> QED BY <2>3, <2>4
<1> QED BY <1>1, <1>2, <1>6, <1>7, <1>8, <1>9

\* What is found by its host stays so if entries change in other fields only.
LEMMA HostsKept ==
  ASSUME NEW info, NEW addr, ByHost(info, addr), NEW g, DOMAIN g = DOMAIN info,
         \A n \in DOMAIN info : g[n].svc = info[n].svc
  PROVE  ByHost(g, addr)
BY DEF ByHost

\* SwapRandom keeps the places right.
LEMMA SwapKeeps ==
  ASSUME NEW N \in Nat, NEW info, NEW addr, NEW rnd, Typed(info, addr, rnd, N),
         ByHost(info, addr), ByPlace(info, rnd),
         NEW i \in 1 .. Len(rnd), NEW j \in 1 .. Len(rnd), i # j,
         NEW g, NEW r, Swapped(info, rnd, i, j, g, r)
  PROVE  /\ Typed(g, addr, r, N) /\ ByHost(g, addr) /\ ByPlace(g, r) /\ AllAlike(g, info)
         /\ Len(r) = Len(rnd) /\ r[j] = rnd[i]
<1>1. /\ r \in Seq(0 .. N - 1) /\ Len(r) = Len(rnd) /\ r[i] = rnd[j] /\ r[j] = rnd[i]
      /\ \A k \in 1 .. Len(rnd) : k # i /\ k # j => r[k] = rnd[k]
      /\ AllAlike(g, info) /\ g \in [DOMAIN info -> Info]
      /\ g[rnd[i]].nRandomPos = j /\ g[rnd[j]].nRandomPos = i
      /\ \A n \in DOMAIN info : n # rnd[i] /\ n # rnd[j] => g[n].nRandomPos = info[n].nRandomPos
  BY SwapIs
<1>2. DOMAIN g = DOMAIN info /\ \A n \in DOMAIN info : g[n].svc = info[n].svc
  BY <1>1 DEF AllAlike, Alike
<1>3. Typed(g, addr, r, N)
  BY <1>1, <1>2 DEF Typed
<1>4. ByHost(g, addr)
  BY <1>2, HostsKept
<1>5. ASSUME NEW n \in DOMAIN info
      PROVE  g[n].nRandomPos \in 1 .. Len(r) /\ r[g[n].nRandomPos] = n
  <2>1. info[n].nRandomPos \in 1 .. Len(rnd) /\ rnd[info[n].nRandomPos] = n
    BY DEF ByPlace
  <2>2. CASE n = rnd[i]
    BY <1>1, <2>2
  <2>3. CASE n = rnd[j]
    BY <1>1, <2>3
  <2>4. CASE n # rnd[i] /\ n # rnd[j]
    BY <1>1, <2>1, <2>4
  <2> QED BY <2>2, <2>3, <2>4
<1>6. ASSUME NEW k \in 1 .. Len(r) PROVE r[k] \in DOMAIN info /\ g[r[k]].nRandomPos = k
  <2>1. /\ k \in 1 .. Len(rnd) /\ rnd[k] \in DOMAIN info /\ info[rnd[k]].nRandomPos = k
        /\ rnd[i] \in DOMAIN info /\ info[rnd[i]].nRandomPos = i
        /\ rnd[j] \in DOMAIN info /\ info[rnd[j]].nRandomPos = j
    BY <1>1 DEF ByPlace
  <2>2. CASE k = i
    BY <1>1, <2>1, <2>2
  <2>3. CASE k = j
    BY <1>1, <2>1, <2>3
  <2>4. CASE k # i /\ k # j
    <3>1. r[k] = rnd[k] /\ rnd[k] # rnd[i] /\ rnd[k] # rnd[j]
      BY <1>1, <2>1, <2>4
    <3> QED BY <1>1, <2>1, <3>1
  <2> QED BY <2>2, <2>3, <2>4
<1>7. ByPlace(g, r)
  BY <1>2, <1>5, <1>6 DEF ByPlace
<1> QED BY <1>1, <1>3, <1>4, <1>7

\* What is found by its host and by its place stays so if entries change in other
\* fields only.
LEMMA LinksKept ==
  ASSUME NEW N \in Nat, NEW info, NEW addr, NEW rnd, Typed(info, addr, rnd, N),
         ByHost(info, addr), ByPlace(info, rnd), NEW g \in [DOMAIN info -> Info],
         \A n \in DOMAIN info : g[n].svc = info[n].svc /\ g[n].nRandomPos = info[n].nRandomPos
  PROVE  Typed(g, addr, rnd, N) /\ ByHost(g, addr) /\ ByPlace(g, rnd)
<1>1. DOMAIN g = DOMAIN info
  OBVIOUS
<1>2. Typed(g, addr, rnd, N)
  BY <1>1 DEF Typed
<1>3. ByHost(g, addr)
  BY <1>1, HostsKept
<1>4. ByPlace(g, rnd)
  BY <1>1 DEF ByPlace
<1> QED BY <1>2, <1>3, <1>4

\* What pop_back leaves of a sequence.
LEMMA FrontIs ==
  ASSUME NEW D, NEW s \in Seq(D), s # <<>>
  PROVE  /\ SubSeq(s, 1, Len(s) - 1) \in Seq(D) /\ Len(SubSeq(s, 1, Len(s) - 1)) = Len(s) - 1
         /\ \A i \in 1 .. Len(s) - 1 : SubSeq(s, 1, Len(s) - 1)[i] = s[i]
<1>1. SubSeq(s, 1, Len(s) - 1) \in Seq(D)
  OBVIOUS
<1>2. \A i \in 1 .. Len(s) - 1 : SubSeq(s, 1, Len(s) - 1)[i] = s[i]
  OBVIOUS
<1>3. PICK k : k = Len(s) - 1
  OBVIOUS
<1>4. k \in Int /\ k >= 0 /\ 1 \in Int /\ \A i \in 1 .. k : s[i] \in D
  BY <1>3
<1>5. ASSUME NEW m \in Int, m = 1, NEW n \in Int, n = k PROVE Len(SubSeq(s, m, n)) = k
  <2>1. \A i \in m .. n : s[i] \in D
    BY <1>4, <1>5
  <2>2. Len(SubSeq(s, m, n)) = IF m <= n THEN n - m + 1 ELSE 0
    BY <2>1, SubSeqProperties, Zenon
  <2> QED BY <1>4, <1>5, <2>2
<1>6. Len(SubSeq(s, 1, k)) = k
  BY <1>4, <1>5
<1> QED BY <1>1, <1>2, <1>3, <1>6

\* The entry n, at the end of rnd, has been removed.
Removed(info, addr, rnd, n, g, a, r) ==
  /\ g = [m \in DOMAIN info \ {n} |-> info[m]]
  /\ a = [h \in DOMAIN addr \ {HostOf[info[n].svc]} |-> addr[h]]
  /\ r = SubSeq(rnd, 1, Len(rnd) - 1)

\* Then everything leads to the others as before.
LEMMA RemoveKeeps ==
  ASSUME NEW N \in Nat, NEW info, NEW addr, NEW rnd, Typed(info, addr, rnd, N),
         ByHost(info, addr), ByPlace(info, rnd),
         NEW n \in DOMAIN info, info[n].nRandomPos = Len(rnd),
         NEW g, NEW a, NEW r, Removed(info, addr, rnd, n, g, a, r)
  PROVE  Typed(g, a, r, N) /\ ByHost(g, a) /\ ByPlace(g, r)
<1>0. /\ info \in [DOMAIN info -> Info] /\ rnd \in Seq(0 .. N - 1) /\ Len(rnd) \in Nat
      /\ Len(rnd) \in 1 .. Len(rnd) /\ rnd[Len(rnd)] = n
  BY DEF Typed, ByPlace
<1>1. /\ r \in Seq(0 .. N - 1) /\ Len(r) = Len(rnd) - 1
      /\ \A i \in 1 .. Len(r) : i \in 1 .. Len(rnd) /\ i # Len(rnd) /\ r[i] = rnd[i]
  <2>1. r = SubSeq(rnd, 1, Len(rnd) - 1)
    BY DEF Removed
  <2>2. rnd # <<>>
    BY <1>0
  <2> QED BY SMTT(30), <1>0, <2>1, <2>2, FrontIs
<1>2. /\ g \in [DOMAIN info \ {n} -> Info] /\ DOMAIN g = DOMAIN info \ {n}
      /\ \A m \in DOMAIN g : g[m] = info[m]
  BY <1>0 DEF Removed
<1>3. /\ DOMAIN a = DOMAIN addr \ {HostOf[info[n].svc]} /\ \A h \in DOMAIN a : a[h] = addr[h]
  BY DEF Removed
<1>4. Typed(g, a, r, N)
  BY <1>1, <1>2, <1>3 DEF Typed
<1>5. ByHost(g, a)
  <2>1. ASSUME NEW m \in DOMAIN g
        PROVE  HostOf[g[m].svc] \in DOMAIN a /\ a[HostOf[g[m].svc]] = m
    <3>1. m \in DOMAIN info /\ m # n /\ g[m].svc = info[m].svc
      BY <1>2
    <3>2. /\ HostOf[info[m].svc] \in DOMAIN addr /\ addr[HostOf[info[m].svc]] = m
          /\ addr[HostOf[info[n].svc]] = n
      BY <3>1 DEF ByHost
    <3> QED BY <1>3, <3>1, <3>2
  <2>2. ASSUME NEW h \in DOMAIN a PROVE a[h] \in DOMAIN g /\ HostOf[g[a[h]].svc] = h
    <3>1. h \in DOMAIN addr /\ h # HostOf[info[n].svc] /\ a[h] = addr[h]
      BY <1>3
    <3>2. addr[h] \in DOMAIN info /\ HostOf[info[addr[h]].svc] = h
      BY <3>1 DEF ByHost
    <3>3. addr[h] # n
      BY <3>1, <3>2
    <3> QED BY <1>2, <3>1, <3>2, <3>3
  <2> QED BY <2>1, <2>2 DEF ByHost
<1>6. ByPlace(g, r)
  <2>1. ASSUME NEW m \in DOMAIN g
        PROVE  g[m].nRandomPos \in 1 .. Len(r) /\ r[g[m].nRandomPos] = m
    <3>1. /\ m \in DOMAIN info /\ m # n /\ g[m] = info[m]
          /\ info[m].nRandomPos \in 1 .. Len(rnd) /\ rnd[info[m].nRandomPos] = m
      BY <1>2 DEF ByPlace
    <3>2. info[m].nRandomPos # Len(rnd)
      BY <1>0, <3>1
    <3>3. info[m].nRandomPos \in 1 .. Len(r)
      BY <1>0, <1>1, <3>1, <3>2
    <3> QED BY <1>1, <3>1, <3>3
  <2>2. ASSUME NEW i \in 1 .. Len(r) PROVE r[i] \in DOMAIN g /\ g[r[i]].nRandomPos = i
    <3>1. i \in 1 .. Len(rnd) /\ i # Len(rnd) /\ r[i] = rnd[i]
      BY <1>1
    <3>2. rnd[i] \in DOMAIN info /\ info[rnd[i]].nRandomPos = i
      BY <3>1 DEF ByPlace
    <3>3. rnd[i] # n
      BY <3>1, <3>2
    <3> QED BY <1>2, <3>1, <3>2, <3>3
  <2> QED BY <2>1, <2>2 DEF ByPlace
<1> QED BY <1>4, <1>5, <1>6

\* A new entry e, with the next id, of a host that is not known.
Entered(info, addr, rnd, n, e, g, a, r) ==
  /\ g = [m \in DOMAIN info \cup {n} |-> IF m = n THEN e ELSE info[m]]
  /\ a = [h \in DOMAIN addr \cup {HostOf[e.svc]} |-> IF h = HostOf[e.svc] THEN n ELSE addr[h]]
  /\ r = Append(rnd, n)

\* Everything leads to it, and to the others as before.
LEMMA EnterKeeps ==
  ASSUME NEW N \in Nat, NEW info, NEW addr, NEW rnd, Typed(info, addr, rnd, N),
         ByHost(info, addr), ByPlace(info, rnd),
         NEW e \in Info, e.nRandomPos = Len(rnd) + 1, HostOf[e.svc] \notin DOMAIN addr,
         NEW g, NEW a, NEW r, Entered(info, addr, rnd, N, e, g, a, r)
  PROVE  Typed(g, a, r, N + 1) /\ ByHost(g, a) /\ ByPlace(g, r)
<1>0. /\ info \in [DOMAIN info -> Info] /\ rnd \in Seq(0 .. N - 1) /\ Len(rnd) \in Nat
      /\ N \notin DOMAIN info /\ e.svc \in Service
  BY DEF Typed, Info
<1>1. /\ r \in Seq(0 .. N) /\ Len(r) = Len(rnd) + 1 /\ r[Len(rnd) + 1] = N
      /\ \A i \in 1 .. Len(rnd) : r[i] = rnd[i]
  <2>1. rnd \in Seq(0 .. N) /\ N \in 0 .. N
    BY <1>0
  <2> QED BY <1>0, <2>1 DEF Entered
<1>2. /\ DOMAIN g = DOMAIN info \cup {N} /\ g[N] = e /\ \A m \in DOMAIN info : g[m] = info[m]
      /\ g \in [DOMAIN g -> Info]
  BY <1>0 DEF Entered
<1>3. /\ DOMAIN a = DOMAIN addr \cup {HostOf[e.svc]} /\ a[HostOf[e.svc]] = N
      /\ \A h \in DOMAIN addr : a[h] = addr[h]
  BY DEF Entered
<1>4. Typed(g, a, r, N + 1)
  <2>1. HostOf[e.svc] \in Range(HostOf)
    BY <1>0, AddrAssumption DEF Range
  <2>2. 0 .. N + 1 - 1 = 0 .. N /\ DOMAIN g \subseteq 0 .. N
    BY <1>2 DEF Typed
  <2> QED BY <1>1, <1>2, <1>3, <2>1, <2>2 DEF Typed
<1>5. ByHost(g, a)
  <2>1. ASSUME NEW m \in DOMAIN g
        PROVE  HostOf[g[m].svc] \in DOMAIN a /\ a[HostOf[g[m].svc]] = m
    <3>1. CASE m = N
      BY <1>2, <1>3, <3>1
    <3>2. CASE m # N
      <4>1. m \in DOMAIN info /\ g[m] = info[m]
        BY <1>2, <3>2
      <4>2. HostOf[info[m].svc] \in DOMAIN addr /\ addr[HostOf[info[m].svc]] = m
        BY <4>1 DEF ByHost
      <4> QED BY <1>3, <4>1, <4>2
    <3> QED BY <3>1, <3>2
  <2>2. ASSUME NEW h \in DOMAIN a PROVE a[h] \in DOMAIN g /\ HostOf[g[a[h]].svc] = h
    <3>1. CASE h = HostOf[e.svc]
      BY <1>2, <1>3, <3>1
    <3>2. CASE h # HostOf[e.svc]
      <4>1. h \in DOMAIN addr /\ a[h] = addr[h]
        BY <1>3, <3>2
      <4>2. addr[h] \in DOMAIN info /\ HostOf[info[addr[h]].svc] = h
        BY <4>1 DEF ByHost
      <4> QED BY <1>2, <4>1, <4>2
    <3> QED BY <3>1, <3>2
  <2> QED BY <2>1, <2>2 DEF ByHost
<1>6. ByPlace(g, r)
  <2>1. ASSUME NEW m \in DOMAIN g
        PROVE  g[m].nRandomPos \in 1 .. Len(r) /\ r[g[m].nRandomPos] = m
    <3>1. CASE m = N
      BY <1>0, <1>1, <1>2, <3>1
    <3>2. CASE m # N
      <4>1. m \in DOMAIN info /\ g[m] = info[m]
        BY <1>2, <3>2
      <4>2. info[m].nRandomPos \in 1 .. Len(rnd) /\ rnd[info[m].nRandomPos] = m
        BY <4>1 DEF ByPlace
      <4> QED BY <1>0, <1>1, <4>1, <4>2
    <3> QED BY <3>1, <3>2
  <2>2. ASSUME NEW i \in 1 .. Len(r) PROVE r[i] \in DOMAIN g /\ g[r[i]].nRandomPos = i
    <3>1. CASE i = Len(rnd) + 1
      BY <1>1, <1>2, <3>1
    <3>2. CASE i # Len(rnd) + 1
      <4>1. i \in 1 .. Len(rnd) /\ r[i] = rnd[i]
        BY SMTT(30), <1>0, <1>1, <3>2
      <4>2. rnd[i] \in DOMAIN info /\ info[rnd[i]].nRandomPos = i
        BY <4>1 DEF ByPlace
      <4> QED BY <1>2, <4>1, <4>2
    <3> QED BY <3>1, <3>2
  <2> QED BY <2>1, <2>2 DEF ByPlace
<1> QED BY <1>4, <1>5, <1>6

-----------------------------------------------------------------------------
(* The tables.                                                             *)

TriedIn(info)     == {n \in DOMAIN info : info[n].fInTried}
NewIn(info)       == DOMAIN info \ TriedIn(info)
HoldingIn(W, n)   == {b \in NewBucket : n \in W[b]}
BucketIn(info, n) == GetTriedBucket[info[n].svc]

Entries(info, N) == DOMAIN info \subseteq 0 .. N - 1 /\ info \in [DOMAIN info -> Info]

\* The types of the two tables, and Bounded.
Tables(T, W, N) ==
  /\ T \in [TriedBucket -> Seq(0 .. N - 1)] /\ W \in [NewBucket -> SUBSET (0 .. N - 1)]
  /\ \A b \in NewBucket : Cardinality(W[b]) <= NewSize
  /\ \A k \in TriedBucket : Len(T[k]) <= TriedSize

\* Filed, in four parts: where the entries of either table are, and what is in it.
InTried(info, T, W) ==
  \A n \in TriedIn(info) :
    /\ info[n].nRefCount = 0 /\ HoldingIn(W, n) = {}
    /\ \E i \in 1 .. Len(T[BucketIn(info, n)]) : T[BucketIn(info, n)][i] = n
InNew(info, W) ==
  \A n \in NewIn(info) : /\ info[n].nRefCount = Cardinality(HoldingIn(W, n))
                         /\ info[n].nRefCount \in 1 .. MaxRef
OfTried(info, T) ==
  \A k \in TriedBucket :
    /\ \A i \in 1 .. Len(T[k]) : T[k][i] \in TriedIn(info) /\ BucketIn(info, T[k][i]) = k
    /\ \A i, j \in 1 .. Len(T[k]) : T[k][i] = T[k][j] => i = j
OfNew(info, W) == \A b \in NewBucket : W[b] \subseteq NewIn(info)

FiledIn(info, T, W) == InTried(info, T, W) /\ InNew(info, W) /\ OfTried(info, T) /\ OfNew(info, W)

\* One element less ...
LEMMA OneLess ==
  ASSUME NEW S, IsFiniteSet(S), NEW x \in S
  PROVE  IsFiniteSet(S \ {x}) /\ Cardinality(S \ {x}) = Cardinality(S) - 1 /\ Cardinality(S) \in Nat
BY FS_RemoveElement, FS_CardinalityType

\* ... and one more.
LEMMA OneMore ==
  ASSUME NEW S, IsFiniteSet(S), NEW x, x \notin S
  PROVE  IsFiniteSet(S \cup {x}) /\ Cardinality(S \cup {x}) = Cardinality(S) + 1 /\ Cardinality(S) \in Nat
BY FS_AddElement, FS_CardinalityType

\* The first numbers are as many as the last of them.
LEMMA CardinalityUpTo == \A l \in Nat : IsFiniteSet(1 .. l) /\ Cardinality(1 .. l) = l
<1>1. ASSUME NEW l \in Nat PROVE IsFiniteSet(1 .. l) /\ Cardinality(1 .. l) = l
  <2>1. 1 \in Int /\ l \in Int
    OBVIOUS
  <2>2. IsFiniteSet(1 .. l) /\ Cardinality(1 .. l) = IF 1 > l THEN 0 ELSE l - 1 + 1
    BY <2>1, FS_Interval
  <2>3. (IF 1 > l THEN 0 ELSE l - 1 + 1) = l
    OBVIOUS
  <2> QED BY <2>2, <2>3
<1> QED BY <1>1

\* Buckets are finite, and so is what an entry is in.
LEMMA FiniteTables ==
  ASSUME NEW N \in Nat, NEW W \in [NewBucket -> SUBSET (0 .. N - 1)]
  PROVE  /\ \A b \in NewBucket : IsFiniteSet(W[b]) /\ Cardinality(W[b]) \in Nat
         /\ \A n : IsFiniteSet(HoldingIn(W, n)) /\ Cardinality(HoldingIn(W, n)) \in Nat
<1>1. IsFiniteSet(0 .. N - 1)
  <2>1. 0 \in Int /\ N - 1 \in Int
    OBVIOUS
  <2> QED BY <2>1, FS_Interval
<1>2. ASSUME NEW b \in NewBucket PROVE IsFiniteSet(W[b]) /\ Cardinality(W[b]) \in Nat
  <2>1. W[b] \in SUBSET (0 .. N - 1)
    OBVIOUS
  <2>2. IsFiniteSet(W[b])
    BY <1>1, <2>1, FS_Subset
  <2> QED BY <2>2, FS_CardinalityType
<1>3. ASSUME NEW n PROVE IsFiniteSet(HoldingIn(W, n)) /\ Cardinality(HoldingIn(W, n)) \in Nat
  <2>1. HoldingIn(W, n) \in SUBSET NewBucket
    BY DEF HoldingIn
  <2>2. IsFiniteSet(HoldingIn(W, n))
    BY <2>1, FS_Subset, AddrAssumption
  <2> QED BY <2>2, FS_CardinalityType
<1> QED BY <1>2, <1>3

\* The entry v has one reference less, and is gone if it had one.
Unreferenced(info, v, g) ==
  /\ DOMAIN g = IF info[v].nRefCount = 1 THEN DOMAIN info \ {v} ELSE DOMAIN info
  /\ \A m \in DOMAIN g : IF m = v THEN /\ g[v].svc = info[v].svc /\ g[v].fInTried = info[v].fInTried
                                       /\ g[v].nRefCount = info[v].nRefCount - 1
                                  ELSE Alike(g[m], info[m])

\* W and X differ in the bucket b, which has B in X.
Except(W, b, B, X) == X \in [NewBucket -> SUBSET Nat] /\ X[b] = B /\ \A c \in NewBucket : c # b => X[c] = W[c]

\* It leaves the bucket b.
Leaves(N, info, T, W, b, v, X, g) ==
  /\ N \in Nat /\ Entries(info, N) /\ Tables(T, W, N) /\ FiledIn(info, T, W)
  /\ b \in NewBucket /\ v \in W[b] /\ Except(W, b, W[b] \ {v}, X)
  /\ Entries(g, N) /\ Unreferenced(info, v, g)

\* An entry leaves a new bucket.
LEMMA UnreferenceKeeps ==
  ASSUME NEW N, NEW info, NEW T, NEW W, NEW b, NEW v, NEW X, NEW g,
         Leaves(N, info, T, W, b, v, X, g)
  PROVE  /\ Tables(T, X, N) /\ FiledIn(g, T, X) /\ Cardinality(X[b]) < NewSize
         /\ TriedIn(g) = TriedIn(info)
         /\ NewIn(g) = IF info[v].nRefCount = 1 THEN NewIn(info) \ {v} ELSE NewIn(info)
<1> USE DEF Leaves
<1>0. /\ v \in NewIn(info) /\ v \in DOMAIN info /\ ~info[v].fInTried
      /\ info[v].nRefCount = Cardinality(HoldingIn(W, v)) /\ info[v].nRefCount \in 1 .. MaxRef
      /\ W \in [NewBucket -> SUBSET (0 .. N - 1)] /\ MaxRef \in Nat /\ NewSize \in Nat
      /\ info[v] \in Info /\ info[v].fInTried \in BOOLEAN
  <2>1. v \in NewIn(info)
    BY DEF FiledIn, OfNew
  <2>2. v \in DOMAIN info /\ ~info[v].fInTried
    BY <2>1 DEF NewIn, TriedIn
  <2>3. info[v] \in Info
    BY <2>2 DEF Entries
  <2> QED BY <2>1, <2>2, <2>3, AddrAssumption DEF FiledIn, InNew, Tables, Info
<1>1. /\ DOMAIN g \subseteq DOMAIN info
      /\ \A m \in DOMAIN g : g[m].fInTried = info[m].fInTried /\ g[m].svc = info[m].svc
      /\ \A m \in DOMAIN g : m # v => g[m].nRefCount = info[m].nRefCount
  BY <1>0 DEF Unreferenced, Alike
<1>2. \A m \in DOMAIN info : m # v => m \in DOMAIN g
  BY DEF Unreferenced
<1>3. TriedIn(g) = TriedIn(info)
  BY <1>0, <1>1, <1>2 DEF TriedIn
<1>4. NewIn(g) = IF info[v].nRefCount = 1 THEN NewIn(info) \ {v} ELSE NewIn(info)
  BY <1>0, <1>3 DEF NewIn, Unreferenced
<1>5. /\ \A n : n # v => HoldingIn(X, n) = HoldingIn(W, n)
      /\ HoldingIn(X, v) = HoldingIn(W, v) \ {b} /\ b \in HoldingIn(W, v)
  BY DEF HoldingIn, Except
<1>6. /\ IsFiniteSet(W[b]) /\ Cardinality(W[b]) \in Nat
      /\ IsFiniteSet(HoldingIn(W, v)) /\ Cardinality(HoldingIn(W, v)) \in Nat
  BY <1>0, FiniteTables
<1>7. Cardinality(HoldingIn(X, v)) = info[v].nRefCount - 1
  <2>1. Cardinality(HoldingIn(W, v) \ {b}) = Cardinality(HoldingIn(W, v)) - 1
    BY <1>5, <1>6, OneLess
  <2> QED BY <1>0, <1>5, <2>1
<1>8. Cardinality(X[b]) = Cardinality(W[b]) - 1
  <2>1. Cardinality(W[b] \ {v}) = Cardinality(W[b]) - 1
    BY <1>6, OneLess
  <2>2. X[b] = W[b] \ {v}
    BY DEF Except
  <2> QED BY <2>1, <2>2
<1>9. Tables(T, X, N) /\ Cardinality(X[b]) < NewSize
  <2>1. X \in [NewBucket -> SUBSET (0 .. N - 1)]
    <3>1. ASSUME NEW c \in NewBucket PROVE X[c] \in SUBSET (0 .. N - 1)
      BY <1>0 DEF Except
    <3> QED BY <3>1 DEF Except
  <2>2. Cardinality(W[b]) <= NewSize
    BY DEF Tables
  <2>3. Cardinality(X[b]) < NewSize
    BY <1>0, <1>6, <1>8, <2>2
  <2>4. ASSUME NEW c \in NewBucket PROVE Cardinality(X[c]) <= NewSize
    <3>1. CASE c = b
      BY <1>0, <1>6, <1>8, <2>3, <3>1
    <3>2. CASE c # b
      BY <3>2 DEF Except, Tables
    <3> QED BY <3>1, <3>2
  <2> QED BY <2>1, <2>3, <2>4 DEF Tables
<1>10. InTried(g, T, X)
  <2>1. ASSUME NEW n \in TriedIn(g)
        PROVE  /\ g[n].nRefCount = 0 /\ HoldingIn(X, n) = {}
               /\ \E i \in 1 .. Len(T[BucketIn(g, n)]) : T[BucketIn(g, n)][i] = n
    <3>1. n \in TriedIn(info) /\ n # v /\ n \in DOMAIN g
      BY <1>0, <1>3 DEF NewIn, TriedIn
    <3>2. g[n].nRefCount = info[n].nRefCount /\ BucketIn(g, n) = BucketIn(info, n)
      BY <1>1, <3>1 DEF BucketIn
    <3> QED BY <1>5, <3>1, <3>2 DEF FiledIn, InTried
  <2> QED BY <2>1 DEF InTried
<1>11. InNew(g, X)
  <2>1. ASSUME NEW n \in NewIn(g)
        PROVE  /\ g[n].nRefCount = Cardinality(HoldingIn(X, n)) /\ g[n].nRefCount \in 1 .. MaxRef
    <3>0. n \in NewIn(info) /\ n \in DOMAIN g
      BY <1>4 DEF NewIn
    <3>1. CASE n = v
      <4>1. info[v].nRefCount # 1 /\ g[v].nRefCount = info[v].nRefCount - 1
        BY <1>4, <3>0, <3>1 DEF Unreferenced
      <4>2. g[v].nRefCount \in 1 .. MaxRef
        BY <1>0, <4>1
      <4> QED BY <1>7, <3>1, <4>1, <4>2
    <3>2. CASE n # v
      BY <1>1, <1>5, <3>0, <3>2 DEF FiledIn, InNew
    <3> QED BY <3>1, <3>2
  <2> QED BY <2>1 DEF InNew
<1>12. OfTried(g, T)
  <2>1. ASSUME NEW k \in TriedBucket, NEW i \in 1 .. Len(T[k])
        PROVE  T[k][i] \in TriedIn(g) /\ BucketIn(g, T[k][i]) = k
    <3>1. T[k][i] \in TriedIn(info) /\ BucketIn(info, T[k][i]) = k
      BY DEF FiledIn, OfTried
    <3>2. T[k][i] \in TriedIn(g) /\ T[k][i] \in DOMAIN g
      BY <1>3, <3>1 DEF TriedIn
    <3> QED BY <1>1, <3>1, <3>2 DEF BucketIn
  <2> QED BY <2>1 DEF OfTried, FiledIn
<1>13. OfNew(g, X)
  <2>1. ASSUME NEW c \in NewBucket, NEW m \in X[c] PROVE m \in NewIn(g)
    <3>1. m \in W[c] /\ m \in NewIn(info)
      BY DEF Except, FiledIn, OfNew
    <3>2. CASE m # v
      BY <1>4, <3>1, <3>2
    <3>3. CASE m = v
      <4>1. c \in HoldingIn(X, v) /\ IsFiniteSet(HoldingIn(X, v))
        BY <1>5, <1>6, <3>3, FS_RemoveElement DEF HoldingIn
      <4>2. info[v].nRefCount # 1
        BY <1>0, <1>7, <4>1, FS_EmptySet
      <4> QED BY <1>4, <3>1, <3>3, <4>2
    <3> QED BY <3>2, <3>3
  <2> QED BY <2>1 DEF OfNew
<1> QED BY <1>3, <1>4, <1>9, <1>10, <1>11, <1>12, <1>13 DEF FiledIn


\* The entry n, known or not, has one reference more.
Referenced(info, n, g) ==
  /\ DOMAIN g = DOMAIN info \cup {n} /\ ~g[n].fInTried
  /\ g[n].nRefCount = (IF n \in DOMAIN info THEN info[n].nRefCount ELSE 0) + 1
  /\ \A m \in DOMAIN info : m # n => Alike(g[m], info[m])

\* It may go into the bucket b.
Enters(N, M, info, T, W, b, n, X, g) ==
  /\ N \in Nat /\ M \in Nat /\ N <= M
  /\ Entries(info, N) /\ Tables(T, W, N) /\ FiledIn(info, T, W)
  /\ b \in NewBucket /\ Cardinality(W[b]) < NewSize /\ n \notin W[b]
  /\ n \in DOMAIN info => ~info[n].fInTried /\ info[n].nRefCount # MaxRef
  /\ Except(W, b, W[b] \cup {n}, X) /\ Entries(g, M) /\ Referenced(info, n, g)

\* An entry that is not tried goes into one more new bucket, with room for it.
LEMMA ReferenceKeeps ==
  ASSUME NEW N, NEW M, NEW info, NEW T, NEW W, NEW b, NEW n, NEW X, NEW g,
         Enters(N, M, info, T, W, b, n, X, g)
  PROVE  /\ Tables(T, X, M) /\ FiledIn(g, T, X)
         /\ TriedIn(g) = TriedIn(info) /\ NewIn(g) = NewIn(info) \cup {n}
<1> USE DEF Enters
<1>0. /\ W \in [NewBucket -> SUBSET (0 .. N - 1)] /\ MaxRef \in Nat \ {0} /\ NewSize \in Nat
      /\ n \in 0 .. M - 1
  <2>1. n \in DOMAIN g
    BY DEF Referenced
  <2> QED BY <2>1, AddrAssumption DEF Tables, Entries
<1>1. /\ \A m \in DOMAIN info : m \in DOMAIN g /\ g[m].fInTried = info[m].fInTried
      /\ \A m \in DOMAIN info : m # n => g[m].svc = info[m].svc /\ g[m].nRefCount = info[m].nRefCount
  <2>1. ASSUME NEW m \in DOMAIN info PROVE m \in DOMAIN g /\ g[m].fInTried = info[m].fInTried
    <3>1. m \in DOMAIN g /\ g[m] \in Info /\ info[m] \in Info
      BY DEF Referenced, Entries
    <3>2. g[m].fInTried \in BOOLEAN /\ info[m].fInTried \in BOOLEAN
      BY <3>1 DEF Info
    <3>3. CASE m = n
      BY <3>1, <3>2, <3>3 DEF Referenced
    <3>4. CASE m # n
      BY <3>1, <3>4 DEF Referenced, Alike
    <3> QED BY <3>3, <3>4
  <2>2. ASSUME NEW m \in DOMAIN info, m # n
        PROVE  g[m].svc = info[m].svc /\ g[m].nRefCount = info[m].nRefCount
    BY <2>2 DEF Referenced, Alike
  <2> QED BY <2>1, <2>2
<1>2. TriedIn(g) = TriedIn(info) /\ n \notin TriedIn(info)
  BY <1>1 DEF TriedIn, Referenced
<1>3. NewIn(g) = NewIn(info) \cup {n}
  BY <1>2 DEF NewIn, Referenced
<1>4. /\ \A m : m # n => HoldingIn(X, m) = HoldingIn(W, m)
      /\ HoldingIn(X, n) = HoldingIn(W, n) \cup {b} /\ b \notin HoldingIn(W, n)
  BY DEF HoldingIn, Except
<1>5. /\ IsFiniteSet(W[b]) /\ Cardinality(W[b]) \in Nat
      /\ IsFiniteSet(HoldingIn(W, n)) /\ Cardinality(HoldingIn(W, n)) \in Nat
  BY <1>0, FiniteTables
<1>6. Cardinality(HoldingIn(X, n)) = Cardinality(HoldingIn(W, n)) + 1
  BY <1>4, <1>5, OneMore
<1>7. Cardinality(X[b]) = Cardinality(W[b]) + 1
  <2>1. Cardinality(W[b] \cup {n}) = Cardinality(W[b]) + 1
    BY <1>5, OneMore
  <2>2. X[b] = W[b] \cup {n}
    BY DEF Except
  <2> QED BY <2>1, <2>2
<1>8. Cardinality(HoldingIn(W, n)) = IF n \in DOMAIN info THEN info[n].nRefCount ELSE 0
  <2>1. CASE n \in DOMAIN info
    <3>1. n \in NewIn(info)
      BY <1>2, <2>1 DEF NewIn
    <3> QED BY <2>1, <3>1 DEF FiledIn, InNew
  <2>2. CASE n \notin DOMAIN info
    <3>1. HoldingIn(W, n) = {}
      BY <2>2 DEF HoldingIn, FiledIn, OfNew, NewIn
    <3> QED BY <2>2, <3>1, FS_EmptySet
  <2> QED BY <2>1, <2>2
<1>9. Tables(T, X, M)
  <2>1. \A c \in NewBucket : X[c] \in SUBSET (0 .. M - 1)
    <3>1. 0 .. N - 1 \subseteq 0 .. M - 1
      OBVIOUS
    <3>2. ASSUME NEW c \in NewBucket PROVE X[c] \in SUBSET (0 .. M - 1)
      <4>1. W[c] \in SUBSET (0 .. M - 1)
        BY <1>0, <3>1
      <4>2. CASE c = b
        <5>1. X[b] = W[b] \cup {n}
          BY DEF Except
        <5> QED BY <1>0, <4>1, <4>2, <5>1
      <4>3. CASE c # b
        BY <4>1, <4>3 DEF Except
      <4> QED BY <4>2, <4>3
    <3> QED BY <3>2
  <2>2. X \in [NewBucket -> SUBSET (0 .. M - 1)]
    BY <2>1 DEF Except
  <2>3. ASSUME NEW c \in NewBucket PROVE Cardinality(X[c]) <= NewSize
    <3>1. CASE c = b
      BY <1>0, <1>5, <1>7, <3>1
    <3>2. CASE c # b
      BY <3>2 DEF Except, Tables
    <3> QED BY <3>1, <3>2
  <2>4. T \in [TriedBucket -> Seq(0 .. M - 1)]
    <3>1. ASSUME NEW k \in TriedBucket PROVE T[k] \in Seq(0 .. M - 1)
      <4>1. T[k] \in Seq(0 .. N - 1)
        BY DEF Tables
      <4> QED BY <4>1
    <3> QED BY <3>1 DEF Tables
  <2> QED BY <2>2, <2>3, <2>4 DEF Tables
<1>10. InTried(g, T, X)
  <2>1. ASSUME NEW m \in TriedIn(g)
        PROVE  /\ g[m].nRefCount = 0 /\ HoldingIn(X, m) = {}
               /\ \E i \in 1 .. Len(T[BucketIn(g, m)]) : T[BucketIn(g, m)][i] = m
    <3>1. m \in TriedIn(info) /\ m # n /\ m \in DOMAIN info
      BY <1>2 DEF TriedIn
    <3>2. g[m].nRefCount = info[m].nRefCount /\ BucketIn(g, m) = BucketIn(info, m)
      BY <1>1, <3>1 DEF BucketIn
    <3> QED BY <1>4, <3>1, <3>2 DEF FiledIn, InTried
  <2> QED BY <2>1 DEF InTried
<1>11. InNew(g, X)
  <2>1. ASSUME NEW m \in NewIn(g)
        PROVE  g[m].nRefCount = Cardinality(HoldingIn(X, m)) /\ g[m].nRefCount \in 1 .. MaxRef
    <3>1. CASE m = n
      <4>1. g[n].nRefCount = Cardinality(HoldingIn(W, n)) + 1
        BY <1>8 DEF Referenced
      <4>2. Cardinality(HoldingIn(W, n)) + 1 \in 1 .. MaxRef
        <5>1. CASE n \in DOMAIN info
          <6>1. n \in NewIn(info)
            BY <1>2, <5>1 DEF NewIn
          <6>2. info[n].nRefCount \in 1 .. MaxRef /\ info[n].nRefCount # MaxRef
            BY <5>1, <6>1 DEF FiledIn, InNew
          <6> QED BY <1>0, <1>8, <5>1, <6>2
        <5>2. CASE n \notin DOMAIN info
          BY <1>0, <1>8, <5>2
        <5> QED BY <5>1, <5>2
      <4> QED BY <1>6, <3>1, <4>1, <4>2
    <3>2. CASE m # n
      <4>1. m \in NewIn(info) /\ m \in DOMAIN info
        BY <1>3, <3>2 DEF NewIn
      <4>2. g[m].nRefCount = info[m].nRefCount /\ HoldingIn(X, m) = HoldingIn(W, m)
        BY <1>1, <1>4, <3>2, <4>1
      <4> QED BY <4>1, <4>2 DEF FiledIn, InNew
    <3> QED BY <3>1, <3>2
  <2> QED BY <2>1 DEF InNew
<1>12. OfTried(g, T)
  <2>1. ASSUME NEW k \in TriedBucket, NEW i \in 1 .. Len(T[k])
        PROVE  T[k][i] \in TriedIn(g) /\ BucketIn(g, T[k][i]) = k
    <3>1. T[k][i] \in TriedIn(info) /\ BucketIn(info, T[k][i]) = k
      BY DEF FiledIn, OfTried
    <3>2. T[k][i] \in TriedIn(g) /\ T[k][i] \in DOMAIN info /\ T[k][i] # n
      BY <1>2, <3>1 DEF TriedIn
    <3> QED BY <1>1, <3>1, <3>2 DEF BucketIn
  <2> QED BY <2>1 DEF OfTried, FiledIn
<1>13. OfNew(g, X)
  <2>1. ASSUME NEW c \in NewBucket, NEW m \in X[c] PROVE m \in NewIn(g)
    <3>1. CASE m = n
      BY <1>3, <3>1
    <3>2. CASE m # n
      BY <1>3, <3>2 DEF Except, FiledIn, OfNew
    <3> QED BY <3>1, <3>2
  <2> QED BY <2>1 DEF OfNew
<1> QED BY <1>2, <1>3, <1>9, <1>10, <1>11, <1>12, <1>13 DEF FiledIn

-----------------------------------------------------------------------------
(* The operations on the indexes.                                          *)

\* An index whose parts agree.
Sound(x, N) == /\ x = [info |-> x.info, addr |-> x.addr, rnd |-> x.rnd]
               /\ Typed(x.info, x.addr, x.rnd, N)
               /\ ByHost(x.info, x.addr) /\ ByPlace(x.info, x.rnd)

\* The references of one entry are changed.
Recounted(info, n, c, g) == g = [info EXCEPT ![n].nRefCount = c]

\* Nothing else of it is.
LEMMA CountIs ==
  ASSUME NEW info, info \in [DOMAIN info -> Info], NEW a \in DOMAIN info, NEW c \in Int,
         NEW g, Recounted(info, a, c, g)
  PROVE  /\ g \in [DOMAIN info -> Info] /\ g[a].nRefCount = c
         /\ g[a].svc = info[a].svc /\ g[a].source = info[a].source
         /\ g[a].fInTried = info[a].fInTried /\ g[a].nRandomPos = info[a].nRandomPos
         /\ \A n \in DOMAIN info : n # a => g[n] = info[n]
<1>1. info[a] \in Info /\ [info[a] EXCEPT !.nRefCount = c] \in Info
  BY DEF Info
<1>2. /\ g[a] = [info[a] EXCEPT !.nRefCount = c]
      /\ \A n \in DOMAIN info : n # a => g[n] = info[n]
      /\ g = [n \in DOMAIN info |-> g[n]] /\ DOMAIN g = DOMAIN info
  BY DEF Recounted
<1>3. \A n \in DOMAIN info : g[n] \in Info
  BY <1>1, <1>2
<1>4. /\ g[a].nRefCount = c /\ g[a].svc = info[a].svc /\ g[a].source = info[a].source
      /\ g[a].fInTried = info[a].fInTried /\ g[a].nRandomPos = info[a].nRandomPos
  BY <1>1, <1>2 DEF Info
<1> QED BY <1>2, <1>3, <1>4

\* The references of an entry of an index are changed (++ and -- in Add_, ShrinkNew).
LEMMA RecountKeeps ==
  ASSUME NEW N \in Nat, NEW x, Sound(x, N), NEW n \in DOMAIN x.info, NEW c \in Int,
         NEW y, y = [x EXCEPT !.info[n].nRefCount = c]
  PROVE  /\ Sound(y, N) /\ DOMAIN y.info = DOMAIN x.info /\ y.info[n].nRefCount = c
         /\ y.info[n].svc = x.info[n].svc /\ y.info[n].fInTried = x.info[n].fInTried
         /\ \A m \in DOMAIN x.info : m # n => y.info[m] = x.info[m]
<1>1. PICK i, a, r : i = x.info /\ a = x.addr /\ r = x.rnd
  OBVIOUS
<1>2. /\ x = [info |-> i, addr |-> a, rnd |-> r] /\ Typed(i, a, r, N) /\ ByHost(i, a) /\ ByPlace(i, r)
      /\ i \in [DOMAIN i -> Info] /\ n \in DOMAIN i
  BY <1>1 DEF Sound, Typed
<1>3. PICK g : Recounted(i, n, c, g)
  BY DEF Recounted
<1>4. y = [info |-> g, addr |-> a, rnd |-> r]
  BY <1>2, <1>3 DEF Recounted
<1>5. y.info = g /\ y.addr = a /\ y.rnd = r
  BY <1>4
<1>6. /\ g \in [DOMAIN i -> Info] /\ g[n].nRefCount = c
      /\ g[n].svc = i[n].svc /\ g[n].fInTried = i[n].fInTried /\ g[n].nRandomPos = i[n].nRandomPos
      /\ \A m \in DOMAIN i : m # n => g[m] = i[m]
  BY <1>2, <1>3, CountIs
<1>7. \A m \in DOMAIN i : g[m].svc = i[m].svc /\ g[m].nRandomPos = i[m].nRandomPos
  BY <1>6
<1>8. Typed(g, a, r, N) /\ ByHost(g, a) /\ ByPlace(g, r)
  BY <1>2, <1>6, <1>7, LinksKept
<1> QED BY <1>1, <1>4, <1>5, <1>6, <1>8 DEF Sound

\* y is x with a new entry N.
Creates(x, N, s, src, y) ==
  /\ N \in Nat /\ Sound(x, N) /\ s \in Service /\ src \in Source
  /\ HostOf[s] \notin DOMAIN x.addr /\ y = Create(x, N, s, src)

\* Create: a new entry, with no reference yet.
LEMMA CreateKeeps ==
  ASSUME NEW x, NEW N, NEW s, NEW src, NEW y, Creates(x, N, s, src, y)
  PROVE  /\ Sound(y, N + 1) /\ DOMAIN y.info = DOMAIN x.info \cup {N}
         /\ y.info[N].svc = s /\ y.info[N].nRefCount = 0 /\ ~y.info[N].fInTried
         /\ \A m \in DOMAIN x.info : m # N /\ y.info[m] = x.info[m]
<1> USE DEF Creates
<1>1. PICK i, a, r : i = x.info /\ a = x.addr /\ r = x.rnd
  OBVIOUS
<1>2. /\ Typed(i, a, r, N) /\ ByHost(i, a) /\ ByPlace(i, r) /\ HostOf[s] \notin DOMAIN a
      /\ Len(r) \in Nat
  BY <1>1 DEF Sound, Typed
<1>3. PICK e : e = [svc |-> s, source |-> src, nRefCount |-> 0, fInTried |-> FALSE,
                    nRandomPos |-> Len(r) + 1]
  OBVIOUS
<1>4. e \in Info /\ e.svc = s /\ e.nRefCount = 0 /\ ~e.fInTried /\ e.nRandomPos = Len(r) + 1
  BY <1>2, <1>3 DEF Info
<1>5. PICK g, b, q : Entered(i, a, r, N, e, g, b, q)
  BY DEF Entered
<1>6. y = [info |-> g, addr |-> b, rnd |-> q]
  <2>1. y = [info |-> [m \in DOMAIN i \cup {N} |-> IF m = N THEN e ELSE i[m]],
             addr |-> [h \in DOMAIN a \cup {HostOf[s]} |-> IF h = HostOf[s] THEN N ELSE a[h]],
             rnd  |-> Append(r, N)]
    BY <1>1, <1>3, Zenon DEF Create
  <2>2. /\ g = [m \in DOMAIN i \cup {N} |-> IF m = N THEN e ELSE i[m]]
        /\ b = [h \in DOMAIN a \cup {HostOf[s]} |-> IF h = HostOf[s] THEN N ELSE a[h]]
        /\ q = Append(r, N)
    BY <1>4, <1>5 DEF Entered
  <2> QED BY <2>1, <2>2, Zenon
<1>7. y.info = g /\ y.addr = b /\ y.rnd = q
  BY <1>6
<1>8. HostOf[e.svc] \notin DOMAIN a
  BY <1>2, <1>4
<1>9. Typed(g, b, q, N + 1) /\ ByHost(g, b) /\ ByPlace(g, q)
  BY <1>2, <1>4, <1>5, <1>8, EnterKeeps
<1>10. /\ DOMAIN g = DOMAIN i \cup {N} /\ g[N] = e
       /\ \A m \in DOMAIN i : m # N /\ g[m] = i[m]
  BY <1>2, <1>5 DEF Entered, Typed
<1> QED BY <1>1, <1>4, <1>6, <1>7, <1>9, <1>10 DEF Sound

\* y is x with two places of vRandom swapped.
Swaps(x, N, i, j, y) ==
  N \in Nat /\ Sound(x, N) /\ i \in 1 .. Len(x.rnd) /\ j \in 1 .. Len(x.rnd) /\ y = SwapRandom(x, i, j)

\* SwapRandom.
LEMMA SwapRandomKeeps ==
  ASSUME NEW x, NEW N, NEW i, NEW j, NEW y, Swaps(x, N, i, j, y)
  PROVE  /\ Sound(y, N) /\ AllAlike(y.info, x.info) /\ y.addr = x.addr
         /\ Len(y.rnd) = Len(x.rnd) /\ y.rnd[j] = x.rnd[i]
<1> USE DEF Swaps
<1>1. CASE i = j
  BY <1>1 DEF SwapRandom, AllAlike, Alike
<1>2. CASE i # j
  <2>1. PICK f, a, r : f = x.info /\ a = x.addr /\ r = x.rnd
    OBVIOUS
  <2>2. /\ Typed(f, a, r, N) /\ ByHost(f, a) /\ ByPlace(f, r) /\ i \in 1 .. Len(r) /\ j \in 1 .. Len(r)
    BY <2>1 DEF Sound
  <2>3. PICK g, q : Swapped(f, r, i, j, g, q)
    BY DEF Swapped
  <2>4. y = [info |-> g, addr |-> a, rnd |-> q]
    BY <1>2, <2>1, <2>3, Zenon DEF SwapRandom, Swapped
  <2>5. y.info = g /\ y.addr = a /\ y.rnd = q
    BY <2>4
  <2>6. /\ Typed(g, a, q, N) /\ ByHost(g, a) /\ ByPlace(g, q) /\ AllAlike(g, f)
        /\ Len(q) = Len(r) /\ q[j] = r[i]
    BY <1>2, <2>2, <2>3, SwapKeeps
  <2> QED BY <2>1, <2>4, <2>5, <2>6 DEF Sound
<1> QED BY <1>1, <1>2

\* Delete: the entry is gone, the others are as they were, apart from their places.
LEMMA DeleteKeeps ==
  ASSUME NEW N \in Nat, NEW x, Sound(x, N), NEW n \in DOMAIN x.info, NEW z, z = Delete(x, n)
  PROVE  /\ Sound(z, N) /\ DOMAIN z.info = DOMAIN x.info \ {n}
         /\ \A m \in DOMAIN z.info : Alike(z.info[m], x.info[m])
<1>1. PICK y : y = SwapRandom(x, x.info[n].nRandomPos, Len(x.rnd))
  OBVIOUS
<1>2. /\ x.info[n].nRandomPos \in 1 .. Len(x.rnd) /\ x.rnd[x.info[n].nRandomPos] = n
      /\ Len(x.rnd) \in 1 .. Len(x.rnd)
  BY DEF Sound, ByPlace, Typed
<1>3. /\ Sound(y, N) /\ AllAlike(y.info, x.info)
      /\ Len(y.rnd) = Len(x.rnd) /\ y.rnd[Len(x.rnd)] = n
  <2>1. PICK i \in 1 .. Len(x.rnd), j \in 1 .. Len(x.rnd) : i = x.info[n].nRandomPos /\ j = Len(x.rnd)
    BY <1>2
  <2>2. y = SwapRandom(x, i, j) /\ x.rnd[i] = n
    BY <1>1, <1>2, <2>1
  <2>3. Sound(y, N) /\ AllAlike(y.info, x.info) /\ Len(y.rnd) = Len(x.rnd) /\ y.rnd[j] = x.rnd[i]
    <3>1. Swaps(x, N, i, j, y)
      BY <2>2 DEF Swaps
    <3> QED BY <3>1, SwapRandomKeeps
  <2> QED BY <2>1, <2>2, <2>3
<1>4. PICK f, a, r : f = y.info /\ a = y.addr /\ r = y.rnd
  OBVIOUS
<1>5. /\ Typed(f, a, r, N) /\ ByHost(f, a) /\ ByPlace(f, r) /\ n \in DOMAIN f
      /\ f[n].nRandomPos = Len(r) /\ DOMAIN f = DOMAIN x.info
  <2>1. DOMAIN f = DOMAIN x.info
    BY <1>3, <1>4 DEF AllAlike
  <2>2. Len(r) \in 1 .. Len(r) /\ r[Len(r)] = n
    BY <1>2, <1>3, <1>4
  <2> QED BY <1>3, <1>4, <2>1, <2>2 DEF Sound, ByPlace
<1>6. PICK g, b, q : Removed(f, a, r, n, g, b, q)
  BY DEF Removed
<1>7. z = [info |-> g, addr |-> b, rnd |-> q]
  <2>1. z = [info |-> [m \in DOMAIN f \ {n} |-> f[m]],
             addr |-> [h \in DOMAIN a \ {HostOf[f[n].svc]} |-> a[h]],
             rnd  |-> SubSeq(r, 1, Len(r) - 1)]
    BY <1>1, <1>4, Zenon DEF Delete, Front
  <2> QED BY <1>6, <2>1, Zenon DEF Removed
<1>8. z.info = g /\ z.addr = b /\ z.rnd = q
  BY <1>7
<1>9. Typed(g, b, q, N) /\ ByHost(g, b) /\ ByPlace(g, q)
  BY <1>5, <1>6, RemoveKeeps
<1>10. DOMAIN g = DOMAIN x.info \ {n} /\ \A m \in DOMAIN g : g[m] = f[m]
  BY <1>5, <1>6 DEF Removed
<1>11. \A m \in DOMAIN g : Alike(g[m], x.info[m])
  BY <1>3, <1>4, <1>10 DEF AllAlike
<1> QED BY <1>7, <1>8, <1>9, <1>10, <1>11 DEF Sound

\* ShrinkNew's "--nRefCount == 0", and its Delete.
LEMMA UnrefKeeps ==
  ASSUME NEW N \in Nat, NEW x, Sound(x, N), NEW v \in DOMAIN x.info, NEW z, z = Unref(x, v)
  PROVE  Sound(z, N) /\ Unreferenced(x.info, v, z.info)
<1>1. CASE x.info[v].nRefCount = 1
  <2>1. z = Delete(x, v)
    BY <1>1 DEF Unref
  <2>2. /\ Sound(z, N) /\ DOMAIN z.info = DOMAIN x.info \ {v}
        /\ \A m \in DOMAIN z.info : Alike(z.info[m], x.info[m])
    BY <2>1, DeleteKeeps
  <2> QED BY <1>1, <2>2 DEF Unreferenced
<1>2. CASE x.info[v].nRefCount # 1
  <2>1. PICK c : c = x.info[v].nRefCount - 1
    OBVIOUS
  <2>2. z = [x EXCEPT !.info[v].nRefCount = c]
    BY <1>2, <2>1 DEF Unref
  <2>3. c \in Int
    BY <2>1 DEF Sound, Typed, Info
  <2>4. /\ Sound(z, N) /\ DOMAIN z.info = DOMAIN x.info /\ z.info[v].nRefCount = c
        /\ z.info[v].svc = x.info[v].svc /\ z.info[v].fInTried = x.info[v].fInTried
        /\ \A m \in DOMAIN x.info : m # v => z.info[m] = x.info[m]
    BY <2>2, <2>3, RecountKeeps
  <2> QED BY <1>2, <2>1, <2>4 DEF Unreferenced, Alike
<1> QED BY <1>1, <1>2

-----------------------------------------------------------------------------
(* The inductive invariant, and Add_.                                      *)

Linked(info, addr, rnd, N) == Typed(info, addr, rnd, N) /\ ByHost(info, addr) /\ ByPlace(info, rnd)

\* Consistent, in parts, and that a host leads to an entry of its own.
AInv == /\ nIdCount \in 0 .. MaxId
        /\ Linked(mapInfo, mapAddr, vRandom, nIdCount)
        /\ Tables(vvTried, vvNew, nIdCount) /\ FiledIn(mapInfo, vvTried, vvNew)
        /\ nTried = Cardinality(TriedIn(mapInfo)) /\ nNew = Cardinality(NewIn(mapInfo))

\* What every step but Reload does to the entries in the tried table.
TriedStay == \A n \in TriedIn(mapInfo) : n \in DOMAIN mapInfo' /\ mapInfo'[n].svc = mapInfo[n].svc

\* An index that is taken over has its parts linked.
LEMMA SetIs ==
  ASSUME NEW N, NEW x, Sound(x, N), SetIndex(x)
  PROVE  Linked(mapInfo, mapAddr, vRandom, N)' /\ mapInfo' = x.info
BY DEF Sound, SetIndex, Linked

\* The index of a state is sound.
LEMMA IndexIs == AInv => Sound(Index, nIdCount) /\ Index.info = mapInfo /\ Index.addr = mapAddr
                         /\ Index.rnd = vRandom /\ Entries(mapInfo, nIdCount) /\ nIdCount \in Nat
BY AddrAssumption DEF AInv, Sound, Index, Linked, Typed, Entries

\* The entries of either table are finitely many.
LEMMA FiniteEntries ==
  ASSUME NEW N \in Nat, NEW info, Entries(info, N)
  PROVE  IsFiniteSet(DOMAIN info) /\ IsFiniteSet(TriedIn(info)) /\ IsFiniteSet(NewIn(info))
<1>1. IsFiniteSet(0 .. N - 1)
  <2>1. 0 \in Int /\ N - 1 \in Int
    OBVIOUS
  <2> QED BY <2>1, FS_Interval
<1>2. IsFiniteSet(DOMAIN info)
  BY <1>1, FS_Subset DEF Entries
<1>3. TriedIn(info) \in SUBSET DOMAIN info /\ NewIn(info) \in SUBSET DOMAIN info
  BY DEF TriedIn, NewIn
<1> QED BY <1>2, <1>3, FS_Subset

\* A counter that is raised for what was not there.
LEMMA AddedIs ==
  ASSUME NEW S, IsFiniteSet(S), NEW n
  PROVE  Cardinality(S \cup {n}) = Cardinality(S) + (IF n \in S THEN 0 ELSE 1) /\ Cardinality(S) \in Nat
<1>1. Cardinality(S) \in Nat
  BY FS_CardinalityType
<1>2. CASE n \in S
  <2>1. S \cup {n} = S
    BY <1>2
  <2>2. Cardinality(S \cup {n}) = Cardinality(S)
    BY <2>1
  <2> QED BY <1>1, <1>2, <2>2
<1>3. CASE n \notin S
  BY <1>1, <1>3, OneMore
<1> QED BY <1>2, <1>3

\* The entry n, known or created just now, goes into the bucket b.
LEMMA InsertKeeps ==
  ASSUME AInv, NEW M \in nIdCount .. MaxId, nIdCount' = M, NEW x, Sound(x, M), NEW n,
         DOMAIN x.info = DOMAIN mapInfo \cup {n}, \A m \in DOMAIN mapInfo : x.info[m] = mapInfo[m],
         n \notin DOMAIN mapInfo => x.info[n].nRefCount = 0,
         ~x.info[n].fInTried, n \in DOMAIN mapInfo => mapInfo[n].nRefCount # MaxRef,
         NEW b \in NewBucket, n \notin vvNew[b], InsertNew(x, n, b), UNCHANGED <<nTried, vvTried>>
  PROVE  AInv' /\ TriedStay
<1>0. /\ nIdCount \in Nat /\ M \in Nat /\ nIdCount <= M /\ M \in 0 .. MaxId
      /\ Entries(mapInfo, nIdCount) /\ NewSize \in Nat
      /\ Tables(vvTried, vvNew, nIdCount) /\ FiledIn(mapInfo, vvTried, vvNew)
      /\ vvNew \in [NewBucket -> SUBSET (0 .. nIdCount - 1)]
      /\ vvTried' = vvTried /\ nTried' = nTried
  BY IndexIs, AddrAssumption DEF AInv, Tables
<1>1. PICK c : c = x.info[n].nRefCount + 1
  OBVIOUS
<1>2. PICK y : y = [x EXCEPT !.info[n].nRefCount = c]
  OBVIOUS
<1>3. y = [x EXCEPT !.info[n].nRefCount = @ + 1]
  BY <1>1, <1>2
<1>4. /\ Sound(y, M) /\ DOMAIN y.info = DOMAIN mapInfo \cup {n} /\ y.info[n].nRefCount = c
      /\ ~y.info[n].fInTried /\ y.info[n].svc = x.info[n].svc
      /\ \A m \in DOMAIN mapInfo : m # n => y.info[m] = mapInfo[m]
  <2>1. c \in Int
    BY <1>1 DEF Sound, Typed, Info
  <2>2. n \in DOMAIN x.info
    OBVIOUS
  <2>3. /\ Sound(y, M) /\ DOMAIN y.info = DOMAIN x.info /\ y.info[n].nRefCount = c
        /\ y.info[n].svc = x.info[n].svc /\ y.info[n].fInTried = x.info[n].fInTried
        /\ \A m \in DOMAIN x.info : m # n => y.info[m] = x.info[m]
    BY <1>0, <1>2, <2>1, <2>2, RecountKeeps
  <2> QED BY <2>3
<1>5. c = (IF n \in DOMAIN mapInfo THEN mapInfo[n].nRefCount ELSE 0) + 1
  BY <1>1
<1>6. n \in DOMAIN mapInfo => ~mapInfo[n].fInTried /\ mapInfo[n].nRefCount # MaxRef
  OBVIOUS
<1>7. /\ IsFiniteSet(vvNew[b]) /\ Cardinality(vvNew[b]) \in Nat /\ Cardinality(vvNew[b]) <= NewSize
      /\ IsFiniteSet(NewIn(mapInfo))
  BY <1>0, FiniteTables, FiniteEntries DEF Tables
<1>8. PICK added : added = IF n \in DOMAIN mapInfo THEN 0 ELSE 1
  OBVIOUS
<1>9. CASE Cardinality(vvNew[b]) # NewSize
  <2>1. /\ vvNew' = [vvNew EXCEPT ![b] = @ \cup {n}]
        /\ SetIndex(y) /\ nNew' = nNew + added
    BY <1>3, <1>8, <1>9 DEF InsertNew
  <2>2. Linked(mapInfo, mapAddr, vRandom, M)' /\ mapInfo' = y.info
    BY <1>4, <2>1, SetIs
  <2>3. Entries(mapInfo', M)
    BY <1>4, <2>2 DEF Sound, Typed, Entries
  <2>4. Referenced(mapInfo, n, mapInfo')
    BY <1>4, <1>5, <2>2 DEF Referenced, Alike
  <2>5. Except(vvNew, b, vvNew[b] \cup {n}, vvNew')
    <3>1. n \in 0 .. M - 1
      BY <1>4, <2>2, <2>3 DEF Entries
    <3> QED BY <1>0, <2>1, <3>1 DEF Except
  <2>6. Cardinality(vvNew[b]) < NewSize
    BY <1>0, <1>7, <1>9
  <2>7. /\ Tables(vvTried, vvNew', M) /\ FiledIn(mapInfo', vvTried, vvNew')
        /\ TriedIn(mapInfo') = TriedIn(mapInfo) /\ NewIn(mapInfo') = NewIn(mapInfo) \cup {n}
    <3>1. Enters(nIdCount, M, mapInfo, vvTried, vvNew, b, n, vvNew', mapInfo')
      BY <1>0, <1>6, <2>3, <2>4, <2>5, <2>6 DEF Enters
    <3> QED BY <3>1, ReferenceKeeps
  <2>8. nNew' = Cardinality(NewIn(mapInfo'))
    <3>1. n \in NewIn(mapInfo) <=> n \in DOMAIN mapInfo
      BY <1>6 DEF NewIn, TriedIn
    <3> QED BY <1>7, <1>8, <2>1, <2>7, <3>1, AddedIs DEF AInv
  <2>9. TriedStay
    BY <1>4, <1>6, <2>2 DEF TriedStay, TriedIn
  <2>10. AInv'
    <3>1. (nIdCount \in 0 .. MaxId)' /\ Linked(mapInfo, mapAddr, vRandom, nIdCount)'
      BY <1>0, <2>2 DEF Linked, Typed, ByHost, ByPlace
    <3>2. Tables(vvTried, vvNew, nIdCount)'
      BY <1>0, <2>7 DEF Tables
    <3>3. FiledIn(mapInfo, vvTried, vvNew)'
      BY <1>0, <2>7 DEF FiledIn
    <3>4. (nTried = Cardinality(TriedIn(mapInfo)))' /\ (nNew = Cardinality(NewIn(mapInfo)))'
      BY <1>0, <2>7, <2>8 DEF AInv
    <3> QED BY <3>1, <3>2, <3>3, <3>4 DEF AInv
  <2> QED BY <2>10, <2>9
<1>10. CASE Cardinality(vvNew[b]) = NewSize
  <2>1. PICK v \in vvNew[b] :
            /\ vvNew' = [vvNew EXCEPT ![b] = (@ \ {v}) \cup {n}]
            /\ SetIndex(Unref(y, v))
            /\ nNew' = nNew + added - (IF y.info[v].nRefCount = 1 THEN 1 ELSE 0)
    BY <1>3, <1>8, <1>10 DEF InsertNew
  <2>2. v # n /\ v \in NewIn(mapInfo) /\ v \in DOMAIN mapInfo /\ y.info[v] = mapInfo[v]
    <3>1. v # n /\ v \in NewIn(mapInfo)
      BY <1>0 DEF FiledIn, OfNew
    <3> QED BY <1>4, <3>1 DEF NewIn
  <2>3. PICK z : z = Unref(y, v)
    OBVIOUS
  <2>4. Sound(z, M) /\ Unreferenced(y.info, v, z.info)
    BY <1>0, <1>4, <2>2, <2>3, UnrefKeeps
  <2>5. Linked(mapInfo, mapAddr, vRandom, M)' /\ mapInfo' = z.info
    BY <2>1, <2>3, <2>4, SetIs
  <2>6. Entries(mapInfo', M)
    BY <2>4, <2>5 DEF Sound, Typed, Entries
  <2>7. /\ DOMAIN mapInfo' = (IF mapInfo[v].nRefCount = 1 THEN DOMAIN mapInfo \ {v} ELSE DOMAIN mapInfo) \cup {n}
        /\ n \in DOMAIN mapInfo' /\ Alike(mapInfo'[n], y.info[n])
        /\ \A m \in DOMAIN mapInfo' : m # n =>
             IF m = v THEN /\ mapInfo'[v].svc = mapInfo[v].svc /\ mapInfo'[v].fInTried = mapInfo[v].fInTried
                           /\ mapInfo'[v].nRefCount = mapInfo[v].nRefCount - 1
                      ELSE Alike(mapInfo'[m], mapInfo[m])
    <3>1. DOMAIN mapInfo' = IF mapInfo[v].nRefCount = 1 THEN DOMAIN y.info \ {v} ELSE DOMAIN y.info
      BY <2>2, <2>4, <2>5 DEF Unreferenced
    <3>2. n \in DOMAIN mapInfo' /\ Alike(mapInfo'[n], y.info[n])
      BY <1>4, <2>2, <2>4, <2>5, <3>1 DEF Unreferenced
    <3>3. ASSUME NEW m \in DOMAIN mapInfo', m # n
          PROVE  IF m = v THEN /\ mapInfo'[v].svc = mapInfo[v].svc /\ mapInfo'[v].fInTried = mapInfo[v].fInTried
                               /\ mapInfo'[v].nRefCount = mapInfo[v].nRefCount - 1
                          ELSE Alike(mapInfo'[m], mapInfo[m])
      <4>1. m \in DOMAIN mapInfo /\ y.info[m] = mapInfo[m]
        BY <1>4, <3>1, <3>3
      <4> QED BY <2>2, <2>4, <2>5, <3>3, <4>1 DEF Unreferenced
    <3> QED BY <1>4, <2>2, <3>1, <3>2, <3>3
  \* The state between the two.
  <2>8. PICK g : g = [m \in DOMAIN mapInfo' \cap DOMAIN mapInfo |-> IF m = n THEN mapInfo[n] ELSE mapInfo'[m]]
    OBVIOUS
  <2>9. /\ DOMAIN g = IF mapInfo[v].nRefCount = 1 THEN DOMAIN mapInfo \ {v} ELSE DOMAIN mapInfo
        /\ \A m \in DOMAIN g : m # n => m \in DOMAIN mapInfo' /\ g[m] = mapInfo'[m]
        /\ n \in DOMAIN g <=> n \in DOMAIN mapInfo
        /\ n \in DOMAIN g => g[n] = mapInfo[n]
    BY <2>2, <2>7, <2>8
  <2>10. Entries(g, nIdCount)
    <3>1. \A m \in DOMAIN g : g[m] \in Info
      BY <1>0, <2>6, <2>9 DEF Entries
    <3>2. g = [m \in DOMAIN g |-> g[m]]
      BY <2>8
    <3>3. DOMAIN g \subseteq DOMAIN mapInfo
      BY <2>9
    <3> QED BY <1>0, <3>1, <3>2, <3>3 DEF Entries
  <2>11. Unreferenced(mapInfo, v, g)
    <3>1. ASSUME NEW m \in DOMAIN g
          PROVE  IF m = v THEN /\ g[v].svc = mapInfo[v].svc /\ g[v].fInTried = mapInfo[v].fInTried
                               /\ g[v].nRefCount = mapInfo[v].nRefCount - 1
                          ELSE Alike(g[m], mapInfo[m])
      <4>1. CASE m = n
        BY <2>2, <2>9, <4>1 DEF Alike
      <4>2. CASE m # n
        BY <2>7, <2>9, <4>2
      <4> QED BY <4>1, <4>2
    <3> QED BY <2>9, <3>1 DEF Unreferenced
  <2>12. PICK W : W = [vvNew EXCEPT ![b] = @ \ {v}]
    OBVIOUS
  <2>13. Except(vvNew, b, vvNew[b] \ {v}, W)
    BY <1>0, <2>12 DEF Except
  <2>14. /\ Tables(vvTried, W, nIdCount) /\ FiledIn(g, vvTried, W) /\ Cardinality(W[b]) < NewSize
         /\ TriedIn(g) = TriedIn(mapInfo)
         /\ NewIn(g) = IF mapInfo[v].nRefCount = 1 THEN NewIn(mapInfo) \ {v} ELSE NewIn(mapInfo)
    <3>1. Leaves(nIdCount, mapInfo, vvTried, vvNew, b, v, W, g)
      BY <1>0, <2>10, <2>11, <2>13 DEF Leaves
    <3> QED BY <3>1, UnreferenceKeeps
  <2>15. Referenced(g, n, mapInfo')
    <3>1. mapInfo'[n].nRefCount = c /\ ~mapInfo'[n].fInTried
      BY <1>4, <2>7 DEF Alike
    <3>2. c = (IF n \in DOMAIN g THEN g[n].nRefCount ELSE 0) + 1
      BY <1>5, <2>9
    <3>3. DOMAIN mapInfo' = DOMAIN g \cup {n}
      BY <2>7, <2>9
    <3> QED BY <2>9, <3>1, <3>2, <3>3 DEF Referenced, Alike
  <2>16. n \in DOMAIN g => ~g[n].fInTried /\ g[n].nRefCount # MaxRef
    BY <1>6, <2>9
  <2>17. Except(W, b, W[b] \cup {n}, vvNew') /\ n \notin W[b]
    <3>1. n \in 0 .. M - 1
      BY <2>6, <2>7 DEF Entries
    <3>2. W[b] = vvNew[b] \ {v} /\ \A d \in NewBucket : d # b => W[d] = vvNew[d]
      BY <2>13 DEF Except
    <3>3. vvNew'[b] = W[b] \cup {n} /\ \A d \in NewBucket : d # b => vvNew'[d] = W[d]
      BY <1>0, <2>1, <3>2
    <3>4. vvNew' \in [NewBucket -> SUBSET Nat]
      BY <1>0, <2>1, <3>1
    <3> QED BY <3>2, <3>3, <3>4 DEF Except
  <2>18. /\ Tables(vvTried, vvNew', M) /\ FiledIn(mapInfo', vvTried, vvNew')
         /\ TriedIn(mapInfo') = TriedIn(mapInfo) /\ NewIn(mapInfo') = NewIn(g) \cup {n}
    <3>1. Enters(nIdCount, M, g, vvTried, W, b, n, vvNew', mapInfo')
      BY <1>0, <2>6, <2>10, <2>14, <2>15, <2>16, <2>17 DEF Enters
    <3>2. /\ Tables(vvTried, vvNew', M) /\ FiledIn(mapInfo', vvTried, vvNew')
          /\ TriedIn(mapInfo') = TriedIn(g) /\ NewIn(mapInfo') = NewIn(g) \cup {n}
      BY <3>1, ReferenceKeeps
    <3> QED BY <2>14, <3>2
  <2>19. nNew' = Cardinality(NewIn(mapInfo'))
    <3>1. n \in NewIn(g) <=> n \in DOMAIN mapInfo
      BY <1>6, <2>9 DEF NewIn, TriedIn
    <3>2. IsFiniteSet(NewIn(g)) /\ Cardinality(NewIn(g)) \in Nat
      BY <1>0, <2>10, FiniteEntries, FS_CardinalityType
    <3>3. Cardinality(NewIn(mapInfo')) = Cardinality(NewIn(g)) + added
      BY <1>8, <2>18, <3>1, <3>2, AddedIs
    <3>4. Cardinality(NewIn(g)) = nNew - (IF mapInfo[v].nRefCount = 1 THEN 1 ELSE 0)
      <4>1. nNew \in Nat /\ nNew = Cardinality(NewIn(mapInfo))
        BY <1>7, FS_CardinalityType DEF AInv
      <4>2. Cardinality(NewIn(mapInfo) \ {v}) = Cardinality(NewIn(mapInfo)) - 1
        BY <1>7, <2>2, OneLess
      <4> QED BY <2>14, <4>1, <4>2
    <3>5. nNew \in Nat
      BY <1>7, FS_CardinalityType DEF AInv
    <3> QED BY <1>8, <2>1, <2>2, <3>2, <3>3, <3>4, <3>5
  <2>20. TriedStay
    <3>1. ASSUME NEW m \in TriedIn(mapInfo) PROVE m \in DOMAIN mapInfo' /\ mapInfo'[m].svc = mapInfo[m].svc
      <4>1. m \in DOMAIN mapInfo /\ m # n /\ m # v
        BY <1>6, <2>2 DEF TriedIn, NewIn
      <4> QED BY <2>7, <4>1 DEF Alike
    <3> QED BY <3>1 DEF TriedStay
  <2>21. AInv'
    <3>1. (nIdCount \in 0 .. MaxId)' /\ Linked(mapInfo, mapAddr, vRandom, nIdCount)'
      BY <1>0, <2>5 DEF Linked, Typed, ByHost, ByPlace
    <3>2. Tables(vvTried, vvNew, nIdCount)'
      BY <1>0, <2>18 DEF Tables
    <3>3. FiledIn(mapInfo, vvTried, vvNew)'
      BY <1>0, <2>18 DEF FiledIn
    <3>4. (nTried = Cardinality(TriedIn(mapInfo)))' /\ (nNew = Cardinality(NewIn(mapInfo)))'
      BY <1>0, <2>18, <2>19 DEF AInv
    <3> QED BY <3>1, <3>2, <3>3, <3>4 DEF AInv
  <2> QED BY <2>21, <2>20
<1> QED BY <1>9, <1>10

\* Add_ of an address that is not known.
LEMMA AddUnknownKeeps ==
  ASSUME AInv, NEW s \in Service, NEW src \in Source, AddUnknown(s, src)
  PROVE  AInv' /\ TriedStay
<1>1. /\ Sound(Index, nIdCount) /\ Index.info = mapInfo /\ Index.addr = mapAddr /\ nIdCount \in Nat
      /\ HostOf[s] \notin DOMAIN mapAddr /\ nIdCount < MaxId /\ MaxId \in Nat
  BY IndexIs, AddrAssumption DEF AddUnknown, Finds
<1>2. PICK x : x = Create(Index, nIdCount, s, src)
  OBVIOUS
<1>3. /\ Sound(x, nIdCount + 1) /\ DOMAIN x.info = DOMAIN mapInfo \cup {nIdCount}
      /\ x.info[nIdCount].nRefCount = 0 /\ ~x.info[nIdCount].fInTried
      /\ \A m \in DOMAIN mapInfo : m # nIdCount /\ x.info[m] = mapInfo[m]
  <2>1. PICK z : z = Index
    OBVIOUS
  <2>2. Creates(z, nIdCount, s, src, x)
    BY <1>1, <1>2, <2>1 DEF Creates
  <2>3. /\ Sound(x, nIdCount + 1) /\ DOMAIN x.info = DOMAIN z.info \cup {nIdCount}
        /\ x.info[nIdCount].nRefCount = 0 /\ ~x.info[nIdCount].fInTried
        /\ \A m \in DOMAIN z.info : m # nIdCount /\ x.info[m] = z.info[m]
    BY <2>2, CreateKeeps
  <2> QED BY <1>1, <2>1, <2>3
<1>4. PICK b \in NewBucket : b = GetNewBucket[<<s, src>>]
  BY AddrAssumption
<1>5. nIdCount \notin vvNew[b]
  BY <1>1 DEF AInv, Tables
<1>6. /\ InsertNew(x, nIdCount, b) /\ nIdCount' = nIdCount + 1 /\ UNCHANGED <<nTried, vvTried>>
      /\ nIdCount + 1 \in nIdCount .. MaxId
  BY <1>1, <1>2, <1>4 DEF AddUnknown
<1>7. nIdCount \notin DOMAIN mapInfo
  BY <1>3
<1> QED BY <1>3, <1>5, <1>6, <1>7, InsertKeeps

\* Add_ of an address that is known, and not tried.
LEMMA AddKnownKeeps ==
  ASSUME AInv, NEW s \in Service, NEW src \in Source, AddKnown(s, src)
  PROVE  AInv' /\ TriedStay
<1>1. /\ Sound(Index, nIdCount) /\ Index.info = mapInfo /\ Index.addr = mapAddr /\ nIdCount \in Nat
      /\ HostOf[s] \in DOMAIN mapAddr /\ MaxId \in Nat /\ Entries(mapInfo, nIdCount)
  BY IndexIs, AddrAssumption DEF AddKnown, Finds
<1>2. PICK n \in DOMAIN mapInfo : n = mapAddr[HostOf[s]]
  BY <1>1 DEF AInv, Linked, ByHost
<1>3. PICK b \in NewBucket : b = GetNewBucket[<<mapInfo[n].svc, src>>]
  <2>1. mapInfo[n].svc \in Service
    BY <1>1 DEF Entries, Info
  <2> QED BY <2>1, AddrAssumption
<1>4. /\ ~mapInfo[n].fInTried /\ mapInfo[n].nRefCount # MaxRef /\ n \notin vvNew[b]
      /\ InsertNew(Index, n, b) /\ nIdCount' = nIdCount /\ UNCHANGED <<nTried, vvTried>>
  BY <1>2, <1>3 DEF AddKnown
<1>5. DOMAIN mapInfo = DOMAIN mapInfo \cup {n} /\ nIdCount \in nIdCount .. MaxId
  BY <1>1 DEF AInv
<1> QED BY <1>1, <1>4, <1>5, InsertKeeps

-----------------------------------------------------------------------------
(* Good_.                                                                  *)

Elems(s) == {s[i] : i \in 1 .. Len(s)}
Once(s)  == \A i, j \in 1 .. Len(s) : s[i] = s[j] => i = j

\* The bucket k has n in it now, and not those of R.
Refiled(T, k, n, R, S, N) ==
  /\ S \in [TriedBucket -> Seq(0 .. N - 1)] /\ \A j \in TriedBucket : j # k => S[j] = T[j]
  /\ Elems(S[k]) = (Elems(T[k]) \ R) \cup {n} /\ Once(S[k]) /\ Len(S[k]) <= TriedSize

\* The entry n leaves all new buckets and becomes a tried one, those of R are gone.
Promotes(N, info, T, W, n, k, R, S, X, g) ==
  /\ N \in Nat /\ Entries(info, N) /\ Tables(T, W, N) /\ FiledIn(info, T, W)
  /\ n \in NewIn(info) /\ k = BucketIn(info, n) /\ k \in TriedBucket /\ R \subseteq Elems(T[k])
  /\ Refiled(T, k, n, R, S, N)
  /\ X \in [NewBucket -> SUBSET (0 .. N - 1)] /\ \A b \in NewBucket : X[b] = W[b] \ {n}
  /\ Entries(g, N) /\ DOMAIN g = DOMAIN info \ R
  /\ g[n].fInTried /\ g[n].nRefCount = 0 /\ g[n].svc = info[n].svc
  /\ \A m \in DOMAIN g : m # n => Alike(g[m], info[m])

\* Then everything is filed as it should be.
LEMMA PromoteKeeps ==
  ASSUME NEW N, NEW info, NEW T, NEW W, NEW n, NEW k, NEW R, NEW S, NEW X, NEW g,
         Promotes(N, info, T, W, n, k, R, S, X, g)
  PROVE  /\ Tables(S, X, N) /\ FiledIn(g, S, X)
         /\ TriedIn(g) = (TriedIn(info) \ R) \cup {n} /\ NewIn(g) = NewIn(info) \ {n}
         /\ R \subseteq TriedIn(info)
<1> USE DEF Promotes
<1>0. /\ W \in [NewBucket -> SUBSET (0 .. N - 1)] /\ NewSize \in Nat
      /\ n \in DOMAIN info /\ n \notin TriedIn(info)
  BY AddrAssumption DEF Tables, NewIn
<1>1. R \subseteq TriedIn(info) /\ \A m \in R : BucketIn(info, m) = k
  BY DEF Elems, FiledIn, OfTried
<1>2. n \in DOMAIN g /\ DOMAIN g \subseteq DOMAIN info
  BY <1>0, <1>1
<1>3. /\ \A m \in DOMAIN g : g[m].svc = info[m].svc
      /\ \A m \in DOMAIN g : m # n => g[m].nRefCount = info[m].nRefCount /\ g[m].fInTried = info[m].fInTried
  BY DEF Alike
<1>4. TriedIn(g) = (TriedIn(info) \ R) \cup {n}
  BY <1>0, <1>2, <1>3 DEF TriedIn
<1>5. NewIn(g) = NewIn(info) \ {n}
  BY <1>0, <1>1, <1>4 DEF NewIn
<1>6. /\ HoldingIn(X, n) = {} /\ \A m : m # n => HoldingIn(X, m) = HoldingIn(W, m)
  BY DEF HoldingIn
<1>7. \A m \in DOMAIN g : BucketIn(g, m) = BucketIn(info, m)
  BY <1>3 DEF BucketIn
<1>8. Tables(S, X, N)
  <2>1. ASSUME NEW b \in NewBucket PROVE Cardinality(X[b]) <= NewSize
    <3>1. IsFiniteSet(W[b]) /\ Cardinality(W[b]) <= NewSize /\ Cardinality(W[b]) \in Nat
      BY <1>0, FiniteTables DEF Tables
    <3>2. X[b] \in SUBSET W[b]
      OBVIOUS
    <3>3. Cardinality(X[b]) <= Cardinality(W[b]) /\ IsFiniteSet(X[b])
      BY <3>1, <3>2, FS_Subset
    <3>4. Cardinality(X[b]) \in Nat
      BY <3>3, FS_CardinalityType
    <3> QED BY <1>0, <3>1, <3>3, <3>4
  <2>2. \A j \in TriedBucket : Len(S[j]) <= TriedSize
    BY DEF Refiled, Tables
  <2> QED BY <2>1, <2>2 DEF Tables, Refiled
<1>9. InTried(g, S, X)
  <2>1. ASSUME NEW m \in TriedIn(g)
        PROVE  /\ g[m].nRefCount = 0 /\ HoldingIn(X, m) = {}
               /\ \E i \in 1 .. Len(S[BucketIn(g, m)]) : S[BucketIn(g, m)][i] = m
    <3>1. CASE m = n
      <4>1. n \in Elems(S[k]) /\ BucketIn(g, n) = k
        BY <1>2, <1>7 DEF Refiled
      <4>2. \E i \in 1 .. Len(S[k]) : S[k][i] = n
        BY <4>1 DEF Elems
      <4> QED BY <1>6, <3>1, <4>1, <4>2
    <3>2. CASE m # n
      <4>1. m \in TriedIn(info) /\ m \notin R /\ m \in DOMAIN g /\ m \in DOMAIN info
        BY <1>2, <1>4, <3>2 DEF TriedIn
      <4>2. /\ info[m].nRefCount = 0 /\ HoldingIn(W, m) = {}
            /\ \E i \in 1 .. Len(T[BucketIn(info, m)]) : T[BucketIn(info, m)][i] = m
        BY <4>1 DEF FiledIn, InTried
      <4>3. g[m].nRefCount = 0 /\ HoldingIn(X, m) = {} /\ BucketIn(g, m) = BucketIn(info, m)
        BY <1>3, <1>6, <1>7, <3>2, <4>1, <4>2
      <4>4. BucketIn(info, m) \in TriedBucket
        BY <4>1, AddrAssumption DEF BucketIn, Entries, Info
      <4>5. \E i \in 1 .. Len(S[BucketIn(info, m)]) : S[BucketIn(info, m)][i] = m
        <5>1. CASE BucketIn(info, m) = k
          <6>1. m \in Elems(S[k])
            BY <4>1, <4>2, <5>1 DEF Elems, Refiled
          <6> QED BY <5>1, <6>1 DEF Elems
        <5>2. CASE BucketIn(info, m) # k
          BY <4>2, <4>4, <5>2 DEF Refiled
        <5> QED BY <5>1, <5>2
      <4> QED BY <4>3, <4>5
    <3> QED BY <3>1, <3>2
  <2> QED BY <2>1 DEF InTried
<1>10. InNew(g, X)
  <2>1. ASSUME NEW m \in NewIn(g)
        PROVE  g[m].nRefCount = Cardinality(HoldingIn(X, m)) /\ g[m].nRefCount \in 1 .. MaxRef
    <3>1. m \in NewIn(info) /\ m # n /\ m \in DOMAIN g
      BY <1>5 DEF NewIn
    <3>2. g[m].nRefCount = info[m].nRefCount /\ HoldingIn(X, m) = HoldingIn(W, m)
      BY <1>3, <1>6, <3>1
    <3> QED BY <3>1, <3>2 DEF FiledIn, InNew
  <2> QED BY <2>1 DEF InNew
<1>11. OfTried(g, S)
  <2>1. ASSUME NEW j \in TriedBucket, NEW i \in 1 .. Len(S[j])
        PROVE  S[j][i] \in TriedIn(g) /\ BucketIn(g, S[j][i]) = j
    <3>1. CASE j = k
      <4>1. S[k][i] \in (Elems(T[k]) \ R) \cup {n}
        BY <3>1 DEF Elems, Refiled
      <4>2. CASE S[k][i] = n
        BY <1>2, <1>4, <1>7, <3>1, <4>2
      <4>3. CASE S[k][i] \in Elems(T[k]) \ R
        <5>1. S[k][i] \in TriedIn(info) /\ BucketIn(info, S[k][i]) = k /\ S[k][i] \notin R
          BY <4>3 DEF Elems, FiledIn, OfTried
        <5>2. S[k][i] \in TriedIn(g) /\ S[k][i] \in DOMAIN g
          BY <1>4, <5>1 DEF TriedIn
        <5> QED BY <1>7, <3>1, <5>1, <5>2
      <4> QED BY <4>1, <4>2, <4>3
    <3>2. CASE j # k
      <4>1. S[j] = T[j]
        BY <3>2 DEF Refiled
      <4>2. T[j][i] \in TriedIn(info) /\ BucketIn(info, T[j][i]) = j
        BY <4>1 DEF FiledIn, OfTried
      <4>3. T[j][i] \notin R
        BY <1>1, <3>2, <4>2
      <4>4. T[j][i] \in TriedIn(g) /\ T[j][i] \in DOMAIN g
        BY <1>4, <4>2, <4>3 DEF TriedIn
      <4> QED BY <1>7, <4>1, <4>2, <4>4
    <3> QED BY <3>1, <3>2
  <2>2. ASSUME NEW j \in TriedBucket PROVE Once(S[j])
    <3>1. CASE j = k
      BY <3>1 DEF Refiled
    <3>2. CASE j # k
      <4>1. S[j] = T[j]
        BY <3>2 DEF Refiled
      <4>2. Once(T[j])
        BY DEF FiledIn, OfTried, Once
      <4> QED BY <4>1, <4>2
    <3> QED BY <3>1, <3>2
  <2> QED BY <2>1, <2>2 DEF OfTried, Once
<1>12. OfNew(g, X)
  BY <1>5 DEF OfNew, FiledIn
<1> QED BY <1>1, <1>4, <1>5, <1>8, <1>9, <1>10, <1>11, <1>12 DEF FiledIn

\* A function on the first numbers is a sequence.
LEMMA FunctionIsSeq ==
  ASSUME NEW D, NEW l \in Nat, NEW q \in [1 .. l -> D]
  PROVE  q \in Seq(D) /\ Len(q) = l
<1>1. q \in Seq(D)
  BY SeqDef
<1>2. DOMAIN q = 1 .. Len(q) /\ Len(q) \in Nat
  BY <1>1
<1>3. 1 .. Len(q) = 1 .. l
  BY <1>2
<1> QED BY <1>1, <1>2, <1>3

\* n goes to the end of a bucket it is not in ...
Pushed(D, s, n, q) == s \in Seq(D) /\ Once(s) /\ n \in D /\ n \notin Elems(s) /\ q = Append(s, n)

\* ... or to the place p of one that has been shuffled.
Replaced(D, s, n, t, p, q) == /\ s \in Seq(D) /\ Once(s) /\ n \in D /\ n \notin Elems(s)
                              /\ t \in Shuffles(s) /\ p \in DOMAIN s /\ q = [t EXCEPT ![p] = n]

\* push_back of what is not there.
LEMMA AppendIs ==
  ASSUME NEW D, NEW s, NEW n, NEW q, Pushed(D, s, n, q)
  PROVE  /\ q \in Seq(D) /\ Len(q) = Len(s) + 1 /\ Once(q) /\ Elems(q) = Elems(s) \cup {n}
<1> USE DEF Pushed
<1>1. /\ q \in Seq(D) /\ Len(q) = Len(s) + 1 /\ Len(s) \in Nat /\ q[Len(s) + 1] = n
      /\ \A i \in 1 .. Len(s) : q[i] = s[i]
  OBVIOUS
<1>2. \A i \in 1 .. Len(q) : i \in 1 .. Len(s) \/ i = Len(s) + 1
  BY <1>1
<1>3. \A i \in 1 .. Len(s) : q[i] # n
  BY <1>1 DEF Elems
<1>4. Once(q)
  <2> SUFFICES ASSUME NEW i \in 1 .. Len(q), NEW j \in 1 .. Len(q), q[i] = q[j] PROVE i = j
    BY DEF Once
  <2>1. CASE i \in 1 .. Len(s) /\ j \in 1 .. Len(s)
    BY <1>1, <2>1 DEF Once
  <2>2. CASE i = Len(s) + 1 \/ j = Len(s) + 1
    BY <1>1, <1>2, <1>3, <2>2
  <2> QED BY <1>2, <2>1, <2>2
<1>5. Elems(q) = Elems(s) \cup {n}
  <2>1. ASSUME NEW v \in Elems(q) PROVE v \in Elems(s) \cup {n}
    <3>1. PICK i \in 1 .. Len(q) : v = q[i]
      BY DEF Elems
    <3> QED BY <1>1, <1>2, <3>1 DEF Elems
  <2>2. ASSUME NEW v \in Elems(s) PROVE v \in Elems(q)
    <3>1. PICK i \in 1 .. Len(s) : v = s[i]
      BY DEF Elems
    <3>2. i \in 1 .. Len(q) /\ q[i] = v
      BY <1>1, <3>1
    <3> QED BY <3>2 DEF Elems
  <2>3. n \in Elems(q)
    <3>1. Len(s) + 1 \in 1 .. Len(q)
      BY <1>1
    <3> QED BY <1>1, <3>1 DEF Elems
  <2> QED BY <2>1, <2>2, <2>3
<1> QED BY <1>1, <1>4, <1>5

\* A shuffled bucket whose place p goes to n.
LEMMA ShuffleIs ==
  ASSUME NEW D, NEW s, NEW n, NEW t, NEW p, NEW q, Replaced(D, s, n, t, p, q)
  PROVE  /\ q \in Seq(D) /\ Len(q) = Len(s) /\ Once(q) /\ t[p] \in Elems(s)
         /\ Elems(q) = (Elems(s) \ {t[p]}) \cup {n}
<1> USE DEF Replaced
<1>0. DOMAIN s = 1 .. Len(s) /\ Len(s) \in Nat
  OBVIOUS
<1>1. PICK f \in [1 .. Len(s) -> 1 .. Len(s)] :
          IsInjective(f) /\ t = [i \in 1 .. Len(s) |-> s[f[i]]]
  BY <1>0 DEF Shuffles
<1>2. \A i, j \in 1 .. Len(s) : f[i] = f[j] => i = j
  BY <1>1 DEF IsInjective
<1>3. \A j \in 1 .. Len(s) : \E i \in 1 .. Len(s) : f[i] = j
  <2>1. f \in Injection(1 .. Len(s), 1 .. Len(s))
    BY <1>1 DEF Injection
  <2>2. IsFiniteSet(1 .. Len(s))
    BY <1>0, CardinalityUpTo
  <2>3. f \in Surjection(1 .. Len(s), 1 .. Len(s))
    BY <2>1, <2>2, FS_Injection
  <2> QED BY <2>3 DEF Surjection
<1>4. /\ q = [i \in 1 .. Len(s) |-> IF i = p THEN n ELSE s[f[i]]] /\ p \in 1 .. Len(s)
      /\ t[p] = s[f[p]] /\ f[p] \in 1 .. Len(s)
  BY <1>0, <1>1
<1>5. /\ q[p] = n /\ \A i \in 1 .. Len(s) : i # p => q[i] = s[f[i]] /\ f[i] \in 1 .. Len(s)
      /\ DOMAIN q = 1 .. Len(s)
  BY <1>4
<1>6. q \in Seq(D) /\ Len(q) = Len(s)
  <2>1. \A i \in 1 .. Len(s) : q[i] \in D
    BY <1>5
  <2>2. q \in [1 .. Len(s) -> D]
    BY <1>4, <2>1
  <2> QED BY <1>0, <2>2, FunctionIsSeq
<1>7. t[p] \in Elems(s)
  BY <1>4 DEF Elems
<1>8. ASSUME NEW i \in 1 .. Len(s), i # p PROVE q[i] \in Elems(s) /\ q[i] # n /\ q[i] # t[p]
  <2>1. q[i] \in Elems(s)
    BY <1>5, <1>8 DEF Elems
  <2>2. f[i] # f[p]
    BY <1>2, <1>4, <1>8
  <2> QED BY <1>4, <1>5, <1>8, <2>1, <2>2 DEF Once
<1>9. Once(q)
  <2> SUFFICES ASSUME NEW i \in 1 .. Len(s), NEW j \in 1 .. Len(s), q[i] = q[j] PROVE i = j
    BY <1>6 DEF Once
  <2>1. CASE i = p \/ j = p
    BY <1>5, <1>8, <2>1
  <2>2. CASE i # p /\ j # p
    <3>1. f[i] = f[j]
      BY <1>5, <2>2 DEF Once
    <3> QED BY <1>2, <3>1
  <2> QED BY <2>1, <2>2
<1>10. Elems(q) = (Elems(s) \ {t[p]}) \cup {n}
  <2>1. ASSUME NEW v \in Elems(q) PROVE v \in (Elems(s) \ {t[p]}) \cup {n}
    <3>1. PICK i \in 1 .. Len(s) : v = q[i]
      BY <1>6 DEF Elems
    <3> QED BY <1>5, <1>8, <3>1
  <2>2. ASSUME NEW v \in Elems(s), v # t[p] PROVE v \in Elems(q)
    <3>1. PICK j \in 1 .. Len(s) : v = s[j]
      BY DEF Elems
    <3>2. PICK i \in 1 .. Len(s) : f[i] = j
      BY <1>3
    <3>3. i # p /\ q[i] = v
      BY <1>4, <1>5, <2>2, <3>1, <3>2
    <3> QED BY <1>6, <3>3 DEF Elems
  <2>3. n \in Elems(q)
    BY <1>4, <1>5, <1>6 DEF Elems
  <2> QED BY <2>1, <2>2, <2>3
<1> QED BY <1>6, <1>7, <1>9, <1>10

\* The entry n, with c references, becomes a tried one.
Tries(info, n, c, g) ==
  /\ info \in [DOMAIN info -> Info] /\ n \in DOMAIN info /\ c \in Int /\ info[n].nRefCount = c
  /\ g = [info EXCEPT ![n].nRefCount = @ - c, ![n].fInTried = TRUE]

\* What MakeTried does to the entry it moves: no reference is left.
LEMMA ThereIs ==
  ASSUME NEW info, NEW n, NEW c, NEW g, Tries(info, n, c, g)
  PROVE  /\ g \in [DOMAIN info -> Info] /\ g[n].nRefCount = 0 /\ g[n].fInTried
         /\ g[n].svc = info[n].svc /\ g[n].nRandomPos = info[n].nRandomPos
         /\ \A m \in DOMAIN info : m # n => g[m] = info[m]
<1> USE DEF Tries
<1>1. PICK f : f = [info EXCEPT ![n].nRefCount = @ - c]
  OBVIOUS
<1>2. g = [f EXCEPT ![n].fInTried = TRUE]
  BY <1>1
<1>3. info[n] \in Info /\ c - c = 0
  OBVIOUS
<1>4. PICK e : e = [info[n] EXCEPT !.nRefCount = 0]
  OBVIOUS
<1>5. PICK d : d = [e EXCEPT !.fInTried = TRUE]
  OBVIOUS
<1>6. e \in Info /\ e.svc = info[n].svc /\ e.nRandomPos = info[n].nRandomPos /\ e.nRefCount = 0
  BY <1>3, <1>4 DEF Info
<1>7. d \in Info /\ d.svc = info[n].svc /\ d.nRandomPos = info[n].nRandomPos /\ d.nRefCount = 0 /\ d.fInTried
  BY <1>5, <1>6 DEF Info
<1>8. DOMAIN f = DOMAIN info /\ f[n] = e /\ \A m \in DOMAIN info : m # n => f[m] = info[m]
  BY <1>1, <1>3, <1>4
<1>9. /\ DOMAIN g = DOMAIN info /\ g[n] = d /\ \A m \in DOMAIN info : m # n => g[m] = info[m]
      /\ g = [m \in DOMAIN info |-> g[m]]
  BY <1>2, <1>5, <1>8
<1>10. \A m \in DOMAIN info : g[m] \in Info
  BY <1>7, <1>9
<1> QED BY <1>7, <1>9, <1>10

\* ... and to the one that makes room.
LEMMA EvictedIs ==
  ASSUME NEW info, info \in [DOMAIN info -> Info], NEW n \in DOMAIN info, NEW g,
         g = [info EXCEPT ![n] = Evicted(@)]
  PROVE  /\ g \in [DOMAIN info -> Info] /\ g[n].nRefCount = 1 /\ ~g[n].fInTried
         /\ g[n].svc = info[n].svc /\ g[n].nRandomPos = info[n].nRandomPos
         /\ \A m \in DOMAIN info : m # n => g[m] = info[m]
<1>1. PICK e : e = [info[n] EXCEPT !.fInTried = FALSE]
  OBVIOUS
<1>2. PICK d : d = [e EXCEPT !.nRefCount = 1]
  OBVIOUS
<1>3. info[n] \in Info
  OBVIOUS
<1>4. e \in Info /\ e.svc = info[n].svc /\ e.nRandomPos = info[n].nRandomPos /\ ~e.fInTried
  BY <1>1, <1>3 DEF Info
<1>5. d \in Info /\ d.svc = info[n].svc /\ d.nRandomPos = info[n].nRandomPos /\ d.nRefCount = 1 /\ ~d.fInTried
  BY <1>2, <1>4 DEF Info
<1>6. Evicted(info[n]) = d
  BY <1>1, <1>2 DEF Evicted
<1>7. /\ DOMAIN g = DOMAIN info /\ g[n] = d /\ \A m \in DOMAIN info : m # n => g[m] = info[m]
      /\ g = [m \in DOMAIN info |-> g[m]]
  BY <1>6
<1>8. \A m \in DOMAIN info : g[m] \in Info
  BY <1>5, <1>7
<1> QED BY <1>5, <1>7, <1>8

\* Good_: the address moves to its tried bucket, and the entry it displaces, if any, into
\* a new bucket that has room.
LEMMA GoodKeeps ==
  ASSUME AInv, NEW s \in Service, Good(s)
  PROVE  AInv' /\ TriedStay
<1>0. /\ nIdCount \in Nat /\ Entries(mapInfo, nIdCount) /\ NewSize \in Nat /\ TriedSize \in Nat
      /\ Linked(mapInfo, mapAddr, vRandom, nIdCount)
      /\ Tables(vvTried, vvNew, nIdCount) /\ FiledIn(mapInfo, vvTried, vvNew)
      /\ vvNew \in [NewBucket -> SUBSET (0 .. nIdCount - 1)]
      /\ vvTried \in [TriedBucket -> Seq(0 .. nIdCount - 1)]
      /\ mapInfo \in [DOMAIN mapInfo -> Info]
  BY IndexIs, AddrAssumption DEF AInv, Tables, Entries
<1> DEFINE n == mapAddr[HostOf[s]]
           holds == {b \in NewBucket : n \in vvNew[b]}
           left == [b \in NewBucket |-> vvNew[b] \ {n}]
           k == GetTriedBucket[s]
           there == [mapInfo EXCEPT ![n].nRefCount = @ - Cardinality(holds), ![n].fInTried = TRUE]
           Room == /\ Len(vvTried[k]) < TriedSize
                   /\ vvTried' = [vvTried EXCEPT ![k] = Append(@, n)]
                   /\ nTried' = nTried + 1 /\ nNew' = nNew - 1
                   /\ mapInfo' = there /\ vvNew' = left
           Evicts(old, origin, shuffled, p) ==
             /\ vvTried' = [vvTried EXCEPT ![k] = [shuffled EXCEPT ![p] = n]]
             /\ mapInfo' = [there EXCEPT ![old] = Evicted(@)]
             /\ vvNew' = [left EXCEPT ![EvictTo(left, mapInfo[old], origin)] = @ \cup {old}]
           Full(origin) == /\ Len(vvTried[k]) >= TriedSize
                           /\ \E shuffled \in Shuffles(vvTried[k]), p \in DOMAIN vvTried[k] :
                                Evicts(shuffled[p], origin, shuffled, p)
                           /\ UNCHANGED <<nTried, nNew>>
<1>12. PICK origin \in holds : Room \/ Full(origin)
  BY Zenon DEF Good
<1>1. n \in DOMAIN mapInfo /\ mapInfo[n].svc = s
  <2>1. FindsExactly(s)
    BY DEF Good
  <2> QED BY <2>1 DEF FindsExactly, Finds, AInv, Linked, ByHost
<1>7. ~mapInfo[n].fInTried /\ UNCHANGED <<nIdCount, mapAddr, vRandom>>
  BY Zenon DEF Good
<1>4. holds = HoldingIn(vvNew, n)
  BY DEF HoldingIn
<1> DEFINE c == Cardinality(holds)
<1>6. there = [mapInfo EXCEPT ![n].nRefCount = @ - c, ![n].fInTried = TRUE]
  OBVIOUS
<1>2. k \in TriedBucket
  BY AddrAssumption
<1>3. k = BucketIn(mapInfo, n)
  BY <1>1 DEF BucketIn
<1>11. /\ left \in [NewBucket -> SUBSET (0 .. nIdCount - 1)]
       /\ \A b \in NewBucket : left[b] = vvNew[b] \ {n}
  BY <1>0
<1> HIDE DEF n, k, left, there, holds, c, Room, Evicts, Full
<1>8. n \in NewIn(mapInfo) /\ n \notin TriedIn(mapInfo)
  BY <1>1, <1>7 DEF NewIn, TriedIn
<1>9. mapInfo[n].nRefCount = c /\ c \in Int
  BY <1>0, <1>4, <1>8, FiniteTables DEF FiledIn, InNew, c
<1>10. /\ there \in [DOMAIN mapInfo -> Info] /\ there[n].nRefCount = 0 /\ there[n].fInTried
       /\ there[n].svc = mapInfo[n].svc /\ there[n].nRandomPos = mapInfo[n].nRandomPos
       /\ \A m \in DOMAIN mapInfo : m # n => there[m] = mapInfo[m]
  <2>1. Tries(mapInfo, n, c, there)
    BY <1>0, <1>1, <1>6, <1>9 DEF Tries
  <2> QED BY <2>1, ThereIs
<1>13. /\ vvTried[k] \in Seq(0 .. nIdCount - 1) /\ Once(vvTried[k]) /\ n \in 0 .. nIdCount - 1
       /\ n \notin Elems(vvTried[k]) /\ Len(vvTried[k]) \in Nat /\ Len(vvTried[k]) <= TriedSize
       /\ Elems(vvTried[k]) \subseteq TriedIn(mapInfo)
  <2>1. Elems(vvTried[k]) \subseteq TriedIn(mapInfo)
    BY <1>0, <1>2 DEF FiledIn, OfTried, Elems
  <2>2. Once(vvTried[k])
    BY <1>0, <1>2 DEF FiledIn, OfTried, Once
  <2>3. vvTried[k] \in Seq(0 .. nIdCount - 1) /\ Len(vvTried[k]) <= TriedSize
    BY <1>0, <1>2 DEF Tables
  <2>4. n \in 0 .. nIdCount - 1
    BY <1>0, <1>1 DEF Entries
  <2> QED BY <1>8, <2>1, <2>2, <2>3, <2>4
<1>14. /\ IsFiniteSet(NewIn(mapInfo)) /\ IsFiniteSet(TriedIn(mapInfo))
       /\ nTried = Cardinality(TriedIn(mapInfo)) /\ nNew = Cardinality(NewIn(mapInfo))
       /\ nTried \in Nat /\ nNew \in Nat
  BY <1>0, FiniteEntries, FS_CardinalityType DEF AInv
<1>15. CASE Room
  <2>0. /\ Len(vvTried[k]) < TriedSize /\ vvTried' = [vvTried EXCEPT ![k] = Append(@, n)]
        /\ nTried' = nTried + 1 /\ nNew' = nNew - 1 /\ mapInfo' = there /\ vvNew' = left
        /\ k \in TriedBucket /\ n \in DOMAIN mapInfo
    BY <1>1, <1>2, <1>15 DEF Room
  <2>1. PICK q : q = Append(vvTried[k], n)
    OBVIOUS
  <2>2. /\ q \in Seq(0 .. nIdCount - 1) /\ Len(q) = Len(vvTried[k]) + 1 /\ Once(q)
        /\ Elems(q) = Elems(vvTried[k]) \cup {n}
    <3>1. Pushed(0 .. nIdCount - 1, vvTried[k], n, q)
      BY <1>13, <2>1 DEF Pushed
    <3> QED BY <3>1, AppendIs
  <2>3. /\ vvTried'[k] = q /\ \A j \in TriedBucket : j # k => vvTried'[j] = vvTried[j]
        /\ vvTried' \in [TriedBucket -> Seq(0 .. nIdCount - 1)]
    BY <1>0, <2>0, <2>1, <2>2
  <2>4. Refiled(vvTried, k, n, {}, vvTried', nIdCount)
    <3>1. Len(q) <= TriedSize
      BY <1>0, <1>13, <2>0, <2>2
    <3> QED BY <2>2, <2>3, <3>1 DEF Refiled
  <2>5. Entries(mapInfo', nIdCount) /\ DOMAIN mapInfo' = DOMAIN mapInfo
    BY <1>0, <1>10, <2>0 DEF Entries
  <2>6. Promotes(nIdCount, mapInfo, vvTried, vvNew, n, k, {}, vvTried', vvNew', mapInfo')
    <3>1. /\ mapInfo'[n].fInTried /\ mapInfo'[n].nRefCount = 0 /\ mapInfo'[n].svc = mapInfo[n].svc
          /\ \A m \in DOMAIN mapInfo : m # n => Alike(mapInfo'[m], mapInfo[m])
      BY <1>10, <2>0 DEF Alike
    <3>2. DOMAIN mapInfo' = DOMAIN mapInfo \ {} /\ {} \subseteq Elems(vvTried[k])
      BY <2>5
    <3> QED BY <1>0, <1>3, <1>8, <1>11, <2>0, <2>4, <2>5, <3>1, <3>2 DEF Promotes
  <2>7. /\ Tables(vvTried', vvNew', nIdCount) /\ FiledIn(mapInfo', vvTried', vvNew')
        /\ TriedIn(mapInfo') = TriedIn(mapInfo) \cup {n} /\ NewIn(mapInfo') = NewIn(mapInfo) \ {n}
    <3>1. TriedIn(mapInfo) \ {} = TriedIn(mapInfo)
      OBVIOUS
    <3> QED BY <2>6, <3>1, PromoteKeeps
  <2>8. nTried' = Cardinality(TriedIn(mapInfo')) /\ nNew' = Cardinality(NewIn(mapInfo'))
    <3>1. Cardinality(TriedIn(mapInfo) \cup {n}) = Cardinality(TriedIn(mapInfo)) + 1
      BY <1>8, <1>14, OneMore
    <3>2. Cardinality(NewIn(mapInfo) \ {n}) = Cardinality(NewIn(mapInfo)) - 1
      BY <1>8, <1>14, OneLess
    <3> QED BY <1>14, <2>0, <2>7, <3>1, <3>2
  <2>9. \A m \in DOMAIN mapInfo : mapInfo'[m].svc = mapInfo[m].svc /\ mapInfo'[m].nRandomPos = mapInfo[m].nRandomPos
    BY <1>10, <2>0
  <2>10. Linked(mapInfo', mapAddr, vRandom, nIdCount)
    BY <1>0, <1>10, <2>0, <2>9, LinksKept DEF Linked
  <2>11. TriedStay
    BY <2>5, <2>9 DEF TriedStay, TriedIn
  <2>12. AInv'
    <3>0. (nIdCount \in 0 .. MaxId)'
      BY <1>7 DEF AInv
    <3>1. Linked(mapInfo, mapAddr, vRandom, nIdCount)'
      BY <1>7, <2>10 DEF Linked, Typed, ByHost, ByPlace
    <3>2. Tables(vvTried, vvNew, nIdCount)'
      BY <1>7, <2>7 DEF Tables
    <3>3. FiledIn(mapInfo, vvTried, vvNew)'
      BY <1>7, <2>7 DEF FiledIn
    <3>4. (nTried = Cardinality(TriedIn(mapInfo)))' /\ (nNew = Cardinality(NewIn(mapInfo)))'
      BY <1>7, <2>7, <2>8 DEF AInv
    <3> QED BY <3>0, <3>1, <3>2, <3>3, <3>4 DEF AInv
  <2> QED BY <2>12, <2>11
<1>16. CASE Full(origin)
  <2>1. PICK shuffled \in Shuffles(vvTried[k]), p \in DOMAIN vvTried[k] :
            /\ vvTried' = [vvTried EXCEPT ![k] = [shuffled EXCEPT ![p] = n]]
            /\ mapInfo' = [there EXCEPT ![shuffled[p]] = Evicted(@)]
            /\ vvNew' = [left EXCEPT ![EvictTo(left, mapInfo[shuffled[p]], origin)] = @ \cup {shuffled[p]}]
    BY <1>16 DEF Full, Evicts
  <2>0. UNCHANGED <<nTried, nNew>> /\ k \in TriedBucket /\ n \in DOMAIN mapInfo
    BY <1>1, <1>2, <1>16 DEF Full
  <2>2. PICK old : old = shuffled[p]
    OBVIOUS
  <2>3. PICK q : q = [shuffled EXCEPT ![p] = n]
    OBVIOUS
  <2>4. /\ q \in Seq(0 .. nIdCount - 1) /\ Len(q) = Len(vvTried[k]) /\ Once(q)
        /\ old \in Elems(vvTried[k]) /\ Elems(q) = (Elems(vvTried[k]) \ {old}) \cup {n}
    <3>1. Replaced(0 .. nIdCount - 1, vvTried[k], n, shuffled, p, q)
      BY <1>13, <2>3 DEF Replaced
    <3> QED BY <2>2, <3>1, ShuffleIs
  <2>5. /\ vvTried'[k] = q /\ \A j \in TriedBucket : j # k => vvTried'[j] = vvTried[j]
        /\ vvTried' \in [TriedBucket -> Seq(0 .. nIdCount - 1)]
    BY <2>0, <1>0, <2>1, <2>3, <2>4
  <2>6. Refiled(vvTried, k, n, {old}, vvTried', nIdCount)
    BY <2>0, <1>13, <2>4, <2>5 DEF Refiled
  <2>7. old \in TriedIn(mapInfo) /\ old \in DOMAIN mapInfo /\ old # n
    BY <2>0, <1>8, <1>13, <2>4 DEF TriedIn
  <2>8. /\ mapInfo' \in [DOMAIN mapInfo -> Info] /\ mapInfo'[old].nRefCount = 1 /\ ~mapInfo'[old].fInTried
        /\ mapInfo'[old].svc = mapInfo[old].svc /\ mapInfo'[old].nRandomPos = mapInfo[old].nRandomPos
        /\ mapInfo'[n] = there[n]
        /\ \A m \in DOMAIN mapInfo : m # old /\ m # n => mapInfo'[m] = mapInfo[m]
    <3>1. DOMAIN there = DOMAIN mapInfo /\ there \in [DOMAIN there -> Info] /\ old \in DOMAIN there
      BY <1>10, <2>7
    <3>2. mapInfo' = [there EXCEPT ![old] = Evicted(@)]
      BY <2>1, <2>2
    <3>3. /\ mapInfo' \in [DOMAIN there -> Info] /\ mapInfo'[old].nRefCount = 1 /\ ~mapInfo'[old].fInTried
          /\ mapInfo'[old].svc = there[old].svc /\ mapInfo'[old].nRandomPos = there[old].nRandomPos
          /\ \A m \in DOMAIN there : m # old => mapInfo'[m] = there[m]
      BY <3>1, <3>2, EvictedIs
    <3> QED BY <2>0, <1>10, <2>7, <3>1, <3>3
  \* The state between the two: the old entry is in no table.
  <2>9. PICK g : g = [m \in DOMAIN mapInfo \ {old} |-> mapInfo'[m]]
    OBVIOUS
  <2>10. /\ DOMAIN g = DOMAIN mapInfo \ {old} /\ \A m \in DOMAIN g : g[m] = mapInfo'[m]
         /\ Entries(g, nIdCount) /\ n \in DOMAIN g
    <3>1. DOMAIN g = DOMAIN mapInfo \ {old} /\ \A m \in DOMAIN g : g[m] = mapInfo'[m]
      BY <2>9
    <3>2. g \in [DOMAIN g -> Info]
      BY <2>8, <2>9, <3>1
    <3> QED BY <2>0, <1>0, <2>7, <3>1, <3>2 DEF Entries
  <2>11. Promotes(nIdCount, mapInfo, vvTried, vvNew, n, k, {old}, vvTried', left, g)
    <3>1. g[n].fInTried /\ g[n].nRefCount = 0 /\ g[n].svc = mapInfo[n].svc
      BY <2>0, <1>10, <2>8, <2>10
    <3>2. \A m \in DOMAIN g : m # n => Alike(g[m], mapInfo[m])
      BY <2>8, <2>10 DEF Alike
    <3>3. {old} \subseteq Elems(vvTried[k])
      BY <2>4
    <3> QED BY <2>0, <1>0, <1>3, <1>8, <1>11, <2>6, <2>10, <3>1, <3>2, <3>3 DEF Promotes
  <2>12. /\ Tables(vvTried', left, nIdCount) /\ FiledIn(g, vvTried', left)
         /\ TriedIn(g) = (TriedIn(mapInfo) \ {old}) \cup {n} /\ NewIn(g) = NewIn(mapInfo) \ {n}
    BY <2>11, PromoteKeeps
  <2>13. PICK to : to = EvictTo(left, mapInfo[old], origin)
    OBVIOUS
  <2>14. to \in NewBucket /\ Cardinality(left[to]) < NewSize
    <3>1. PICK own \in NewBucket : own = GetNewBucket[<<mapInfo[old].svc, mapInfo[old].source>>]
      <4>1. mapInfo[old].svc \in Service /\ mapInfo[old].source \in Source
        BY <1>0, <2>7 DEF Entries, Info
      <4> QED BY <4>1, AddrAssumption
    <3>2. to = IF Cardinality(left[own]) < NewSize THEN own ELSE origin
      BY <2>13, <3>1 DEF EvictTo
    <3>3. origin \in NewBucket /\ n \in vvNew[origin]
      BY <1>4 DEF HoldingIn
    <3>4. Cardinality(left[origin]) < NewSize
      <4>1. IsFiniteSet(vvNew[origin]) /\ Cardinality(vvNew[origin]) <= NewSize
        BY <1>0, <3>3, FiniteTables DEF Tables
      <4>2. /\ Cardinality(vvNew[origin] \ {n}) = Cardinality(vvNew[origin]) - 1
            /\ Cardinality(vvNew[origin]) \in Nat
        BY <3>3, <4>1, OneLess
      <4>3. left[origin] = vvNew[origin] \ {n}
        BY <1>11, <3>3
      <4>4. Cardinality(left[origin]) = Cardinality(vvNew[origin]) - 1
        BY <4>2, <4>3
      <4> QED BY <1>0, <4>1, <4>2, <4>4
    <3> QED BY <3>1, <3>2, <3>3, <3>4
  <2>15. Except(left, to, left[to] \cup {old}, vvNew') /\ old \notin left[to]
    <3>1. vvNew' = [left EXCEPT ![to] = @ \cup {old}]
      BY <2>1, <2>2, <2>13
    <3>2. old \in 0 .. nIdCount - 1
      BY <1>0, <2>7 DEF Entries
    <3>3. old \notin left[to]
      BY <2>12, <2>14, <2>10 DEF FiledIn, OfNew, NewIn
    <3>4. vvNew' \in [NewBucket -> SUBSET Nat]
      <4>1. 0 .. nIdCount - 1 \subseteq Nat
        BY <1>0
      <4>2. left \in [NewBucket -> SUBSET Nat] /\ old \in Nat
        BY <1>11, <3>2, <4>1
      <4> QED BY <2>14, <3>1, <4>2
    <3> QED BY <1>11, <2>14, <3>1, <3>3, <3>4 DEF Except
  <2>16. Referenced(g, old, mapInfo') /\ Entries(mapInfo', nIdCount) /\ old \notin DOMAIN g
    <3>1. DOMAIN mapInfo' = DOMAIN mapInfo
      BY <2>8
    <3>2. old \notin DOMAIN g /\ DOMAIN mapInfo' = DOMAIN g \cup {old}
      BY <2>7, <2>10, <3>1
    <3>3. Entries(mapInfo', nIdCount)
      BY <1>0, <2>8, <3>1 DEF Entries
    <3>4. \A m \in DOMAIN g : m # old => Alike(mapInfo'[m], g[m])
      BY <2>10 DEF Alike
    <3> QED BY <2>8, <3>2, <3>3, <3>4 DEF Referenced
  <2>17. Enters(nIdCount, nIdCount, g, vvTried', left, to, old, vvNew', mapInfo')
    BY <1>0, <2>10, <2>12, <2>14, <2>15, <2>16 DEF Enters
  <2>18. /\ Tables(vvTried', vvNew', nIdCount) /\ FiledIn(mapInfo', vvTried', vvNew')
         /\ TriedIn(mapInfo') = TriedIn(g) /\ NewIn(mapInfo') = NewIn(g) \cup {old}
    BY <2>17, ReferenceKeeps
  <2>19. Cardinality(TriedIn(mapInfo')) = nTried /\ Cardinality(NewIn(mapInfo')) = nNew
    <3>1. /\ Cardinality(TriedIn(mapInfo) \ {old}) = nTried - 1 /\ IsFiniteSet(TriedIn(mapInfo) \ {old})
      BY <1>14, <2>7, OneLess
    <3>2. n \notin TriedIn(mapInfo) \ {old}
      BY <1>8
    <3>3. Cardinality((TriedIn(mapInfo) \ {old}) \cup {n}) = nTried - 1 + 1
      BY <3>1, <3>2, OneMore
    <3>4. /\ Cardinality(NewIn(mapInfo) \ {n}) = nNew - 1 /\ IsFiniteSet(NewIn(mapInfo) \ {n})
      BY <1>8, <1>14, OneLess
    <3>5. old \notin NewIn(mapInfo) \ {n}
      BY <2>7 DEF NewIn
    <3>6. Cardinality((NewIn(mapInfo) \ {n}) \cup {old}) = nNew - 1 + 1
      BY <3>4, <3>5, OneMore
    <3> QED BY <1>14, <2>12, <2>18, <3>3, <3>6
  <2>20. \A m \in DOMAIN mapInfo : mapInfo'[m].svc = mapInfo[m].svc /\ mapInfo'[m].nRandomPos = mapInfo[m].nRandomPos
    BY <2>0, <1>10, <2>8
  <2>21. Linked(mapInfo', mapAddr, vRandom, nIdCount)
    BY <1>0, <2>8, <2>20, LinksKept DEF Linked
  <2>22. TriedStay
    BY <2>8, <2>20 DEF TriedStay, TriedIn
  <2>23. AInv'
    <3>0. (nIdCount \in 0 .. MaxId)'
      BY <1>7, <2>0 DEF AInv
    <3>1. Linked(mapInfo, mapAddr, vRandom, nIdCount)'
      BY <1>7, <2>0, <2>21 DEF Linked, Typed, ByHost, ByPlace
    <3>2. Tables(vvTried, vvNew, nIdCount)'
      BY <1>7, <2>0, <2>18 DEF Tables
    <3>3. FiledIn(mapInfo, vvTried, vvNew)'
      BY <1>7, <2>0, <2>18 DEF FiledIn
    <3>4. (nTried = Cardinality(TriedIn(mapInfo)))' /\ (nNew = Cardinality(NewIn(mapInfo)))'
      BY <1>7, <2>0, <2>18, <2>19 DEF AInv
    <3> QED BY <3>0, <3>1, <3>2, <3>3, <3>4 DEF AInv
  <2> QED BY <2>23, <2>22
<1> QED BY <1>12, <1>15, <1>16

-----------------------------------------------------------------------------
(* GetAddr_.                                                               *)

\* The indexes that differ from x in the order of vRandom only.
Reordered(x, N) ==
  {y \in [info : [DOMAIN x.info -> Info], addr : {x.addr}, rnd : Seq(0 .. N - 1)] :
     Sound(y, N) /\ AllAlike(y.info, x.info) /\ Len(y.rnd) = Len(x.rnd)}

\* Swapping two places of one of them gives another.
LEMMA ReorderedStays ==
  ASSUME NEW N \in Nat, NEW x, Sound(x, N), NEW y \in Reordered(x, N),
         NEW i \in 1 .. Len(x.rnd), NEW j \in 1 .. Len(x.rnd)
  PROVE  SwapRandom(y, i, j) \in Reordered(x, N)
<1>1. PICK z : z = SwapRandom(y, i, j)
  OBVIOUS
<1>2. /\ Sound(y, N) /\ AllAlike(y.info, x.info) /\ y.addr = x.addr /\ Len(y.rnd) = Len(x.rnd)
  BY DEF Reordered
<1>3. /\ Sound(z, N) /\ AllAlike(z.info, y.info) /\ z.addr = y.addr /\ Len(z.rnd) = Len(y.rnd)
  <2>1. i \in 1 .. Len(y.rnd) /\ j \in 1 .. Len(y.rnd)
    BY <1>2
  <2>2. Swaps(y, N, i, j, z)
    BY <1>1, <1>2, <2>1 DEF Swaps
  <2> QED BY <2>2, SwapRandomKeeps
<1>4. AllAlike(z.info, x.info)
  BY <1>2, <1>3 DEF AllAlike, Alike
<1>5. /\ z = [info |-> z.info, addr |-> z.addr, rnd |-> z.rnd]
      /\ z.info \in [DOMAIN x.info -> Info] /\ z.rnd \in Seq(0 .. N - 1)
  BY <1>3, <1>4 DEF Sound, Typed, AllAlike
<1>6. z \in [info : [DOMAIN x.info -> Info], addr : {x.addr}, rnd : Seq(0 .. N - 1)]
  <2>1. PICK f, r : f = z.info /\ r = z.rnd
    OBVIOUS
  <2>2. z = [info |-> f, addr |-> x.addr, rnd |-> r] /\ f \in [DOMAIN x.info -> Info] /\ r \in Seq(0 .. N - 1)
    BY <1>2, <1>3, <1>5, <2>1
  <2> QED BY <2>2
<1> QED BY <1>1, <1>2, <1>3, <1>4, <1>6 DEF Reordered

\* Any number of swaps does.
LEMMA DrawnIs ==
  ASSUME NEW N \in Nat, NEW x, Sound(x, N), NEW n \in Nat,
         NEW pos \in [1 .. n -> 1 .. Len(x.rnd)], n <= Len(x.rnd)
  PROVE  Drawn(x, n, pos) \in Reordered(x, N)
<1> DEFINE D == Reordered(x, N)
           F == [z \in D \X (1 .. n) |-> SwapRandom(z[1], z[2], pos[z[2]])]
           P(f) == f = [i \in 0 .. n |-> IF i = 0 THEN x ELSE SwapRandom(f[i - 1], i, pos[i])]
           h == CHOOSE f : P(f)
<1>0. Len(x.rnd) \in Nat
  BY DEF Sound, Typed
<1>1. x \in D
  <2>1. PICK f, a, r : f = x.info /\ a = x.addr /\ r = x.rnd
    OBVIOUS
  <2>2. x = [info |-> f, addr |-> a, rnd |-> r] /\ f \in [DOMAIN f -> Info] /\ r \in Seq(0 .. N - 1)
    BY <2>1 DEF Sound, Typed
  <2>3. x \in [info : [DOMAIN x.info -> Info], addr : {x.addr}, rnd : Seq(0 .. N - 1)]
    BY <2>1, <2>2
  <2> QED BY <2>3 DEF Reordered, AllAlike, Alike
<1>2. ASSUME NEW y \in D, NEW i \in 1 .. n PROVE SwapRandom(y, i, pos[i]) \in D
  <2>1. i \in 1 .. Len(x.rnd) /\ pos[i] \in 1 .. Len(x.rnd)
    BY <1>0
  <2> QED BY <2>1, ReorderedStays
<1> HIDE DEF D
<1>3. F \in [D \X (1 .. n) -> D] /\ \A y \in D : \A i \in 1 .. n : F[<<y, i>>] = SwapRandom(y, i, pos[i])
  BY <1>2
<1> HIDE DEF F
<1>4. PICK f \in [0 .. n -> D] : f[0] = x /\ \A i \in 1 .. n : f[i] = F[<<f[i - 1], i>>]
  <2>1. Turns(D, x, n, F)
    BY <1>1, <1>3 DEF Turns
  <2>2. PICK f : Trace(f, D, x, n, F)
    BY <2>1, LoopExists
  <2> QED BY <2>2 DEF Trace
<1>5. P(f)
  <2>1. ASSUME NEW i \in 0 .. n PROVE f[i] = IF i = 0 THEN x ELSE SwapRandom(f[i - 1], i, pos[i])
    <3>1. CASE i = 0
      BY <1>4, <3>1
    <3>2. CASE i # 0
      <4>1. i \in 1 .. n /\ i - 1 \in 0 .. n
        BY <3>2
      <4>2. f[i - 1] \in D
        BY <4>1
      <4> QED BY <1>3, <1>4, <3>2, <4>1, <4>2
    <3> QED BY <3>1, <3>2
  <2> QED BY <2>1
<1>6. P(h)
  <2> HIDE DEF P
  <2> QED BY <1>5
<1>7. Drawn(x, n, pos) = h[n]
  BY DEF Drawn
<1> HIDE DEF h
<1>8. /\ h[0] = x /\ \A i \in 1 .. n : h[i] = SwapRandom(h[i - 1], i, pos[i])
  BY <1>6
<1> HIDE DEF P
<1> DEFINE S == {i \in 0 .. n : h[i] \in D}
<1>9. 0 \in S
  BY <1>1, <1>8
<1>10. ASSUME NEW i \in 1 .. n, i - 1 \in S PROVE i \in S
  BY <1>2, <1>8, <1>10
<1> HIDE DEF S
<1>11. \A i \in 0 .. n : i \in S
  BY <1>9, <1>10, UpTo
<1>12. n \in S
  BY <1>11
<1> QED BY <1>7, <1>12 DEF S, D

\* If the entries are alike, everything stays filed.
LEMMA AlikeFiled ==
  ASSUME NEW info, NEW g, AllAlike(g, info), NEW T, NEW W, FiledIn(info, T, W)
  PROVE  FiledIn(g, T, W) /\ TriedIn(g) = TriedIn(info) /\ NewIn(g) = NewIn(info)
<1>1. /\ DOMAIN g = DOMAIN info
      /\ \A n \in DOMAIN info : /\ g[n].svc = info[n].svc /\ g[n].nRefCount = info[n].nRefCount
                                /\ g[n].fInTried = info[n].fInTried
  BY DEF AllAlike, Alike
<1>2. TriedIn(g) = TriedIn(info)
  BY <1>1 DEF TriedIn
<1>3. NewIn(g) = NewIn(info)
  BY <1>1, <1>2 DEF NewIn
<1>4. \A n \in DOMAIN info : BucketIn(g, n) = BucketIn(info, n)
  BY <1>1 DEF BucketIn
<1>5. TriedIn(info) \subseteq DOMAIN info /\ NewIn(info) \subseteq DOMAIN info
  BY DEF TriedIn, NewIn
<1>6. InTried(g, T, W)
  BY <1>1, <1>2, <1>4, <1>5 DEF FiledIn, InTried
<1>7. InNew(g, W)
  BY <1>1, <1>3, <1>5 DEF FiledIn, InNew
<1>8. OfTried(g, T)
  BY <1>2, <1>4, <1>5 DEF FiledIn, OfTried
<1>9. OfNew(g, W)
  BY <1>3 DEF FiledIn, OfNew
<1> QED BY <1>2, <1>3, <1>6, <1>7, <1>8, <1>9 DEF FiledIn

\* GetAddr_ changes the order of vRandom, and what leads to it.
LEMMA GetAddrKeeps ==
  ASSUME AInv, GetAddr
  PROVE  AInv' /\ TriedStay
<1>0. /\ Sound(Index, nIdCount) /\ Index.info = mapInfo /\ Index.rnd = vRandom /\ nIdCount \in Nat
      /\ Tables(vvTried, vvNew, nIdCount) /\ FiledIn(mapInfo, vvTried, vvNew)
  BY IndexIs DEF AInv
<1>1. Len(vRandom) \in Nat /\ DOMAIN vRandom = 1 .. Len(vRandom)
  BY DEF AInv, Linked, Typed
<1> DEFINE share == (GetAddrPct * Len(vRandom)) \div 100
<1>2. PICK n : n = IF share > GetAddrMax THEN GetAddrMax ELSE share
  OBVIOUS
<1>3. n \in Nat /\ n <= Len(vRandom)
  <2>1. share \in Nat /\ share <= Len(vRandom) /\ GetAddrMax \in Nat
    BY <1>1, AddrAssumption
  <2> HIDE DEF share
  <2> QED BY <1>1, <1>2, <2>1
<1>4. PICK pos \in [1 .. n -> 1 .. Len(vRandom)] : SetIndex(Drawn(Index, n, pos))
  BY <1>1, <1>2 DEF GetAddr
<1>5. PICK y : y = Drawn(Index, n, pos)
  OBVIOUS
<1>6. y \in Reordered(Index, nIdCount)
  BY <1>0, <1>3, <1>5, DrawnIs
<1>7. Sound(y, nIdCount) /\ AllAlike(y.info, mapInfo)
  BY <1>0, <1>6 DEF Reordered
<1>8. Linked(mapInfo, mapAddr, vRandom, nIdCount)' /\ AllAlike(mapInfo', mapInfo)
  <2>1. UNCHANGED nIdCount
    BY DEF GetAddr
  <2> QED BY <1>4, <1>5, <1>7, <2>1, SetIs DEF Linked, Typed
<1>9. /\ FiledIn(mapInfo', vvTried, vvNew) /\ TriedIn(mapInfo') = TriedIn(mapInfo)
      /\ NewIn(mapInfo') = NewIn(mapInfo)
  BY <1>0, <1>8, AlikeFiled
<1>10. UNCHANGED <<nIdCount, nTried, nNew, vvTried, vvNew>>
  BY DEF GetAddr
<1>11. TriedStay
  BY <1>8 DEF TriedStay, TriedIn, AllAlike, Alike
<1> QED BY <1>8, <1>9, <1>10, <1>11 DEF AInv, Tables, FiledIn

-----------------------------------------------------------------------------
(* peers.dat: the order in which it is written.                            *)

Increasing(s) == \A i, j \in DOMAIN s : i < j => s[i] < s[j]

\* A finite set of numbers can be put in order.
LEMMA AscendingExists ==
  ASSUME NEW S \in SUBSET Nat, IsFiniteSet(S)
  PROVE  \E s \in [1 .. Cardinality(S) -> S] : Increasing(s)
<1> DEFINE n == Cardinality(S)
           Ordered(Q, k) == \E s \in [1 .. k -> Q] : Increasing(s)
           G == {k \in 0 .. n : \A Q \in SUBSET Nat : IsFiniteSet(Q) /\ Cardinality(Q) = k => Ordered(Q, k)}
<1>0. n \in Nat
  BY FS_CardinalityType
<1>1. 0 \in G
  <2>1. ASSUME NEW Q \in SUBSET Nat PROVE Ordered(Q, 0)
    <3> DEFINE s == [i \in 1 .. 0 |-> 0]
    <3>1. s \in [1 .. 0 -> Q] /\ Increasing(s)
      BY DEF Increasing
    <3> QED BY <3>1
  <2> HIDE DEF Ordered
  <2> QED BY <1>0, <2>1
<1>2. ASSUME NEW k \in 1 .. n, k - 1 \in G PROVE k \in G
  <2> SUFFICES ASSUME NEW Q \in SUBSET Nat, IsFiniteSet(Q), Cardinality(Q) = k PROVE Ordered(Q, k)
    BY <1>0 DEF Ordered
  <2>1. k \in Nat /\ k # 0
    BY <1>0
  <2>2. Q # {}
    BY <2>1, FS_EmptySet
  <2>3. PICK x \in Q : \A m \in Q : x <= m
    BY <2>2, LeastExists
  <2>4. Q \ {x} \in SUBSET Nat /\ IsFiniteSet(Q \ {x}) /\ Cardinality(Q \ {x}) = k - 1
    BY OneLess
  <2>5. PICK t \in [1 .. k - 1 -> Q \ {x}] : Increasing(t)
    BY <1>2, <2>4
  <2> DEFINE s == [i \in 1 .. k |-> IF i = 1 THEN x ELSE t[i - 1]]
  <2>6. \A i \in 1 .. k : i # 1 => i - 1 \in 1 .. k - 1 /\ s[i] = t[i - 1] /\ s[i] \in Q /\ x < s[i]
    <3>1. ASSUME NEW i \in 1 .. k, i # 1
          PROVE  i - 1 \in 1 .. k - 1 /\ s[i] = t[i - 1] /\ s[i] \in Q /\ x < s[i]
      <4>1. i - 1 \in 1 .. k - 1
        BY <2>1, <3>1
      <4>2. s[i] = t[i - 1] /\ t[i - 1] \in Q \ {x}
        BY <3>1, <4>1
      <4>3. x \in Nat /\ t[i - 1] \in Nat
        BY <4>2
      <4> QED BY <2>3, <4>1, <4>2, <4>3
    <3> QED BY <3>1
  <2>7. s[1] = x /\ DOMAIN s = 1 .. k /\ 1 \in 1 .. k
    BY <2>1
  <2>8. s \in [1 .. k -> Q]
    BY <2>6, <2>7
  <2> HIDE DEF s
  <2>9. Increasing(s)
    <3> SUFFICES ASSUME NEW i \in 1 .. k, NEW j \in 1 .. k, i < j PROVE s[i] < s[j]
      BY <2>7 DEF Increasing
    <3>1. j # 1
      OBVIOUS
    <3>2. CASE i = 1
      BY <2>6, <2>7, <3>1, <3>2
    <3>3. CASE i # 1
      <4>1. i - 1 \in 1 .. k - 1 /\ j - 1 \in 1 .. k - 1 /\ i - 1 < j - 1 /\ DOMAIN t = 1 .. k - 1
        BY <2>6, <3>1, <3>3
      <4>2. t[i - 1] < t[j - 1]
        BY <2>5, <4>1 DEF Increasing
      <4> QED BY <2>6, <3>1, <3>3, <4>2
    <3> QED BY <3>2, <3>3
  <2> QED BY <2>8, <2>9
<1> HIDE DEF G, n
<1>3. \A i \in 0 .. n : i \in G
  BY <1>0, <1>1, <1>2, UpTo
<1>4. n \in G
  BY <1>0, <1>3
<1> QED BY <1>4 DEF G, n

\* s lists the set S, in order.
Lists(s, S) ==
  /\ s \in Seq(S) /\ Len(s) = Cardinality(S) /\ s \in [1 .. Len(s) -> S]
  /\ \A i, j \in 1 .. Len(s) : i < j => s[i] < s[j]
  /\ Once(s) /\ Elems(s) = S

\* Ascending does.
LEMMA AscendingIs ==
  ASSUME NEW S \in SUBSET Nat, IsFiniteSet(S)
  PROVE  Lists(Ascending(S), S)
<1>0. Cardinality(S) \in Nat
  BY FS_CardinalityType
<1>1. PICK s : s = Ascending(S)
  OBVIOUS
<1>2. s \in [1 .. Cardinality(S) -> S] /\ \A i, j \in DOMAIN s : i < j => s[i] < s[j]
  <2>1. \E t \in [1 .. Cardinality(S) -> S] : \A i, j \in DOMAIN t : i < j => t[i] < t[j]
    BY AscendingExists DEF Increasing
  <2> QED BY <1>1, <2>1 DEF Ascending
<1>3. s \in Seq(S) /\ Len(s) = Cardinality(S)
  BY <1>0, <1>2, FunctionIsSeq
<1>4. \A i, j \in 1 .. Len(s) : i < j => s[i] < s[j]
  BY <1>2, <1>3
<1>5. \A i \in 1 .. Len(s) : s[i] \in S /\ s[i] \in Nat
  BY <1>2, <1>3
<1>6. Once(s)
  <2> SUFFICES ASSUME NEW i \in 1 .. Len(s), NEW j \in 1 .. Len(s), s[i] = s[j], i # j PROVE FALSE
    BY DEF Once
  <2>1. i < j \/ j < i
    BY <1>0, <1>3
  <2> QED BY <1>4, <1>5, <2>1
<1>7. Elems(s) = S
  <2>1. IsInjective(s)
    BY <1>2, <1>3, <1>6 DEF IsInjective, Once
  <2>2. s \in Injection(1 .. Cardinality(S), S)
    BY <1>2, <2>1 DEF Injection
  <2>3. Cardinality(1 .. Cardinality(S)) = Cardinality(S)
    BY <1>0, CardinalityUpTo
  <2>4. s \in Surjection(1 .. Cardinality(S), S)
    BY <2>2, <2>3, FS_Injection
  <2>5. \A n \in S : \E i \in 1 .. Cardinality(S) : s[i] = n
    BY <2>4 DEF Surjection
  <2> QED BY <1>3, <1>5, <2>5 DEF Elems
<1>8. s \in [1 .. Len(s) -> S]
  BY <1>2, <1>3
<1> QED BY <1>1, <1>3, <1>4, <1>6, <1>7, <1>8 DEF Lists

\* The first numbers, in order, are themselves.
LEMMA OrderedIsSame ==
  ASSUME NEW l \in Nat, NEW s, Lists(s, 1 .. l)
  PROVE  Len(s) = l /\ \A i \in 1 .. l : s[i] = i
<1>0. Len(s) = l
  BY CardinalityUpTo DEF Lists
<1>1. /\ s \in [1 .. l -> 1 .. l] /\ \A i, j \in 1 .. l : i < j => s[i] < s[j]
      /\ \A i, j \in 1 .. l : s[i] = s[j] => i = j
      /\ \A n \in 1 .. l : \E i \in 1 .. l : s[i] = n
  BY <1>0 DEF Lists, Once, Elems
<1>2. SUFFICES ASSUME ~(\A i \in 1 .. l : s[i] = i) PROVE FALSE
  BY <1>0
<1> DEFINE B == {i \in 1 .. l : s[i] # i}
<1>3. B \subseteq Nat /\ B # {}
  BY <1>2
<1>4. PICK i \in B : \A m \in B : i <= m
  BY <1>3, LeastExists
<1>5. i \in 1 .. l /\ s[i] # i /\ \A m \in 1 .. l : m < i => s[m] = m
  BY <1>4
<1>6. PICK j \in 1 .. l : s[j] = i
  BY <1>1, <1>5
<1>7. i < j
  BY <1>5, <1>6
<1>8. s[i] \in 1 .. l /\ s[i] < i
  BY <1>1, <1>5, <1>6, <1>7
<1>9. s[s[i]] = s[i]
  BY <1>5, <1>8
<1> QED BY <1>1, <1>5, <1>8, <1>9

\* What is found in a sequence, all different, is not more than its places.
LEMMA FitsIn ==
  ASSUME NEW J, NEW u, NEW t, Len(t) \in Nat, \A j \in J : u[j] \in Elems(t),
         \A i, j \in J : u[i] = u[j] => i = j
  PROVE  IsFiniteSet(J) /\ Cardinality(J) <= Len(t)
<1> DEFINE f == [j \in J |-> CHOOSE p \in 1 .. Len(t) : t[p] = u[j]]
<1>1. ASSUME NEW j \in J PROVE f[j] \in 1 .. Len(t) /\ t[f[j]] = u[j]
  <2>1. \E p \in 1 .. Len(t) : t[p] = u[j]
    BY DEF Elems
  <2> QED BY <2>1
<1>2. f \in [J -> 1 .. Len(t)]
  BY <1>1
<1>3. DOMAIN f = J
  OBVIOUS
<1> HIDE DEF f
<1>4. IsInjective(f)
  <2> SUFFICES ASSUME NEW i \in J, NEW j \in J, f[i] = f[j] PROVE i = j
    BY <1>3 DEF IsInjective
  <2>1. u[i] = u[j]
    BY <1>1
  <2> QED BY <2>1
<1>5. f \in Injection(J, 1 .. Len(t))
  BY <1>2, <1>4 DEF Injection
<1>6. IsFiniteSet(1 .. Len(t)) /\ Cardinality(1 .. Len(t)) = Len(t)
  BY CardinalityUpTo
<1> QED BY <1>5, <1>6, FS_Injection

\* The entries of info under other ids, the number of the place in q of what they were: in
\* g, and filed in S and X.
Renames(N, info, T, W, L, q, g, S, X) ==
  /\ N \in Nat /\ Entries(info, N) /\ Tables(T, W, N) /\ FiledIn(info, T, W)
  /\ L \in Nat /\ q \in [0 .. L - 1 -> DOMAIN info]
  /\ \A i, j \in 0 .. L - 1 : q[i] = q[j] => i = j
  /\ g \in [0 .. L - 1 -> Info] /\ \A i \in 0 .. L - 1 : Alike(g[i], info[q[i]])
  /\ X \in [NewBucket -> SUBSET (0 .. L - 1)]
  /\ \A b \in NewBucket : \A i \in 0 .. L - 1 : i \in X[b] <=> q[i] \in W[b]
  /\ S \in [TriedBucket -> Seq(0 .. L - 1)]
  /\ \A k \in TriedBucket :
       /\ Once(S[k])
       /\ \A i \in 0 .. L - 1 : i \in Elems(S[k]) <=> q[i] \in TriedIn(info) /\ BucketIn(info, q[i]) = k

\* They are filed as they were.
LEMMA Renamed ==
  ASSUME NEW N, NEW info, NEW T, NEW W, NEW L, NEW q, NEW g, NEW S, NEW X,
         Renames(N, info, T, W, L, q, g, S, X)
  PROVE  /\ Tables(S, X, L) /\ FiledIn(g, S, X) /\ Entries(g, L)
         /\ \A i \in 0 .. L - 1 : /\ i \in TriedIn(g) <=> q[i] \in TriedIn(info)
                                  /\ i \in NewIn(g) <=> q[i] \in NewIn(info)
                                  /\ HoldingIn(X, i) = HoldingIn(W, q[i])
<1> USE DEF Renames
<1>1. DOMAIN g = 0 .. L - 1 /\ Entries(g, L)
  BY DEF Entries
<1>2. ASSUME NEW i \in 0 .. L - 1
      PROVE  /\ q[i] \in DOMAIN info /\ g[i].nRefCount = info[q[i]].nRefCount
             /\ i \in TriedIn(g) <=> q[i] \in TriedIn(info)
             /\ i \in NewIn(g) <=> q[i] \in NewIn(info)
             /\ BucketIn(g, i) = BucketIn(info, q[i]) /\ BucketIn(g, i) \in TriedBucket
             /\ HoldingIn(X, i) = HoldingIn(W, q[i])
  <2>1. q[i] \in DOMAIN info /\ Alike(g[i], info[q[i]]) /\ i \in DOMAIN g
    BY <1>1
  <2>2. i \in TriedIn(g) <=> q[i] \in TriedIn(info)
    BY <2>1 DEF TriedIn, Alike
  <2>3. i \in NewIn(g) <=> q[i] \in NewIn(info)
    BY <2>1, <2>2 DEF NewIn
  <2>4. BucketIn(g, i) = BucketIn(info, q[i]) /\ g[i].nRefCount = info[q[i]].nRefCount
    BY <2>1 DEF BucketIn, Alike
  <2>5. BucketIn(g, i) \in TriedBucket
    <3>1. g[i].svc \in Service
      BY DEF Info
    <3> QED BY <3>1, AddrAssumption DEF BucketIn
  <2>6. HoldingIn(X, i) = HoldingIn(W, q[i])
    BY DEF HoldingIn
  <2> QED BY <2>1, <2>2, <2>3, <2>4, <2>5, <2>6
<1>3. InTried(g, S, X)
  <2> SUFFICES ASSUME NEW i \in TriedIn(g)
               PROVE  /\ g[i].nRefCount = 0 /\ HoldingIn(X, i) = {}
                      /\ \E p \in 1 .. Len(S[BucketIn(g, i)]) : S[BucketIn(g, i)][p] = i
    BY DEF InTried
  <2>1. i \in 0 .. L - 1
    BY <1>1 DEF TriedIn
  <2>2. q[i] \in TriedIn(info) /\ info[q[i]].nRefCount = 0 /\ HoldingIn(W, q[i]) = {}
    BY <1>2, <2>1 DEF FiledIn, InTried
  <2>3. i \in Elems(S[BucketIn(g, i)])
    BY <1>2, <2>1, <2>2
  <2> QED BY <1>2, <2>1, <2>2, <2>3 DEF Elems
<1>4. InNew(g, X)
  <2> SUFFICES ASSUME NEW i \in NewIn(g)
               PROVE  g[i].nRefCount = Cardinality(HoldingIn(X, i)) /\ g[i].nRefCount \in 1 .. MaxRef
    BY DEF InNew
  <2>1. i \in 0 .. L - 1
    BY <1>1 DEF NewIn
  <2>2. /\ q[i] \in NewIn(info) /\ info[q[i]].nRefCount = Cardinality(HoldingIn(W, q[i]))
        /\ info[q[i]].nRefCount \in 1 .. MaxRef
    BY <1>2, <2>1 DEF FiledIn, InNew
  <2> QED BY <1>2, <2>1, <2>2
<1>5. ASSUME NEW k \in TriedBucket
      PROVE  /\ S[k] \in Seq(0 .. L - 1) /\ Once(S[k]) /\ Len(S[k]) \in Nat
             /\ \A p \in 1 .. Len(S[k]) :
                  /\ S[k][p] \in 0 .. L - 1 /\ q[S[k][p]] \in TriedIn(info) /\ BucketIn(info, q[S[k][p]]) = k
  <2>1. S[k] \in Seq(0 .. L - 1) /\ Once(S[k])
    OBVIOUS
  <2>2. ASSUME NEW p \in 1 .. Len(S[k])
        PROVE  /\ S[k][p] \in 0 .. L - 1 /\ q[S[k][p]] \in TriedIn(info) /\ BucketIn(info, q[S[k][p]]) = k
    <3>1. S[k][p] \in 0 .. L - 1
      BY <2>1
    <3>2. S[k][p] \in Elems(S[k])
      BY DEF Elems
    <3> QED BY <3>1, <3>2
  <2> QED BY <2>1, <2>2
<1>6. OfTried(g, S)
  BY <1>2, <1>5 DEF OfTried, Once
<1>7. OfNew(g, X)
  <2> SUFFICES ASSUME NEW b \in NewBucket, NEW i \in X[b] PROVE i \in NewIn(g)
    BY DEF OfNew
  <2>1. i \in 0 .. L - 1
    OBVIOUS
  <2>2. q[i] \in W[b]
    BY <2>1
  <2> QED BY <1>2, <2>1, <2>2 DEF FiledIn, OfNew
<1>8. ASSUME NEW b \in NewBucket PROVE Cardinality(X[b]) <= NewSize
  <2>1. IsFiniteSet(W[b]) /\ Cardinality(W[b]) \in Nat /\ Cardinality(W[b]) <= NewSize
    BY FiniteTables DEF Tables
  <2> DEFINE f == [i \in X[b] |-> q[i]]
  <2>2. \A i \in X[b] : i \in 0 .. L - 1 /\ q[i] \in W[b]
    OBVIOUS
  <2>3. f \in [X[b] -> W[b]] /\ IsInjective(f)
    BY <2>2 DEF IsInjective
  <2>4. f \in Injection(X[b], W[b])
    BY <2>3 DEF Injection
  <2> HIDE DEF f
  <2>5. IsFiniteSet(X[b]) /\ Cardinality(X[b]) <= Cardinality(W[b])
    BY <2>1, <2>4, FS_Injection
  <2>6. Cardinality(X[b]) \in Nat /\ NewSize \in Nat
    BY <2>5, FS_CardinalityType, AddrAssumption
  <2> QED BY <2>1, <2>5, <2>6
<1>9. ASSUME NEW k \in TriedBucket PROVE Len(S[k]) <= TriedSize
  <2>1. T[k] \in Seq(0 .. N - 1) /\ Len(T[k]) \in Nat /\ Len(T[k]) <= TriedSize
    BY DEF Tables
  <2> DEFINE J == 1 .. Len(S[k])
             u == [p \in J |-> q[S[k][p]]]
  <2>2. \A p \in J : u[p] \in Elems(T[k])
    <3>1. ASSUME NEW p \in J PROVE u[p] \in Elems(T[k])
      <4>1. u[p] \in TriedIn(info) /\ BucketIn(info, u[p]) = k
        BY <1>5
      <4>2. InTried(info, T, W)
        BY DEF FiledIn
      <4>3. \E i \in 1 .. Len(T[k]) : T[k][i] = u[p]
        BY SMTT(30), <4>1, <4>2 DEF InTried
      <4> HIDE DEF u, Renames
      <4> QED BY <4>3 DEF Elems
    <3> QED BY <3>1
  <2>3. \A p, o \in J : u[p] = u[o] => p = o
    BY <1>5 DEF Once
  <2> HIDE DEF u
  <2>4. Cardinality(J) <= Len(T[k])
    BY <2>1, <2>2, <2>3, FitsIn
  <2>5. Cardinality(J) = Len(S[k])
    BY <1>5, CardinalityUpTo
  <2>6. TriedSize \in Nat /\ Len(S[k]) \in Nat
    BY <1>5, AddrAssumption
  <2> QED BY <2>1, <2>4, <2>5, <2>6
<1>10. Tables(S, X, L)
  BY <1>8, <1>9 DEF Tables
<1> QED BY <1>1, <1>2, <1>3, <1>4, <1>6, <1>7, <1>10 DEF FiledIn

\* Two lists one after the other, of sets that have nothing in common.
Joins(A, B, s, t, w) == Lists(s, A) /\ Lists(t, B) /\ A \cap B = {} /\ w = s \o t

ListsBoth(A, B, s, t, w) ==
  /\ w \in Seq(A \cup B) /\ Len(w) = Len(s) + Len(t)
  /\ \A i \in 1 .. Len(w) : IF i <= Len(s) THEN w[i] \in A ELSE w[i] \in B
  /\ \A i, j \in 1 .. Len(w) : w[i] = w[j] => i = j
  /\ \A n \in A \cup B : \E i \in 1 .. Len(w) : w[i] = n

\* They are a list of both.
LEMMA Joined ==
  ASSUME NEW A, NEW B, NEW s, NEW t, NEW w, Joins(A, B, s, t, w)
  PROVE  ListsBoth(A, B, s, t, w)
<1> USE DEF Joins
<1>1. /\ s \in Seq(A) /\ t \in Seq(B) /\ Len(s) \in Nat /\ Len(t) \in Nat
      /\ s \in Seq(A \cup B) /\ t \in Seq(A \cup B)
      /\ \A i \in 1 .. Len(s) : s[i] \in A
      /\ \A i \in 1 .. Len(t) : t[i] \in B
      /\ \A n \in A : \E i \in 1 .. Len(s) : s[i] = n
      /\ \A n \in B : \E i \in 1 .. Len(t) : t[i] = n
      /\ \A i, j \in 1 .. Len(s) : s[i] = s[j] => i = j
      /\ \A i, j \in 1 .. Len(t) : t[i] = t[j] => i = j
  <2>1. s \in Seq(A) /\ t \in Seq(B)
    BY DEF Lists
  <2>2. Len(s) \in Nat /\ Len(t) \in Nat /\ s \in Seq(A \cup B) /\ t \in Seq(A \cup B)
    BY <2>1
  <2> QED BY <2>1, <2>2 DEF Lists, Elems, Once
<1>2. /\ w \in Seq(A \cup B) /\ Len(w) = Len(s) + Len(t)
      /\ \A i \in 1 .. Len(w) : w[i] = IF i <= Len(s) THEN s[i] ELSE t[i - Len(s)]
  BY <1>1, ConcatProperties
<1>3. ASSUME NEW i \in 1 .. Len(w)
      PROVE  \/ i <= Len(s) /\ i \in 1 .. Len(s) /\ w[i] = s[i] /\ w[i] \in A
             \/ ~(i <= Len(s)) /\ i - Len(s) \in 1 .. Len(t) /\ w[i] = t[i - Len(s)] /\ w[i] \in B
  <2>1. CASE i <= Len(s)
    BY <1>1, <1>2, <2>1
  <2>2. CASE ~(i <= Len(s))
    <3>1. i - Len(s) \in 1 .. Len(t)
      BY <1>1, <1>2, <2>2
    <3> QED BY <1>1, <1>2, <2>2, <3>1
  <2> QED BY <2>1, <2>2
<1>4. ASSUME NEW i \in 1 .. Len(w), NEW j \in 1 .. Len(w), w[i] = w[j] PROVE i = j
  <2>1. CASE i <= Len(s) /\ j <= Len(s)
    <3>1. i \in 1 .. Len(s) /\ w[i] = s[i] /\ j \in 1 .. Len(s) /\ w[j] = s[j]
      BY <1>3, <2>1
    <3>2. s[i] = s[j]
      BY <1>4, <3>1
    <3>3. \A a, b \in 1 .. Len(s) : s[a] = s[b] => a = b
      BY <1>1
    <3> HIDE DEF Joins
    <3> QED BY <3>1, <3>2, <3>3
  <2>2. CASE ~(i <= Len(s)) /\ ~(j <= Len(s))
    <3>1. i - Len(s) = j - Len(s)
      <4>1. /\ i - Len(s) \in 1 .. Len(t) /\ w[i] = t[i - Len(s)]
            /\ j - Len(s) \in 1 .. Len(t) /\ w[j] = t[j - Len(s)]
        BY <1>3, <2>2
      <4> QED BY <1>1, <1>4, <4>1
    <3> QED BY <1>1, <1>2, <3>1
  <2>3. CASE i <= Len(s) /\ ~(j <= Len(s))
    BY <1>3, <1>4, <2>3
  <2>4. CASE ~(i <= Len(s)) /\ j <= Len(s)
    BY <1>3, <1>4, <2>4
  <2> QED BY <2>1, <2>2, <2>3, <2>4
<1>5. ASSUME NEW n \in A \cup B PROVE \E i \in 1 .. Len(w) : w[i] = n
  <2>1. CASE n \in A
    <3>1. PICK i \in 1 .. Len(s) : s[i] = n
      BY <1>1, <2>1
    <3>2. i \in 1 .. Len(w) /\ w[i] = n
      BY <1>1, <1>2, <3>1
    <3> QED BY <3>2
  <2>2. CASE n \in B
    <3>1. PICK i \in 1 .. Len(t) : t[i] = n
      BY <1>1, <2>2
    <3>0. i + Len(s) \in 1 .. Len(w)
      BY <1>1, <1>2
    <3>2. PICK j \in 1 .. Len(w) : j = i + Len(s)
      BY <3>0
    <3>3. ~(j <= Len(s)) /\ j - Len(s) = i
      BY <1>1, <3>2
    <3>4. w[j] = n
      BY <1>2, <3>1, <3>3
    <3> QED BY <3>4
  <2> QED BY <2>1, <2>2
<1>6. \A i \in 1 .. Len(w) : IF i <= Len(s) THEN w[i] \in A ELSE w[i] \in B
  BY <1>3
<1> QED BY <1>2, <1>4, <1>5, <1>6 DEF ListsBoth

\* The file w holds every entry once, the new ones first.
Holds(w, L) ==
  /\ L = nNew + nTried /\ L \in Nat /\ Len(w) = L /\ w \in [1 .. L -> DOMAIN mapInfo] /\ L <= nIdCount
  /\ \A i, j \in 1 .. L : w[i] = w[j] => i = j
  /\ \A n \in DOMAIN mapInfo : \E i \in 1 .. L : w[i] = n
  /\ \A i \in 1 .. L : IF i <= nNew THEN w[i] \in NewIn(mapInfo) ELSE w[i] \in TriedIn(mapInfo)
  /\ nNew \in Nat /\ nTried \in Nat

\* What is written.
LEMMA WrittenIs == ASSUME AInv PROVE Holds(Written, nNew + nTried)
<1>0. /\ nIdCount \in Nat /\ Entries(mapInfo, nIdCount) /\ FiledIn(mapInfo, vvTried, vvNew)
      /\ mapInfo \in [DOMAIN mapInfo -> Info] /\ DOMAIN mapInfo \subseteq 0 .. nIdCount - 1
  BY IndexIs DEF AInv, Entries
<1>1. /\ IsFiniteSet(NewIn(mapInfo)) /\ IsFiniteSet(TriedIn(mapInfo))
      /\ nTried = Cardinality(TriedIn(mapInfo)) /\ nNew = Cardinality(NewIn(mapInfo))
      /\ nTried \in Nat /\ nNew \in Nat
  BY <1>0, FiniteEntries, FS_CardinalityType DEF AInv
<1>2. {n \in DOMAIN mapInfo : mapInfo[n].nRefCount # 0} = NewIn(mapInfo)
  <2>1. ASSUME NEW n \in DOMAIN mapInfo PROVE mapInfo[n].nRefCount # 0 <=> n \in NewIn(mapInfo)
    <3>1. n \in NewIn(mapInfo) \/ n \in TriedIn(mapInfo)
      BY DEF NewIn
    <3>2. ASSUME n \in TriedIn(mapInfo) PROVE mapInfo[n].nRefCount = 0 /\ n \notin NewIn(mapInfo)
      BY <1>0, <3>2 DEF FiledIn, InTried, NewIn
    <3>3. ASSUME n \in NewIn(mapInfo) PROVE mapInfo[n].nRefCount # 0
      <4>1. mapInfo[n].nRefCount \in 1 .. MaxRef
        BY <1>0, <3>3 DEF FiledIn, InNew
      <4> QED BY <4>1
    <3> QED BY <3>1, <3>2, <3>3
  <2> QED BY <2>1 DEF NewIn
<1>3. PICK s : s = Ascending(NewIn(mapInfo))
  OBVIOUS
<1>4. PICK t : t = Ascending(TriedIn(mapInfo))
  OBVIOUS
<1>5. Written = s \o t
  BY <1>2, <1>3, <1>4 DEF Written, TriedIn
<1>6. Lists(s, NewIn(mapInfo)) /\ Lists(t, TriedIn(mapInfo))
  <2>1. NewIn(mapInfo) \in SUBSET Nat /\ TriedIn(mapInfo) \in SUBSET Nat
    BY <1>0 DEF NewIn, TriedIn
  <2> QED BY <1>1, <1>3, <1>4, <2>1, AscendingIs
<1>7. /\ NewIn(mapInfo) \cap TriedIn(mapInfo) = {} /\ NewIn(mapInfo) \cup TriedIn(mapInfo) = DOMAIN mapInfo
  BY DEF NewIn, TriedIn
<1>8. Len(s) = nNew /\ Len(t) = nTried
  BY <1>1, <1>6 DEF Lists
<1>9. PICK w : w = s \o t
  OBVIOUS
<1>10. /\ w \in Seq(NewIn(mapInfo) \cup TriedIn(mapInfo)) /\ Len(w) = Len(s) + Len(t)
       /\ \A i \in 1 .. Len(w) : IF i <= Len(s) THEN w[i] \in NewIn(mapInfo) ELSE w[i] \in TriedIn(mapInfo)
       /\ \A i, j \in 1 .. Len(w) : w[i] = w[j] => i = j
       /\ \A n \in NewIn(mapInfo) \cup TriedIn(mapInfo) : \E i \in 1 .. Len(w) : w[i] = n
  <2>1. PICK A : A = NewIn(mapInfo)
    OBVIOUS
  <2>2. PICK B : B = TriedIn(mapInfo)
    OBVIOUS
  <2>3. Joins(A, B, s, t, w)
    BY <1>6, <1>7, <1>9, <2>1, <2>2 DEF Joins
  <2>4. ListsBoth(A, B, s, t, w)
    BY <2>3, Joined
  <2> QED BY <2>1, <2>2, <2>4 DEF ListsBoth
<1>11. PICK L : L = nNew + nTried
  OBVIOUS
<1>12. Len(w) = L /\ L \in Nat /\ w \in Seq(DOMAIN mapInfo)
  BY <1>1, <1>7, <1>8, <1>10, <1>11
<1>13. w \in [1 .. L -> DOMAIN mapInfo]
  BY <1>12
<1>14. L <= nIdCount
  <2>1. w \in [1 .. L -> 0 .. nIdCount - 1] /\ DOMAIN w = 1 .. L
    BY <1>0, <1>13
  <2>2. w \in Injection(1 .. L, 0 .. nIdCount - 1)
    BY <1>10, <1>12, <2>1 DEF Injection, IsInjective
  <2>3. IsFiniteSet(0 .. nIdCount - 1) /\ Cardinality(0 .. nIdCount - 1) = nIdCount
    <3>0. nIdCount - 1 \in Int /\ 0 \in Int
      BY <1>0
    <3>1. /\ IsFiniteSet(0 .. nIdCount - 1)
          /\ Cardinality(0 .. nIdCount - 1) = IF 0 > nIdCount - 1 THEN 0 ELSE nIdCount - 1 - 0 + 1
      BY <3>0, FS_Interval
    <3> QED BY <1>0, <3>1
  <2>4. Cardinality(1 .. L) <= Cardinality(0 .. nIdCount - 1)
    BY <2>2, <2>3, FS_Injection
  <2>5. Cardinality(1 .. L) = L
    BY <1>12, CardinalityUpTo
  <2> QED BY <2>3, <2>4, <2>5
<1>15. Holds(w, L)
  BY <1>1, <1>7, <1>8, <1>10, <1>11, <1>12, <1>13, <1>14 DEF Holds
<1> QED BY <1>5, <1>9, <1>11, <1>15

\* No tried entry finds its bucket full: all of them were in it before.
LEMMA NoneLost ==
  ASSUME AInv, NEW w, NEW L, Holds(w, L), NEW i \in nNew + 1 .. L
  PROVE  ~(Cardinality({j \in nNew + 1 .. i - 1 : BucketIn(mapInfo, w[j]) = BucketIn(mapInfo, w[i])}) >= TriedSize)
<1> DEFINE k == BucketIn(mapInfo, w[i])
           J == {j \in nNew + 1 .. i - 1 : BucketIn(mapInfo, w[j]) = k}
<1>0. /\ nIdCount \in Nat /\ FiledIn(mapInfo, vvTried, vvNew) /\ Tables(vvTried, vvNew, nIdCount)
      /\ mapInfo \in [DOMAIN mapInfo -> Info] /\ TriedSize \in Nat
  BY IndexIs, AddrAssumption DEF AInv, Entries
<1>1. /\ L \in Nat /\ nNew \in Nat /\ w \in [1 .. L -> DOMAIN mapInfo]
      /\ \A m \in nNew + 1 .. L : m \in 1 .. L /\ w[m] \in TriedIn(mapInfo)
      /\ \A m, j \in nNew + 1 .. L : w[m] = w[j] => m = j
  <2>1. L \in Nat /\ nNew \in Nat /\ w \in [1 .. L -> DOMAIN mapInfo]
    BY DEF Holds
  <2>2. \A m \in nNew + 1 .. L : m \in 1 .. L /\ ~(m <= nNew)
    BY <2>1
  <2> QED BY <2>1, <2>2 DEF Holds
<1>2. k \in TriedBucket
  <2>1. mapInfo[w[i]] \in Info
    BY <1>0, <1>1
  <2> QED BY <2>1, AddrAssumption DEF BucketIn, Info
<1>3. vvTried[k] \in Seq(0 .. nIdCount - 1) /\ Len(vvTried[k]) \in Nat /\ Len(vvTried[k]) <= TriedSize
  BY <1>0, <1>2 DEF Tables
<1>4. J \cup {i} \subseteq nNew + 1 .. L /\ i \notin J /\ \A j \in J \cup {i} : BucketIn(mapInfo, w[j]) = k
  BY <1>1
<1> HIDE DEF J, k
<1>5. \A j \in J \cup {i} : w[j] \in Elems(vvTried[k])
  <2>1. ASSUME NEW j \in J \cup {i} PROVE w[j] \in Elems(vvTried[k])
    <3>1. w[j] \in TriedIn(mapInfo) /\ BucketIn(mapInfo, w[j]) = k
      BY <1>1, <1>4
    <3>2. \E p \in 1 .. Len(vvTried[k]) : vvTried[k][p] = w[j]
      BY <1>0, <3>1 DEF FiledIn, InTried
    <3> QED BY <3>2 DEF Elems
  <2> QED BY <2>1
<1>6. \A m, j \in J \cup {i} : w[m] = w[j] => m = j
  BY <1>1, <1>4
<1>7. IsFiniteSet(J \cup {i}) /\ Cardinality(J \cup {i}) <= Len(vvTried[k])
  BY <1>3, <1>5, <1>6, FitsIn
<1>8. /\ Cardinality((J \cup {i}) \ {i}) = Cardinality(J \cup {i}) - 1
      /\ Cardinality(J \cup {i}) \in Nat
  BY <1>7, OneLess
<1>9. (J \cup {i}) \ {i} = J
  BY <1>4
<1>10. Cardinality(J) = Cardinality(J \cup {i}) - 1
  BY <1>8, <1>9
<1>11. ~(Cardinality(J) >= TriedSize)
  BY <1>0, <1>3, <1>7, <1>8, <1>10
<1> QED BY <1>11 DEF J, k

\* No entry is in more new buckets than it may be read back into.
LEMMA IntoIs ==
  ASSUME AInv, NEW n \in DOMAIN mapInfo
  PROVE  Into(n) = HoldingIn(vvNew, n) /\ Cardinality(HoldingIn(vvNew, n)) = mapInfo[n].nRefCount
<1>0. /\ nIdCount \in Nat /\ FiledIn(mapInfo, vvTried, vvNew)
      /\ vvNew \in [NewBucket -> SUBSET (0 .. nIdCount - 1)] /\ MaxRef \in Nat
  BY IndexIs, AddrAssumption DEF AInv, Tables
<1>1. IsFiniteSet(HoldingIn(vvNew, n)) /\ Cardinality(HoldingIn(vvNew, n)) \in Nat
  BY <1>0, FiniteTables
<1>2. Cardinality(HoldingIn(vvNew, n)) = mapInfo[n].nRefCount /\ mapInfo[n].nRefCount <= MaxRef
  <2>1. CASE n \in TriedIn(mapInfo)
    <3>1. HoldingIn(vvNew, n) = {} /\ mapInfo[n].nRefCount = 0
      BY <1>0, <2>1 DEF FiledIn, InTried
    <3>2. Cardinality(HoldingIn(vvNew, n)) = 0
      BY <3>1, FS_EmptySet
    <3> QED BY <1>0, <3>1, <3>2
  <2>2. CASE n \in NewIn(mapInfo)
    <3>1. mapInfo[n].nRefCount = Cardinality(HoldingIn(vvNew, n)) /\ mapInfo[n].nRefCount \in 1 .. MaxRef
      BY <1>0, <2>2 DEF FiledIn, InNew
    <3> QED BY <1>0, <3>1
  <2> QED BY <2>1, <2>2 DEF NewIn
<1>3. ASSUME NEW b \in HoldingIn(vvNew, n)
      PROVE  Cardinality({c \in NewBucket : c < b /\ n \in vvNew[c]}) < MaxRef
  <2> DEFINE C == {c \in NewBucket : c < b /\ n \in vvNew[c]}
  <2>1. b \in Nat /\ C \subseteq HoldingIn(vvNew, n) \ {b}
    BY AddrAssumption DEF HoldingIn
  <2> HIDE DEF C
  <2>2. /\ IsFiniteSet(HoldingIn(vvNew, n) \ {b})
        /\ Cardinality(HoldingIn(vvNew, n) \ {b}) = Cardinality(HoldingIn(vvNew, n)) - 1
    BY <1>1, OneLess
  <2>3. IsFiniteSet(C) /\ Cardinality(C) <= Cardinality(HoldingIn(vvNew, n) \ {b})
    BY <2>1, <2>2, FS_Subset
  <2>4. Cardinality(C) \in Nat
    BY <2>3, FS_CardinalityType
  <2>5. Cardinality(C) < MaxRef
    BY <1>0, <1>1, <1>2, <2>2, <2>3, <2>4
  <2> QED BY <2>5 DEF C
<1>4. Into(n) = HoldingIn(vvNew, n)
  BY <1>3 DEF Into, HoldingIn
<1> QED BY <1>2, <1>4

\* What a Reload does, seen from outside: the entry i was q[i].
Reloaded(L, q) ==
  /\ L = nNew + nTried /\ nNew \in Nat /\ nTried \in Nat /\ L <= nIdCount
  /\ q \in [0 .. L - 1 -> DOMAIN mapInfo]
  /\ \A i, j \in 0 .. L - 1 : q[i] = q[j] => i = j
  /\ \A n \in DOMAIN mapInfo : \E i \in 0 .. L - 1 : q[i] = n
  /\ \A i \in 0 .. L - 1 : IF i < nNew THEN q[i] \in NewIn(mapInfo) ELSE q[i] \in TriedIn(mapInfo)
  /\ nIdCount' = L /\ nNew' = nNew /\ nTried' = nTried
  /\ mapInfo' \in [0 .. L - 1 -> Info]
  /\ \A i \in 0 .. L - 1 : Alike(mapInfo'[i], mapInfo[q[i]]) /\ mapInfo'[i].nRandomPos = i + 1
  /\ DOMAIN mapAddr' = {HostOf[mapInfo[n].svc] : n \in DOMAIN mapInfo}
  /\ \A i \in 0 .. L - 1 : mapAddr'[HostOf[mapInfo[q[i]].svc]] = i
  /\ vRandom' = [i \in 1 .. L |-> i - 1]
  /\ vvNew' \in [NewBucket -> SUBSET (0 .. L - 1)]
  /\ \A b \in NewBucket : \A i \in 0 .. L - 1 : i \in vvNew'[b] <=> q[i] \in vvNew[b]
  /\ vvTried' \in [TriedBucket -> Seq(0 .. L - 1)]
  /\ \A k \in TriedBucket :
       /\ Once(vvTried'[k])
       /\ \A i \in 0 .. L - 1 :
            i \in Elems(vvTried'[k]) <=> q[i] \in TriedIn(mapInfo) /\ BucketIn(mapInfo, q[i]) = k

\* A sequence of some is one of more.
LEMMA InLarger == ASSUME NEW A, NEW B, A \subseteq B, NEW s \in Seq(A) PROVE s \in Seq(B)
OBVIOUS

\* An entry as it is read back.
ReadBack(e, p, t, c, f) ==
  /\ e \in Info /\ p \in Int /\ e.fInTried = t /\ e.nRefCount = c
  /\ f = [e EXCEPT !.nRandomPos = p, !.fInTried = t, !.nRefCount = c]

\* It differs in its place in vRandom.
LEMMA ReadIs ==
  ASSUME NEW e, NEW p, NEW t, NEW c, NEW f, ReadBack(e, p, t, c, f)
  PROVE  f \in Info /\ Alike(f, e) /\ f.nRandomPos = p
<1> USE DEF ReadBack
<1>1. PICK g : g = [e EXCEPT !.nRandomPos = p]
  OBVIOUS
<1>2. g \in Info /\ Alike(g, e) /\ g.nRandomPos = p
  BY <1>1 DEF Info, Alike
<1>3. f = [g EXCEPT !.fInTried = t, !.nRefCount = c]
  BY <1>1
<1>4. PICK h : h = [g EXCEPT !.fInTried = t]
  OBVIOUS
<1>5. h \in Info /\ Alike(h, e) /\ h.nRandomPos = p
  <2>1. t \in BOOLEAN
    BY DEF Info
  <2> QED BY <1>2, <1>4, <2>1 DEF Info, Alike
<1>6. f = [h EXCEPT !.nRefCount = c]
  BY <1>3, <1>4
<1>7. c \in Int
  BY DEF Info
<1> QED BY <1>5, <1>6, <1>7 DEF Info, Alike

\* A Reload does that.
LEMMA ReloadIs == ASSUME AInv, Reload PROVE \E L, q : Reloaded(L, q)
<1> DEFINE w == Written
           bucket(n) == GetTriedBucket[mapInfo[n].svc]
           lost == {i \in nNew + 1 .. Len(w) :
                       Cardinality({j \in nNew + 1 .. i - 1 : bucket(w[j]) = bucket(w[i])}) >= TriedSize}
           kept == Ascending(DOMAIN w \ lost)
           read == [i \in DOMAIN kept |-> w[kept[i]]]
           index(n) == (CHOOSE i \in DOMAIN read : read[i] = n) - 1
<1>1. /\ nIdCount' = Len(read)
      /\ mapInfo' = [i \in 0 .. Len(read) - 1 |->
                       [mapInfo[read[i+1]] EXCEPT !.nRandomPos = i + 1, !.fInTried = (i >= nNew),
                                                  !.nRefCount = Cardinality(Into(read[i+1]))]]
      /\ mapAddr' = [h \in {HostOf[mapInfo[n].svc] : n \in Range(read)} |->
                       index(CHOOSE n \in Range(read) : HostOf[mapInfo[n].svc] = h)]
      /\ vRandom' = [i \in DOMAIN read |-> i - 1]
      /\ vvNew' = [b \in NewBucket |-> {index(n) : n \in {m \in vvNew[b] : b \in Into(m)}}]
      /\ vvTried' = [k \in TriedBucket |->
                       Ascending({i \in nNew .. Len(read) - 1 : bucket(read[i+1]) = k})]
      /\ nTried' = nTried - Cardinality(lost)
      /\ UNCHANGED nNew
  BY Zenon DEF Reload
<1>0. /\ nIdCount \in Nat /\ FiledIn(mapInfo, vvTried, vvNew) /\ Tables(vvTried, vvNew, nIdCount)
      /\ mapInfo \in [DOMAIN mapInfo -> Info]
  BY IndexIs DEF AInv, Entries
<1>2. PICK L : L = nNew + nTried
  OBVIOUS
<1> HIDE DEF w
<1>3. Holds(w, L)
  BY <1>2, WrittenIs DEF w
<1>4. /\ L \in Nat /\ nNew \in Nat /\ nTried \in Nat /\ L <= nIdCount
      /\ w \in [1 .. L -> DOMAIN mapInfo] /\ DOMAIN w = 1 .. L /\ Len(w) = L
      /\ \A i, j \in 1 .. L : w[i] = w[j] => i = j
      /\ \A n \in DOMAIN mapInfo : \E i \in 1 .. L : w[i] = n
  BY <1>3 DEF Holds
<1>5. lost = {}
  <2>1. ASSUME NEW i \in nNew + 1 .. L
        PROVE  ~(Cardinality({j \in nNew + 1 .. i - 1 : bucket(w[j]) = bucket(w[i])}) >= TriedSize)
    BY <1>3, NoneLost DEF BucketIn
  <2> QED BY <1>4, <2>1
<1> HIDE DEF lost
<1>6. DOMAIN kept = 1 .. L /\ \A i \in 1 .. L : kept[i] = i
  <2>1. kept = Ascending(1 .. L)
    BY <1>4, <1>5
  <2>2. IsFiniteSet(1 .. L) /\ 1 .. L \in SUBSET Nat
    BY <1>4, CardinalityUpTo
  <2> HIDE DEF kept
  <2>3. Lists(kept, 1 .. L)
    BY <2>1, <2>2, AscendingIs
  <2>4. Len(kept) = L /\ \A i \in 1 .. L : kept[i] = i
    BY <1>4, <2>3, OrderedIsSame
  <2> QED BY <2>3, <2>4 DEF Lists
<1> HIDE DEF kept
<1>7. read = w
  BY <1>4, <1>6
<1> HIDE DEF read
<1>8. Range(w) = DOMAIN mapInfo
  <2>1. Range(w) = {w[i] : i \in 1 .. L}
    BY <1>4 DEF Range
  <2>2. \A i \in 1 .. L : w[i] \in DOMAIN mapInfo
    BY <1>4
  <2>3. {w[i] : i \in 1 .. L} \subseteq DOMAIN mapInfo
    BY <2>2
  <2>4. DOMAIN mapInfo \subseteq {w[i] : i \in 1 .. L}
    <3>1. ASSUME NEW n \in DOMAIN mapInfo PROVE n \in {w[i] : i \in 1 .. L}
      <4>1. PICK i \in 1 .. L : w[i] = n
        BY <1>4
      <4> QED BY <4>1
    <3> QED BY <3>1
  <2> QED BY <2>1, <2>3, <2>4
<1>9. ASSUME NEW i \in 1 .. L PROVE index(w[i]) = i - 1
  <2>1. (CHOOSE j \in DOMAIN read : read[j] = w[i]) = i
    BY <1>4, <1>7
  <2> QED BY <2>1
<1> HIDE DEF index
<1> DEFINE q == [i \in 0 .. L - 1 |-> w[i + 1]]
<1>10. ASSUME NEW i \in 0 .. L - 1
       PROVE  /\ i + 1 \in 1 .. L /\ q[i] = w[i + 1] /\ q[i] \in DOMAIN mapInfo /\ index(q[i]) = i
              /\ IF i < nNew THEN q[i] \in NewIn(mapInfo) ELSE q[i] \in TriedIn(mapInfo)
  <2>1. i + 1 \in 1 .. L /\ (i < nNew <=> i + 1 <= nNew) /\ i + 1 - 1 = i
    BY <1>4
  <2>2. q[i] = w[i + 1] /\ q[i] \in DOMAIN mapInfo
    BY <1>4, <2>1
  <2>3. index(q[i]) = i
    <3>1. PICK j \in 1 .. L : j = i + 1
      BY <2>1
    <3>2. index(w[j]) = j - 1
      BY <1>9
    <3>3. j - 1 = i /\ q[i] = w[j]
      BY <2>1, <2>2, <3>1
    <3> QED BY <3>2, <3>3
  <2>4. IF i + 1 <= nNew THEN w[i + 1] \in NewIn(mapInfo) ELSE w[i + 1] \in TriedIn(mapInfo)
    BY <1>3, <2>1 DEF Holds
  <2> QED BY <2>1, <2>2, <2>3, <2>4
<1>11. DOMAIN q = 0 .. L - 1
  OBVIOUS
<1>12. \A i \in 1 .. L : i - 1 \in 0 .. L - 1 /\ q[i - 1] = w[i]
  <2>1. ASSUME NEW i \in 1 .. L PROVE i - 1 \in 0 .. L - 1 /\ q[i - 1] = w[i]
    <3>1. i - 1 \in 0 .. L - 1 /\ i - 1 + 1 = i
      BY <1>4
    <3> QED BY <1>10, <3>1
  <2> QED BY <2>1
<1>13. q \in [0 .. L - 1 -> DOMAIN mapInfo]
  BY <1>10
<1> HIDE DEF q
<1>14. \A i, j \in 0 .. L - 1 : q[i] = q[j] => i = j
  <2>1. ASSUME NEW i \in 0 .. L - 1, NEW j \in 0 .. L - 1, q[i] = q[j] PROVE i = j
    <3>1. i + 1 = j + 1
      BY <1>4, <1>10, <2>1
    <3> QED BY <1>4, <3>1
  <2> QED BY <2>1
<1>15. ASSUME NEW n \in DOMAIN mapInfo PROVE \E i \in 0 .. L - 1 : q[i] = n
  <2>1. PICK j \in 1 .. L : w[j] = n
    BY <1>4
  <2>2. j - 1 \in 0 .. L - 1 /\ q[j - 1] = n
    BY <1>12, <2>1
  <2> QED BY <2>2
<1>16. nIdCount' = L /\ nNew' = nNew /\ nTried' = nTried
  <2>1. Cardinality(lost) = 0
    BY <1>5, FS_EmptySet
  <2>2. nIdCount' = Len(read) /\ nTried' = nTried - Cardinality(lost) /\ nNew' = nNew
    BY Zenon, <1>1
  <2>3. nTried - 0 = nTried
    BY <1>4
  <2> QED BY <1>4, <1>7, <2>1, <2>2, <2>3
<1>17. DOMAIN mapInfo' = 0 .. L - 1 /\ mapInfo' = [i \in 0 .. L - 1 |-> mapInfo'[i]]
  BY <1>1, <1>4, <1>7
<1>18. ASSUME NEW i \in 0 .. L - 1
       PROVE  mapInfo'[i] \in Info /\ Alike(mapInfo'[i], mapInfo[q[i]]) /\ mapInfo'[i].nRandomPos = i + 1
  <2>1. mapInfo'[i] = [mapInfo[q[i]] EXCEPT !.nRandomPos = i + 1, !.fInTried = (i >= nNew),
                                            !.nRefCount = Cardinality(Into(q[i]))]
    BY <1>1, <1>4, <1>7, <1>10
  <2>2. PICK e : e = mapInfo[q[i]]
    OBVIOUS
  <2>3. PICK c : c = Cardinality(Into(q[i]))
    OBVIOUS
  <2>4. PICK t : t = e.fInTried
    OBVIOUS
  <2>5. PICK p \in Int : p = i + 1
    OBVIOUS
  <2>6. e \in Info /\ e.nRefCount = c
    <3>1. e.nRefCount = c
      BY <1>10, <2>2, <2>3, IntoIs
    <3> QED BY <1>0, <1>10, <2>2, <3>1
  <2>7. t = (i >= nNew)
    <3>1. t \in BOOLEAN
      BY <2>4, <2>6 DEF Info
    <3>2. CASE i < nNew
      <4>1. q[i] \in NewIn(mapInfo) /\ (i >= nNew) = FALSE
        BY <1>4, <1>10, <3>2
      <4>2. ~t
        BY <1>10, <2>2, <2>4, <4>1 DEF NewIn, TriedIn
      <4>3. t = FALSE
        BY <3>1, <4>2
      <4> QED BY <4>1, <4>3
    <3>3. CASE ~(i < nNew)
      <4>1. q[i] \in TriedIn(mapInfo) /\ (i >= nNew) = TRUE
        BY <1>4, <1>10, <3>3
      <4>2. t
        BY <1>10, <2>2, <2>4, <4>1 DEF TriedIn
      <4>3. t = TRUE
        BY <3>1, <4>2
      <4> QED BY <4>1, <4>3
    <3> QED BY <3>2, <3>3
  <2>8. PICK f : f = mapInfo'[i]
    OBVIOUS
  <2>9. f = [e EXCEPT !.nRandomPos = p, !.fInTried = t, !.nRefCount = c]
    BY Zenon, <2>1, <2>2, <2>3, <2>5, <2>7, <2>8
  <2>10. f \in Info /\ Alike(f, e) /\ f.nRandomPos = p
    <3>1. ReadBack(e, p, t, c, f)
      BY <2>4, <2>6, <2>9 DEF ReadBack
    <3> QED BY <3>1, ReadIs
  <2> QED BY <2>2, <2>5, <2>8, <2>10
<1>19. mapInfo' \in [0 .. L - 1 -> Info]
  BY <1>17, <1>18
<1>20. DOMAIN mapAddr' = {HostOf[mapInfo[n].svc] : n \in DOMAIN mapInfo}
  BY <1>1, <1>7, <1>8
<1>21. ASSUME NEW i \in 0 .. L - 1 PROVE mapAddr'[HostOf[mapInfo[q[i]].svc]] = i
  <2>1. PICK h : h = HostOf[mapInfo[q[i]].svc]
    OBVIOUS
  <2>2. mapAddr'[h] = index(CHOOSE n \in DOMAIN mapInfo : HostOf[mapInfo[n].svc] = h)
    BY <1>1, <1>7, <1>8, <1>10, <2>1
  <2>3. \A n \in DOMAIN mapInfo : HostOf[mapInfo[n].svc] = h => n = q[i]
    BY <1>10, <2>1 DEF AInv, Linked, ByHost
  <2>4. (CHOOSE n \in DOMAIN mapInfo : HostOf[mapInfo[n].svc] = h) = q[i]
    BY <1>10, <2>1, <2>3
  <2> QED BY <1>10, <2>1, <2>2, <2>4
<1>22. vRandom' = [i \in 1 .. L |-> i - 1]
  BY <1>1, <1>4, <1>7
<1>23. ASSUME NEW b \in NewBucket
       PROVE  /\ vvNew'[b] = {index(n) : n \in vvNew[b]} /\ vvNew[b] \subseteq DOMAIN mapInfo
  <2>1. vvNew[b] \subseteq DOMAIN mapInfo
    BY <1>0 DEF FiledIn, OfNew, NewIn
  <2>2. \A m \in vvNew[b] : b \in Into(m)
    BY <2>1, IntoIs DEF HoldingIn
  <2>3. {m \in vvNew[b] : b \in Into(m)} = vvNew[b]
    BY <2>2
  <2>4. vvNew'[b] = {index(n) : n \in {m \in vvNew[b] : b \in Into(m)}}
    BY <1>1
  <2> QED BY <2>1, <2>3, <2>4
<1>24. ASSUME NEW b \in NewBucket
       PROVE  /\ vvNew'[b] \subseteq 0 .. L - 1
              /\ \A i \in 0 .. L - 1 : i \in vvNew'[b] <=> q[i] \in vvNew[b]
  <2>1. \A n \in DOMAIN mapInfo : index(n) \in 0 .. L - 1 /\ q[index(n)] = n
    BY <1>10, <1>15
  <2> QED BY <1>10, <1>23, <2>1
<1>25. vvNew' \in [NewBucket -> SUBSET (0 .. L - 1)]
  <2>1. vvNew' = [b \in NewBucket |-> vvNew'[b]]
    BY <1>1
  <2> QED BY <1>24, <2>1
<1>26. ASSUME NEW k \in TriedBucket
       PROVE  /\ vvTried'[k] \in Seq(0 .. L - 1) /\ Once(vvTried'[k])
              /\ \A i \in 0 .. L - 1 :
                   i \in Elems(vvTried'[k]) <=> q[i] \in TriedIn(mapInfo) /\ BucketIn(mapInfo, q[i]) = k
  <2> DEFINE S == {i \in nNew .. L - 1 : bucket(w[i+1]) = k}
  <2>1. vvTried'[k] = Ascending(S)
    BY <1>1, <1>4, <1>7
  <2>2. S \in SUBSET Nat /\ S \subseteq 0 .. L - 1
    BY <1>4
  <2>3. \A i \in 0 .. L - 1 : i \in S <=> i >= nNew /\ BucketIn(mapInfo, q[i]) = k
    <3>1. ASSUME NEW i \in 0 .. L - 1 PROVE i \in S <=> i >= nNew /\ BucketIn(mapInfo, q[i]) = k
      <4>1. i \in nNew .. L - 1 <=> i >= nNew
        BY <1>4
      <4>2. bucket(w[i + 1]) = BucketIn(mapInfo, q[i])
        BY <1>10 DEF BucketIn
      <4> QED BY <4>1, <4>2
    <3> QED BY <3>1
  <2> HIDE DEF S
  <2>4. IsFiniteSet(S)
    <3>1. L - 1 \in Int /\ 0 \in Int
      BY <1>4
    <3>2. IsFiniteSet(0 .. L - 1)
      BY <3>1, FS_Interval
    <3> QED BY <2>2, <3>2, FS_Subset
  <2>5. Lists(vvTried'[k], S)
    BY <2>1, <2>2, <2>4, AscendingIs
  <2>6. /\ vvTried'[k] \in Seq(S) /\ Once(vvTried'[k]) /\ Elems(vvTried'[k]) = S
    BY <2>5 DEF Lists
  <2>7. vvTried'[k] \in Seq(0 .. L - 1)
    <3>1. PICK t : t = vvTried'[k]
      OBVIOUS
    <3>2. PICK A : A = S
      OBVIOUS
    <3>3. PICK B : B = 0 .. L - 1
      OBVIOUS
    <3>4. t \in Seq(A) /\ A \subseteq B
      BY <2>2, <2>6, <3>1, <3>2, <3>3
    <3>5. t \in Seq(B)
      BY <3>4, InLarger
    <3> QED BY <3>1, <3>3, <3>5
  <2>8. \A i \in 0 .. L - 1 : i >= nNew <=> q[i] \in TriedIn(mapInfo)
    <3>1. ASSUME NEW i \in 0 .. L - 1 PROVE i >= nNew <=> q[i] \in TriedIn(mapInfo)
      <4>1. (i < nNew <=> ~(i >= nNew)) /\ ~(q[i] \in NewIn(mapInfo) /\ q[i] \in TriedIn(mapInfo))
        BY <1>4 DEF NewIn
      <4> QED BY <1>10, <4>1
    <3> QED BY <3>1
  <2> QED BY <2>3, <2>6, <2>7, <2>8
<1>27. vvTried' \in [TriedBucket -> Seq(0 .. L - 1)]
  <2>1. vvTried' = [k \in TriedBucket |-> vvTried'[k]]
    BY <1>1
  <2> QED BY <1>26, <2>1
<1>28. Reloaded(L, q)
  BY <1>2, <1>4, <1>10, <1>13, <1>14, <1>15, <1>16, <1>18, <1>19, <1>20, <1>21, <1>22, <1>24, <1>25, <1>26, <1>27
     DEF Reloaded
<1> QED BY <1>28

\* The state after a Reload, and what it kept.
LEMMA ReloadKeepsInv ==
  ASSUME AInv, Reload
  PROVE  /\ AInv' /\ Known' = Known
         /\ \A n \in TriedIn(mapInfo) : HostOf[mapInfo[n].svc] \in DOMAIN mapAddr'
<1>1. PICK L, q : Reloaded(L, q)
  BY ReloadIs
<1>0. /\ nIdCount \in Nat /\ nIdCount <= MaxId /\ MaxId \in Nat /\ Entries(mapInfo, nIdCount)
      /\ FiledIn(mapInfo, vvTried, vvNew) /\ Tables(vvTried, vvNew, nIdCount)
      /\ mapInfo \in [DOMAIN mapInfo -> Info] /\ ByHost(mapInfo, mapAddr)
      /\ nTried = Cardinality(TriedIn(mapInfo)) /\ nNew = Cardinality(NewIn(mapInfo))
      /\ DOMAIN mapAddr \subseteq Range(HostOf)
  <2>1. nIdCount <= MaxId /\ MaxId \in Nat
    BY AddrAssumption DEF AInv
  <2> QED BY <2>1, IndexIs DEF AInv, Entries, Linked, Typed
<1>2. /\ L \in Nat /\ L <= nIdCount /\ nNew \in Nat /\ nTried \in Nat /\ L = nNew + nTried
      /\ nIdCount' = L /\ nNew' = nNew /\ nTried' = nTried
      /\ q \in [0 .. L - 1 -> DOMAIN mapInfo]
      /\ mapInfo' \in [0 .. L - 1 -> Info] /\ DOMAIN mapInfo' = 0 .. L - 1
  BY <1>1 DEF Reloaded
<1>3. Renames(nIdCount, mapInfo, vvTried, vvNew, L, q, mapInfo', vvTried', vvNew')
  BY <1>0, <1>1, <1>2 DEF Reloaded, Renames
<1>4. /\ Tables(vvTried', vvNew', L) /\ FiledIn(mapInfo', vvTried', vvNew') /\ Entries(mapInfo', L)
      /\ \A i \in 0 .. L - 1 : /\ i \in TriedIn(mapInfo') <=> q[i] \in TriedIn(mapInfo)
                               /\ i \in NewIn(mapInfo') <=> q[i] \in NewIn(mapInfo)
                               /\ HoldingIn(vvNew', i) = HoldingIn(vvNew, q[i])
  BY <1>3, Renamed
<1>5. \A i \in 0 .. L - 1 : /\ mapInfo'[i].svc = mapInfo[q[i]].svc
                            /\ mapInfo'[i].source = mapInfo[q[i]].source
                            /\ mapInfo'[i].fInTried = mapInfo[q[i]].fInTried
                            /\ mapInfo'[i].nRandomPos = i + 1
                            /\ q[i] \in DOMAIN mapInfo
  BY <1>1, <1>2 DEF Reloaded, Alike
<1>6. \A n \in DOMAIN mapInfo : \E i \in 0 .. L - 1 : q[i] = n
  BY <1>1 DEF Reloaded
<1>7. Typed(mapInfo, mapAddr, vRandom, nIdCount)'
  <2>1. DOMAIN mapAddr' \subseteq Range(HostOf)
    <3>1. \A n \in DOMAIN mapInfo : HostOf[mapInfo[n].svc] \in Range(HostOf)
      BY <1>0 DEF ByHost
    <3> QED BY <1>1, <3>1 DEF Reloaded
  <2>2. vRandom' \in [1 .. L -> 0 .. L - 1]
    <3>1. \A i \in 1 .. L : i - 1 \in 0 .. L - 1
      BY <1>2
    <3> QED BY <1>1, <3>1 DEF Reloaded
  <2>3. vRandom' \in Seq(0 .. L - 1)
    BY <1>2, <2>2, FunctionIsSeq
  <2> QED BY <1>2, <2>1, <2>3 DEF Typed
<1>8. ByHost(mapInfo, mapAddr)'
  <2>1. ASSUME NEW i \in 0 .. L - 1
        PROVE  HostOf[mapInfo'[i].svc] \in DOMAIN mapAddr' /\ mapAddr'[HostOf[mapInfo'[i].svc]] = i
    <3>1. mapInfo'[i].svc = mapInfo[q[i]].svc /\ q[i] \in DOMAIN mapInfo
      BY <1>5
    <3>2. mapAddr'[HostOf[mapInfo[q[i]].svc]] = i /\ HostOf[mapInfo[q[i]].svc] \in DOMAIN mapAddr'
      BY <1>1, <3>1 DEF Reloaded
    <3> QED BY <3>1, <3>2
  <2>2. ASSUME NEW h \in DOMAIN mapAddr'
        PROVE  mapAddr'[h] \in 0 .. L - 1 /\ HostOf[mapInfo'[mapAddr'[h]].svc] = h
    <3>1. PICK n \in DOMAIN mapInfo : h = HostOf[mapInfo[n].svc]
      BY <1>1 DEF Reloaded
    <3>2. PICK i \in 0 .. L - 1 : q[i] = n
      BY <1>6
    <3>3. mapAddr'[h] = i
      BY <1>1, <3>1, <3>2 DEF Reloaded
    <3> QED BY <1>5, <3>1, <3>2, <3>3
  <2> QED BY <1>2, <2>1, <2>2 DEF ByHost
<1>9. ByPlace(mapInfo, vRandom)'
  <2>1. /\ Len(vRandom') = L /\ \A i \in 1 .. L : vRandom'[i] = i - 1
    <3>1. vRandom' = [i \in 1 .. L |-> i - 1]
      BY <1>1 DEF Reloaded
    <3> QED BY <1>2, <3>1
  <2>2. ASSUME NEW i \in 0 .. L - 1
        PROVE  mapInfo'[i].nRandomPos \in 1 .. L /\ vRandom'[mapInfo'[i].nRandomPos] = i
    <3>1. i + 1 \in 1 .. L /\ i + 1 - 1 = i
      BY <1>2
    <3> QED BY <1>5, <2>1, <3>1
  <2>3. ASSUME NEW p \in 1 .. L PROVE vRandom'[p] \in 0 .. L - 1 /\ mapInfo'[vRandom'[p]].nRandomPos = p
    <3>1. p - 1 \in 0 .. L - 1 /\ p - 1 + 1 = p
      BY <1>2
    <3> QED BY <1>5, <2>1, <3>1
  <2> QED BY <1>2, <2>1, <2>2, <2>3 DEF ByPlace
<1>10. TriedIn(mapInfo') = nNew .. L - 1 /\ NewIn(mapInfo') = 0 .. nNew - 1
  <2>1. ASSUME NEW i \in 0 .. L - 1
        PROVE  (i \in NewIn(mapInfo') <=> i < nNew) /\ (i \in TriedIn(mapInfo') <=> ~(i < nNew))
    <3>1. IF i < nNew THEN q[i] \in NewIn(mapInfo) ELSE q[i] \in TriedIn(mapInfo)
      BY <1>1 DEF Reloaded
    <3>2. ~(q[i] \in NewIn(mapInfo) /\ q[i] \in TriedIn(mapInfo))
      BY DEF NewIn
    <3> QED BY <1>4, <3>1, <3>2
  <2>2. TriedIn(mapInfo') \subseteq 0 .. L - 1 /\ NewIn(mapInfo') \subseteq 0 .. L - 1
    BY <1>2 DEF TriedIn, NewIn
  <2>3. \A i \in 0 .. L - 1 : (i \in 0 .. nNew - 1 <=> i < nNew) /\ (i \in nNew .. L - 1 <=> ~(i < nNew))
    BY <1>2
  <2>4. nNew .. L - 1 \subseteq 0 .. L - 1 /\ 0 .. nNew - 1 \subseteq 0 .. L - 1
    BY <1>2
  <2> QED BY <2>1, <2>2, <2>3, <2>4
<1>11. Cardinality(TriedIn(mapInfo')) = nTried /\ Cardinality(NewIn(mapInfo')) = nNew
  <2>1. L - 1 \in Int /\ nNew \in Int /\ nNew - 1 \in Int /\ 0 \in Int
    BY <1>2
  <2>2. Cardinality(nNew .. L - 1) = IF nNew > L - 1 THEN 0 ELSE L - 1 - nNew + 1
    BY <2>1, FS_Interval
  <2>3. Cardinality(0 .. nNew - 1) = IF 0 > nNew - 1 THEN 0 ELSE nNew - 1 - 0 + 1
    BY <2>1, FS_Interval
  <2>4. Cardinality(nNew .. L - 1) = nTried /\ Cardinality(0 .. nNew - 1) = nNew
    BY <1>2, <2>2, <2>3
  <2> QED BY <1>10, <2>4
<1>12. AInv'
  <2>1. nIdCount' \in 0 .. MaxId
    BY <1>0, <1>2
  <2>2. Linked(mapInfo, mapAddr, vRandom, nIdCount)'
    BY <1>7, <1>8, <1>9 DEF Linked
  <2>3. Tables(vvTried, vvNew, nIdCount)' /\ FiledIn(mapInfo, vvTried, vvNew)'
    <3>1. Tables(vvTried, vvNew, nIdCount)' <=> Tables(vvTried', vvNew', L)
      BY <1>2 DEF Tables
    <3>2. FiledIn(mapInfo, vvTried, vvNew)' <=> FiledIn(mapInfo', vvTried', vvNew')
      BY DEF FiledIn, InTried, InNew, OfTried, OfNew, TriedIn, NewIn, HoldingIn, BucketIn
    <3> QED BY <1>4, <3>1, <3>2
  <2>4. nTried' = Cardinality(TriedIn(mapInfo))' /\ nNew' = Cardinality(NewIn(mapInfo))'
    BY <1>2, <1>11 DEF TriedIn, NewIn
  <2> QED BY <2>1, <2>2, <2>3, <2>4 DEF AInv
<1>13. Known' = Known
  <2> DEFINE K(e, H) == [svc |-> e.svc, source |-> e.source, tried |-> e.fInTried, in |-> H]
  <2>1. Known = {K(mapInfo[n], HoldingIn(vvNew, n)) : n \in DOMAIN mapInfo}
    BY Zenon DEF Known, Holding, HoldingIn
  <2>2. Known' = {K(mapInfo'[i], HoldingIn(vvNew', i)) : i \in DOMAIN mapInfo'}
    BY Zenon DEF Known, Holding, HoldingIn
  <2>3. ASSUME NEW i \in 0 .. L - 1 PROVE K(mapInfo'[i], HoldingIn(vvNew', i)) = K(mapInfo[q[i]], HoldingIn(vvNew, q[i]))
    BY <1>4, <1>5
  <2> HIDE DEF K
  <2>4. ASSUME NEW n \in DOMAIN mapInfo PROVE \E i \in 0 .. L - 1 : n = q[i]
    BY <1>6
  <2>5. Known' = {K(mapInfo'[i], HoldingIn(vvNew', i)) : i \in 0 .. L - 1}
    BY <1>2, <2>2
  <2>6. Known' = {K(mapInfo[q[i]], HoldingIn(vvNew, q[i])) : i \in 0 .. L - 1}
    BY <2>3, <2>5
  <2> QED BY <1>5, <2>1, <2>4, <2>6
<1>14. \A n \in TriedIn(mapInfo) : HostOf[mapInfo[n].svc] \in DOMAIN mapAddr'
  BY <1>1 DEF Reloaded, TriedIn
<1> QED BY <1>12, <1>13, <1>14

-----------------------------------------------------------------------------
(* The theorems.                                                           *)

\* The empty address manager.
LEMMA InitIs == Init => AInv
<1> SUFFICES ASSUME Init PROVE AInv
  OBVIOUS
<1>1. /\ nIdCount = 0 /\ DOMAIN mapInfo = {} /\ DOMAIN mapAddr = {} /\ vRandom = <<>>
      /\ nTried = 0 /\ nNew = 0 /\ mapInfo = [n \in {} |-> 0]
      /\ vvTried = [k \in TriedBucket |-> <<>>] /\ vvNew = [b \in NewBucket |-> {}]
      /\ MaxId \in Nat /\ NewSize \in Nat /\ TriedSize \in Nat
  BY AddrAssumption DEF Init
<1>2. mapInfo \in [{} -> Info]
  BY <1>1
<1>3. Linked(mapInfo, mapAddr, vRandom, nIdCount)
  BY <1>1, <1>2 DEF Linked, Typed, ByHost, ByPlace
<1>4. TriedIn(mapInfo) = {} /\ NewIn(mapInfo) = {}
  BY <1>1 DEF TriedIn, NewIn
<1>5. Cardinality({}) = 0
  BY FS_EmptySet
<1>6. Tables(vvTried, vvNew, nIdCount)
  <2>1. /\ \A b \in NewBucket : vvNew[b] = {}
        /\ \A k \in TriedBucket : vvTried[k] = <<>> /\ Len(vvTried[k]) = 0
    BY <1>1
  <2>2. \A b \in NewBucket : Cardinality(vvNew[b]) <= NewSize
    BY <1>1, <1>5, <2>1
  <2>3. vvTried \in [TriedBucket -> Seq(0 .. nIdCount - 1)] /\ vvNew \in [NewBucket -> SUBSET (0 .. nIdCount - 1)]
    BY <1>1
  <2> QED BY <1>1, <2>1, <2>2, <2>3 DEF Tables
<1>7. FiledIn(mapInfo, vvTried, vvNew)
  BY <1>1, <1>4 DEF FiledIn, InTried, InNew, OfTried, OfNew
<1>8. nIdCount \in 0 .. MaxId
  BY <1>1
<1>9. nTried = Cardinality(TriedIn(mapInfo)) /\ nNew = Cardinality(NewIn(mapInfo))
  BY <1>1, <1>4, <1>5
<1> QED BY <1>3, <1>6, <1>7, <1>8, <1>9 DEF AInv

\* A step keeps the invariant, and forgets no entry that was tried.
LEMMA StepKeeps ==
  ASSUME AInv, [Next]_vars
  PROVE  AInv' /\ (Reload => Known' = Known)
         /\ \A n \in TriedIn(mapInfo) : HostOf[mapInfo[n].svc] \in DOMAIN mapAddr'
<1>1. ASSUME AInv', TriedStay
      PROVE  \A n \in TriedIn(mapInfo) : HostOf[mapInfo[n].svc] \in DOMAIN mapAddr'
  <2>1. ByHost(mapInfo, mapAddr)'
    BY <1>1 DEF AInv, Linked
  <2> QED BY <1>1, <2>1 DEF TriedStay, ByHost
<1>2. ASSUME Reload
      PROVE  AInv' /\ Known' = Known /\ \A n \in TriedIn(mapInfo) : HostOf[mapInfo[n].svc] \in DOMAIN mapAddr'
  BY <1>2, ReloadKeepsInv
<1>3. ASSUME NEW s \in Service, NEW src \in Source, AddUnknown(s, src) PROVE AInv' /\ TriedStay
  BY <1>3, AddUnknownKeeps
<1>4. ASSUME NEW s \in Service, NEW src \in Source, AddKnown(s, src) PROVE AInv' /\ TriedStay
  BY <1>4, AddKnownKeeps
<1>5. ASSUME NEW s \in Service, Good(s) PROVE AInv' /\ TriedStay
  BY <1>5, GoodKeeps
<1>6. ASSUME GetAddr PROVE AInv' /\ TriedStay
  BY <1>6, GetAddrKeeps
<1>7. ASSUME UNCHANGED vars PROVE AInv' /\ TriedStay
  <2>1. UNCHANGED <<nIdCount, mapInfo, mapAddr, vRandom, nTried, nNew, vvTried, vvNew>>
    BY <1>7 DEF vars
  <2>2. TriedStay
    BY <2>1 DEF TriedStay, TriedIn
  <2>3. Linked(mapInfo, mapAddr, vRandom, nIdCount)'
    BY <2>1 DEF AInv, Linked, Typed, ByHost, ByPlace
  <2>4. Tables(vvTried, vvNew, nIdCount)'
    BY <2>1 DEF AInv, Tables
  <2>5. FiledIn(mapInfo, vvTried, vvNew)'
    BY <2>1 DEF AInv, FiledIn, InTried, InNew, OfTried, OfNew, TriedIn, NewIn, HoldingIn, BucketIn
  <2>6. /\ (nTried = Cardinality(TriedIn(mapInfo)))' /\ (nNew = Cardinality(NewIn(mapInfo)))'
        /\ (nIdCount \in 0 .. MaxId)'
    BY <2>1 DEF AInv, TriedIn, NewIn
  <2> QED BY <2>2, <2>3, <2>4, <2>5, <2>6 DEF AInv
<1>8. (AInv' /\ TriedStay) \/ Reload
  BY <1>3, <1>4, <1>5, <1>6, <1>7 DEF Next
<1> QED BY <1>1, <1>2, <1>8

\* The invariant has every part of Consistent.
LEMMA InvIsConsistent == AInv => Consistent
<1> SUFFICES ASSUME AInv PROVE Consistent
  OBVIOUS
<1>0. /\ nIdCount \in Nat /\ nIdCount \in 0 .. MaxId /\ Id = 0 .. nIdCount - 1
      /\ Linked(mapInfo, mapAddr, vRandom, nIdCount) /\ Typed(mapInfo, mapAddr, vRandom, nIdCount)
      /\ ByHost(mapInfo, mapAddr) /\ ByPlace(mapInfo, vRandom)
      /\ FiledIn(mapInfo, vvTried, vvNew) /\ Tables(vvTried, vvNew, nIdCount)
      /\ nTried = Cardinality(TriedIn(mapInfo)) /\ nNew = Cardinality(NewIn(mapInfo))
  BY IndexIs DEF AInv, Id, Linked
<1>1. /\ DOMAIN mapInfo \subseteq Id /\ mapInfo \in [DOMAIN mapInfo -> Info]
      /\ DOMAIN mapAddr \subseteq Range(HostOf) /\ vRandom \in Seq(Id) /\ Len(vRandom) \in Nat
      /\ DOMAIN vRandom = 1 .. Len(vRandom)
      /\ vvTried \in [TriedBucket -> Seq(Id)] /\ vvNew \in [NewBucket -> SUBSET Id]
  BY <1>0 DEF Typed, Tables
<1>2. TriedIds = TriedIn(mapInfo) /\ NewIds = NewIn(mapInfo) /\ \A n : Holding(n) = HoldingIn(vvNew, n)
  BY DEF TriedIds, NewIds, TriedIn, NewIn, Holding, HoldingIn
<1>3. /\ IsFiniteSet(NewIn(mapInfo)) /\ IsFiniteSet(TriedIn(mapInfo))
      /\ nTried \in Nat /\ nNew \in Nat
  BY <1>0, IndexIs, FiniteEntries, FS_CardinalityType
<1>4. TypeOK
  <2>1. Range(mapAddr) \subseteq Id
    BY <1>0, <1>1 DEF ByHost, Range
  <2>2. nTried \in Int /\ nNew \in Int
    BY <1>3
  <2> QED BY <1>0, <1>1, <2>1, <2>2 DEF TypeOK
<1>5. Indexed
  BY <1>0, <1>1 DEF Indexed, ByHost, ByPlace
<1>6. ASSUME NEW k \in TriedBucket PROVE DOMAIN vvTried[k] = 1 .. Len(vvTried[k])
  <2>1. vvTried[k] \in Seq(Id)
    BY <1>1
  <2> QED BY <2>1
<1>7. Filed
  <2>1. ASSUME NEW n \in TriedIds
        PROVE  /\ mapInfo[n].nRefCount = 0 /\ Holding(n) = {}
               /\ Cardinality({i \in DOMAIN vvTried[GetTriedBucket[mapInfo[n].svc]] :
                                 vvTried[GetTriedBucket[mapInfo[n].svc]][i] = n}) = 1
    <3>1. n \in TriedIn(mapInfo) /\ n \in DOMAIN mapInfo
      BY <1>2 DEF TriedIn
    <3>2. PICK k : k = GetTriedBucket[mapInfo[n].svc]
      OBVIOUS
    <3>3. k \in TriedBucket
      <4>1. mapInfo[n].svc \in Service
        BY <1>1, <3>1 DEF Info
      <4> QED BY <3>2, <4>1, AddrAssumption
    <3>4. /\ mapInfo[n].nRefCount = 0 /\ HoldingIn(vvNew, n) = {}
          /\ \E i \in 1 .. Len(vvTried[k]) : vvTried[k][i] = n
      BY <1>0, <3>1, <3>2 DEF FiledIn, InTried, BucketIn
    <3>5. PICK p \in 1 .. Len(vvTried[k]) : vvTried[k][p] = n
      BY <3>4
    <3>6. \A i \in 1 .. Len(vvTried[k]) : vvTried[k][i] = n => i = p
      BY <1>0, <3>3, <3>5 DEF FiledIn, OfTried
    <3>7. {i \in DOMAIN vvTried[k] : vvTried[k][i] = n} = {p}
      BY <1>6, <3>3, <3>5, <3>6
    <3>8. Cardinality({p}) = 1
      BY FS_Singleton
    <3> QED BY <1>2, <3>2, <3>4, <3>7, <3>8
  <2>2. \A n \in NewIds : /\ mapInfo[n].nRefCount = Cardinality(Holding(n))
                          /\ mapInfo[n].nRefCount \in 1 .. MaxRef
    BY <1>0, <1>2 DEF FiledIn, InNew
  <2>3. \A k \in TriedBucket : \A i \in DOMAIN vvTried[k] :
           vvTried[k][i] \in TriedIds /\ GetTriedBucket[mapInfo[vvTried[k][i]].svc] = k
    BY <1>0, <1>2, <1>6 DEF FiledIn, OfTried, BucketIn
  <2>4. \A b \in NewBucket : vvNew[b] \subseteq NewIds
    BY <1>0, <1>2 DEF FiledIn, OfNew
  <2> QED BY <2>1, <2>2, <2>3, <2>4 DEF Filed
<1>8. Counted
  BY <1>0, <1>2 DEF Counted
<1>9. Bounded
  BY <1>0 DEF Bounded, Tables
<1> QED BY <1>4, <1>5, <1>7, <1>8, <1>9 DEF Consistent

\* The invariant is one.
LEMMA AddrInvariant == Spec => []AInv
<1>1. Init => AInv
  BY InitIs
<1>2. AInv /\ [Next]_vars => AInv'
  BY StepKeeps
<1> QED BY <1>1, <1>2, PTL DEF Spec

\* Whatever is added, tried, evicted, drawn and read back from peers.dat, in any
\* order and with any number of buckets of any size, Check_ would find nothing:
\* the three indexes, both tables, the reference counts and the counters agree.
THEOREM ConsistentAlways == Spec => []Consistent
<1>1. AInv => Consistent
  BY InvIsConsistent
<1> QED BY <1>1, AddrInvariant, PTL

\* Writing peers.dat and reading it back keeps every address, its source, its
\* table and its new buckets: no tried bucket is too full for what was in it, and
\* no entry is in more new buckets than are read.
THEOREM ReloadLosesNothing == Spec => ReloadKeeps
<1>1. AInv /\ [Next]_vars => [Reload => Known' = Known]_vars
  BY StepKeeps
<1> QED BY <1>1, AddrInvariant, PTL DEF Spec, ReloadKeeps

\* An address in the tried table is still known after any step: the entry that
\* MakeTried displaces finds place in a new bucket, however full they are.
THEOREM TriedNeverForgotten == Spec => NeverForgotten
<1>1. AInv /\ [Next]_vars =>
        [\A h \in DOMAIN mapAddr : mapInfo[mapAddr[h]].fInTried => h \in DOMAIN mapAddr']_vars
  <2> SUFFICES ASSUME AInv, [Next]_vars, NEW h \in DOMAIN mapAddr, mapInfo[mapAddr[h]].fInTried
               PROVE  h \in DOMAIN mapAddr'
    OBVIOUS
  <2>1. ByHost(mapInfo, mapAddr)
    BY DEF AInv, Linked
  <2>2. mapAddr[h] \in TriedIn(mapInfo) /\ HostOf[mapInfo[mapAddr[h]].svc] = h
    BY <2>1 DEF ByHost, TriedIn
  <2> QED BY <2>2, StepKeeps
<1> QED BY <1>1, AddrInvariant, PTL DEF Spec, NeverForgotten
=============================================================================
