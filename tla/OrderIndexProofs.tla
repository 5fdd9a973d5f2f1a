-------------------------- MODULE OrderIndexProofs --------------------------
(***************************************************************************)
(* The order index, for every hash function, every set of references and   *)
(* every size of the first table: probes end, no chain is ever broken, and *)
(* the table is the map that OrderMap promises, through every step of a    *)
(* rehash and of a backward shift.                                         *)
(*                                                                         *)
(* The proofs see the table as a ring.  Gap is the distance from one slot  *)
(* to another around it, as a difference that wraps once, so that the      *)
(* modulus of the code is gone after the first lemmas.                     *)
(***************************************************************************)
EXTENDS OrderIndex, FiniteSetTheorems, WellFoundedInduction, TLAPS

Gap(n, i, j) == IF j >= i THEN j - i ELSE j - i + n

EntryType == [ref : Refs \ {NullRef}, order : Orders]

IsTable(t) ==
  /\ IsFiniteSet(DOMAIN t) /\ DOMAIN t = 0 .. Capacity(t) - 1
  /\ t \in [DOMAIN t -> EntryType \cup {EmptySlot}]

Free(t) == \E k \in DOMAIN t : t[k].ref = NullRef

Home(t, i) == home_slot(t, t[i].ref)

\* The chain of the entry at i, in slots instead of steps.
Chained(t, i) ==
  \A k \in DOMAIN t :
    Gap(Capacity(t), Home(t, i), k) <= Gap(Capacity(t), Home(t, i), i) => t[k].ref # NullRef

Chains(t) == \A i \in Occupied(t) : Chained(t, i)

\* No reference occurs twice among the slots S.
Unique(t, S) == \A i, j \in S : t[i].ref = t[j].ref => i = j

-----------------------------------------------------------------------------
(***************************************************************************)
(* The inductive invariant.                                                *)
(***************************************************************************)
IndexType ==
  /\ hash \in Hashes
  /\ IsTable(slots) /\ IsTable(old)
  /\ {size, grow_at, at, hole} \subseteq Nat
  /\ ret \in BOOLEAN \cup Orders \cup {NoOrder}

Sized ==
  /\ size = Cardinality(Occupied(slots))
  /\ Capacity(slots) = 0 => grow_at = 0
  /\ Capacity(slots) # 0 =>
       Capacity(slots) >= 4 /\ grow_at = GrowAt(Capacity(slots)) /\ size <= grow_at

Idle ==
  /\ old = Table(0) /\ at = 0 /\ hole = 0 /\ pending = EmptySlot
  /\ Unique(slots, Occupied(slots))

\* The part of the old table before the cursor is in the new one, which has room for all of
\* it and for the insert that waits.
Rehashing ==
  /\ hole = 0 /\ pending \in EntryType
  /\ at <= Capacity(old) /\ size <= at
  /\ Capacity(slots) # 0 /\ Capacity(slots) >= 2 * Capacity(old)
  /\ Unique(slots, Occupied(slots)) /\ Unique(old, Occupied(old))
  /\ \A i \in Occupied(slots), k \in Occupied(old) : k >= at => slots[i].ref # old[k].ref

\* Between the hole h and the cursor a every slot is taken, by an entry whose chain starts
\* behind the hole.
Crossed(t, h, a) ==
  \A k \in DOMAIN t :
    Gap(Capacity(t), h, k) <= Gap(Capacity(t), h, a) =>
      /\ t[k].ref # NullRef
      /\ k # h => /\ Gap(Capacity(t), h, Home(t, k)) # 0
                  /\ Gap(Capacity(t), h, Home(t, k)) <= Gap(Capacity(t), h, k)

\* What the hole still holds is erased, or is in the table elsewhere.
Shifting ==
  /\ old = Table(0) /\ pending = EmptySlot
  /\ hole \in DOMAIN slots /\ at \in DOMAIN slots
  /\ Unique(slots, Occupied(slots) \ {hole})
  /\ Crossed(slots, hole, at)

IndexInv ==
  /\ IndexType /\ Sized /\ Chains(slots)
  /\ \/ pc = "idle" /\ Idle
     \/ pc = "rehash" /\ Rehashing
     \/ pc = "shift" /\ Shifting

-----------------------------------------------------------------------------
(***************************************************************************)
(* Tables and rings.                                                       *)
(***************************************************************************)
\* Every non-empty set of numbers has a least one.
LEMMA LeastNumber ==
  ASSUME NEW S \in SUBSET Nat, S # {}
  PROVE  \E d \in S : \A e \in S : d <= e
<1>1. \E d \in S : \A e \in S : ~(<<e, d>> \in OpToRel(<, Nat))
  BY NatLessThanWellFounded, WFMin
<1>2. PICK d \in S : \A e \in S : ~(<<e, d>> \in OpToRel(<, Nat))
  BY <1>1
<1> WITNESS d \in S
<1> TAKE e \in S
<1>3. <<e, d>> \in Nat \X Nat /\ ~(e < d)
  BY <1>2 DEF OpToRel
<1> QED
  BY <1>3

\* A table of n slots has n slots.
LEMMA CapacityIs ==
  ASSUME NEW t, NEW n \in Nat, DOMAIN t = 0 .. n - 1
  PROVE  Capacity(t) = n
<1>1. Cardinality(0 .. n - 1) = IF 0 > n - 1 THEN 0 ELSE n - 1 - 0 + 1
  BY FS_Interval
<1>2. CASE n = 0
  BY <1>1, <1>2 DEF Capacity
<1>3. CASE n # 0
  BY <1>1, <1>3 DEF Capacity
<1> QED
  BY <1>2, <1>3

\* What a table's type gives.
LEMMA TableFacts ==
  ASSUME NEW t, IsTable(t)
  PROVE  /\ Capacity(t) \in Nat /\ DOMAIN t = 0 .. Capacity(t) - 1
         /\ IsFiniteSet(DOMAIN t) /\ IsFiniteSet(Occupied(t))
         /\ Cardinality(Occupied(t)) \in Nat
         /\ \A i \in DOMAIN t : t[i] \in EntryType \cup {EmptySlot}
         /\ \A i \in Occupied(t) : i \in DOMAIN t /\ t[i] \in EntryType
<1>1. IsFiniteSet(DOMAIN t) /\ DOMAIN t = 0 .. Capacity(t) - 1
  BY DEF IsTable
<1>2. Capacity(t) \in Nat
  BY <1>1, FS_CardinalityType DEF Capacity
<1>3. IsFiniteSet(Occupied(t)) /\ Cardinality(Occupied(t)) \in Nat
  <2>1. Occupied(t) \in SUBSET DOMAIN t
    BY DEF Occupied
  <2> QED
    BY <1>1, <2>1, FS_Subset, FS_CardinalityType
<1>4. \A i \in DOMAIN t : t[i] \in EntryType \cup {EmptySlot}
  BY DEF IsTable
<1>5. \A i \in Occupied(t) : i \in DOMAIN t /\ t[i] \in EntryType
  BY <1>4 DEF Occupied, EmptySlot
<1> QED
  BY <1>1, <1>2, <1>3, <1>4, <1>5

\* A new table is one, and empty.
LEMMA NewTable ==
  ASSUME NEW n \in Nat
  PROVE  /\ IsTable(Table(n)) /\ Capacity(Table(n)) = n
         /\ Occupied(Table(n)) = {} /\ DOMAIN Table(n) = 0 .. n - 1
<1>1. DOMAIN Table(n) = 0 .. n - 1 /\ \A i \in 0 .. n - 1 : Table(n)[i] = EmptySlot
  BY DEF Table
<1>2. Capacity(Table(n)) = n
  BY <1>1, CapacityIs
<1>3. /\ Table(n) \in [DOMAIN Table(n) -> EntryType \cup {EmptySlot}]
      /\ IsFiniteSet(DOMAIN Table(n))
  BY <1>1, FS_Interval DEF Table
<1>4. Occupied(Table(n)) = {}
  BY <1>1 DEF Occupied, EmptySlot
<1> QED
  BY <1>1, <1>2, <1>3, <1>4 DEF IsTable

\* Only the table without slots has none.
LEMMA NoSlots ==
  ASSUME NEW t, IsTable(t)
  PROVE  t = Table(0) <=> Capacity(t) = 0
<1>1. Capacity(Table(0)) = 0
  BY NewTable
<1>2. ASSUME Capacity(t) = 0 PROVE t = Table(0)
  <2>1. DOMAIN t = 0 .. 0 - 1 /\ t \in [0 .. 0 - 1 -> EntryType \cup {EmptySlot}]
    BY <1>2 DEF IsTable
  <2> QED
    BY <2>1 DEF Table
<1> QED
  BY <1>1, <1>2

\* Distances and steps around the ring.
LEMMA Ring ==
  ASSUME NEW t, IsTable(t), NEW i \in DOMAIN t, NEW j \in DOMAIN t
  PROVE  /\ Distance(t, i, j) = Gap(Capacity(t), i, j)
         /\ Gap(Capacity(t), i, j) \in DOMAIN t
         /\ Around(t, i, Gap(Capacity(t), i, j)) = j
<1> DEFINE n == Capacity(t)
<1>1. n \in Nat /\ DOMAIN t = 0 .. n - 1
  BY TableFacts
<1> HIDE DEF n
<1>2. i \in Nat /\ j \in Nat /\ i < n /\ j < n /\ n \in Nat \ {0}
  BY <1>1
<1>3. (j - i) % n = Gap(n, i, j)
  <2>1. CASE j >= i
    BY <1>2, <2>1 DEF Gap
  <2>2. CASE ~(j >= i)
    <3>1. j - i + n \in Int /\ 0 <= j - i + n /\ j - i + n < n
      BY <1>2, <2>2
    <3>2. ((j - i + n) - n) % n = j - i + n
      BY <1>2, <3>1
    <3>3. (j - i + n) - n = j - i
      BY <1>2
    <3> QED
      BY <2>2, <3>2, <3>3 DEF Gap
  <2> QED
    BY <2>1, <2>2
<1>4. Gap(n, i, j) \in 0 .. n - 1
  BY <1>2 DEF Gap
<1>5. (i + Gap(n, i, j)) % n = j
  <2>1. CASE j >= i
    BY <1>2, <2>1 DEF Gap
  <2>2. CASE ~(j >= i)
    <3>1. i + Gap(n, i, j) = j + n
      BY <1>2, <2>2 DEF Gap
    <3>2. (j + n) % n = j
      BY <1>2
    <3> QED
      BY <3>1, <3>2
  <2> QED
    BY <2>1, <2>2
<1> QED
  BY <1>1, <1>3, <1>4, <1>5 DEF Distance, Around, n

\* A step of d around the ring is d away.
LEMMA Step ==
  ASSUME NEW t, IsTable(t), NEW i \in DOMAIN t, NEW d \in DOMAIN t
  PROVE  /\ Around(t, i, d) \in DOMAIN t
         /\ Gap(Capacity(t), i, Around(t, i, d)) = d
<1> DEFINE n == Capacity(t)
<1>1. n \in Nat /\ DOMAIN t = 0 .. n - 1
  BY TableFacts
<1> HIDE DEF n
<1>2. i \in Nat /\ d \in Nat /\ i < n /\ d < n /\ n \in Nat \ {0}
  BY <1>1
<1> DEFINE k == (i + d) % n
<1>3. k = IF i + d < n THEN i + d ELSE i + d - n
  <2>1. CASE i + d < n
    BY <1>2, <2>1
  <2>2. CASE ~(i + d < n)
    <3>1. i + d - n \in Int /\ 0 <= i + d - n /\ i + d - n < n
      BY <1>2, <2>2
    <3>2. ((i + d - n) + n) % n = i + d - n
      BY <1>2, <3>1
    <3>3. (i + d - n) + n = i + d
      BY <1>2
    <3> QED
      BY <2>2, <3>2, <3>3
  <2> QED
    BY <2>1, <2>2
<1> HIDE DEF k
<1>4. k \in 0 .. n - 1 /\ Gap(n, i, k) = d
  BY <1>2, <1>3 DEF Gap
<1> QED
  BY <1>1, <1>4 DEF Around, k, n

\* The home of a reference is a slot.
LEMMA HomeIsSlot ==
  ASSUME NEW t, IsTable(t), Capacity(t) # 0, NEW ref \in Refs, hash \in Hashes
  PROVE  home_slot(t, ref) \in DOMAIN t
<1>1. Capacity(t) \in Nat \ {0} /\ DOMAIN t = 0 .. Capacity(t) - 1
  BY TableFacts
<1>2. hash[ref] \in Nat
  BY IndexAssumption DEF Hashes
<1> DEFINE n == Capacity(t)
           m == hash[ref]
<1>3. n \in Nat \ {0} /\ m \in Int
  BY <1>1, <1>2
<1> HIDE DEF n, m
<1>4. m % n \in 0 .. n - 1
  BY <1>3
<1> QED
  BY <1>1, <1>4 DEF home_slot, n, m

-----------------------------------------------------------------------------
(***************************************************************************)
(* Probes.                                                                 *)
(***************************************************************************)
\* In a table with a free slot a probe ends, in the first slot from the reference's home that
\* is empty or holds the reference.
LEMMA ProbeEnds ==
  ASSUME NEW t, IsTable(t), Free(t), hash \in Hashes, NEW ref \in Refs
  PROVE  /\ Stops(t, ref) # {}
         /\ home_slot(t, ref) \in DOMAIN t
         /\ Probe(t, ref) \in DOMAIN t
         /\ t[Probe(t, ref)].ref \in {NullRef, ref}
         /\ \A k \in DOMAIN t :
              Gap(Capacity(t), home_slot(t, ref), k)
                < Gap(Capacity(t), home_slot(t, ref), Probe(t, ref))
              => t[k].ref \notin {NullRef, ref}
<1> DEFINE n == Capacity(t)
           h == home_slot(t, ref)
           S == Stops(t, ref)
<1>1. n \in Nat /\ DOMAIN t = 0 .. n - 1 /\ n # 0
  BY TableFacts DEF Free
<1>2. h \in DOMAIN t
  BY <1>1, HomeIsSlot
<1>3. S = {d \in DOMAIN t : t[Around(t, h, d)].ref \in {NullRef, ref}}
  BY DEF Stops
<1>4. \A k \in DOMAIN t : t[k].ref \in {NullRef, ref} => Gap(n, h, k) \in S
  <2> SUFFICES ASSUME NEW k \in DOMAIN t, t[k].ref \in {NullRef, ref}
               PROVE  Gap(n, h, k) \in S
    OBVIOUS
  <2>1. Gap(n, h, k) \in DOMAIN t /\ Around(t, h, Gap(n, h, k)) = k
    BY <1>2, Ring
  <2> QED
    BY <1>3, <2>1
<1>5. S # {}
  BY <1>4 DEF Free
<1>6. S \in SUBSET Nat /\ S \subseteq DOMAIN t
  BY <1>1, <1>3
<1> DEFINE m == CHOOSE d \in S : \A e \in S : d <= e
<1>7. \E d \in S : \A e \in S : d <= e
  <2> HIDE DEF S
  <2> QED
    BY <1>5, <1>6, LeastNumber
<1>8. m \in S /\ \A e \in S : m <= e
  <2> HIDE DEF S
  <2> QED
    BY <1>7
<1>9. Probe(t, ref) = Around(t, h, m)
  BY DEF Probe
<1> HIDE DEF m, S, h
<1>10. /\ Probe(t, ref) \in DOMAIN t
       /\ Gap(n, h, Probe(t, ref)) = m
       /\ t[Probe(t, ref)].ref \in {NullRef, ref}
  BY <1>2, <1>3, <1>6, <1>8, <1>9, Step
<1>11. ASSUME NEW k \in DOMAIN t, Gap(n, h, k) < Gap(n, h, Probe(t, ref))
       PROVE  t[k].ref \notin {NullRef, ref}
  <2>1. SUFFICES ASSUME t[k].ref \in {NullRef, ref} PROVE FALSE
    OBVIOUS
  <2>2. Gap(n, h, k) \in S /\ m <= Gap(n, h, k)
    BY <1>4, <1>8, <2>1
  <2>3. m \in Nat /\ Gap(n, h, k) \in Nat
    BY <1>6, <1>8, <2>2
  <2> QED
    BY <1>10, <1>11, <2>2, <2>3
<1> QED
  BY <1>2, <1>5, <1>10, <1>11 DEF h, S

\* In the same slots no two are as far from one.
LEMMA GapsDiffer ==
  ASSUME NEW t, IsTable(t), NEW i \in DOMAIN t, NEW j \in DOMAIN t, NEW k \in DOMAIN t,
         Gap(Capacity(t), i, j) = Gap(Capacity(t), i, k)
  PROVE  j = k
BY Ring

\* Where chains are whole, a lookup finds a reference if and only if it is in the table, in
\* the slot where the probe stops.
LEMMA LookupFinds ==
  ASSUME NEW t, IsTable(t), Free(t), Chains(t), hash \in Hashes, NEW ref \in Refs
  PROVE  /\ Found(t, ref) => ref # NullRef /\ t[Probe(t, ref)].ref = ref
         /\ \A i \in Occupied(t) : t[i].ref = ref => Found(t, ref)
<1> DEFINE n == Capacity(t)
           h == home_slot(t, ref)
           p == Probe(t, ref)
<1>1. /\ h \in DOMAIN t /\ p \in DOMAIN t
      /\ t[p].ref \in {NullRef, ref}
      /\ \A k \in DOMAIN t : Gap(n, h, k) < Gap(n, h, p) => t[k].ref \notin {NullRef, ref}
  BY ProbeEnds
<1>2. Found(t, ref) <=> t[p].ref # NullRef
  BY DEF Found
<1>3. ASSUME NEW i \in Occupied(t), t[i].ref = ref PROVE Found(t, ref)
  <2>1. i \in DOMAIN t
    BY DEF Occupied
  <2>2. Gap(n, h, i) \in Nat /\ Gap(n, h, p) \in Nat
    BY <1>1, <2>1, Ring, TableFacts
  <2>3. Gap(n, h, p) <= Gap(n, h, i)
    BY <1>1, <1>3, <2>1, <2>2
  <2>4. Chained(t, i) /\ Home(t, i) = h
    BY <1>3 DEF Chains, Home
  <2>5. t[p].ref # NullRef
    BY <1>1, <2>3, <2>4 DEF Chained
  <2> QED
    BY <1>2, <2>5
<1> QED
  BY <1>1, <1>2, <1>3

\* The table u is t with e in slot p.
IsPut(t, p, e, u) ==
  /\ IsTable(u) /\ DOMAIN u = DOMAIN t /\ Capacity(u) = Capacity(t)
  /\ u[p] = e /\ \A i \in DOMAIN t : i # p => u[i] = t[i]
  /\ \A ref \in Refs : home_slot(u, ref) = home_slot(t, ref)
  /\ e \in EntryType => Occupied(u) = Occupied(t) \cup {p}
  /\ e = EmptySlot => Occupied(u) = Occupied(t) \ {p}

\* Putting an entry into a slot, or emptying one, gives a table.
LEMMA PutSlot ==
  ASSUME NEW t, IsTable(t), NEW p \in DOMAIN t, NEW e \in EntryType \cup {EmptySlot}
  PROVE  IsPut(t, p, e, [t EXCEPT ![p] = e])
<1> DEFINE u == [t EXCEPT ![p] = e]
<1>1. /\ DOMAIN u = DOMAIN t
      /\ u[p] = e /\ \A i \in DOMAIN t : i # p => u[i] = t[i]
      /\ u \in [DOMAIN t -> EntryType \cup {EmptySlot}]
  BY DEF IsTable
<1> HIDE DEF u
<1>2. Capacity(u) = Capacity(t)
  BY <1>1 DEF Capacity
<1>3. IsTable(u)
  BY <1>1, <1>2 DEF IsTable
<1>4. e \in EntryType => e.ref # NullRef
  BY DEF EntryType
<1>5. e = EmptySlot => e.ref = NullRef
  BY DEF EmptySlot
<1>6. e \in EntryType => Occupied(u) = Occupied(t) \cup {p}
  BY <1>1, <1>4 DEF Occupied
<1>7. e = EmptySlot => Occupied(u) = Occupied(t) \ {p}
  BY <1>1, <1>5 DEF Occupied
<1>8. \A ref \in Refs : home_slot(u, ref) = home_slot(t, ref)
  BY <1>2 DEF home_slot
<1>9. IsPut(t, p, e, u)
  BY <1>1, <1>2, <1>3, <1>6, <1>7, <1>8 DEF IsPut
<1> QED
  BY <1>9 DEF u

\* The table u is t with the new entry e where the probe for it stops.
IsStored(t, e, u) ==
  /\ Probe(t, e.ref) \in DOMAIN t \ Occupied(t)
  /\ IsPut(t, Probe(t, e.ref), e, u)
  /\ Occupied(u) = Occupied(t) \cup {Probe(t, e.ref)}
  /\ Cardinality(Occupied(u)) = Cardinality(Occupied(t)) + 1
  /\ Chains(u)
  /\ \A i \in Occupied(t) : t[i].ref # e.ref

\* A reference that is not found is stored in an empty slot, and every chain stays whole.
LEMMA StoreKeeps ==
  ASSUME NEW t, IsTable(t), Free(t), Chains(t), hash \in Hashes,
         NEW e \in EntryType, ~Found(t, e.ref)
  PROVE  IsStored(t, e, [t EXCEPT ![Probe(t, e.ref)] = e])
<1> DEFINE n == Capacity(t)
           h == home_slot(t, e.ref)
           p == Probe(t, e.ref)
           u == [t EXCEPT ![p] = e]
<1>0. e.ref \in Refs /\ e.ref # NullRef
  BY DEF EntryType
<1>1. /\ h \in DOMAIN t /\ p \in DOMAIN t
      /\ t[p].ref \in {NullRef, e.ref}
      /\ \A k \in DOMAIN t : Gap(n, h, k) < Gap(n, h, p) => t[k].ref \notin {NullRef, e.ref}
  BY <1>0, ProbeEnds
<1>2. t[p].ref = NullRef
  BY DEF Found
<1>3. p \in DOMAIN t \ Occupied(t)
  BY <1>1, <1>2 DEF Occupied
<1>4. IsPut(t, p, e, u)
  <2>1. p \in DOMAIN t /\ e \in EntryType \cup {EmptySlot}
    BY <1>1
  <2> HIDE DEF p
  <2> QED
    BY <2>1, PutSlot
<1>5. /\ DOMAIN u = DOMAIN t /\ Capacity(u) = n
      /\ u[p] = e /\ \A i \in DOMAIN t : i # p => u[i] = t[i]
      /\ \A ref \in Refs : home_slot(u, ref) = home_slot(t, ref)
      /\ Occupied(u) = Occupied(t) \cup {p}
  BY <1>4 DEF IsPut
<1>6. Cardinality(Occupied(u)) = Cardinality(Occupied(t)) + 1
  BY <1>3, <1>5, TableFacts, FS_AddElement
<1> HIDE DEF u, p, h
<1>7. ASSUME NEW i \in Occupied(u) PROVE Chained(u, i)
  <2> SUFFICES ASSUME NEW k \in DOMAIN u,
                      Gap(n, Home(u, i), k) <= Gap(n, Home(u, i), i)
               PROVE  u[k].ref # NullRef
    BY <1>5 DEF Chained
  <2>1. CASE k = p
    BY <1>0, <1>5, <2>1
  <2>2. CASE k # p /\ i = p
    <3>1. Home(u, i) = h
      BY <1>0, <1>5, <2>2 DEF Home, h
    <3>2. Gap(n, h, k) # Gap(n, h, p)
      BY <1>1, <1>5, <2>2, GapsDiffer
    <3>3. Gap(n, h, k) \in Nat /\ Gap(n, h, p) \in Nat
      BY <1>1, <1>5, Ring, TableFacts
    <3>4. Gap(n, h, k) < Gap(n, h, p)
      BY <2>2, <3>1, <3>2, <3>3
    <3> QED
      BY <1>1, <1>5, <2>2, <3>4
  <2>3. CASE k # p /\ i # p
    <3>1. i \in Occupied(t) /\ i \in DOMAIN t /\ t[i].ref \in Refs /\ u[i] = t[i]
      BY <1>5, <2>3, TableFacts DEF EntryType
    <3>2. Home(u, i) = Home(t, i)
      BY <1>5, <3>1 DEF Home
    <3>3. t[k].ref # NullRef
      BY <1>5, <3>1, <3>2 DEF Chains, Chained
    <3> QED
      BY <1>5, <2>3, <3>3
  <2> QED
    BY <2>1, <2>2, <2>3
<1>8. \A i \in Occupied(t) : t[i].ref # e.ref
  BY <1>0, LookupFinds
<1> QED
  BY <1>3, <1>4, <1>5, <1>6, <1>7, <1>8 DEF Chains, IsStored, u, p

\* What the size leaves: a table that is allocated has a free slot.
LEMMA SomeFree ==
  ASSUME IndexType, Sized, Capacity(slots) # 0
  PROVE  Free(slots)
<1> DEFINE n == Capacity(slots)
           q == n \div 4
<1>1. /\ n \in Nat /\ DOMAIN slots = 0 .. n - 1 /\ IsFiniteSet(DOMAIN slots)
      /\ size \in Nat /\ size = Cardinality(Occupied(slots))
      /\ n >= 4 /\ size <= n - n \div 4
  BY TableFacts DEF IndexType, Sized, GrowAt
<1>2. size < n
  <2> HIDE DEF n
  <2>1. n \div 4 \in Int /\ n < (n \div 4) * 4 + 4
    BY <1>1
  <2> QED
    BY <1>1, <2>1
<1>3. Cardinality(DOMAIN slots) = n
  BY DEF Capacity
<1>4. Occupied(slots) # DOMAIN slots
  <2> HIDE DEF n
  <2> QED
    BY <1>1, <1>2, <1>3
<1> QED
  BY <1>4 DEF Occupied, Free

-----------------------------------------------------------------------------
(***************************************************************************)
(* The table as a map.                                                     *)
(***************************************************************************)
\* No two entries of L have the same reference.
Keyed(L) == \A s, e \in L : s.ref = e.ref => s = e

Keys(L) == {s.ref : s \in L}

MapOf(L) == [r \in Keys(L) |-> (CHOOSE s \in L : s.ref = r).order]

Entries(t, S) == {t[i] : i \in S}

\* The map has the order of each entry under its reference.
LEMMA MapHas ==
  ASSUME NEW L, Keyed(L), NEW s \in L
  PROVE  s.ref \in DOMAIN MapOf(L) /\ MapOf(L)[s.ref] = s.order
<1> DEFINE c == CHOOSE e \in L : e.ref = s.ref
<1>1. c \in L /\ c.ref = s.ref
  OBVIOUS
<1>2. c = s
  BY <1>1 DEF Keyed
<1>3. s.ref \in Keys(L)
  BY DEF Keys
<1> QED
  BY <1>2, <1>3 DEF MapOf

\* Maps that have the same orders under the same references are the same.
LEMMA MapIs ==
  ASSUME NEW L, Keyed(L), NEW f, f = [r \in DOMAIN f |-> f[r]], DOMAIN f = Keys(L),
         \A s \in L : f[s.ref] = s.order
  PROVE  MapOf(L) = f
<1>1. DOMAIN MapOf(L) = Keys(L) /\ MapOf(L) = [r \in Keys(L) |-> MapOf(L)[r]]
  BY DEF MapOf
<1>2. ASSUME NEW r \in Keys(L) PROVE MapOf(L)[r] = f[r]
  <2>1. PICK s \in L : s.ref = r
    BY DEF Keys
  <2> QED
    BY <2>1, MapHas
<1> QED
  BY <1>1, <1>2

\* A new entry is a new pair of the map.
LEMMA MapAdd ==
  ASSUME NEW L, Keyed(L), NEW e, e.ref \notin Keys(L)
  PROVE  /\ Keyed(L \cup {e})
         /\ MapOf(L \cup {e}) =
              [r \in DOMAIN MapOf(L) \cup {e.ref} |->
                 IF r = e.ref THEN e.order ELSE MapOf(L)[r]]
<1> DEFINE f == [r \in DOMAIN MapOf(L) \cup {e.ref} |->
                   IF r = e.ref THEN e.order ELSE MapOf(L)[r]]
<1>1. Keyed(L \cup {e})
  BY DEF Keyed, Keys
<1>2. DOMAIN f = Keys(L \cup {e}) /\ f = [r \in DOMAIN f |-> f[r]]
  BY DEF Keys, MapOf
<1>3. ASSUME NEW s \in L \cup {e} PROVE f[s.ref] = s.order
  <2>1. CASE s = e
    BY <2>1
  <2>2. CASE s # e
    <3>1. s \in L /\ s.ref # e.ref
      BY <2>2 DEF Keys
    <3> QED
      BY <3>1, MapHas
  <2> QED
    BY <2>1, <2>2
<1> HIDE DEF f
<1>4. MapOf(L \cup {e}) = f
  <2> DEFINE M == L \cup {e}
  <2>1. Keyed(M) /\ f = [r \in DOMAIN f |-> f[r]] /\ DOMAIN f = Keys(M)
    BY <1>1, <1>2
  <2>2. \A s \in M : f[s.ref] = s.order
    BY <1>3
  <2> HIDE DEF M
  <2>3. MapOf(M) = f
    BY <2>1, <2>2, MapIs
  <2> QED
    BY <2>3 DEF M
<1> QED
  BY <1>1, <1>4 DEF f

\* An entry less is a pair less.
LEMMA MapDrop ==
  ASSUME NEW L, Keyed(L), NEW e \in L
  PROVE  /\ Keyed(L \ {e})
         /\ MapOf(L \ {e}) = [r \in DOMAIN MapOf(L) \ {e.ref} |-> MapOf(L)[r]]
<1> DEFINE f == [r \in DOMAIN MapOf(L) \ {e.ref} |-> MapOf(L)[r]]
<1>1. Keyed(L \ {e})
  BY DEF Keyed
<1>2. DOMAIN f = Keys(L \ {e})
  BY DEF Keys, MapOf, Keyed
<1>3. \A s \in L \ {e} : f[s.ref] = s.order
  BY MapHas DEF Keyed
<1>4. f = [r \in DOMAIN f |-> f[r]]
  OBVIOUS
<1> HIDE DEF f
<1>5. MapOf(L \ {e}) = f
  <2> DEFINE M == L \ {e}
  <2>1. Keyed(M) /\ f = [r \in DOMAIN f |-> f[r]] /\ DOMAIN f = Keys(M)
    BY <1>1, <1>2, <1>4
  <2>2. \A s \in M : f[s.ref] = s.order
    BY <1>3
  <2> HIDE DEF M
  <2>3. MapOf(M) = f
    BY <2>1, <2>2, MapIs
  <2> QED
    BY <2>3 DEF M
<1> QED
  BY <1>1, <1>5 DEF f

\* An entry written in place changes the order of its pair.
LEMMA MapWrite ==
  ASSUME NEW L, Keyed(L), NEW e \in L, NEW d, d.ref = e.ref
  PROVE  /\ Keyed((L \ {e}) \cup {d})
         /\ MapOf((L \ {e}) \cup {d}) = [MapOf(L) EXCEPT ![e.ref] = d.order]
<1> DEFINE f == [MapOf(L) EXCEPT ![e.ref] = d.order]
           M == (L \ {e}) \cup {d}
<1>1. Keyed(M)
  BY DEF Keyed
<1>2. DOMAIN f = Keys(L) /\ f = [r \in DOMAIN f |-> f[r]]
  <2> DEFINE g == MapOf(L)
  <2>1. g = [r \in Keys(L) |-> g[r]]
    BY DEF MapOf
  <2> HIDE DEF g
  <2>2. [g EXCEPT ![e.ref] = d.order]
          = [r \in Keys(L) |-> IF r = e.ref THEN d.order ELSE g[r]]
    BY <2>1
  <2> QED
    BY <2>2 DEF g
<1>3. Keys(M) = Keys(L)
  BY DEF Keys
<1>4. ASSUME NEW s \in M PROVE f[s.ref] = s.order
  <2>1. CASE s = d
    BY <2>1, MapHas
  <2>2. CASE s # d
    <3>1. s \in L /\ s.ref # e.ref
      BY <2>2 DEF Keyed
    <3> QED
      BY <3>1, MapHas
  <2> QED
    BY <2>1, <2>2
<1> HIDE DEF f
<1>5. MapOf(M) = f
  <2> HIDE DEF M
  <2> QED
    BY <1>1, <1>2, <1>3, <1>4, MapIs
<1> QED
  BY <1>1, <1>5 DEF f

\* Entries under different references have a key each.
LEMMA UniqueKeys ==
  ASSUME NEW t, NEW S, Unique(t, S)
  PROVE  Keyed(Entries(t, S))
BY DEF Unique, Keyed, Entries

-----------------------------------------------------------------------------
(***************************************************************************)
(* The backward shift.                                                     *)
(***************************************************************************)
\* Distances on a ring, seen from any of its slots.
LEMMA Turn ==
  ASSUME NEW n \in Nat, NEW h \in 0 .. n - 1, NEW i \in 0 .. n - 1, NEW j \in 0 .. n - 1
  PROVE  /\ Gap(n, i, j) = Gap(n, Gap(n, h, i), Gap(n, h, j))
         /\ Gap(n, h, i) \in 0 .. n - 1
         /\ Gap(n, h, h) = 0
         /\ Gap(n, h, i) = 0 => i = h
         /\ Gap(n, i, h) = IF Gap(n, h, i) = 0 THEN 0 ELSE n - Gap(n, h, i)
BY DEF Gap

\* The cursor has not come round: a free slot is ahead of it, and the next slot is one
\* further from the hole.
LEMMA CursorMoves ==
  ASSUME NEW t, IsTable(t), Free(t), NEW h \in DOMAIN t, NEW a \in DOMAIN t, Crossed(t, h, a)
  PROVE  /\ Around(t, a, 1) \in DOMAIN t /\ Around(t, a, 1) # h
         /\ Gap(Capacity(t), h, Around(t, a, 1)) = Gap(Capacity(t), h, a) + 1
<1> DEFINE n == Capacity(t)
           j == Around(t, a, 1)
<1>1. n \in Nat /\ DOMAIN t = 0 .. n - 1
  BY TableFacts
<1>2. PICK f \in DOMAIN t : t[f].ref = NullRef
  BY DEF Free
<1>3. /\ ~(Gap(n, h, f) <= Gap(n, h, a))
      /\ Gap(n, h, f) \in 0 .. n - 1 /\ Gap(n, h, a) \in 0 .. n - 1
  BY <1>1, <1>2, Turn DEF Crossed
<1>4. Gap(n, h, a) < n - 1 /\ 1 \in DOMAIN t
  <2> HIDE DEF n
  <2> QED
    BY <1>1, <1>3
<1>5. j \in DOMAIN t /\ Gap(n, a, j) = 1
  BY <1>4, Step
<1>6. /\ Gap(n, a, j) = Gap(n, Gap(n, h, a), Gap(n, h, j))
      /\ Gap(n, h, j) \in 0 .. n - 1 /\ Gap(n, h, h) = 0
  <2> HIDE DEF n, j
  <2> QED
    BY <1>1, <1>5, Turn
<1> HIDE DEF n, j
<1>7. Gap(n, h, j) = Gap(n, h, a) + 1
  BY SMTT(30), <1>1, <1>3, <1>4, <1>5, <1>6 DEF Gap
<1>8. j # h
  BY <1>3, <1>6, <1>7
<1> QED
  BY <1>5, <1>7, <1>8 DEF n, j

\* When the next slot is empty no chain goes through the hole: it can be emptied.
LEMMA ShiftEnds ==
  ASSUME NEW t, IsTable(t), Free(t), Chains(t), hash \in Hashes,
         NEW h \in DOMAIN t, NEW a \in DOMAIN t, Crossed(t, h, a),
         t[Around(t, a, 1)].ref = NullRef
  PROVE  /\ IsPut(t, h, EmptySlot, [t EXCEPT ![h] = EmptySlot])
         /\ h \in Occupied(t)
         /\ Chains([t EXCEPT ![h] = EmptySlot])
<1> DEFINE n == Capacity(t)
           j == Around(t, a, 1)
           u == [t EXCEPT ![h] = EmptySlot]
<1>1. n \in Nat /\ DOMAIN t = 0 .. n - 1
  BY TableFacts
<1>2. j \in DOMAIN t /\ j # h /\ Gap(n, h, j) = Gap(n, h, a) + 1 /\ t[j].ref = NullRef
  BY CursorMoves
<1>3. IsPut(t, h, EmptySlot, u)
  BY PutSlot
<1>4. /\ DOMAIN u = DOMAIN t /\ Capacity(u) = n
      /\ \A i \in DOMAIN t : i # h => u[i] = t[i]
      /\ \A ref \in Refs : home_slot(u, ref) = home_slot(t, ref)
      /\ Occupied(u) = Occupied(t) \ {h}
  BY <1>3 DEF IsPut
<1>5. h \in Occupied(t)
  <2>1. Gap(n, h, h) = 0 /\ Gap(n, h, a) \in Nat
    BY <1>1, Turn
  <2>2. Gap(n, h, h) <= Gap(n, h, a)
    BY <2>1
  <2> QED
    BY <2>2 DEF Crossed, Occupied
<1> HIDE DEF u, j
<1>6. ASSUME NEW i \in Occupied(u) PROVE Chained(u, i)
  <2>1. /\ i \in DOMAIN t /\ i # h /\ i \in Occupied(t) /\ u[i] = t[i]
        /\ t[i].ref \in Refs /\ t[i].ref # NullRef
    BY <1>4, TableFacts DEF EntryType
  <2> DEFINE m == Home(t, i)
             x == Gap(n, h, m)
             y == Gap(n, h, i)
             z == Gap(n, h, j)
  <2>2. Home(u, i) = m
    BY <1>4, <2>1 DEF Home
  <2>3. m \in DOMAIN t
    BY <1>1, <1>2, <2>1, HomeIsSlot DEF Home
  <2>4. /\ Gap(n, m, i) = Gap(n, x, y) /\ Gap(n, m, j) = Gap(n, x, z)
        /\ Gap(n, m, h) = IF x = 0 THEN 0 ELSE n - x
        /\ x \in 0 .. n - 1 /\ y \in 0 .. n - 1 /\ z \in 0 .. n - 1
    <3>1. /\ m \in 0 .. n - 1 /\ j \in 0 .. n - 1
          /\ h \in 0 .. n - 1 /\ i \in 0 .. n - 1
      BY <1>1, <1>2, <2>1, <2>3
    <3> HIDE DEF m, n
    <3>2. Gap(n, m, i) = Gap(n, Gap(n, h, m), Gap(n, h, i))
      BY <1>1, <3>1, Turn
    <3>3. Gap(n, m, j) = Gap(n, Gap(n, h, m), Gap(n, h, j))
      BY <1>1, <3>1, Turn
    <3>4. Gap(n, m, h) = IF Gap(n, h, m) = 0 THEN 0 ELSE n - Gap(n, h, m)
      BY <1>1, <3>1, Turn
    <3>5. /\ Gap(n, h, m) \in 0 .. n - 1 /\ Gap(n, h, i) \in 0 .. n - 1
          /\ Gap(n, h, j) \in 0 .. n - 1
      BY <1>1, <3>1, Turn
    <3> QED
      BY <3>2, <3>3, <3>4, <3>5
  <2>5. Gap(n, m, j) > Gap(n, m, i)
    <3>1. ~(Gap(n, m, j) <= Gap(n, m, i))
      BY <1>2, <2>1 DEF Chains, Chained
    <3>2. Gap(n, m, j) \in Int /\ Gap(n, m, i) \in Int
      <4> HIDE DEF m, n
      <4> QED
        BY SMTT(30), <1>1, <1>2, <2>1, <2>3 DEF Gap
    <3> QED
      BY <3>1, <3>2
  <2>6. y # z
    <3>1. i # j
      BY <1>2, <2>1
    <3> QED
      BY <1>2, <2>1, <3>1, GapsDiffer
  <2>7. CASE y <= Gap(n, h, a)
    <3>1. x # 0 /\ x <= y
      BY <2>1, <2>7 DEF Crossed
    <3>2. ~(Gap(n, m, h) <= Gap(n, m, i))
      <4> HIDE DEF x, y, z, m
      <4> QED
        BY <1>1, <2>4, <3>1 DEF Gap
    <3> QED
      BY <1>4, <2>1, <2>2, <3>2 DEF Chains, Chained
  <2>8. CASE ~(y <= Gap(n, h, a))
    <3>1. y > z /\ z > 0
      <4>1. Gap(n, h, a) \in 0 .. n - 1
        BY <1>1, Turn
      <4> HIDE DEF n
      <4> QED
        BY <1>1, <1>2, <2>4, <2>6, <2>8, <4>1
    <3>2. ~(Gap(n, m, h) <= Gap(n, m, i))
      <4> HIDE DEF x, y, z, m
      <4> QED
        BY <1>1, <2>4, <2>5, <3>1 DEF Gap
    <3> QED
      BY <1>4, <2>1, <2>2, <3>2 DEF Chains, Chained
  <2> QED
    BY <2>7, <2>8
<1> QED
  BY <1>3, <1>5, <1>6 DEF Chains, u, j

\* An entry whose home is behind the hole stays.
LEMMA ShiftStays ==
  ASSUME NEW t, IsTable(t), Free(t), hash \in Hashes,
         NEW h \in DOMAIN t, NEW a \in DOMAIN t, Crossed(t, h, a),
         t[Around(t, a, 1)].ref # NullRef,
         Gap(Capacity(t), h, Home(t, Around(t, a, 1))) # 0,
         Gap(Capacity(t), h, Home(t, Around(t, a, 1)))
           <= Gap(Capacity(t), h, Around(t, a, 1))
  PROVE  Crossed(t, h, Around(t, a, 1))
<1> DEFINE n == Capacity(t)
           j == Around(t, a, 1)
<1>1. n \in Nat /\ DOMAIN t = 0 .. n - 1
  BY TableFacts
<1>2. j \in DOMAIN t /\ j # h /\ Gap(n, h, j) = Gap(n, h, a) + 1
  BY CursorMoves
<1> HIDE DEF j
<1>3. ASSUME NEW k \in DOMAIN t, Gap(n, h, k) <= Gap(n, h, j), k # j
      PROVE  Gap(n, h, k) <= Gap(n, h, a)
  <2>1. Gap(n, h, k) # Gap(n, h, j)
    BY <1>2, <1>3, GapsDiffer
  <2>2. Gap(n, h, k) \in Int /\ Gap(n, h, a) \in Int
    BY <1>1 DEF Gap
  <2> QED
    BY <1>2, <1>3, <2>1, <2>2
<1> QED
  BY <1>2, <1>3 DEF Crossed, j

\* An entry whose chain goes through the hole moves into it and leaves the next hole.
LEMMA ShiftMoves ==
  ASSUME NEW t, IsTable(t), Free(t), Chains(t), hash \in Hashes,
         NEW h \in DOMAIN t, NEW a \in DOMAIN t, Crossed(t, h, a),
         t[Around(t, a, 1)].ref # NullRef,
         ~ /\ Gap(Capacity(t), h, Home(t, Around(t, a, 1))) # 0
           /\ Gap(Capacity(t), h, Home(t, Around(t, a, 1)))
                <= Gap(Capacity(t), h, Around(t, a, 1))
  PROVE  LET j == Around(t, a, 1)
             u == [t EXCEPT ![h] = t[j]]
         IN  /\ IsPut(t, h, t[j], u)
             /\ t[j] \in EntryType /\ Occupied(u) = Occupied(t) /\ h \in Occupied(t)
             /\ Chains(u) /\ Crossed(u, j, j)
<1> DEFINE n == Capacity(t)
           j == Around(t, a, 1)
           u == [t EXCEPT ![h] = t[j]]
<1>1. n \in Nat /\ DOMAIN t = 0 .. n - 1
  BY TableFacts
<1>2. j \in DOMAIN t /\ j # h /\ Gap(n, h, j) = Gap(n, h, a) + 1 /\ t[j].ref # NullRef
  BY CursorMoves
<1> HIDE DEF j
<1>3. j \in Occupied(t) /\ t[j] \in EntryType /\ t[j].ref \in Refs
  BY <1>2, TableFacts DEF Occupied, EntryType
<1>4. IsPut(t, h, t[j], u)
  <2>1. t[j] \in EntryType \cup {EmptySlot}
    BY <1>3
  <2> QED
    BY <2>1, PutSlot
<1>5. h \in Occupied(t)
  <2>1. Gap(n, h, h) = 0 /\ Gap(n, h, a) \in Nat
    BY <1>1, Turn
  <2>2. Gap(n, h, h) <= Gap(n, h, a)
    BY <2>1
  <2> QED
    BY <2>2 DEF Crossed, Occupied
<1>6. /\ IsTable(u) /\ DOMAIN u = DOMAIN t /\ Capacity(u) = n
      /\ u[h] = t[j] /\ \A i \in DOMAIN t : i # h => u[i] = t[i]
      /\ \A ref \in Refs : home_slot(u, ref) = home_slot(t, ref)
      /\ Occupied(u) = Occupied(t)
  BY <1>3, <1>4, <1>5 DEF IsPut
<1> HIDE DEF u
<1>7. \A k \in DOMAIN t : t[k].ref # NullRef => u[k].ref # NullRef
  BY <1>2, <1>6
<1>8. ASSUME NEW i \in Occupied(u) PROVE Chained(u, i)
  <2>1. CASE i # h
    <3>1. i \in Occupied(t) /\ u[i] = t[i] /\ t[i].ref \in Refs
      BY <1>6, <2>1, TableFacts DEF EntryType
    <3>2. Home(u, i) = Home(t, i) /\ Chained(t, i)
      BY <1>6, <3>1 DEF Home, Chains
    <3> QED
      BY <1>6, <1>7, <3>2 DEF Chained
  <2>2. CASE i = h
    <3> DEFINE m == Home(t, j)
               x == Gap(n, h, m)
               y == Gap(n, h, j)
    <3>1. Home(u, i) = m /\ Chained(t, j)
      BY <1>3, <1>6, <2>2 DEF Home, Chains
    <3>2. m \in DOMAIN t
      BY <1>1, <1>2, <1>3, HomeIsSlot DEF Home
    <3>3. /\ Gap(n, m, j) = Gap(n, x, y)
          /\ Gap(n, m, h) = IF x = 0 THEN 0 ELSE n - x
          /\ x \in 0 .. n - 1 /\ y \in 0 .. n - 1
      <4>1. m \in 0 .. n - 1 /\ j \in 0 .. n - 1 /\ h \in 0 .. n - 1
        BY <1>1, <1>2, <3>2
      <4> HIDE DEF m, n
      <4>2. Gap(n, m, j) = Gap(n, Gap(n, h, m), Gap(n, h, j))
        BY <1>1, <4>1, Turn
      <4>3. Gap(n, m, h) = IF Gap(n, h, m) = 0 THEN 0 ELSE n - Gap(n, h, m)
        BY <1>1, <4>1, Turn
      <4>4. Gap(n, h, m) \in 0 .. n - 1 /\ Gap(n, h, j) \in 0 .. n - 1
        BY <1>1, <4>1, Turn
      <4> QED
        BY <4>2, <4>3, <4>4
    <3>4. Gap(n, m, h) <= Gap(n, m, j)
      <4>1. ~(x # 0 /\ x <= y)
        BY DEF j
      <4> HIDE DEF x, y, m
      <4> QED
        BY <1>1, <3>3, <4>1 DEF Gap
    <3>5. ASSUME NEW k \in DOMAIN t, Gap(n, m, k) <= Gap(n, m, h) PROVE t[k].ref # NullRef
      <4>1. Gap(n, m, k) \in Int /\ Gap(n, m, j) \in Int /\ Gap(n, m, h) \in Int
        <5>1. m \in 0 .. n - 1 /\ j \in 0 .. n - 1 /\ h \in 0 .. n - 1 /\ k \in 0 .. n - 1
          BY <1>1, <1>2, <3>2
        <5> HIDE DEF m, n
        <5> QED
          BY <1>1, <5>1 DEF Gap
      <4>2. Gap(n, m, k) <= Gap(n, m, j)
        <5> HIDE DEF m, n
        <5> QED
          BY <3>4, <3>5, <4>1
      <4> QED
        BY <3>1, <4>2 DEF Chained
    <3> QED
      BY <1>6, <1>7, <2>2, <3>1, <3>5 DEF Chained
  <2> QED
    BY <2>1, <2>2
<1>9. Crossed(u, j, j)
  <2> SUFFICES ASSUME NEW k \in DOMAIN u, Gap(n, j, k) <= Gap(n, j, j)
               PROVE  u[k].ref # NullRef /\ k = j
    BY <1>6 DEF Crossed
  <2>1. Gap(n, j, j) = 0 /\ Gap(n, j, k) \in 0 .. n - 1 /\ (Gap(n, j, k) = 0 => k = j)
    BY <1>1, <1>2, <1>6, Turn
  <2>2. k = j
    BY <2>1
  <2> QED
    BY <1>2, <1>7, <2>2
<1> QED
  BY <1>3, <1>4, <1>5, <1>6, <1>8, <1>9 DEF Chains, u, j

-----------------------------------------------------------------------------
(***************************************************************************)
(* The steps of the index.  A step that changes the table is a step of the *)
(* map or leaves its content alone.                                        *)
(***************************************************************************)
\* The growth threshold leaves a quarter free, and after a doubling room for one more.
LEMMA GrowthRoom ==
  ASSUME NEW n \in Nat, n >= 4
  PROVE  /\ GrowAt(n) \in Nat /\ GrowAt(n) < n
         /\ \A m \in Nat : 2 * m <= n => m + 1 <= GrowAt(n)
<1> DEFINE q == n \div 4
<1>1. q \in Int /\ q * 4 <= n /\ n < q * 4 + 4
  OBVIOUS
<1>2. GrowAt(n) = n - q
  BY DEF GrowAt
<1> HIDE DEF q
<1> QED
  BY <1>1, <1>2

\* The old table is empty unless a rehash runs.
LEMMA NoOld ==
  Occupied(Table(0)) = {} /\ Capacity(Table(0)) = 0 /\ IsTable(Table(0))
BY NewTable

\* The entries of S in t.
LEMMA EntriesAre ==
  ASSUME NEW t, IsTable(t), NEW S \in SUBSET Occupied(t)
  PROVE  \A e \in Entries(t, S) : e \in EntryType
BY TableFacts DEF Entries

\* The content is the map of the live entries.
LEMMA ContentIs ==
  Content = MapOf(LiveSlots) /\ Content' = MapOf(LiveSlots')
BY DEF Content, MapOf, Keys

\* Chains and the shift's stretch depend on the state by the hash function alone.
LEMMA SameHash ==
  ASSUME hash' = hash
  PROVE  /\ Chains(slots') => Chains(slots)'
         /\ Crossed(slots', hole', at') => Crossed(slots, hole, at)'
BY DEF Chains, Chained, Crossed, Home, home_slot, Occupied, Capacity, Gap

\* What an insert, or a step of a rehash, relies on and keeps.
Whole ==
  /\ hash \in Hashes /\ IsTable(slots) /\ size \in Nat /\ grow_at \in Nat
  /\ Sized /\ Chains(slots) /\ Unique(slots, Occupied(slots))

\* The entries of the table, of the whole of it.
Stored == Entries(slots, Occupied(slots))

\* The slots S and p of u hold what S held in t, and a new entry e.
HoldsMore(t, S, u, p, e) ==
  /\ Unique(t, S) /\ p \notin S /\ u[p] = e
  /\ \A i \in S : u[i] = t[i] /\ t[i].ref # e.ref

\* One more slot holds one more entry.
LEMMA EntryMore ==
  ASSUME NEW t, NEW S, NEW u, NEW p, NEW e, HoldsMore(t, S, u, p, e)
  PROVE  Unique(u, S \cup {p}) /\ Entries(u, S \cup {p}) = Entries(t, S) \cup {e}
<1>1. Unique(u, S \cup {p})
  BY DEF Unique, HoldsMore
<1>2. \A d \in Entries(t, S) \cup {e} : d \in Entries(u, S \cup {p})
  BY DEF Entries, HoldsMore
<1>3. \A d \in Entries(u, S \cup {p}) : d \in Entries(t, S) \cup {e}
  BY DEF Entries, HoldsMore
<1> QED
  BY <1>1, <1>2, <1>3

\* A stored entry is one more.
LEMMA StoredEntries ==
  ASSUME NEW t, NEW u, NEW e, Unique(t, Occupied(t)), IsStored(t, e, u)
  PROVE  /\ Unique(u, Occupied(u))
         /\ Entries(u, Occupied(u)) = Entries(t, Occupied(t)) \cup {e}
         /\ e.ref \notin Keys(Entries(t, Occupied(t)))
<1> DEFINE p == Probe(t, e.ref)
           S == Occupied(t)
<1>1. /\ p \in DOMAIN t /\ p \notin S /\ IsPut(t, p, e, u)
      /\ Occupied(u) = S \cup {p} /\ \A i \in S : t[i].ref # e.ref
  BY DEF IsStored
<1> HIDE DEF p
<1>2. \A i \in S : u[i] = t[i]
  BY <1>1 DEF IsPut, Occupied
<1>3. u[p] = e
  BY <1>1 DEF IsPut
<1> HIDE DEF S
<1>4. HoldsMore(t, S, u, p, e)
  BY <1>1, <1>2, <1>3 DEF HoldsMore, S
<1>5. Unique(u, S \cup {p}) /\ Entries(u, S \cup {p}) = Entries(t, S) \cup {e}
  BY <1>4, EntryMore
<1>6. e.ref \notin Keys(Entries(t, S))
  BY <1>1 DEF Keys, Entries
<1> QED
  BY <1>1, <1>5, <1>6 DEF S

\* An entry whose reference is not found is added to the table.
LEMMA StoreNew ==
  ASSUME Whole, Capacity(slots) # 0, Free(slots), NEW e \in EntryType, ~Found(slots, e.ref),
         size + 1 <= grow_at,
         slots' = [slots EXCEPT ![Probe(slots, e.ref)] = e], size' = size + 1,
         UNCHANGED <<hash, grow_at>>
  PROVE  /\ Whole' /\ Capacity(slots') = Capacity(slots)
         /\ Stored' = Stored \cup {e} /\ e.ref \notin Keys(Stored)
         /\ Occupied(slots') = Occupied(slots) \cup {Probe(slots, e.ref)}
         /\ slots'[Probe(slots, e.ref)] = e
         /\ \A i \in Occupied(slots) : slots'[i] = slots[i]
<1> DEFINE p == Probe(slots, e.ref)
<1>1. IsStored(slots, e, slots')
  BY StoreKeeps DEF Whole
<1>2. /\ p \in DOMAIN slots /\ p \notin Occupied(slots)
      /\ IsPut(slots, p, e, slots')
      /\ Cardinality(Occupied(slots')) = Cardinality(Occupied(slots)) + 1
      /\ Chains(slots') /\ \A i \in Occupied(slots) : slots[i].ref # e.ref
  BY <1>1 DEF IsStored
<1> HIDE DEF p
<1>3. /\ IsTable(slots') /\ Capacity(slots') = Capacity(slots) /\ slots'[p] = e
      /\ Occupied(slots') = Occupied(slots) \cup {p}
      /\ \A i \in Occupied(slots) : slots'[i] = slots[i]
  BY <1>2 DEF IsPut, Occupied
<1>4. Chains(slots)'
  BY <1>2, SameHash
<1>5. /\ Unique(slots', Occupied(slots'))
      /\ Entries(slots', Occupied(slots')) = Entries(slots, Occupied(slots)) \cup {e}
      /\ e.ref \notin Keys(Entries(slots, Occupied(slots)))
  BY <1>1, StoredEntries DEF Whole
<1>6. Stored' = Entries(slots', Occupied(slots'))
  BY DEF Stored
<1>7. Stored' = Stored \cup {e} /\ e.ref \notin Keys(Stored)
  BY <1>5, <1>6 DEF Stored
<1>8. Sized'
  BY <1>2, <1>3 DEF Sized, Whole
<1>9. hash' \in Hashes /\ size' \in Nat /\ grow_at' \in Nat
  BY DEF Whole, Hashes
<1>10. Whole'
  BY <1>3, <1>4, <1>5, <1>8, <1>9 DEF Whole
<1> QED
  BY <1>3, <1>7, <1>10 DEF p

\* The walk that ends an insert adds the entry or answers that its reference is there.
LEMMA StoreCall ==
  ASSUME Whole, Capacity(slots) # 0, Free(slots), NEW e \in EntryType,
         size + 1 <= grow_at, Store(e), UNCHANGED <<hash, grow_at>>
  PROVE  /\ Whole' /\ Capacity(slots') = Capacity(slots)
         /\ \/ e.ref \in Keys(Stored) /\ ret' = FALSE /\ Stored' = Stored
            \/ e.ref \notin Keys(Stored) /\ ret' = TRUE /\ Stored' = Stored \cup {e}
<1>1. CASE Found(slots, e.ref)
  <2>1. ret' = FALSE /\ slots' = slots /\ size' = size
    BY <1>1 DEF Store
  <2>2. Stored' = Stored
    BY <2>1 DEF Stored
  <2>3. Chains(slots)'
    BY <2>1, SameHash DEF Whole
  <2>4. Whole'
    BY <2>1, <2>3 DEF Whole, Sized, Hashes
  <2>5. e.ref \in Refs
    BY DEF EntryType
  <2>6. Probe(slots, e.ref) \in DOMAIN slots /\ e.ref # NullRef
          /\ slots[Probe(slots, e.ref)].ref = e.ref
    BY <1>1, <2>5, ProbeEnds, LookupFinds DEF Whole
  <2>7. e.ref \in Keys(Stored)
    BY <2>6 DEF Keys, Stored, Entries, Occupied
  <2> QED
    BY <2>1, <2>2, <2>4, <2>7
<1>2. CASE ~Found(slots, e.ref)
  <2>1. slots' = [slots EXCEPT ![Probe(slots, e.ref)] = e] /\ size' = size + 1 /\ ret' = TRUE
    BY <1>2 DEF Store
  <2> QED
    BY <1>2, <2>1, StoreNew
<1> QED
  BY <1>1, <1>2

\* A lookup answers for the table: it finds a reference if and only if an entry has it.
LEMMA Answers ==
  ASSUME hash \in Hashes, IsTable(slots), Sized, Chains(slots),
         size \in Nat, grow_at \in Nat, ret \in BOOLEAN \cup Orders \cup {NoOrder},
         IsTable(old), {at, hole} \subseteq Nat, NEW ref \in Refs
  PROVE  /\ (size # 0 /\ Found(slots, ref)) <=> ref \in Keys(Stored)
         /\ size # 0 /\ Found(slots, ref) =>
              /\ Probe(slots, ref) \in Occupied(slots)
              /\ slots[Probe(slots, ref)] \in EntryType
              /\ slots[Probe(slots, ref)].ref = ref
              /\ Capacity(slots) # 0 /\ Free(slots)
<1>1. IsFiniteSet(Occupied(slots)) /\ size = Cardinality(Occupied(slots))
  BY TableFacts DEF Sized
<1>2. CASE size = 0
  <2>1. Occupied(slots) = {}
    BY <1>1, <1>2, FS_EmptySet
  <2> QED
    BY <1>2, <2>1 DEF Keys, Stored, Entries
<1>3. CASE size # 0
  <2>1. Capacity(slots) # 0
    <3>1. SUFFICES ASSUME Capacity(slots) = 0 PROVE FALSE
      OBVIOUS
    <3>2. DOMAIN slots = 0 .. 0 - 1
      BY <3>1, TableFacts
    <3>3. Occupied(slots) = {}
      BY <3>2 DEF Occupied
    <3> QED
      BY <1>1, <1>3, <3>3, FS_EmptySet
  <2>2. Free(slots)
    BY <2>1, SomeFree DEF IndexType
  <2>3. ASSUME Found(slots, ref)
        PROVE  /\ Probe(slots, ref) \in Occupied(slots)
               /\ slots[Probe(slots, ref)] \in EntryType
               /\ slots[Probe(slots, ref)].ref = ref
               /\ ref \in Keys(Stored)
    <3>1. Probe(slots, ref) \in DOMAIN slots /\ ref # NullRef
            /\ slots[Probe(slots, ref)].ref = ref
      BY <2>2, <2>3, ProbeEnds, LookupFinds
    <3>2. Probe(slots, ref) \in Occupied(slots)
      BY <3>1 DEF Occupied
    <3> QED
      BY <3>1, <3>2, TableFacts DEF Keys, Stored, Entries
  <2>4. ASSUME ref \in Keys(Stored) PROVE Found(slots, ref)
    BY <2>2, <2>4, LookupFinds DEF Keys, Stored, Entries
  <2> QED
    BY <1>3, <2>1, <2>2, <2>3, <2>4
<1> QED
  BY <1>2, <1>3

-----------------------------------------------------------------------------
(***************************************************************************)
(* The calls.                                                              *)
(***************************************************************************)
Results == BOOLEAN \cup Orders \cup {NoOrder}

\* Between calls the content is what the table stores.
LEMMA Between ==
  ASSUME IndexInv, pc = "idle"
  PROVE  /\ Whole /\ Idle /\ ret \in Results /\ IndexType
         /\ LiveSlots = Stored /\ Content = MapOf(Stored) /\ Keyed(Stored)
         /\ DOMAIN Content = Keys(Stored)
<1>1. Whole /\ Idle /\ ret \in Results /\ IndexType
  BY DEF IndexInv, IndexType, Idle, Whole, Results
<1>2. LiveSlots = Stored
  <2>1. Occupied(old) = {}
    BY <1>1, NoOld DEF Idle
  <2> QED
    BY <2>1 DEF LiveSlots, Stored, Entries
<1>3. Keyed(Stored)
  BY <1>1, UniqueKeys DEF Stored, Whole
<1>4. Content = MapOf(Stored)
  BY <1>2, ContentIs
<1> QED
  BY <1>1, <1>2, <1>3, <1>4 DEF MapOf

\* A call that returns leaves the table between calls again.
LEMMA Returns ==
  ASSUME Whole', pc' = "idle", old' = Table(0), at' = 0, hole' = 0, pending' = EmptySlot,
         ret' \in Results
  PROVE  IndexInv' /\ LiveSlots' = Stored' /\ Content' = MapOf(Stored')
<1>1. IndexInv'
  <2>1. IndexType'
    <3>1. IsTable(old')
      BY NoOld
    <3> QED
      BY <3>1 DEF IndexType, Whole, Results
  <2>2. Idle'
    BY DEF Idle, Whole
  <2> QED
    BY <2>1, <2>2 DEF IndexInv, Whole
<1>2. LiveSlots' = Stored'
  <2>1. Occupied(old') = {}
    BY NoOld
  <2> QED
    BY <2>1 DEF LiveSlots, Stored, Entries
<1> QED
  BY <1>1, <1>2, ContentIs

\* A call that changes nothing but its answer.
LEMMA NothingMoves ==
  ASSUME IndexInv, pc = "idle", UNCHANGED <<hash, table, pc, old, at, hole, pending>>,
         ret' \in Results
  PROVE  IndexInv' /\ Content' = Content
<1>1. Whole /\ Idle
  BY Between
<1>2. Chains(slots)'
  BY <1>1, SameHash DEF Whole, table
<1>3. Whole'
  BY <1>1, <1>2 DEF Whole, Sized, Hashes, table
<1>4. IndexInv' /\ Content' = MapOf(Stored')
  <2>1. pc' = "idle" /\ old' = Table(0) /\ at' = 0 /\ hole' = 0 /\ pending' = EmptySlot
    BY <1>1 DEF Idle
  <2> QED
    BY <1>3, <2>1, Returns
<1>5. Stored' = Stored
  BY DEF Stored, table
<1> QED
  BY <1>4, <1>5, Between

\* What a lookup between calls says of the content.
LEMMA Looked ==
  ASSUME IndexInv, pc = "idle", NEW ref \in Refs
  PROVE  /\ (size # 0 /\ Found(slots, ref)) <=> ref \in DOMAIN Content
         /\ size # 0 /\ Found(slots, ref) =>
              /\ Probe(slots, ref) \in Occupied(slots)
              /\ slots[Probe(slots, ref)] \in Stored
              /\ slots[Probe(slots, ref)] \in EntryType
              /\ slots[Probe(slots, ref)].ref = ref
              /\ Content[ref] = slots[Probe(slots, ref)].order
<1>1. /\ Whole /\ Idle /\ ret \in Results /\ IndexType
      /\ Content = MapOf(Stored) /\ Keyed(Stored) /\ DOMAIN Content = Keys(Stored)
  BY Between
<1>2. /\ (size # 0 /\ Found(slots, ref)) <=> ref \in Keys(Stored)
      /\ size # 0 /\ Found(slots, ref) =>
           /\ Probe(slots, ref) \in Occupied(slots)
           /\ slots[Probe(slots, ref)] \in EntryType
           /\ slots[Probe(slots, ref)].ref = ref
  <2>1. {at, hole} \subseteq Nat /\ IsTable(old)
    BY <1>1 DEF IndexType
  <2> QED
    BY <1>1, <2>1, Answers DEF Whole, Results
<1>3. ASSUME size # 0, Found(slots, ref)
      PROVE  /\ slots[Probe(slots, ref)] \in Stored
             /\ Content[ref] = slots[Probe(slots, ref)].order
  <2>1. slots[Probe(slots, ref)] \in Stored
    BY <1>2, <1>3 DEF Stored, Entries
  <2> QED
    BY <1>1, <1>2, <1>3, <2>1, MapHas
<1> QED
  BY <1>1, <1>2, <1>3

\* find() answers as the map does.
LEMMA FindStep ==
  ASSUME IndexInv, NEW ref \in Refs, Find(ref)
  PROVE  IndexInv' /\ Map!Find(ref)
<1>1. pc = "idle" /\ UNCHANGED <<hash, table, pc, old, at, hole, pending>>
  BY DEF Find
<1>2. ret' = IF ref \in DOMAIN Content THEN Content[ref] ELSE NoOrder
  BY <1>1, Looked DEF Find
<1>3. ret' \in Results
  <2>1. ret' = IF size # 0 /\ Found(slots, ref)
               THEN slots[Probe(slots, ref)].order ELSE NoOrder
    BY DEF Find
  <2>2. size # 0 /\ Found(slots, ref) => slots[Probe(slots, ref)] \in EntryType
    BY <1>1, Looked
  <2> QED
    BY <2>1, <2>2 DEF Results, EntryType
<1>4. IndexInv' /\ Content' = Content
  BY <1>1, <1>3, NothingMoves
<1> QED
  BY <1>2, <1>4 DEF Map!Find

\* The remaining quantity is written under the same reference.
LEMMA AssignStep ==
  ASSUME IndexInv, NEW ref \in Refs, NEW order \in Orders, Assign(ref, order)
  PROVE  IndexInv' /\ Map!Assign(ref, order)
<1> DEFINE p == Probe(slots, ref)
           d == slots[p]
           e == [ref |-> ref, order |-> order]
<1>1. /\ pc = "idle" /\ size # 0 /\ Found(slots, ref)
      /\ slots' = [slots EXCEPT ![p].order = order]
      /\ ret' = order /\ UNCHANGED <<hash, size, grow_at, pc, old, at, hole, pending>>
  BY DEF Assign
<1>2. /\ p \in Occupied(slots) /\ p \in DOMAIN slots /\ d \in Stored /\ d \in EntryType
      /\ d.ref = ref /\ Content[ref] = d.order /\ ref \in DOMAIN Content
  BY <1>1, Looked DEF Occupied
<1>3. /\ Whole /\ Idle /\ Content = MapOf(Stored) /\ Keyed(Stored)
  BY <1>1, Between
<1>4. e \in EntryType /\ e.ref = ref /\ e.order = order
  BY <1>2 DEF EntryType
<1>5. slots' = [slots EXCEPT ![p] = e]
  <2>1. [d EXCEPT !.order = order] = e
    BY <1>2 DEF EntryType
  <2>2. slots' = [slots EXCEPT ![p] = [d EXCEPT !.order = order]]
    BY <1>1
  <2> QED
    BY <2>1, <2>2
<1> HIDE DEF p, e
<1>6. IsPut(slots, p, e, slots')
  <2>1. e \in EntryType \cup {EmptySlot}
    BY <1>4
  <2> QED
    BY <1>2, <1>3, <1>5, <2>1, PutSlot DEF Whole
<1>7. /\ IsTable(slots') /\ DOMAIN slots' = DOMAIN slots /\ Capacity(slots') = Capacity(slots)
      /\ slots'[p] = e /\ \A i \in DOMAIN slots : i # p => slots'[i] = slots[i]
      /\ \A r \in Refs : home_slot(slots', r) = home_slot(slots, r)
      /\ Occupied(slots') = Occupied(slots)
  BY <1>2, <1>4, <1>6 DEF IsPut
<1>8. \A i \in DOMAIN slots : slots'[i].ref = slots[i].ref
  BY <1>2, <1>4, <1>7
<1>9. Chains(slots)'
  <2>1. ASSUME NEW i \in Occupied(slots) PROVE Chained(slots', i)
    <3>1. slots[i].ref \in Refs /\ i \in DOMAIN slots
      BY <1>3, TableFacts DEF Whole, EntryType
    <3>2. Home(slots', i) = Home(slots, i)
      BY <1>7, <1>8, <3>1 DEF Home
    <3> QED
      BY <1>3, <1>7, <1>8, <3>2 DEF Chained, Chains, Whole
  <2> QED
    BY <1>1, <1>7, <2>1, SameHash DEF Chains
<1>10. Unique(slots', Occupied(slots'))
  BY <1>3, <1>7, <1>8 DEF Unique, Whole, Occupied
<1>11. Whole'
  BY <1>1, <1>3, <1>7, <1>9, <1>10 DEF Whole, Sized, Hashes
<1>12. IndexInv' /\ Content' = MapOf(Stored')
  <2>1. pc' = "idle" /\ old' = Table(0) /\ at' = 0 /\ hole' = 0 /\ pending' = EmptySlot
    BY <1>1, <1>3 DEF Idle
  <2>2. ret' \in Results
    BY <1>1 DEF Results
  <2> QED
    BY <1>11, <2>1, <2>2, Returns
<1>13. Stored' = (Stored \ {d}) \cup {e}
  <2>1. \A i \in Occupied(slots) : slots[i] = d => i = p
    BY <1>2, <1>3 DEF Whole, Unique
  <2>2. Stored' = Entries(slots', Occupied(slots))
    BY <1>7 DEF Stored
  <2>3. \A x \in Stored' : x \in (Stored \ {d}) \cup {e}
    BY <1>7, <2>1, <2>2 DEF Stored, Entries, Occupied
  <2>4. \A x \in (Stored \ {d}) \cup {e} : x \in Stored'
    BY <1>2, <1>7, <2>2 DEF Stored, Entries, Occupied
  <2> QED
    BY <2>3, <2>4
<1>14. MapOf((Stored \ {d}) \cup {e}) = [MapOf(Stored) EXCEPT ![d.ref] = e.order]
  <2> HIDE DEF d
  <2> QED
    BY <1>2, <1>3, <1>4, MapWrite
<1>15. Content' = [Content EXCEPT ![ref] = order]
  BY <1>2, <1>3, <1>4, <1>12, <1>13, <1>14
<1> QED
  BY <1>1, <1>2, <1>12, <1>15 DEF Map!Assign

\* erase() answers as the map does; its entry becomes the hole and is no longer in the map.
LEMMA EraseStep ==
  ASSUME IndexInv, NEW ref \in Refs, Erase(ref)
  PROVE  IndexInv' /\ Map!Erase(ref)
<1> DEFINE p == Probe(slots, ref)
           d == slots[p]
<1>1. pc = "idle" /\ UNCHANGED <<hash, table, old, pending>>
  BY DEF Erase
<1>2. /\ Whole /\ Idle /\ Content = MapOf(Stored) /\ Keyed(Stored) /\ DOMAIN Content = Keys(Stored)
  BY <1>1, Between
<1>3. CASE size # 0 /\ Found(slots, ref)
  <2>1. pc' = "shift" /\ hole' = p /\ at' = p /\ ret' = TRUE
    BY <1>3 DEF Erase
  <2>2. /\ p \in Occupied(slots) /\ p \in DOMAIN slots /\ d \in Stored /\ d \in EntryType
        /\ d.ref = ref /\ ref \in DOMAIN Content
    BY <1>1, <1>3, Looked DEF Occupied
  <2> HIDE DEF p
  <2>3. Crossed(slots, p, p)
    <3> DEFINE n == Capacity(slots)
    <3>1. n \in Nat /\ DOMAIN slots = 0 .. n - 1
      BY <1>2, TableFacts DEF Whole
    <3> SUFFICES ASSUME NEW k \in DOMAIN slots, Gap(n, p, k) <= Gap(n, p, p)
                 PROVE  slots[k].ref # NullRef /\ k = p
      BY DEF Crossed
    <3>2. Gap(n, p, p) = 0 /\ Gap(n, p, k) \in 0 .. n - 1 /\ (Gap(n, p, k) = 0 => k = p)
      BY <2>2, <3>1, Turn
    <3>3. k = p
      BY <3>2
    <3> QED
      BY <2>2, <3>3 DEF EntryType
  <2>4. Unique(slots, Occupied(slots) \ {p})
    BY <1>2 DEF Unique, Whole
  <2>5. Chains(slots)'
    BY <1>1, <1>2, SameHash DEF Whole, table
  <2>6. Shifting'
    <3>1. Crossed(slots, hole, at)'
      BY <1>1, <2>1, <2>3, SameHash DEF table
    <3> QED
      BY <1>1, <1>2, <2>1, <2>2, <2>4, <3>1 DEF Shifting, Idle, table
  <2>7. p \in Nat
    BY <1>2, <2>2, TableFacts DEF Whole
  <2>8. IndexInv'
    <3>1. IndexType'
      BY <1>1, <1>2, <2>1, <2>7, NoOld DEF IndexType, Idle, Whole, Hashes, table
    <3>2. Sized'
      BY <1>1, <1>2 DEF Sized, Whole, table
    <3> QED
      BY <2>1, <2>5, <2>6, <3>1, <3>2 DEF IndexInv
  <2>9. LiveSlots' = Stored \ {d}
    <3>1. LiveSlots' = Entries(slots, Occupied(slots) \ {p})
      <4>1. Occupied(old') = {}
        BY <1>1, <1>2, NoOld DEF Idle
      <4>2. slots' = slots
        BY <1>1 DEF table
      <4> QED
        BY <2>1, <4>1, <4>2 DEF LiveSlots, Entries
    <3>2. \A i \in Occupied(slots) : slots[i] = d => i = p
      BY <1>2, <2>2 DEF Whole, Unique
    <3> QED
      BY <3>1, <3>2 DEF Entries, Stored
  <2>10. Content' = [r \in DOMAIN Content \ {ref} |-> Content[r]]
    <3> HIDE DEF d
    <3>1. MapOf(Stored \ {d}) = [r \in DOMAIN MapOf(Stored) \ {d.ref} |-> MapOf(Stored)[r]]
      BY <1>2, <2>2, MapDrop
    <3> QED
      BY <1>2, <2>2, <2>9, <3>1, ContentIs
  <2> QED
    BY <2>1, <2>2, <2>8, <2>10 DEF Map!Erase, Map!Restrict
<1>4. CASE ~(size # 0 /\ Found(slots, ref))
  <2>1. ret' = FALSE /\ UNCHANGED <<pc, at, hole>>
    BY <1>4 DEF Erase
  <2>2. IndexInv' /\ Content' = Content
    <3>1. UNCHANGED <<hash, table, pc, old, at, hole, pending>> /\ ret' \in Results
      BY <1>1, <2>1 DEF Results
    <3> QED
      BY <1>1, <3>1, NothingMoves
  <2>3. ref \notin DOMAIN Content
    BY <1>1, <1>4, Looked
  <2>4. [r \in DOMAIN Content \ {ref} |-> Content[r]] = Content
    <3>1. Content = [r \in Keys(Stored) |-> Content[r]]
      BY <1>2 DEF MapOf
    <3>2. DOMAIN Content \ {ref} = Keys(Stored)
      BY <1>2, <2>3
    <3> QED
      BY <3>1, <3>2
  <2>5. ret' = (ref \in DOMAIN Content)
    <3>1. (ref \in DOMAIN Content) = FALSE
      BY <2>3
    <3> QED
      BY <2>1, <3>1, Zenon
  <2>6. Content' = [r \in DOMAIN Content \ {ref} |-> Content[r]]
    BY <2>2, <2>4
  <2> QED
    BY <2>2, <2>5, <2>6 DEF Map!Erase, Map!Restrict
<1> QED
  BY <1>3, <1>4

\* A stored insert answers as the map does.
LEMMA StoredAnswer ==
  ASSUME Keyed(Stored), Content = MapOf(Stored), Content' = MapOf(Stored'),
         NEW e \in EntryType,
         \/ e.ref \in Keys(Stored) /\ ret' = FALSE /\ Stored' = Stored
         \/ e.ref \notin Keys(Stored) /\ ret' = TRUE /\ Stored' = Stored \cup {e}
  PROVE  Map!Insert(e.ref, e.order)
<1>1. DOMAIN Content = Keys(Stored) /\ e.ref # NullRef
  BY DEF MapOf, EntryType
<1>2. CASE e.ref \in Keys(Stored) /\ ret' = FALSE /\ Stored' = Stored
  <2>1. Content' = Content
    BY <1>2
  <2> QED
    BY <1>1, <1>2, <2>1 DEF Map!Insert
<1>3. CASE e.ref \notin Keys(Stored) /\ ret' = TRUE /\ Stored' = Stored \cup {e}
  <2>1. MapOf(Stored \cup {e}) =
          [r \in DOMAIN MapOf(Stored) \cup {e.ref} |->
             IF r = e.ref THEN e.order ELSE MapOf(Stored)[r]]
    BY <1>3, MapAdd
  <2>2. Content' = [r \in DOMAIN Content \cup {e.ref} |->
                      IF r = e.ref THEN e.order ELSE Content[r]]
    BY <1>3, <2>1
  <2> QED
    BY <1>1, <1>3, <2>2 DEF Map!Insert
<1> QED
  BY <1>2, <1>3

\* The content while entries wait in the old table.
LEMMA LiveIs ==
  ASSUME pc # "shift"
  PROVE  LiveSlots = Stored \cup Entries(old, {k \in Occupied(old) : k >= at})
BY DEF LiveSlots, Stored, Entries

\* insert() refuses the null reference, answers from the table it has, or grows it first.
LEMMA InsertStep ==
  ASSUME IndexInv, NEW ref \in Refs, NEW order \in Orders, Insert(ref, order)
  PROVE  IndexInv' /\ (Map!Insert(ref, order) \/ UNCHANGED Map!vars)
<1>1. pc = "idle" /\ UNCHANGED <<hash, hole>>
  BY DEF Insert
<1>2. /\ Whole /\ Idle /\ ret \in Results
      /\ LiveSlots = Stored /\ Content = MapOf(Stored) /\ Keyed(Stored)
  BY <1>1, Between
<1> DEFINE e == [ref |-> ref, order |-> order]
<1>3. CASE /\ ~Storable(ref) /\ ret' = FALSE
           /\ UNCHANGED <<slots, size, grow_at, pc, old, at, pending>>
  <2>1. UNCHANGED <<hash, table, pc, old, at, hole, pending>> /\ ret' \in Results
    BY <1>1, <1>3 DEF table, Results
  <2>2. IndexInv' /\ Content' = Content
    BY <1>1, <2>1, NothingMoves
  <2> QED
    BY <1>3, <2>2 DEF Map!Insert, Storable
<1>4. CASE Storable(ref) /\ size + 1 > grow_at /\ Grow /\ pending' = e /\ UNCHANGED ret
  <2> DEFINE next == IF slots = Table(0) THEN kInitial ELSE 2 * Capacity(slots)
  <2>1. /\ Capacity(slots) \in Nat /\ next \in Nat /\ next >= 4 /\ next >= 2 * Capacity(slots)
    <3>1. Capacity(slots) \in Nat /\ IsTable(slots)
      BY <1>2, TableFacts DEF Whole
    <3>2. slots = Table(0) <=> Capacity(slots) = 0
      BY <3>1, NoSlots
    <3>3. Capacity(slots) # 0 => Capacity(slots) >= 4
      BY <1>2 DEF Whole, Sized
    <3> QED
      BY <3>1, <3>2, <3>3, IndexAssumption
  <2>2. /\ old' = slots /\ slots' = Table(next) /\ grow_at' = GrowAt(next)
        /\ size' = 0 /\ at' = 0 /\ pc' = "rehash"
    BY <1>4 DEF Grow, GrowTo
  <2> HIDE DEF next
  <2>3. /\ IsTable(slots') /\ Capacity(slots') = next /\ Occupied(slots') = {}
    BY <2>1, <2>2, NewTable
  <2>4. GrowAt(next) \in Nat
    BY <2>1, GrowthRoom
  <2>5. e \in EntryType
    BY <1>4 DEF EntryType, Storable
  <2>6. IndexType'
    <3>1. hash' \in Hashes'
      BY <1>1, <1>2 DEF Whole, Hashes
    <3>2. IsTable(slots') /\ IsTable(old')
      BY <1>2, <2>2, <2>3 DEF Whole
    <3>3. {size, grow_at, at, hole}' \subseteq Nat
      BY <1>1, <1>2, <2>2, <2>4 DEF Idle
    <3>4. ret' \in Results
      BY <1>2, <1>4
    <3> QED
      BY <3>1, <3>2, <3>3, <3>4 DEF IndexType, Results
  <2>7. Sized'
    BY <2>1, <2>2, <2>3, <2>4, FS_EmptySet DEF Sized
  <2>8. Chains(slots)'
    BY <1>1, <2>3, SameHash DEF Chains
  <2>9. Rehashing'
    <3>1. hole' = 0 /\ pending' \in EntryType
      BY <1>1, <1>2, <1>4, <2>5 DEF Idle
    <3>2. at' <= Capacity(old') /\ size' <= at'
      BY <2>1, <2>2
    <3>3. Capacity(slots') # 0 /\ Capacity(slots') >= 2 * Capacity(old')
      BY <2>1, <2>2, <2>3
    <3>4. Unique(slots', Occupied(slots')) /\ Unique(old', Occupied(old'))
      BY <1>2, <2>2, <2>3 DEF Unique, Whole
    <3>5. \A i \in Occupied(slots'), k \in Occupied(old') :
            k >= at' => slots'[i].ref # old'[k].ref
      BY <2>3
    <3> QED
      BY <3>1, <3>2, <3>3, <3>4, <3>5 DEF Rehashing
  <2>10. IndexInv'
    BY <2>2, <2>6, <2>7, <2>8, <2>9 DEF IndexInv
  <2>11. LiveSlots' = Stored
    <3>1. {k \in Occupied(slots) : k >= 0} = Occupied(slots)
      BY <1>2, TableFacts DEF Whole
    <3>2. LiveSlots' = {slots'[i] : i \in {}} \cup {slots[i] : i \in Occupied(slots)}
      BY <2>2, <2>3, <3>1 DEF LiveSlots
    <3> QED
      BY <3>2 DEF Stored, Entries
  <2>12. Content' = Content
    BY <1>2, <2>11, ContentIs
  <2> QED
    BY <1>4, <2>10, <2>12 DEF Map!vars
<1>5. CASE /\ Storable(ref) /\ size + 1 <= grow_at /\ Store(e)
           /\ UNCHANGED <<grow_at, pc, old, at, pending>>
  <2>1. e \in EntryType /\ e.ref = ref /\ e.order = order
    BY <1>5 DEF EntryType, Storable
  <2>2. Capacity(slots) # 0
    BY <1>2, <1>5 DEF Sized, Whole
  <2>3. Free(slots)
    BY <1>1, <1>2, <2>2, SomeFree, Between DEF Whole
  <2> HIDE DEF e
  <2>4. /\ Whole'
        /\ \/ e.ref \in Keys(Stored) /\ ret' = FALSE /\ Stored' = Stored
           \/ e.ref \notin Keys(Stored) /\ ret' = TRUE /\ Stored' = Stored \cup {e}
    BY <1>1, <1>2, <1>5, <2>1, <2>2, <2>3, StoreCall
  <2>5. IndexInv' /\ Content' = MapOf(Stored')
    <3>1. pc' = "idle" /\ old' = Table(0) /\ at' = 0 /\ hole' = 0 /\ pending' = EmptySlot
      BY <1>1, <1>2, <1>5 DEF Idle
    <3>2. ret' \in Results
      BY <2>4 DEF Results
    <3> QED
      BY <2>4, <3>1, <3>2, Returns
  <2>6. Map!Insert(e.ref, e.order)
    BY <1>2, <2>1, <2>4, <2>5, StoredAnswer
  <2> QED
    BY <2>1, <2>5, <2>6
<1> QED
  BY <1>3, <1>4, <1>5 DEF Insert

-----------------------------------------------------------------------------
(***************************************************************************)
(* The loops.                                                              *)
(***************************************************************************)
\* A rehash has room, in the new table, for all of the old one and for the insert.
LEMMA RoomLeft ==
  ASSUME IndexInv, pc = "rehash"
  PROVE  /\ Whole /\ Rehashing /\ ret \in Results /\ IsTable(old)
         /\ at \in Nat /\ Capacity(old) \in Nat /\ Capacity(slots) # 0 /\ Free(slots)
         /\ size <= at /\ at <= Capacity(old) /\ Capacity(old) + 1 <= grow_at
<1>1. /\ Whole /\ Rehashing /\ ret \in Results /\ IsTable(old) /\ at \in Nat
      /\ IndexType /\ Sized
  BY DEF IndexInv, IndexType, Rehashing, Whole, Results
<1>2. /\ Capacity(slots) \in Nat /\ Capacity(old) \in Nat
  BY <1>1, TableFacts DEF Whole
<1>3. /\ Capacity(slots) # 0 /\ Capacity(slots) >= 4 /\ grow_at = GrowAt(Capacity(slots))
      /\ Capacity(slots) >= 2 * Capacity(old) /\ size <= at /\ at <= Capacity(old)
  BY <1>1 DEF Sized, Rehashing
<1>4. Capacity(old) + 1 <= GrowAt(Capacity(slots))
  BY <1>2, <1>3, GrowthRoom
<1>5. Free(slots)
  BY <1>1, <1>3, SomeFree
<1> QED
  BY <1>1, <1>2, <1>3, <1>4, <1>5

\* One iteration of grow()'s loop moves an entry from the old table to the new one.
LEMMA RehashMoves ==
  ASSUME IndexInv, RehashStep
  PROVE  IndexInv' /\ UNCHANGED Map!vars
<1>1. /\ pc = "rehash" /\ at \in DOMAIN old /\ at' = at + 1
      /\ UNCHANGED <<hash, grow_at, pc, old, hole, pending, ret>>
  BY DEF RehashStep
<1>2. /\ Whole /\ Rehashing /\ ret \in Results /\ IsTable(old)
      /\ at \in Nat /\ Capacity(old) \in Nat /\ Capacity(slots) # 0 /\ Free(slots)
      /\ size <= at /\ at <= Capacity(old) /\ Capacity(old) + 1 <= grow_at
  BY <1>1, RoomLeft
<1>3. at + 1 <= Capacity(old)
  BY <1>1, <1>2, TableFacts
<1> DEFINE Rest == {k \in Occupied(old) : k >= at}
           Later == {k \in Occupied(old) : k >= at + 1}
<1>4. Occupied(old) \subseteq Nat /\ Occupied(old) \subseteq DOMAIN old
  BY <1>2, TableFacts
<1>5. LiveSlots = Stored \cup Entries(old, Rest)
  BY <1>1, LiveIs
<1>6. LiveSlots' = Stored' \cup Entries(old, Later)
  BY <1>1 DEF LiveSlots, Stored, Entries
<1>7. SUFFICES Whole' /\ size' <= at' /\ Capacity(slots') = Capacity(slots)
                 /\ LiveSlots' = LiveSlots
                 /\ \A i \in Occupied(slots'), k \in Occupied(old) :
                      k >= at' => slots'[i].ref # old[k].ref
  <2> SUFFICES ASSUME Whole' /\ size' <= at' /\ Capacity(slots') = Capacity(slots)
                        /\ LiveSlots' = LiveSlots
                        /\ \A i \in Occupied(slots'), k \in Occupied(old) :
                             k >= at' => slots'[i].ref # old[k].ref
               PROVE  IndexInv' /\ UNCHANGED Map!vars
    OBVIOUS
  <2>1. at' \in Nat /\ at' <= Capacity(old)
    BY <1>1, <1>2, <1>3
  <2>2. Rehashing'
    BY <1>1, <1>2, <2>1 DEF Rehashing, Whole
  <2>3. IndexType'
    <3>1. hole' \in Nat
      BY <1>1, <1>2 DEF Rehashing
    <3> QED
      BY <1>1, <1>2, <2>1, <3>1 DEF IndexType, Whole, Results
  <2>4. IndexInv'
    BY <1>1, <2>2, <2>3 DEF IndexInv, Whole
  <2> QED
    BY <1>1, <2>4, ContentIs DEF Map!vars
<1>8. CASE old[at].ref = NullRef
  <2>1. UNCHANGED <<slots, size>>
    BY <1>8 DEF RehashStep
  <2>2. Whole'
    <3>1. Chains(slots)'
      BY <1>1, <1>2, <2>1, SameHash DEF Whole
    <3> QED
      BY <1>1, <1>2, <2>1, <3>1 DEF Whole, Sized, Hashes
  <2>3. Later = Rest
    BY <1>2, <1>4, <1>8 DEF Occupied
  <2>4. Stored' = Stored
    BY <2>1 DEF Stored
  <2>5. \A i \in Occupied(slots'), k \in Occupied(old) :
          k >= at' => slots'[i].ref # old[k].ref
    BY <1>1, <1>2, <1>4, <2>1 DEF Rehashing
  <2>6. size \in Nat /\ size' <= at'
    BY <1>1, <1>2, <2>1 DEF Whole
  <2> QED
    BY <1>5, <1>6, <2>1, <2>2, <2>3, <2>4, <2>5, <2>6
<1>9. CASE old[at].ref # NullRef
  <2> DEFINE e == old[at]
             p == Probe(slots, e.ref)
  <2>1. at \in Occupied(old) /\ e \in EntryType /\ e.ref \in Refs
    BY <1>1, <1>2, <1>9, TableFacts DEF Occupied, EntryType
  <2>2. slots' = [slots EXCEPT ![p] = e] /\ size' = size + 1
    BY <1>9 DEF RehashStep
  <2>3. ~Found(slots, e.ref)
    <3> SUFFICES ASSUME Found(slots, e.ref) PROVE FALSE
      OBVIOUS
    <3>1. p \in DOMAIN slots /\ e.ref # NullRef /\ slots[p].ref = e.ref
      BY <1>2, <2>1, ProbeEnds, LookupFinds DEF Whole
    <3>2. p \in Occupied(slots) /\ at >= at
      BY <1>2, <3>1 DEF Occupied
    <3> QED
      BY <1>2, <2>1, <3>1, <3>2 DEF Rehashing
  <2>4. size + 1 <= grow_at
    BY <1>2, <1>3 DEF Whole
  <2> HIDE DEF e
  <2>5. /\ Whole' /\ Capacity(slots') = Capacity(slots)
        /\ Stored' = Stored \cup {e}
        /\ Occupied(slots') = Occupied(slots) \cup {p} /\ slots'[p] = e
        /\ \A i \in Occupied(slots) : slots'[i] = slots[i]
    BY <1>1, <1>2, <2>1, <2>2, <2>3, <2>4, StoreNew
  <2> HIDE DEF p
  <2>6. size' <= at'
    BY <1>1, <1>2, <2>2 DEF Whole
  <2>7. LiveSlots' = LiveSlots
    <3>1. Rest = Later \cup {at}
      BY <1>2, <1>4, <2>1
    <3>2. Entries(old, Rest) = Entries(old, Later) \cup {e}
      BY <3>1 DEF Entries, e
    <3> QED
      BY <1>5, <1>6, <2>5, <3>2
  <2>8. ASSUME NEW i \in Occupied(slots'), NEW k \in Occupied(old), k >= at'
        PROVE  slots'[i].ref # old[k].ref
    <3>1. k >= at /\ k # at
      BY <1>1, <1>2, <1>4, <2>8
    <3>2. CASE i = p
      BY <1>2, <2>1, <2>5, <3>1, <3>2 DEF Rehashing, Unique, e
    <3>3. CASE i # p
      BY <1>2, <2>5, <3>1, <3>3 DEF Rehashing
    <3> QED
      BY <3>2, <3>3
  <2> QED
    BY <2>5, <2>6, <2>7, <2>8
<1> QED
  BY <1>8, <1>9

\* When the old table is through, the insert that waited answers as the map does.
LEMMA RehashEnds ==
  ASSUME IndexInv, RehashDone
  PROVE  /\ IndexInv' /\ pending \in EntryType
         /\ Map!Insert(pending.ref, pending.order)
<1>1. /\ pc = "rehash" /\ at \notin DOMAIN old /\ Store(pending)
      /\ pc' = "idle" /\ old' = Table(0) /\ at' = 0 /\ pending' = EmptySlot
      /\ UNCHANGED <<hash, grow_at, hole>>
  BY DEF RehashDone
<1>2. /\ Whole /\ Rehashing /\ ret \in Results /\ IsTable(old)
      /\ at \in Nat /\ Capacity(old) \in Nat /\ Capacity(slots) # 0 /\ Free(slots)
      /\ size <= at /\ at <= Capacity(old) /\ Capacity(old) + 1 <= grow_at
  BY <1>1, RoomLeft
<1>3. pending \in EntryType /\ hole = 0
  BY <1>2 DEF Rehashing
<1>4. size + 1 <= grow_at
  BY <1>2 DEF Whole
<1>5. /\ Whole'
      /\ \/ pending.ref \in Keys(Stored) /\ ret' = FALSE /\ Stored' = Stored
         \/ pending.ref \notin Keys(Stored) /\ ret' = TRUE /\ Stored' = Stored \cup {pending}
  BY <1>1, <1>2, <1>3, <1>4, StoreCall
<1>6. LiveSlots = Stored
  <2>1. \A k \in Occupied(old) : ~(k >= at)
    BY <1>1, <1>2, TableFacts
  <2>2. {k \in Occupied(old) : k >= at} = {}
    BY <2>1
  <2> QED
    BY <1>1, <2>2, LiveIs DEF Entries
<1>7. Keyed(Stored) /\ Content = MapOf(Stored)
  BY <1>2, <1>6, ContentIs, UniqueKeys DEF Stored, Whole
<1>8. IndexInv' /\ Content' = MapOf(Stored')
  <2>1. hole' = 0 /\ ret' \in Results
    BY <1>1, <1>3, <1>5 DEF Results
  <2> QED
    BY <1>1, <1>5, <2>1, Returns
<1>9. Map!Insert(pending.ref, pending.order)
  BY <1>3, <1>5, <1>7, <1>8, StoredAnswer
<1> QED
  BY <1>3, <1>8, <1>9

\* What a shift knows.
LEMMA ShiftKnows ==
  ASSUME IndexInv, pc = "shift"
  PROVE  /\ hash \in Hashes /\ IsTable(slots) /\ Sized /\ Chains(slots) /\ Shifting
         /\ size \in Nat /\ grow_at \in Nat /\ ret \in Results
         /\ hole \in DOMAIN slots /\ at \in DOMAIN slots /\ Crossed(slots, hole, at)
         /\ Unique(slots, Occupied(slots) \ {hole})
         /\ Free(slots) /\ Occupied(old) = {}
         /\ LiveSlots = Entries(slots, Occupied(slots) \ {hole})
<1>1. /\ hash \in Hashes /\ IsTable(slots) /\ Sized /\ Chains(slots) /\ Shifting
      /\ size \in Nat /\ grow_at \in Nat /\ ret \in Results /\ IndexType
  BY DEF IndexInv, IndexType, Results
<1>2. /\ hole \in DOMAIN slots /\ at \in DOMAIN slots /\ Crossed(slots, hole, at)
      /\ Unique(slots, Occupied(slots) \ {hole}) /\ old = Table(0)
  BY <1>1 DEF Shifting
<1>3. Capacity(slots) # 0
  BY <1>1, <1>2, TableFacts
<1>4. Free(slots)
  BY <1>1, <1>3, SomeFree
<1>5. Occupied(old) = {}
  BY <1>2, NoOld
<1>6. LiveSlots = Entries(slots, Occupied(slots) \ {hole})
  BY <1>5 DEF LiveSlots, Entries
<1> QED
  BY <1>1, <1>2, <1>4, <1>5, <1>6

\* StaysPut compares distances from the hole.
LEMMA StaysPutIs ==
  ASSUME IsTable(slots), hash \in Hashes, NEW j \in Occupied(slots), hole \in DOMAIN slots
  PROVE  StaysPut(j) <=> /\ Gap(Capacity(slots), hole, Home(slots, j)) # 0
                         /\ Gap(Capacity(slots), hole, Home(slots, j))
                              <= Gap(Capacity(slots), hole, j)
<1>1. j \in DOMAIN slots /\ slots[j].ref \in Refs
  BY TableFacts DEF EntryType
<1>2. Capacity(slots) # 0
  BY <1>1, TableFacts
<1>3. home_slot(slots, slots[j].ref) \in DOMAIN slots
  BY <1>1, <1>2, HomeIsSlot
<1>4. /\ Distance(slots, hole, home_slot(slots, slots[j].ref))
           = Gap(Capacity(slots), hole, home_slot(slots, slots[j].ref))
      /\ Distance(slots, hole, j) = Gap(Capacity(slots), hole, j)
  BY <1>1, <1>3, Ring
<1> QED
  BY <1>4 DEF StaysPut, Home

\* One iteration of backward_shift moves an entry back, passes one, or ends: the map stays.
LEMMA ShiftMovesOn ==
  ASSUME IndexInv, ShiftStep
  PROVE  IndexInv' /\ UNCHANGED Map!vars
<1> DEFINE j == Around(slots, at, 1)
<1>1. pc = "shift" /\ UNCHANGED <<hash, grow_at, old, pending, ret>>
  BY DEF ShiftStep
<1>2. /\ hash \in Hashes /\ IsTable(slots) /\ Sized /\ Chains(slots) /\ Shifting
      /\ size \in Nat /\ grow_at \in Nat /\ ret \in Results
      /\ hole \in DOMAIN slots /\ at \in DOMAIN slots /\ Crossed(slots, hole, at)
      /\ Unique(slots, Occupied(slots) \ {hole})
      /\ Free(slots) /\ Occupied(old) = {}
      /\ LiveSlots = Entries(slots, Occupied(slots) \ {hole})
  BY <1>1, ShiftKnows
<1>3. j \in DOMAIN slots /\ j # hole
  BY <1>2, CursorMoves
<1>4. hash' \in Hashes' /\ old' = Table(0) /\ pending' = EmptySlot /\ ret' \in Results
  BY <1>1, <1>2 DEF Hashes, Shifting
<1>5. CASE slots[j].ref = NullRef
  <2>1. /\ slots' = [slots EXCEPT ![hole] = EmptySlot]
        /\ size' = size - 1 /\ pc' = "idle" /\ at' = 0 /\ hole' = 0
    BY <1>5 DEF ShiftStep
  <2>2. IsPut(slots, hole, EmptySlot, slots') /\ hole \in Occupied(slots) /\ Chains(slots')
    BY <1>2, <1>5, <2>1, ShiftEnds
  <2>3. /\ IsTable(slots') /\ Capacity(slots') = Capacity(slots)
        /\ \A i \in DOMAIN slots : i # hole => slots'[i] = slots[i]
        /\ Occupied(slots') = Occupied(slots) \ {hole}
    BY <2>2 DEF IsPut
  <2>4. size' = Cardinality(Occupied(slots')) /\ size' \in Nat /\ size' <= size
    <3>1. IsFiniteSet(Occupied(slots)) /\ size = Cardinality(Occupied(slots))
      BY <1>2, TableFacts DEF Sized
    <3>2. Cardinality(Occupied(slots')) = size - 1
      BY <2>2, <2>3, <3>1, FS_RemoveElement
    <3>3. Cardinality(Occupied(slots')) \in Nat
      BY <2>3, TableFacts
    <3> QED
      BY <1>2, <2>1, <3>2, <3>3
  <2>5. Sized'
    <3>1. Capacity(slots) = 0 => grow_at = 0
      BY <1>2 DEF Sized
    <3>2. Capacity(slots) # 0 => /\ Capacity(slots) >= 4
                                 /\ grow_at = GrowAt(Capacity(slots)) /\ size <= grow_at
      BY <1>2 DEF Sized
    <3> QED
      BY <1>1, <1>2, <2>3, <2>4, <3>1, <3>2 DEF Sized
  <2>6. Chains(slots)'
    BY <1>1, <2>2, SameHash
  <2>7. Unique(slots', Occupied(slots'))
    BY <1>2, <2>3 DEF Unique, Occupied
  <2>8. Whole'
    BY <1>1, <1>2, <1>4, <2>3, <2>4, <2>5, <2>6, <2>7 DEF Whole
  <2>9. IndexInv' /\ LiveSlots' = Stored'
    BY <1>4, <2>1, <2>8, Returns
  <2>10. Stored' = Entries(slots, Occupied(slots) \ {hole})
    BY <2>3 DEF Stored, Entries, Occupied
  <2>11. LiveSlots' = LiveSlots
    BY <1>2, <2>9, <2>10
  <2> QED
    BY <1>1, <2>9, <2>11, ContentIs DEF Map!vars
<1>6. ASSUME slots[j].ref # NullRef, IsTable(slots'), hole' \in DOMAIN slots',
             Occupied(slots') = Occupied(slots), Capacity(slots') = Capacity(slots),
             DOMAIN slots' = DOMAIN slots,
             Chains(slots'), Unique(slots', Occupied(slots') \ {hole'}),
             Crossed(slots', hole', at'),
             Entries(slots', Occupied(slots') \ {hole'})
               = Entries(slots, Occupied(slots) \ {hole})
      PROVE  IndexInv' /\ UNCHANGED Map!vars
  <2>1. at' = j /\ UNCHANGED <<size, pc>>
    BY <1>6 DEF ShiftStep
  <2>2. Chains(slots)' /\ Crossed(slots, hole, at)'
    BY <1>1, <1>6, SameHash
  <2>3. at' \in DOMAIN slots' /\ at' \in Nat /\ hole' \in Nat
    BY <1>3, <1>6, <2>1, TableFacts
  <2>4. Shifting'
    BY <1>4, <1>6, <2>2, <2>3 DEF Shifting
  <2>5. Sized'
    BY <1>1, <1>2, <1>6, <2>1 DEF Sized
  <2>6. IndexType'
    BY <1>1, <1>2, <1>4, <1>6, <2>1, <2>3, NoOld DEF IndexType, Results
  <2>7. IndexInv'
    BY <1>1, <2>1, <2>2, <2>4, <2>5, <2>6 DEF IndexInv
  <2>8. LiveSlots' = Entries(slots', Occupied(slots') \ {hole'})
    BY <1>1, <1>2, <2>1 DEF LiveSlots, Entries
  <2>9. LiveSlots' = LiveSlots
    BY <1>2, <1>6, <2>8
  <2> QED
    BY <1>1, <2>7, <2>9, ContentIs DEF Map!vars
<1>7. CASE slots[j].ref # NullRef /\ StaysPut(j)
  <2>1. slots' = slots /\ hole' = hole /\ at' = j
    BY <1>7 DEF ShiftStep
  <2>2. Crossed(slots', hole', at')
    <3>1. j \in Occupied(slots)
      BY <1>3, <1>7 DEF Occupied
    <3>2. /\ Gap(Capacity(slots), hole, Home(slots, j)) # 0
          /\ Gap(Capacity(slots), hole, Home(slots, j)) <= Gap(Capacity(slots), hole, j)
      BY <1>2, <1>7, <3>1, StaysPutIs
    <3>3. Crossed(slots, hole, j)
      BY <1>2, <1>7, <3>2, ShiftStays
    <3> QED
      BY <2>1, <3>3
  <2> QED
    BY <1>2, <1>6, <1>7, <2>1, <2>2
<1>8. CASE slots[j].ref # NullRef /\ ~StaysPut(j)
  <2>1. slots' = [slots EXCEPT ![hole] = slots[j]] /\ hole' = j /\ at' = j
    BY <1>8 DEF ShiftStep
  <2>2. j \in Occupied(slots)
    BY <1>3, <1>8 DEF Occupied
  <2>3. ~ /\ Gap(Capacity(slots), hole, Home(slots, j)) # 0
          /\ Gap(Capacity(slots), hole, Home(slots, j)) <= Gap(Capacity(slots), hole, j)
    BY <1>2, <1>8, <2>2, StaysPutIs
  <2>4. /\ IsPut(slots, hole, slots[j], slots')
        /\ slots[j] \in EntryType /\ Occupied(slots') = Occupied(slots)
        /\ hole \in Occupied(slots)
        /\ Chains(slots') /\ Crossed(slots', j, j)
    <3>1. LET k == Around(slots, at, 1)
              u == [slots EXCEPT ![hole] = slots[k]]
          IN  /\ IsPut(slots, hole, slots[k], u)
              /\ slots[k] \in EntryType /\ Occupied(u) = Occupied(slots)
              /\ hole \in Occupied(slots)
              /\ Chains(u) /\ Crossed(u, k, k)
      BY <1>2, <1>8, <2>3, ShiftMoves
    <3> QED
      BY <2>1, <3>1
  <2> HIDE DEF j
  <2>5. /\ IsTable(slots') /\ DOMAIN slots' = DOMAIN slots
        /\ Capacity(slots') = Capacity(slots) /\ slots'[hole] = slots[j]
        /\ \A i \in DOMAIN slots : i # hole => slots'[i] = slots[i]
    BY <2>4 DEF IsPut
  <2>6. \A i \in Occupied(slots) : i # hole => slots'[i] = slots[i]
    BY <2>5 DEF Occupied
  <2>7. Unique(slots', Occupied(slots') \ {j})
    BY <1>2, <1>3, <2>2, <2>4, <2>5, <2>6 DEF Unique
  <2>8. Entries(slots', Occupied(slots') \ {j}) = Entries(slots, Occupied(slots) \ {hole})
    <3>1. \A e \in Entries(slots', Occupied(slots') \ {j}) :
            e \in Entries(slots, Occupied(slots) \ {hole})
      BY <1>3, <2>2, <2>4, <2>5, <2>6 DEF Entries
    <3>2. \A e \in Entries(slots, Occupied(slots) \ {hole}) :
            e \in Entries(slots', Occupied(slots') \ {j})
      BY <1>3, <2>2, <2>4, <2>5, <2>6 DEF Entries
    <3> QED
      BY <3>1, <3>2
  <2> QED
    BY <1>3, <1>6, <1>8, <2>1, <2>4, <2>5, <2>7, <2>8
<1> QED
  BY <1>5, <1>7, <1>8

-----------------------------------------------------------------------------
(***************************************************************************)
(* The theorems.                                                           *)
(***************************************************************************)
\* The index starts without a table.
LEMMA StartsEmpty ==
  ASSUME Init
  PROVE  IndexInv /\ Map!Init
<1>1. /\ hash \in Hashes /\ slots = Table(0) /\ size = 0 /\ grow_at = 0
      /\ pc = "idle" /\ old = Table(0) /\ at = 0 /\ hole = 0
      /\ pending = EmptySlot /\ ret = NoOrder
  BY DEF Init
<1>2. Occupied(slots) = {} /\ Occupied(old) = {} /\ Capacity(slots) = 0 /\ IsTable(slots)
  BY <1>1, NoOld
<1>3. IndexType
  BY <1>1, <1>2 DEF IndexType
<1>4. Sized
  BY <1>1, <1>2, FS_EmptySet DEF Sized
<1>5. Chains(slots) /\ Idle
  BY <1>1, <1>2 DEF Chains, Idle, Unique
<1>6. LiveSlots = {}
  BY <1>2 DEF LiveSlots
<1>7. Content = [r \in {} |-> NoOrder]
  BY <1>6 DEF Content
<1> QED
  BY <1>1, <1>3, <1>4, <1>5, <1>7 DEF IndexInv, Map!Init

\* Every step keeps the invariant, and is a step of the map or leaves the map alone.
LEMMA EveryStep ==
  ASSUME IndexInv, [Next]_vars
  PROVE  IndexInv' /\ [Map!Next]_(Map!vars)
<1>1. ASSUME NEW ref \in Refs, Find(ref) PROVE IndexInv' /\ Map!Next
  BY <1>1, FindStep DEF Map!Next
<1>2. ASSUME NEW ref \in Refs, Erase(ref) PROVE IndexInv' /\ Map!Next
  BY <1>2, EraseStep DEF Map!Next
<1>3. ASSUME NEW ref \in Refs, NEW order \in Orders, Insert(ref, order)
      PROVE  IndexInv' /\ [Map!Next]_(Map!vars)
  BY <1>3, InsertStep DEF Map!Next
<1>4. ASSUME NEW ref \in Refs, NEW order \in Orders, Assign(ref, order)
      PROVE  IndexInv' /\ Map!Next
  BY <1>4, AssignStep DEF Map!Next
<1>5. CASE RehashStep
  BY <1>5, RehashMoves
<1>6. CASE RehashDone
  <2>1. /\ IndexInv' /\ pending \in EntryType
        /\ Map!Insert(pending.ref, pending.order)
    BY <1>6, RehashEnds
  <2>2. pending.ref \in Refs /\ pending.order \in Orders
    BY <2>1 DEF EntryType
  <2> QED
    BY <2>1, <2>2 DEF Map!Next
<1>7. CASE ShiftStep
  BY <1>7, ShiftMovesOn
<1>8. CASE UNCHANGED vars
  <2>1. UNCHANGED <<hash, slots, size, grow_at, pc, old, at, hole, pending, ret>>
    BY <1>8 DEF vars
  <2>2. Content' = Content
    BY <2>1 DEF Content, LiveSlots, Occupied
  <2>3. hash' \in Hashes'
    BY <2>1 DEF IndexInv, IndexType, Hashes
  <2>4. Chains(slots)'
    BY <2>1, SameHash DEF IndexInv
  <2>5. IndexType' /\ Sized'
    BY <2>1, <2>3 DEF IndexInv, IndexType, Sized
  <2>6. Idle => Idle'
    BY <2>1 DEF Idle
  <2>7. Rehashing => Rehashing'
    BY <2>1 DEF Rehashing
  <2>8. Shifting => Shifting'
    <3> SUFFICES ASSUME Shifting PROVE Shifting'
      OBVIOUS
    <3>1. Crossed(slots, hole, at)'
      BY <2>1, SameHash DEF Shifting
    <3> QED
      BY <2>1, <3>1 DEF Shifting
  <2>9. IndexInv'
    BY <2>1, <2>4, <2>5, <2>6, <2>7, <2>8 DEF IndexInv
  <2> QED
    BY <2>1, <2>2, <2>9 DEF Map!vars
<1> QED
  BY <1>1, <1>2, <1>3, <1>4, <1>5, <1>6, <1>7, <1>8 DEF Next, Call, Loop

\* What the invariant says of the table (flat_hash_map.h): the types, the exact size, that
\* every probe ends and that no chain is broken.
LEMMA InvariantSays ==
  ASSUME IndexInv
  PROVE  TypeOK /\ TableSound
<1>1. IndexType /\ Sized /\ Chains(slots) /\ IsTable(slots) /\ IsTable(old)
  BY DEF IndexInv, IndexType
<1>2. TypeOK
  <2>1. \A t \in {slots, old} :
          /\ DOMAIN t = 0 .. Capacity(t) - 1
          /\ \A i \in DOMAIN t : t[i] = EmptySlot \/ t[i] \in EntryType
    BY <1>1, TableFacts
  <2>2. pending = EmptySlot \/ pending \in EntryType
    BY DEF IndexInv, Idle, Rehashing, Shifting
  <2>3. pc \in {"idle", "rehash", "shift"}
    BY DEF IndexInv
  <2>4. /\ hash \in Hashes /\ {size, grow_at, at, hole} \subseteq Nat
        /\ ret \in BOOLEAN \cup Orders \cup {NoOrder}
    BY <1>1 DEF IndexType
  <2> QED
    BY <2>1, <2>2, <2>3, <2>4 DEF TypeOK, EntryType
<1>3. Capacity(slots) \in Nat /\ (slots = Table(0) <=> Capacity(slots) = 0)
  BY <1>1, TableFacts, NoSlots
<1>4. SizeExact
  <2>1. size = Cardinality(Occupied(slots))
    BY <1>1 DEF Sized
  <2>2. CASE Capacity(slots) # 0
    <3>1. Capacity(slots) >= 4 /\ grow_at = GrowAt(Capacity(slots)) /\ size <= grow_at
      BY <1>1, <2>2 DEF Sized
    <3> QED
      BY <1>3, <2>1, <3>1, GrowthRoom DEF SizeExact
  <2> QED
    BY <1>3, <2>1, <2>2 DEF SizeExact
<1>5. ProbesEnd
  <2> SUFFICES ASSUME NEW ref \in Refs, slots # Table(0) PROVE Stops(slots, ref) # {}
    BY DEF ProbesEnd
  <2>1. Free(slots) /\ hash \in Hashes
    BY <1>1, <1>3, SomeFree DEF IndexType
  <2> QED
    BY <1>1, <2>1, ProbeEnds
<1>6. ChainsUnbroken
  <2> SUFFICES ASSUME NEW i \in Occupied(slots),
                      NEW d \in 0 .. Distance(slots, Home(slots, i), i)
               PROVE  slots[Around(slots, Home(slots, i), d)].ref # NullRef
    BY DEF ChainsUnbroken, Home
  <2> DEFINE n == Capacity(slots)
             h == Home(slots, i)
             k == Around(slots, h, d)
  <2>1. i \in DOMAIN slots /\ slots[i].ref \in Refs /\ DOMAIN slots = 0 .. n - 1
    BY <1>1, TableFacts DEF EntryType
  <2>2. h \in DOMAIN slots
    BY <1>1, <1>3, <2>1, HomeIsSlot DEF Home, IndexType
  <2> HIDE DEF h
  <2>3. Distance(slots, h, i) = Gap(n, h, i) /\ Gap(n, h, i) \in DOMAIN slots
    BY <1>1, <2>1, <2>2, Ring
  <2>4. d \in DOMAIN slots /\ d <= Gap(n, h, i)
    BY <1>3, <2>1, <2>3 DEF h
  <2>5. k \in DOMAIN slots /\ Gap(n, h, k) = d
    BY <1>1, <2>2, <2>4, Step
  <2> QED
    BY <1>1, <2>4, <2>5 DEF Chains, Chained, h
<1> QED
  BY <1>2, <1>4, <1>5, <1>6 DEF TableSound

\* The inductive invariant holds of every behaviour of the index.
THEOREM IndexInvariance == Spec => []IndexInv
<1>1. Init => IndexInv
  BY StartsEmpty
<1>2. IndexInv /\ [Next]_vars => IndexInv'
  BY EveryStep
<1> QED
  BY <1>1, <1>2, PTL DEF Spec

\* flat_hash_map.h keeps its types: slots hold a live reference and an order or are empty.
THEOREM IndexTypes == Spec => []TypeOK
<1>1. IndexInv => TypeOK
  BY InvariantSays
<1> QED
  BY <1>1, IndexInvariance, PTL

\* size_ is exact, the threshold keeps a quarter of the table free so that every probe loop
\* ends, and no step of grow() or backward_shift breaks a chain, whatever the hashes.
THEOREM AlwaysSound == Spec => []TableSound
<1>1. IndexInv => TableSound
  BY InvariantSays
<1> QED
  BY <1>1, IndexInvariance, PTL

\* insert, find and erase answer as a map does: no entry is lost, doubled or mixed up by a
\* rehash or a backward shift.
THEOREM IsAMap == Spec => ImplementsMap
<1>1. Init => Map!Init
  BY StartsEmpty
<1>2. IndexInv /\ [Next]_vars => [Map!Next]_(Map!vars)
  BY EveryStep
<1> QED
  BY <1>1, <1>2, IndexInvariance, PTL DEF Spec, ImplementsMap, Map!Spec

=============================================================================
