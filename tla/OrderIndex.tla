----------------------------- MODULE OrderIndex -----------------------------
(***************************************************************************)
(* The order index (src/common/flat_hash_map.h): open addressing with      *)
(* linear probing in a table whose size is a power of two, doubled at      *)
(* three quarters full, and deletion by backward shift instead of          *)
(* tombstones.                                                             *)
(*                                                                         *)
(* A probe, which changes nothing, is one step; the two loops that move    *)
(* entries, the rehash of grow() and backward_shift(), take a step per     *)
(* iteration, so that what they may rely on half way can be stated.        *)
(* Calls never overlap (the index has one owner): a call starts only from  *)
(* "idle".                                                                 *)
(*                                                                         *)
(* The mixing multiplication of home_slot is an arbitrary function from    *)
(* references to hashes, chosen once: every collision pattern is explored. *)
(* The packed shares/side word is one opaque order.                        *)
(***************************************************************************)
EXTENDS Integers, FiniteSets

CONSTANTS
  Refs,        \* references callers use, NullRef among them if they may pass it
  NullRef,     \* 0, the reference that marks an empty slot
  Orders,      \* contents of a slot
  NoOrder,     \* the null pointer of a failed find
  kInitial,    \* slots of the first table
  HashRange    \* hashes are 0 .. HashRange - 1

ASSUME IndexAssumption ==
  kInitial \in Nat /\ kInitial >= 4 /\ HashRange \in Nat \ {0} /\ NoOrder \notin Orders

VARIABLES
  hash,        \* the hash of each reference, fixed
  slots,       \* slots_, a function on 0 .. capacity - 1, empty before the first insert
  size,        \* size_
  grow_at,     \* grow_at_
  pc,          \* "idle", "rehash" or "shift"
  old,         \* the table being rehashed
  at,          \* next slot of old to reinsert, or the cursor j of backward_shift
  hole,        \* hole of backward_shift
  pending,     \* the insert waiting for the rehash
  ret          \* what the last call returned

table == <<slots, size, grow_at>>
vars == <<hash, slots, size, grow_at, pc, old, at, hole, pending, ret>>

-----------------------------------------------------------------------------
EmptySlot == [ref |-> NullRef, order |-> NoOrder]

Table(n) == [i \in 0 .. n - 1 |-> EmptySlot]

Capacity(t) == Cardinality(DOMAIN t)

home_slot(t, ref) == hash[ref] % Capacity(t)

\* The slot d steps around the ring from i, and how far j is from i.
Around(t, i, d) == (i + d) % Capacity(t)
Distance(t, i, j) == (j - i) % Capacity(t)

\* Where a probe for ref may stop, as distances from its home: an empty slot, or its own.
Stops(t, ref) ==
  {d \in DOMAIN t : t[Around(t, home_slot(t, ref), d)].ref \in {NullRef, ref}}

\* Where it does stop.  A full table without ref has no such slot: the loop never ends.
Probe(t, ref) ==
  Around(t, home_slot(t, ref), CHOOSE d \in Stops(t, ref) : \A e \in Stops(t, ref) : d <= e)

Found(t, ref) == t[Probe(t, ref)].ref # NullRef

-----------------------------------------------------------------------------
\* A product with 0 is 0 whatever the multiplier.
Hashes == {h \in [Refs -> 0 .. HashRange - 1] : NullRef \in Refs => h[NullRef] = 0}

Init ==
  /\ hash \in Hashes
  /\ slots = Table(0) /\ size = 0 /\ grow_at = 0
  /\ pc = "idle" /\ old = Table(0) /\ at = 0 /\ hole = 0
  /\ pending = EmptySlot
  /\ ret = NoOrder

\* The walk that ends an insert.
Store(slot) ==
  IF Found(slots, slot.ref)
  THEN ret' = FALSE /\ UNCHANGED <<slots, size>>
  ELSE /\ slots' = [slots EXCEPT ![Probe(slots, slot.ref)] = slot]
       /\ size' = size + 1
       /\ ret' = TRUE

GrowAt(capacity) == capacity - capacity \div 4

\* grow() up to its loop.
GrowTo(next) ==
  /\ old' = slots
  /\ slots' = Table(next)
  /\ grow_at' = GrowAt(next)
  /\ size' = 0
  /\ at' = 0
  /\ pc' = "rehash"

Grow == GrowTo(IF slots = Table(0) THEN kInitial ELSE 2 * Capacity(slots))

\* Mutant of Storable: the marker of an empty slot is stored like any reference.
StorableAny(ref) == TRUE

Storable(ref) == ref # NullRef

\* The growth check comes before the search for a duplicate.
Insert(ref, order) ==
  /\ pc = "idle"
  /\ UNCHANGED <<hash, hole>>
  /\ \/ /\ ~Storable(ref)
        /\ ret' = FALSE
        /\ UNCHANGED <<slots, size, grow_at, pc, old, at, pending>>
     \/ /\ Storable(ref) /\ size + 1 > grow_at
        /\ Grow
        /\ pending' = [ref |-> ref, order |-> order]
        /\ UNCHANGED ret
     \/ /\ Storable(ref) /\ size + 1 <= grow_at
        /\ Store([ref |-> ref, order |-> order])
        /\ UNCHANGED <<grow_at, pc, old, at, pending>>

\* Mutant of RehashStep: an empty slot does not advance the loop.
RehashStepStuck ==
  /\ pc = "rehash" /\ at \in DOMAIN old
  /\ IF old[at].ref = NullRef THEN UNCHANGED <<slots, size, at>>
     ELSE /\ slots' = [slots EXCEPT ![Probe(slots, old[at].ref)] = old[at]]
          /\ size' = size + 1 /\ at' = at + 1
  /\ UNCHANGED <<hash, grow_at, pc, old, hole, pending, ret>>

\* One iteration of grow()'s loop: no reference occurs twice, so the first slot that
\* stops the probe is the first empty one.
RehashStep ==
  /\ pc = "rehash" /\ at \in DOMAIN old
  /\ at' = at + 1
  /\ IF old[at].ref = NullRef THEN UNCHANGED <<slots, size>>
     ELSE /\ slots' = [slots EXCEPT ![Probe(slots, old[at].ref)] = old[at]]
          /\ size' = size + 1
  /\ UNCHANGED <<hash, grow_at, pc, old, hole, pending, ret>>

\* Back in insert() after grow() returned.
RehashDone ==
  /\ pc = "rehash" /\ at \notin DOMAIN old
  /\ Store(pending)
  /\ pc' = "idle" /\ old' = Table(0) /\ at' = 0 /\ pending' = EmptySlot
  /\ UNCHANGED <<hash, grow_at, hole>>

Find(ref) ==
  /\ pc = "idle"
  /\ ret' = IF size # 0 /\ Found(slots, ref) THEN slots[Probe(slots, ref)].order ELSE NoOrder
  /\ UNCHANGED <<hash, table, pc, old, at, hole, pending>>

\* OrderBook::reduce stores the remaining quantity through the pointer find returned.
Assign(ref, order) ==
  /\ pc = "idle" /\ size # 0 /\ Found(slots, ref)
  /\ slots' = [slots EXCEPT ![Probe(slots, ref)].order = order]
  /\ ret' = order
  /\ UNCHANGED <<hash, size, grow_at, pc, old, at, hole, pending>>

\* erase() up to backward_shift: its answer is known, its entry becomes the hole.
Erase(ref) ==
  /\ pc = "idle"
  /\ UNCHANGED <<hash, table, old, pending>>
  /\ IF size # 0 /\ Found(slots, ref)
     THEN /\ pc' = "shift" /\ hole' = Probe(slots, ref) /\ at' = Probe(slots, ref)
          /\ ret' = TRUE
     ELSE ret' = FALSE /\ UNCHANGED <<pc, at, hole>>

\* Mutants of StaysPut: an entry whose home is the hole stays; the ring is not a ring.
StaysPutAtHole(j) ==
  Distance(slots, hole, home_slot(slots, slots[j].ref)) <= Distance(slots, hole, j)

StaysPutNoWrap(j) ==
  LET home == home_slot(slots, slots[j].ref) IN home <= j /\ home > hole

\* May the entry at j stay behind the hole?  Only if its home is after the hole.
StaysPut(j) ==
  LET home == Distance(slots, hole, home_slot(slots, slots[j].ref))
  IN  home <= Distance(slots, hole, j) /\ home # 0

\* One iteration of backward_shift.
ShiftStep ==
  LET j == Around(slots, at, 1)
  IN  /\ pc = "shift"
      /\ IF slots[j].ref = NullRef
         THEN /\ slots' = [slots EXCEPT ![hole] = EmptySlot]
              /\ size' = size - 1
              /\ pc' = "idle" /\ at' = 0 /\ hole' = 0
         ELSE /\ at' = j
              /\ slots' = IF StaysPut(j) THEN slots ELSE [slots EXCEPT ![hole] = slots[j]]
              /\ hole' = IF StaysPut(j) THEN hole ELSE j
              /\ UNCHANGED <<size, pc>>
      /\ UNCHANGED <<hash, grow_at, old, pending, ret>>

Call ==
  \E ref \in Refs :
    \/ Find(ref)
    \/ Erase(ref)
    \/ \E order \in Orders : Insert(ref, order) \/ Assign(ref, order)

Loop == RehashStep \/ RehashDone \/ ShiftStep

Next == Call \/ Loop

\* A call that has started runs to its end: the loops are straight-line code.
Spec == Init /\ [][Next]_vars /\ WF_vars(Loop)

-----------------------------------------------------------------------------
\* The entries of a table, the hole of a shift (an erased or already moved entry) and
\* the part of the old table already reinserted left out.
Occupied(t) == {i \in DOMAIN t : t[i].ref # NullRef}

LiveSlots == {slots[i] : i \in Occupied(slots) \ (IF pc = "shift" THEN {hole} ELSE {})}
               \cup {old[i] : i \in {k \in Occupied(old) : k >= at}}

TypeOK ==
  /\ hash \in Hashes
  /\ \A t \in {slots, old} :
       /\ DOMAIN t = 0 .. Capacity(t) - 1
       /\ \A i \in DOMAIN t : t[i] = EmptySlot \/ t[i] \in [ref : Refs \ {NullRef}, order : Orders]
  /\ {size, grow_at, at, hole} \subseteq Nat
  /\ pc \in {"idle", "rehash", "shift"}
  /\ pending = EmptySlot \/ pending \in [ref : Refs \ {NullRef}, order : Orders]
  /\ ret \in BOOLEAN \cup Orders \cup {NoOrder}

\* No probe chain is broken: between an entry's home and the entry itself there is no
\* empty slot, through every step of a shift and of a rehash.
ChainsUnbroken ==
  \A i \in Occupied(slots) :
    LET home == home_slot(slots, slots[i].ref)
    IN  \A d \in 0 .. Distance(slots, home, i) : slots[Around(slots, home, d)].ref # NullRef

\* size_ counts the occupied slots and stays below the growth threshold that keeps a
\* quarter of the table free.
SizeExact ==
  /\ size = Cardinality(Occupied(slots))
  /\ slots # Table(0) => size <= grow_at /\ grow_at < Capacity(slots)

\* An allocated table has a slot that stops the probe for any reference, live or not.
ProbesEnd ==
  \A ref \in Refs : slots # Table(0) => Stops(slots, ref) # {}

\* What lookups rest on: every probe loop of insert, find, erase and grow ends, and none ends
\* before the entry it looks for, even while a shift or a rehash moves entries.
TableSound == SizeExact /\ ProbesEnd /\ ChainsUnbroken

\* What the table holds, as a map.
Content == [r \in {s.ref : s \in LiveSlots} |-> (CHOOSE s \in LiveSlots : s.ref = r).order]

Map == INSTANCE OrderMap WITH map <- Content

\* Whatever the hashes, the table is a map: entries never get lost, doubled or mixed up
\* by a shift or a rehash, and each call answers as the map does.
ImplementsMap == Map!Spec

\* A call that has started returns.
CallsReturn == (pc # "idle") ~> (pc = "idle")
=============================================================================
