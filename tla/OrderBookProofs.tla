--------------------------- MODULE OrderBookProofs ---------------------------
(***************************************************************************)
(* The theorems about one book under every sequence of calls, for every    *)
(* window size and every set of references, prices and quantities: the     *)
(* invariant of BookProofs holds throughout, check_invariants succeeds,    *)
(* refusals change nothing, the book implements LimitOrderBook, a rebase   *)
(* does what its loop over the levels does, and levels() is in order.      *)
(***************************************************************************)
EXTENDS OrderBook, BookProofs, SequenceTheorems

-----------------------------------------------------------------------------
(***************************************************************************)
(* The theorems that hold whatever the arguments of the calls are.         *)
(***************************************************************************)
Inv == BookInv(book) /\ result \in ApplyResults \cup {"None"}

\* The initial state satisfies the invariant.
LEMMA InitInv == Init => Inv
BY NewBookInv DEF Init, Inv

\* Every call preserves the invariant.
LEMMA NextInv == Inv /\ [Next]_vars => Inv'
<1> SUFFICES ASSUME Inv, [Next]_vars PROVE Inv'
  OBVIOUS
<1> USE InputAssumption
<1>1. ASSUME NEW ref \in Refs, NEW side \in AddSides, NEW shares \in AddShares,
             NEW price \in Prices, Add(ref, side, shares, price)
      PROVE  Inv'
  <2> DEFINE r == BookAdd(book, ref, side, shares, price)
  <2>1. book' = r.book /\ result' = r.result
    BY <1>1 DEF Add, Apply
  <2>2. CASE ref \in DOMAIN book.orders
    <3>1. r = Done(book, "DuplicateRef")
      BY <2>2 DEF BookAdd, Insertable, Live
    <3> QED
      BY <2>1, <3>1 DEF Inv, Done, ApplyResults
  <2>3. CASE ref \notin DOMAIN book.orders
    <3>1. BookInv(r.book) /\ r.result \in ApplyResults
      BY <2>3, BookAddInv DEF Inv
    <3> QED
      BY <2>1, <3>1 DEF Inv
  <2> QED
    BY <2>2, <2>3
<1>2. ASSUME NEW ref \in Refs, NEW shares \in CutShares, Reduce(ref, shares)
      PROVE  Inv'
  <2> DEFINE r == BookReduce(book, ref, shares)
  <2>1. BookInv(r.book) /\ r.result \in ApplyResults
    BY BookReduceInv DEF Inv
  <2> QED
    BY <1>2, <2>1 DEF Reduce, Apply, Inv
<1>3. ASSUME NEW ref \in Refs, Remove(ref)
      PROVE  Inv'
  <2> DEFINE r == BookRemove(book, ref)
  <2>1. BookInv(r.book) /\ r.result \in ApplyResults
    BY BookRemoveInv DEF Inv
  <2> QED
    BY <1>3, <2>1 DEF Remove, Apply, Inv
<1>4. ASSUME NEW original_ref \in Refs, NEW new_ref \in Refs, NEW shares \in AddShares,
             NEW price \in Prices, Replace(original_ref, new_ref, shares, price)
      PROVE  Inv'
  <2> DEFINE r == BookReplace(book, original_ref, new_ref, shares, price)
  <2>1. BookInv(r.book) /\ r.result \in ApplyResults
    BY BookReplaceInv DEF Inv
  <2> QED
    BY <1>4, <2>1 DEF Replace, Apply, Inv
<1>5. CASE Reserve
  BY <1>5, BookReserveInv DEF Reserve, Inv
<1>6. CASE UNCHANGED vars
  BY <1>6 DEF vars, Inv
<1> QED
  BY <1>1, <1>2, <1>3, <1>4, <1>5, <1>6 DEF Next

\* For every window, reference set, price set and call sequence the invariant holds.
THEOREM Invariance == Spec => []Inv
BY InitInv, NextInv, PTL DEF Spec

\* Every book has its type: quantities and totals never go below zero, so no unsigned
\* counter of order_book.cc or price_levels.cc wraps, however the calls are ordered.
THEOREM Typed == Spec => []TypeOK
<1>1. Inv => TypeOK
  BY BookInvIsBook DEF Inv, TypeOK
<1> QED
  BY <1>1, Invariance, PTL

\* resting_shares() is the sum of the live quantities, whatever is clamped or refused.
THEOREM RestingShares == Spec => []RestingSharesExact
<1>1. Inv => RestingSharesExact
  BY DEF Inv, BookInv, RestingSharesExact, SumAll, Total
<1> QED
  BY <1>1, Invariance, PTL

\* No operation indexes cells_ before the array is allocated.
THEOREM Allocated == Spec => []CellsAllocated
<1>1. Inv => CellsAllocated
  BY BookInvCells DEF Inv, CellsAllocated
<1> QED
  BY <1>1, Invariance, PTL

\* add() accepts an order without shares: check_invariants fails exactly while such orders
\* alone make up a level, whatever came before.
THEOREM ZeroLevels == Spec => []OnlyZeroLevelsFail
<1>1. Inv => OnlyZeroLevelsFail
  BY BookInvChecks DEF Inv, OnlyZeroLevelsFail
<1> QED
  BY <1>1, Invariance, PTL

-----------------------------------------------------------------------------
(***************************************************************************)
(* add() does not refuse a quantity of zero; what needs every order to     *)
(* hold shares assumes that no message adds an empty one.                  *)
(***************************************************************************)
\* The invariant, and every quantity positive.
PosInv == Inv /\ Positive(book.orders)

\* Every call keeps quantities positive if no added order is empty.
LEMMA NextPosInv ==
  ASSUME 0 \notin AddShares
  PROVE  PosInv /\ [Next]_vars => PosInv'
<1> SUFFICES ASSUME PosInv, [Next]_vars PROVE Positive(book'.orders)
  BY NextInv DEF PosInv
<1>0. BookInv(book) /\ Positive(book.orders)
  BY DEF PosInv, Inv
<1> USE InputAssumption
<1>1. ASSUME NEW ref \in Refs, NEW side \in AddSides, NEW shares \in AddShares,
             NEW price \in Prices, Add(ref, side, shares, price)
      PROVE  Positive(book'.orders)
  <2>1. shares \in Nat /\ shares # 0
    OBVIOUS
  <2> QED
    BY <1>0, <1>1, <2>1, AddKeepsPositive DEF Add, Apply
<1>2. ASSUME NEW ref \in Refs, NEW shares \in CutShares, Reduce(ref, shares)
      PROVE  Positive(book'.orders)
  BY <1>0, <1>2, ReduceKeepsPositive DEF Reduce, Apply
<1>3. ASSUME NEW ref \in Refs, Remove(ref)
      PROVE  Positive(book'.orders)
  BY <1>0, <1>3, RemoveKeepsPositive DEF Remove, Apply
<1>4. ASSUME NEW original_ref \in Refs, NEW new_ref \in Refs, NEW shares \in AddShares,
             NEW price \in Prices, Replace(original_ref, new_ref, shares, price)
      PROVE  Positive(book'.orders)
  <2>1. shares \in Nat /\ shares # 0
    OBVIOUS
  <2> QED
    BY <1>0, <1>4, <2>1, ReplaceKeepsPositive DEF Replace, Apply
<1>5. CASE Reserve
  BY <1>0, <1>5, BookReserveInv DEF Reserve
<1>6. CASE UNCHANGED vars
  BY <1>0, <1>6 DEF vars
<1> QED
  BY <1>1, <1>2, <1>3, <1>4, <1>5, <1>6 DEF Next

\* check_invariants (order_book.cc, price_levels.cc) never fails: a rebuild of every level
\* from the order index gives what the two sides hold, and the bitmap, the level count and
\* the cached best agree, for every window and call sequence without a zero quantity.
THEOREM Consistent ==
  ASSUME 0 \notin AddShares
  PROVE  Spec => []BookConsistent
<1>1. Init => PosInv
  <2>1. DOMAIN NoOrders = {}
    BY DEF NoOrders
  <2>2. Init => Positive(book.orders)
    BY <2>1 DEF Init, NewBook, Positive
  <2> QED
    BY <2>2, InitInv DEF PosInv
<1>2. PosInv /\ [Next]_vars => PosInv'
  BY NextPosInv
<1>3. PosInv => BookConsistent
  BY BookInvConsistent DEF PosInv, Inv, BookConsistent
<1> QED
  BY <1>1, <1>2, <1>3, PTL DEF Spec

-----------------------------------------------------------------------------
(***************************************************************************)
(* Refusal.  replace() looks the new reference up before it erases the     *)
(* original, so only the reference that marks an empty slot can be refused *)
(* afterwards; the theorem assumes that no message names it.               *)
(***************************************************************************)
\* order_book.cc:16-19 and 130-132: a refused operation changes nothing.
THEOREM RefusalsChangeNothing ==
  ASSUME NullRef \notin Refs
  PROVE  Spec => RefusedChangesNothing
<1> DEFINE A == result' \in {"UnknownRef", "DuplicateRef"} => book' = book
<1>1. Inv /\ [Next]_vars => [A]_vars
  <2> SUFFICES ASSUME Inv, Next, result' \in {"UnknownRef", "DuplicateRef"} PROVE book' = book
    OBVIOUS
  <2>1. ASSUME NEW ref \in Refs, NEW side \in AddSides, NEW shares \in AddShares,
               NEW price \in Prices, Add(ref, side, shares, price)
        PROVE  book' = book
    BY <2>1 DEF Add, Apply, BookAdd, Done
  <2>2. ASSUME NEW ref \in Refs, NEW shares \in CutShares, Reduce(ref, shares)
        PROVE  book' = book
    BY <2>2 DEF Reduce, Apply, BookReduce, Done
  <2>3. ASSUME NEW ref \in Refs, Remove(ref)
        PROVE  book' = book
    BY <2>3 DEF Remove, Apply, BookRemove, Done
  <2>4. ASSUME NEW original_ref \in Refs, NEW new_ref \in Refs, NEW shares \in AddShares,
               NEW price \in Prices, Replace(original_ref, new_ref, shares, price)
        PROVE  book' = book
    <3> DEFINE c == EraseOrder(book, original_ref)
               d == book.orders[original_ref].side
    <3>1. CASE Live(book, original_ref) /\ ~(new_ref # original_ref /\ Live(book, new_ref))
      <4>1. book' = BookAdd(c, new_ref, d, shares, price).book
            /\ result' = BookAdd(c, new_ref, d, shares, price).result
        BY <2>4, <3>1 DEF Replace, Apply, BookReplace
      <4>2. DOMAIN c.orders = DOMAIN book.orders \ {original_ref}
        BY <3>1, EraseOrderInv DEF Inv, Live
      <4>3. Insertable(c, new_ref)
        BY <3>1, <4>2 DEF Insertable, Live
      <4> HIDE DEF c, d
      <4>4. result' = "Applied"
        BY <4>1, <4>3 DEF BookAdd, Done
      <4> QED
        BY <4>4
    <3>2. CASE ~(Live(book, original_ref) /\ ~(new_ref # original_ref /\ Live(book, new_ref)))
      BY <2>4, <3>2 DEF Replace, Apply, BookReplace, Done
    <3> QED
      BY <3>1, <3>2
  <2>5. CASE Reserve
    BY <2>5 DEF Reserve
  <2> QED
    BY <2>1, <2>2, <2>3, <2>4, <2>5 DEF Next
<1> QED
  BY <1>1, Invariance, PTL DEF Spec, RefusedChangesNothing
-----------------------------------------------------------------------------
(***************************************************************************)
(* The book implements LimitOrderBook: the best of the array and the map   *)
(* is the top of the orders.                                               *)
(***************************************************************************)
\* The best level of the array has the best price of the array.
LEMMA ArrayBest ==
  ASSUME NEW side, NEW s, SideInv(side, s), s.best # NoCell
  PROVE  /\ s.best \in s.bits /\ s.cells[s.best].price \in Nat
         /\ \A i \in s.bits : /\ s.cells[i].price \in Nat
                             /\ ~Better(side, s.cells[i].price, s.cells[s.best].price)
<1>1. /\ s.cells \in [Cells -> LevelType] /\ s.bits \in SUBSET Cells
      /\ s.base \in Nat \cup {NoBase} /\ s.best = ScanBest(side, s.bits)
      /\ \A i \in s.bits : CellOf(s.base, s.cells[i].price) = i
  BY DEF SideInv, IsSide, SideType, ArrayInv
<1>2. IsBest(side, s.best, s.bits)
  BY <1>1, ScanBestType
<1>3. \A i \in s.bits : s.cells[i].price \in Nat
  BY <1>1 DEF LevelType
<1>4. s.best \in s.bits
  BY <1>2 DEF IsBest
<1>5. ASSUME NEW i \in s.bits
      PROVE  ~Better(side, s.cells[i].price, s.cells[s.best].price)
  <2> DEFINE x == s.cells[i].price  y == s.cells[s.best].price
  <2>1. /\ CellOf(s.base, x) = i /\ CellOf(s.base, y) = s.best
        /\ x \in Nat /\ y \in Nat /\ i # NoCell
    BY <1>1, <1>3, <1>4, SpanAssumption DEF Cells, NoCell
  <2>2. ~Better(side, i, s.best)
    BY <1>2 DEF IsBest
  <2> HIDE DEF x, y
  <2>3. Better(side, x, y) <=> Better(side, CellOf(s.base, x), CellOf(s.base, y))
    BY <1>1, <2>1, BetterCell
  <2> QED
    BY <2>1, <2>2, <2>3 DEF x, y
<1> QED
  BY <1>3, <1>4, <1>5

\* The first or last key of the map is the best price in it.
LEMMA FarBest ==
  ASSUME NEW side, NEW s, SideInv(side, s), DOMAIN s.far # {}
  PROVE  /\ FarBestPrice(side, s) \in DOMAIN s.far
         /\ \A p \in DOMAIN s.far : ~Better(side, p, FarBestPrice(side, s))
<1>1. DOMAIN s.far \in SUBSET Int /\ IsFiniteSet(DOMAIN s.far)
  BY DEF SideInv, IsSide, FarInv
<1>2. IsBest(side, FarBestPrice(side, s), DOMAIN s.far)
  BY <1>1, BestOfIsBest DEF FarBestPrice
<1> QED
  BY <1>2 DEF IsBest

\* The level shown is a gathered one and no gathered one is better; or nothing is held.
LEMMA BestIsBestGathered ==
  ASSUME NEW side, NEW s, SideInv(side, s)
  PROVE  LET l == Best(side, s)
         IN  \/ Gathered(s) = {} /\ l = EmptyLevel
             \/ l \in Gathered(s) /\ \A m \in Gathered(s) : ~Better(side, m.price, l.price)
<1> DEFINE l == Best(side, s)
           fb == FarBestPrice(side, s)
<1>1. \A p \in DOMAIN s.far : s.far[p].price = p /\ p \in Nat
  BY DEF SideInv, FarInv, IsSide
<1>2. s.best = NoCell => s.bits = {}
  <2>1. s.bits \in SUBSET Cells /\ s.best = ScanBest(side, s.bits)
    BY DEF SideInv, IsSide, SideType, ArrayInv
  <2> QED
    BY <2>1, ScanBestType
<1>3. \A m \in Gathered(s) : (\E i \in s.bits : m = s.cells[i]) \/ (\E p \in DOMAIN s.far : m = s.far[p])
  BY DEF Gathered
<1>4. CASE DOMAIN s.far # {} /\ BeatsArray(side, s, fb)
  <2>1. l = s.far[fb] /\ fb \in DOMAIN s.far /\ \A p \in DOMAIN s.far : ~Better(side, p, fb)
    BY <1>4, FarBest DEF Best
  <2>2. l \in Gathered(s) /\ l.price = fb /\ fb \in Nat
    BY <1>1, <2>1 DEF Gathered
  <2>3. ASSUME NEW i \in s.bits PROVE ~Better(side, s.cells[i].price, fb)
    <3>1. s.best # NoCell
      BY <1>2
    <3>2. /\ Better(side, fb, s.cells[s.best].price) /\ s.cells[s.best].price \in Nat
          /\ s.cells[i].price \in Nat /\ ~Better(side, s.cells[i].price, s.cells[s.best].price)
      BY <1>4, <3>1, ArrayBest DEF BeatsArray
    <3> QED
      BY <2>2, <3>2 DEF Better
  <2>4. ASSUME NEW m \in Gathered(s) PROVE ~Better(side, m.price, l.price)
    BY <1>1, <1>3, <2>1, <2>2, <2>3
  <2> QED
    BY <2>2, <2>4
<1>5. CASE ~(DOMAIN s.far # {} /\ BeatsArray(side, s, fb)) /\ s.best # NoCell
  <2>1. l = s.cells[s.best]
    BY <1>5 DEF Best
  <2>2. /\ s.best \in s.bits /\ s.cells[s.best].price \in Nat
        /\ \A i \in s.bits : ~Better(side, s.cells[i].price, s.cells[s.best].price)
    BY <1>5, ArrayBest
  <2>3. ASSUME NEW p \in DOMAIN s.far PROVE ~Better(side, p, s.cells[s.best].price)
    <3>1. ~Better(side, fb, s.cells[s.best].price)
      BY <1>5 DEF BeatsArray
    <3>2. fb \in Nat /\ p \in Nat /\ ~Better(side, p, fb)
      BY <1>1, FarBest
    <3> QED
      BY <2>2, <3>1, <3>2 DEF Better
  <2>4. l \in Gathered(s)
    BY <2>1, <2>2 DEF Gathered
  <2>5. ASSUME NEW m \in Gathered(s) PROVE ~Better(side, m.price, l.price)
    BY <1>1, <1>3, <2>1, <2>2, <2>3
  <2> QED
    BY <2>4, <2>5
<1>6. CASE ~(DOMAIN s.far # {} /\ BeatsArray(side, s, fb)) /\ s.best = NoCell
  <2>1. DOMAIN s.far = {} /\ s.bits = {}
    BY <1>2, <1>6 DEF BeatsArray
  <2> QED
    BY <1>6, <2>1 DEF Best, Gathered
<1> QED
  BY <1>4, <1>5, <1>6

\* best() is the top of the live orders: the heart of the refinement.
LEMMA BestIsTop ==
  ASSUME NEW b, BookInv(b), NEW d \in Sides
  PROVE  Best(d, b.side[d]) = TopOf(b.orders, d)
<1> DEFINE l == Best(d, b.side[d])
           G == Gathered(b.side[d])
           P == PricesOf(b.orders, d)
<1>1. SideInv(d, b.side[d])
  BY DEF BookInv
<1>2. P \in SUBSET Int
  BY PricesAreHeld
<1>3. ASSUME NEW p \in P PROVE \E m \in G : m.price = p
  <2>1. p \in Nat /\ LevelAt(b.side[d], p).orders # 0
    BY PricesAreHeld
  <2> QED
    BY <1>1, <2>1, HeldIsGathered
<1>4. CASE G = {} /\ l = EmptyLevel
  <2>1. P = {}
    BY <1>3, <1>4
  <2> QED
    BY <1>4, <2>1 DEF TopOf
<1>5. CASE l \in G /\ \A m \in G : ~Better(d, m.price, l.price)
  <2>1. l.price \in P /\ l = RebuiltLevel(b.orders, d, l.price)
    BY <1>5, GatheredIsRebuilt
  <2> HIDE DEF l, P, G
  <2>2. IsBest(d, l.price, P)
    BY <1>3, <1>5, <2>1 DEF IsBest
  <2>3. BestOf(d, P) = l.price
    BY <1>2, <2>2, BestIsUnique
  <2>4. TopOf(b.orders, d) = RebuiltLevel(b.orders, d, l.price)
    BY <2>1, <2>3 DEF TopOf, P
  <2> QED
    BY <2>1, <2>4 DEF l
<1> QED
  BY <1>1, <1>4, <1>5, BestIsBestGathered
\* The instance speaks the same vocabulary of orders and levels.
LEMMA SameVocabulary ==
  /\ LOB!Sides = Sides /\ LOB!NoOrders = NoOrders /\ LOB!EmptyLevel = EmptyLevel
  /\ \A o, r, x : LOB!Put(o, r, x) = Put(o, r, x)
  /\ \A o, r : LOB!Drop(o, r) = Drop(o, r)
  /\ \A o, d : LOB!TopOf(o, d) = TopOf(o, d)
<1>1. LOB!Sides = Sides /\ LOB!NoOrders = NoOrders /\ LOB!EmptyLevel = EmptyLevel
  BY DEF LOB!Sides, Sides, LOB!NoOrders, NoOrders, LOB!EmptyLevel, EmptyLevel
<1>2. \A o, r, x : LOB!Put(o, r, x) = Put(o, r, x)
  BY DEF LOB!Put, Put
<1>3. \A o, r : LOB!Drop(o, r) = Drop(o, r)
  BY DEF LOB!Drop, Drop, LOB!Restrict, Restrict
<1>4. \A o, d, p : LOB!RefsAt(o, d, p) = RefsAt(o, d, p)
  BY DEF LOB!RefsAt, RefsAt
<1>5. \A o, R : LOB!SharesHeld(o, R) = SharesHeld(o, R)
  BY DEF LOB!SharesHeld, SharesHeld
<1>6. \A o, d, p : LOB!RebuiltLevel(o, d, p) = RebuiltLevel(o, d, p)
  <2> TAKE o, d, p
  <2>1. LOB!RefsAt(o, d, p) = RefsAt(o, d, p)
    BY <1>4
  <2>2. LOB!SharesHeld(o, RefsAt(o, d, p)) = SharesHeld(o, RefsAt(o, d, p))
    BY <1>5
  <2>3. \A S : LOB!Cardinality(S) = Cardinality(S)
    BY DEF LOB!Cardinality, Cardinality
  <2> QED
    BY <2>1, <2>2, <2>3, Zenon DEF LOB!RebuiltLevel, RebuiltLevel
<1>7. \A o, d : LOB!PricesOf(o, d) = PricesOf(o, d)
  BY <1>4 DEF LOB!PricesOf, PricesOf
<1>8. \A d, S : LOB!BestOf(d, S) = BestOf(d, S)
  BY DEF LOB!BestOf, BestOf, LOB!Better, Better
<1>9. \A o, d : LOB!TopOf(o, d) = TopOf(o, d)
  BY <1>1, <1>6, <1>7, <1>8 DEF LOB!TopOf, TopOf
<1> QED
  BY <1>1, <1>2, <1>3, <1>9

\* What a call leaves in the order map, and so at the top of each side.
LEMMA Settles ==
  ASSUME Inv', NEW o, NEW v, book'.orders = o, result' = v
  PROVE  LOB!Settle(o, v)
<1>1. \A d \in Sides : Best(d, book'.side[d]) = TopOf(o, d)
  BY BestIsTop DEF Inv
<1> QED
  BY <1>1, SameVocabulary DEF LOB!Settle

\* An add that is not refused puts one order into the map.
LEMMA AddOrders ==
  ASSUME NEW b, BookShape(b), NEW ref, Insertable(b, ref), NEW d, NEW n, NEW price,
         NEW r, r = BookAdd(b, ref, d, n, price)
  PROVE  /\ r.book.orders = Put(b.orders, ref, [side |-> d, price |-> price, qty |-> n])
         /\ r.result = "Applied"
BY DEF BookAdd, Done, BookShape

\* A new book is an empty abstract book.
LEMMA InitRefines == Init => LOB!Init
<1> SUFFICES ASSUME Init PROVE LOB!Init
  OBVIOUS
<1>1. BookInv(book) /\ book.orders = NoOrders /\ result = "None"
  BY NewBookInv DEF Init, NewBook
<1>2. \A d \in Sides : PricesOf(NoOrders, d) = {}
  BY DEF PricesOf, NoOrders
<1>3. \A d \in Sides : Best(d, book.side[d]) = EmptyLevel
  <2> TAKE d \in Sides
  <2>1. Best(d, book.side[d]) = TopOf(NoOrders, d)
    BY <1>1, BestIsTop
  <2> QED
    BY <1>2, <2>1 DEF TopOf
<1> QED
  BY <1>1, <1>3, SameVocabulary DEF LOB!Init

\* Every call is a step of the abstract book.
LEMMA NextRefines ==
  ASSUME NullRef \notin Refs
  PROVE  Inv /\ Inv' /\ [Next]_vars => [LOB!Next]_(LOB!vars)
<1> SUFFICES ASSUME Inv, Inv', [Next]_vars PROVE [LOB!Next]_(LOB!vars)
  OBVIOUS
<1> USE InputAssumption
<1>0. BookInv(book) /\ BookShape(book) /\ BookInv(book')
  BY DEF Inv, BookInv
<1>1. ASSUME book' = book, result' \in {"UnknownRef", "DuplicateRef"}
      PROVE  LOB!Next
  BY <1>1 DEF LOB!Next, LOB!Reject
<1>2. ASSUME NEW ref \in Refs, NEW side \in AddSides, NEW shares \in AddShares,
             NEW price \in Prices, Add(ref, side, shares, price)
      PROVE  LOB!Next
  <2> DEFINE r == BookAdd(book, ref, side, shares, price)
  <2>1. book' = r.book /\ result' = r.result
    BY <1>2 DEF Add, Apply
  <2>2. CASE Insertable(book, ref)
    <3>1. book'.orders = Put(book.orders, ref, [side |-> side, price |-> price, qty |-> shares])
          /\ result' = "Applied"
      BY <1>0, <2>1, <2>2, AddOrders
    <3>2. LOB!Enter(ref, side, shares, price)
      BY <3>1, Settles, SameVocabulary DEF LOB!Enter
    <3> QED
      BY <2>2, <3>2 DEF LOB!Next, Insertable, Live
  <2>3. CASE ~Insertable(book, ref)
    BY <1>1, <2>1, <2>3 DEF BookAdd, Done
  <2> QED
    BY <2>2, <2>3
<1>3. ASSUME NEW ref \in DOMAIN book.orders, book' = EraseOrder(book, ref),
             result' \in {"Applied", "ClampedReduce"}
      PROVE  LOB!Next
  <2>1. book'.orders = Drop(book.orders, ref)
    BY <1>0, <1>3, EraseOrderInv
  <2>2. LOB!Leave(ref, result')
    BY <2>1, Settles, SameVocabulary DEF LOB!Leave
  <2> QED
    BY <1>3, <2>2 DEF LOB!Next
<1>4. ASSUME NEW ref \in Refs, NEW shares \in CutShares, Reduce(ref, shares)
      PROVE  LOB!Next
  <2> DEFINE qty == book.orders[ref].qty
  <2>1. CASE ref \notin DOMAIN book.orders
    BY <1>1, <1>4, <2>1 DEF Reduce, Apply, BookReduce, Live, Done
  <2>2. CASE ref \in DOMAIN book.orders /\ shares >= qty
    <3>1. book' = EraseOrder(book, ref) /\ result' \in {"Applied", "ClampedReduce"}
      BY <1>4, <2>2 DEF Reduce, Apply, BookReduce, Live, Done
    <3> QED
      BY <1>3, <2>2, <3>1
  <2>3. CASE ref \in DOMAIN book.orders /\ ~(shares >= qty)
    <3>1. qty \in Nat /\ shares < qty
      BY <1>0, <2>3, LiveOrderIsHeld
    <3>2. book' = ShrinkOrder(book, ref, shares) /\ result' = "Applied"
      BY <1>4, <2>3, <3>1 DEF Reduce, Apply, BookReduce, Live, Done
    <3>3. book'.orders = [book.orders EXCEPT ![ref].qty = @ - shares]
      BY <1>0, <3>2 DEF ShrinkOrder, BookShape
    <3>4. LOB!Cut(ref, shares)
      BY <3>2, <3>3, Settles DEF LOB!Cut
    <3> QED
      BY <2>3, <3>1, <3>4 DEF LOB!Next
  <2> QED
    BY <2>1, <2>2, <2>3
<1>5. ASSUME NEW ref \in Refs, Remove(ref)
      PROVE  LOB!Next
  <2>1. CASE ref \notin DOMAIN book.orders
    BY <1>1, <1>5, <2>1 DEF Remove, Apply, BookRemove, Live, Done
  <2>2. CASE ref \in DOMAIN book.orders
    <3>1. book' = EraseOrder(book, ref) /\ result' = "Applied"
      BY <1>5, <2>2 DEF Remove, Apply, BookRemove, Live, Done
    <3> QED
      BY <1>3, <2>2, <3>1
  <2> QED
    BY <2>1, <2>2
<1>6. ASSUME NEW ref \in Refs, NEW new \in Refs, NEW shares \in AddShares,
             NEW price \in Prices, Replace(ref, new, shares, price)
      PROVE  LOB!Next
  <2> DEFINE c == EraseOrder(book, ref)
             d == book.orders[ref].side
  <2>1. CASE ref \notin DOMAIN book.orders \/ (new # ref /\ new \in DOMAIN book.orders)
    BY <1>1, <1>6, <2>1 DEF Replace, Apply, BookReplace, Live, Done
  <2>2. CASE ref \in DOMAIN book.orders /\ (new = ref \/ new \notin DOMAIN book.orders)
    <3>1. book' = BookAdd(c, new, d, shares, price).book
          /\ result' = BookAdd(c, new, d, shares, price).result
      BY <1>6, <2>2 DEF Replace, Apply, BookReplace, Live
    <3>2. /\ BookShape(c) /\ c.orders = Drop(book.orders, ref)
          /\ DOMAIN c.orders = DOMAIN book.orders \ {ref}
      BY <1>0, <2>2, EraseOrderInv DEF BookInv
    <3>3. Insertable(c, new)
      BY <2>2, <3>2 DEF Insertable, Live
    <3> HIDE DEF c
    <3>4. book'.orders = Put(Drop(book.orders, ref), new,
                             [side |-> d, price |-> price, qty |-> shares])
          /\ result' = "Applied"
      BY <3>1, <3>2, <3>3, AddOrders
    <3>5. LOB!Exchange(ref, new, shares, price)
      BY <3>4, Settles, SameVocabulary DEF LOB!Exchange
    <3>6. new \in (Refs \ DOMAIN book.orders) \cup {ref}
      BY <2>2
    <3> QED
      BY <2>2, <3>5, <3>6 DEF LOB!Next
  <2> QED
    BY <2>1, <2>2
<1>7. CASE Reserve
  <2>1. book'.orders = book.orders /\ result' = "None"
    BY <1>0, <1>7, BookReserveInv DEF Reserve
  <2>2. \A d \in Sides : Best(d, book'.side[d]) = Best(d, book.side[d])
    <3> TAKE d \in Sides
    <3>1. Best(d, book.side[d]) = TopOf(book.orders, d)
      BY <1>0, BestIsTop
    <3>2. Best(d, book'.side[d]) = TopOf(book'.orders, d)
      BY <1>0, BestIsTop
    <3> QED
      BY <2>1, <3>1, <3>2
  <2>3. LOB!Prepare
    BY <2>1, <2>2 DEF LOB!Prepare
  <2> QED
    BY <2>3 DEF LOB!Next
<1>8. CASE UNCHANGED vars
  BY <1>8 DEF vars, LOB!vars
<1> QED
  BY <1>2, <1>4, <1>5, <1>6, <1>7, <1>8 DEF Next

\* order_book.h: whatever mix of array and map holds them, best_bid() and best_ask() show
\* the best level of the live orders, and each call is one operation of LimitOrderBook.
THEOREM Refinement ==
  ASSUME NullRef \notin Refs
  PROVE  Spec => Implements
<1>1. Init => LOB!Init
  BY InitRefines
<1>2. Inv /\ Inv' /\ [Next]_vars => [LOB!Next]_(LOB!vars)
  BY NextRefines
<1> QED
  BY <1>1, <1>2, Invariance, PTL DEF Spec, Implements, LOB!Spec

-----------------------------------------------------------------------------
(***************************************************************************)
(* The loop of rebase leaves what Rebase describes: after any number of    *)
(* place() calls the side is what Rebase would make of the levels placed   *)
(* so far.                                                                 *)
(***************************************************************************)
Near(base, G) == {l \in G : CellOf(base, l.price) # NoCell}

Away(base, G) == {l \in G : CellOf(base, l.price) = NoCell}

Taken(base, G) == {CellOf(base, l.price) : l \in Near(base, G)}

CellsHolding(base, s, N) ==
  [i \in Cells |-> IF i \in {CellOf(base, l.price) : l \in N}
                   THEN CHOOSE l \in N : CellOf(base, l.price) = i
                   ELSE IF i \in s.bits THEN EmptyLevel ELSE s.cells[i]]

CellsOf(base, s, G) == CellsHolding(base, s, Near(base, G))

FarHolding(A) == [p \in {l.price : l \in A} |-> CHOOSE l \in A : l.price = p]

FarOf(base, G) == FarHolding(Away(base, G))

\* The side s when its window starts at base and the levels of G, and no others, are placed.
Placed(side, base, s, G) ==
  [base |-> base, alloc |-> TRUE, cells |-> CellsOf(base, s, G), bits |-> Taken(base, G),
   count |-> Cardinality(Near(base, G)), best |-> ScanBest(side, Taken(base, G)),
   far |-> FarOf(base, G)]

\* Finitely many levels, one at a price.
OneAPrice(G) ==
  /\ G \subseteq LevelType /\ IsFiniteSet(G)
  /\ \A l, m \in G : l.price = m.price => l = m

\* Rebase is the placing of what was gathered.
LEMMA RebasePlaces ==
  ASSUME NEW side, NEW s, NEW price
  PROVE  Rebase(side, s, price) = Placed(side, WindowAt(price), s, Gathered(s))
BY DEF Rebase, Placed, Near, Away, Taken, CellsOf, FarOf, CellsHolding, FarHolding

\* The cell of a level that was placed holds that level, and is no other's.
LEMMA PlacedCells ==
  ASSUME NEW base \in Nat, NEW G, OneAPrice(G), NEW s
  PROVE  /\ Near(base, G) \subseteq LevelType /\ IsFiniteSet(Near(base, G))
         /\ Taken(base, G) \in SUBSET Cells
         /\ \A l \in Near(base, G) : /\ CellOf(base, l.price) \in Taken(base, G)
                                     /\ CellsOf(base, s, G)[CellOf(base, l.price)] = l
         /\ \A p \in Nat : CellOf(base, p) \in Taken(base, G) =>
                             \E l \in Near(base, G) : l.price = p
<1>1. Near(base, G) \subseteq G /\ Near(base, G) \subseteq LevelType /\ IsFiniteSet(Near(base, G))
  BY FS_Subset DEF Near, OneAPrice
<1>2. \A l \in Near(base, G) : l.price \in Nat /\ CellOf(base, l.price) \in Cells
  <2>1. \A l \in Near(base, G) : l.price \in Nat /\ CellOf(base, l.price) # NoCell
    BY <1>1 DEF Near, LevelType
  <2> QED
    BY <2>1, CellOfType
<1>3. ASSUME NEW l \in Near(base, G), NEW m \in Near(base, G),
             CellOf(base, m.price) = CellOf(base, l.price)
      PROVE  m = l
  <2>1. l.price \in Nat /\ m.price \in Nat /\ CellOf(base, m.price) # NoCell
    BY <1>2 DEF Near
  <2>2. m.price = l.price
    BY <1>3, <2>1, CellOfInjective
  <2> QED
    BY <1>1, <2>2 DEF OneAPrice
<1>4. ASSUME NEW l \in Near(base, G)
      PROVE  /\ CellOf(base, l.price) \in Taken(base, G)
             /\ CellsOf(base, s, G)[CellOf(base, l.price)] = l
  <2> DEFINE c == CellOf(base, l.price)
  <2>1. c \in Taken(base, G) /\ c \in Cells
    BY <1>2 DEF Taken
  <2>2. CellsOf(base, s, G)[c] = CHOOSE m \in Near(base, G) : CellOf(base, m.price) = c
    BY <2>1 DEF CellsOf, CellsHolding, Taken
  <2>3. \A m \in Near(base, G) : CellOf(base, m.price) = c => m = l
    BY <1>3
  <2> HIDE DEF c
  <2>4. l \in Near(base, G) /\ CellOf(base, l.price) = c
    BY DEF c
  <2>5. (CHOOSE m \in Near(base, G) : CellOf(base, m.price) = c) = l
    BY <2>3, <2>4
  <2> QED
    BY <2>1, <2>2, <2>5 DEF c
<1>5. ASSUME NEW p \in Nat, CellOf(base, p) \in Taken(base, G)
      PROVE  \E l \in Near(base, G) : l.price = p
  <2>1. PICK l \in Near(base, G) : CellOf(base, l.price) = CellOf(base, p)
    BY <1>5 DEF Taken
  <2>2. l.price \in Nat /\ CellOf(base, l.price) # NoCell
    BY <1>2 DEF Near
  <2>3. l.price = p
    BY <2>1, <2>2, CellOfInjective
  <2> QED
    BY <2>3
<1> QED
  BY <1>1, <1>2, <1>4, <1>5 DEF Taken

\* The map holds each level that was placed in it under its price.
LEMMA PlacedFar ==
  ASSUME NEW base, NEW G, OneAPrice(G)
  PROVE  \A l \in Away(base, G) : l.price \in DOMAIN FarOf(base, G) /\ FarOf(base, G)[l.price] = l
<1> SUFFICES ASSUME NEW l \in Away(base, G)
             PROVE  l.price \in DOMAIN FarOf(base, G) /\ FarOf(base, G)[l.price] = l
  OBVIOUS
<1> DEFINE p == l.price
<1>1. p \in DOMAIN FarOf(base, G)
  BY DEF FarOf, FarHolding
<1>2. FarOf(base, G)[p] = CHOOSE m \in Away(base, G) : m.price = p
  BY DEF FarOf, FarHolding
<1>3. \A m \in Away(base, G) : m.price = p => m = l
  BY DEF Away, OneAPrice
<1> HIDE DEF p
<1>4. l \in Away(base, G) /\ l.price = p
  BY DEF p
<1>5. (CHOOSE m \in Away(base, G) : m.price = p) = l
  BY <1>3, <1>4
<1> QED
  BY <1>1, <1>2, <1>5 DEF p

\* The map is a function, whatever levels are placed.
LEMMA FarIsFcn ==
  ASSUME NEW base, NEW G
  PROVE  FarOf(base, G) = [p \in DOMAIN FarOf(base, G) |-> FarOf(base, G)[p]]
<1> DEFINE A == Away(base, G)
           P == {l.price : l \in A}
           e(p) == CHOOSE l \in A : l.price = p
<1>1. FarOf(base, G) = [p \in P |-> e(p)]
  BY DEF FarOf, FarHolding
<1> HIDE DEF e, P
<1> QED
  BY <1>1

\* So are the cells.
LEMMA CellsIsFcn ==
  ASSUME NEW base, NEW s, NEW G
  PROVE  CellsOf(base, s, G) = [i \in Cells |-> CellsOf(base, s, G)[i]]
<1> DEFINE N == Near(base, G)
           e(i) == IF i \in {CellOf(base, l.price) : l \in N}
                   THEN CHOOSE l \in N : CellOf(base, l.price) = i
                   ELSE IF i \in s.bits THEN EmptyLevel ELSE s.cells[i]
<1>1. CellsOf(base, s, G) = [i \in Cells |-> e(i)]
  BY Zenon DEF CellsOf, CellsHolding
<1> HIDE DEF e
<1> QED
  BY <1>1

\* The cached best of the placed levels decides like the best of them.
LEMMA PlacedBeats ==
  ASSUME NEW side, NEW base \in Nat, NEW G, OneAPrice(G), NEW s, NEW p \in Nat,
         CellOf(base, p) # NoCell
  PROVE  BeatsArray(side, Placed(side, base, s, G), p) <=>
           Taken(base, G) = {} \/ Better(side, CellOf(base, p), ScanBest(side, Taken(base, G)))
<1> DEFINE T == Taken(base, G)
           b == ScanBest(side, T)
           t == Placed(side, base, s, G)
<1>1. T \in SUBSET Cells
  BY PlacedCells
<1>2. t.best = b /\ t.cells = CellsOf(base, s, G)
  BY DEF Placed
<1>3. CASE T = {}
  <2>1. b = NoCell
    BY <1>1, <1>3, ScanBestType
  <2> QED
    BY <1>2, <1>3, <2>1 DEF BeatsArray
<1>4. CASE T # {}
  <2>1. b # NoCell /\ b \in T
    BY <1>1, <1>4, ScanBestType DEF IsBest
  <2>2. PICK l \in Near(base, G) : CellOf(base, l.price) = b
    BY <2>1 DEF Taken
  <2>3. t.cells[b] = l /\ l.price \in Nat
    BY <1>2, <2>2, PlacedCells DEF LevelType
  <2>4. Better(side, p, l.price) <=> Better(side, CellOf(base, p), CellOf(base, l.price))
    BY <2>1, <2>2, <2>3, BetterCell
  <2> QED
    BY <1>2, <1>4, <2>1, <2>2, <2>3, <2>4 DEF BeatsArray
<1> QED
  BY <1>3, <1>4

\* One more place() call is one more level placed.
LEMMA PlaceStep ==
  ASSUME NEW side, NEW base \in Nat, NEW G, NEW l, l \notin G, OneAPrice(G \cup {l}), NEW s
  PROVE  PlaceLevel(side, Placed(side, base, s, G), l) = Placed(side, base, s, G \cup {l})
<1> DEFINE H == G \cup {l}
           t == Placed(side, base, s, G)
           c == CellOf(base, l.price)
<1>1. OneAPrice(G) /\ OneAPrice(H) /\ G \subseteq H /\ l \in H
  <2>1. IsFiniteSet(G)
    BY FS_Subset DEF OneAPrice
  <2> QED
    BY <2>1 DEF OneAPrice
<1>2. l \in LevelType /\ l.price \in Nat /\ \A m \in G : m.price # l.price
  BY DEF OneAPrice, LevelType
<1>3. /\ t = [base |-> base, alloc |-> TRUE, cells |-> CellsOf(base, s, G),
              bits |-> Taken(base, G), count |-> Cardinality(Near(base, G)),
              best |-> ScanBest(side, Taken(base, G)), far |-> FarOf(base, G)]
      /\ t.base = base
  BY DEF Placed
<1>4. /\ \A m \in Near(base, H) : CellsOf(base, s, H)[CellOf(base, m.price)] = m
      /\ \A m \in Near(base, G) : CellsOf(base, s, G)[CellOf(base, m.price)] = m
  BY <1>1, PlacedCells
<1>5. CASE c = NoCell
  <2>1. Near(base, H) = Near(base, G) /\ Away(base, H) = Away(base, G) \cup {l}
    BY <1>5 DEF Near, Away
  <2>2. Taken(base, H) = Taken(base, G) /\ CellsOf(base, s, H) = CellsOf(base, s, G)
    BY <2>1 DEF Taken, CellsOf
  <2>3. FarOf(base, H) = Put(FarOf(base, G), l.price, l)
    <3> DEFINE f == FarOf(base, G)
               h == FarOf(base, H)
               P == {m.price : m \in Away(base, G)}
    <3>1. DOMAIN f = P /\ DOMAIN h = P \cup {l.price}
      BY <2>1 DEF FarOf, FarHolding
    <3>2. h[l.price] = l
      BY <1>1, <2>1, PlacedFar
    <3>3. ASSUME NEW p \in P PROVE p # l.price /\ h[p] = f[p]
      <4>1. PICK m \in Away(base, G) : p = m.price
        OBVIOUS
      <4>2. m \in Away(base, H) /\ m.price # l.price
        BY <1>2, <2>1 DEF Away
      <4>3. h[p] = m
        BY <1>1, <4>1, <4>2, PlacedFar
      <4>4. f[p] = m
        BY <1>1, <4>1, PlacedFar
      <4> QED
        BY <4>1, <4>2, <4>3, <4>4
    <3>4. h = [p \in DOMAIN h |-> h[p]]
      BY FarIsFcn
    <3> HIDE DEF f, h, P
    <3>5. h = [p \in P \cup {l.price} |-> IF p = l.price THEN l ELSE f[p]]
      BY <3>1, <3>2, <3>3, <3>4
    <3>6. Put(f, l.price, l) = [p \in P \cup {l.price} |-> IF p = l.price THEN l ELSE f[p]]
      BY <3>1 DEF Put
    <3> QED
      BY <3>5, <3>6 DEF f, h
  <2>4. PlaceLevel(side, t, l) = [t EXCEPT !.far = Put(@, l.price, l)]
    BY <1>3, <1>5 DEF PlaceLevel
  <2> QED
    BY <1>3, <2>1, <2>2, <2>3, <2>4 DEF Placed
<1>6. CASE c # NoCell
  <2>1. Near(base, H) = Near(base, G) \cup {l} /\ Away(base, H) = Away(base, G)
    BY <1>6 DEF Near, Away
  <2>2. Taken(base, H) = Taken(base, G) \cup {c} /\ FarOf(base, H) = FarOf(base, G)
    BY <2>1 DEF Taken, FarOf
  <2>3. c \in Cells /\ Taken(base, G) \in SUBSET Cells /\ c \notin Taken(base, G)
    <3>1. c \in Cells
      BY <1>2, <1>6, CellOfType
    <3>2. ASSUME c \in Taken(base, G) PROVE FALSE
      <4>1. PICK m \in Near(base, G) : m.price = l.price
        BY <1>1, <1>2, <3>2, PlacedCells
      <4> QED
        BY <1>2, <4>1 DEF Near
    <3> QED
      BY <1>1, <3>1, <3>2, PlacedCells
  <2>4. CellsOf(base, s, H) = [CellsOf(base, s, G) EXCEPT ![c] = l]
    <3> DEFINE f == CellsOf(base, s, G)
               h == CellsOf(base, s, H)
               T == Taken(base, G)
    <3>1. DOMAIN f = Cells /\ h = [i \in Cells |-> h[i]]
      BY CellsIsFcn DEF CellsOf, CellsHolding
    <3>2. h[c] = l
      BY <1>4, <2>1
    <3>3. ASSUME NEW i \in T PROVE i # c /\ h[i] = f[i]
      <4>1. PICK m \in Near(base, G) : i = CellOf(base, m.price)
        BY DEF Taken
      <4>2. h[i] = m
        BY <1>4, <2>1, <4>1
      <4>3. f[i] = m
        BY <1>4, <4>1
      <4> QED
        BY <2>3, <4>2, <4>3
    <3>4. ASSUME NEW i \in Cells, i \notin T, i # c PROVE h[i] = f[i]
      BY <2>2, <3>4 DEF CellsOf, CellsHolding, Taken
    <3> HIDE DEF f, h, T
    <3>5. \A i \in Cells : i # c => h[i] = f[i]
      BY <3>3, <3>4
    <3>6. h = [i \in Cells |-> IF i = c THEN l ELSE f[i]]
      BY <3>1, <3>2, <3>5
    <3>7. [f EXCEPT ![c] = l] = [i \in Cells |-> IF i = c THEN l ELSE f[i]]
      BY <3>1
    <3> QED
      BY <3>6, <3>7 DEF f, h
  <2>5. Cardinality(Near(base, H)) = Cardinality(Near(base, G)) + 1
    <3>1. l \notin Near(base, G) /\ IsFiniteSet(Near(base, G))
      BY <1>1, PlacedCells DEF Near
    <3> QED
      BY <2>1, <3>1, FS_AddElement
  <2>6. ScanBest(side, Taken(base, H)) =
          IF BeatsArray(side, t, l.price) THEN c ELSE ScanBest(side, Taken(base, G))
    <3>1. BeatsArray(side, t, l.price) <=>
            Taken(base, G) = {} \/ Better(side, c, ScanBest(side, Taken(base, G)))
      BY <1>1, <1>2, <1>6, PlacedBeats
    <3> DEFINE T == Taken(base, G)
    <3>2. T \in SUBSET Cells /\ c \in Cells \ T
      BY <2>3
    <3> HIDE DEF c, T
    <3>3. ScanBest(side, T \cup {c}) = IF T = {} \/ Better(side, c, ScanBest(side, T)) THEN c
                                     ELSE ScanBest(side, T)
      BY <3>2, ScanBestAdd
    <3> QED
      BY <2>2, <3>1, <3>3 DEF c, T
  <2>7. PlaceLevel(side, t, l) =
          [t EXCEPT !.cells[c] = l, !.bits = @ \cup {c}, !.count = @ + 1,
                    !.best = IF BeatsArray(side, t, l.price) THEN c ELSE @]
    BY <1>3, <1>6 DEF PlaceLevel
  <2> QED
    BY <1>3, <2>1, <2>2, <2>4, <2>5, <2>6, <2>7 DEF Placed
<1> QED
  BY <1>5, <1>6

-----------------------------------------------------------------------------
(***************************************************************************)
(* Best first: what InOrder lists.                                         *)
(***************************************************************************)
\* o lists the n members of S, best first, and InOrder the values of f in that order.
Lists(side, f, S, n, o) ==
  /\ o \in [1 .. n -> S] /\ InOrder(side, f, S) = [k \in 1 .. n |-> f[o[k]]]
  /\ \A x \in S : \E k \in 1 .. n : o[k] = x
  /\ \A j, k \in 1 .. n : j < k => Better(side, o[j], o[k])

\* InOrder lists any finite set of numbers.
LEMMA InOrderLists ==
  ASSUME NEW side, NEW f, NEW S \in SUBSET Int, IsFiniteSet(S)
  PROVE  Cardinality(S) \in Nat /\ \E o : Lists(side, f, S, Cardinality(S), o)
<1> DEFINE n == Cardinality(S)
           below == [x \in S |-> {y \in S : Better(side, y, x)}]
           o == [k \in 1 .. n |-> CHOOSE x \in S : Cardinality({y \in S : Better(side, y, x)}) = k - 1]
<1>1. n \in Nat
  BY FS_CardinalityType
<1>3. \A x \in S : below[x] = {y \in S : Better(side, y, x)}
  OBVIOUS
<1>2. Ranking(S, below)
  <2>1. below \in [S -> SUBSET S]
    OBVIOUS
  <2> HIDE DEF below
  <2>2. \A x, y \in S : x \in below[y] <=> Better(side, x, y)
    BY <1>3
  <2>3. \A x, y, z \in S : Better(side, x, y) /\ Better(side, z, x) => Better(side, z, y)
    BY DEF Better
  <2>4. \A x, y \in S : ~Better(side, x, x) /\ (x = y \/ Better(side, x, y) \/ Better(side, y, x))
    BY DEF Better
  <2>5. ASSUME NEW x \in S, NEW y \in S, x \in below[y] PROVE below[x] \subseteq below[y]
    <3> SUFFICES ASSUME NEW z \in below[x] PROVE z \in below[y]
      OBVIOUS
    <3>1. z \in S
      BY <2>1
    <3> QED
      BY <2>2, <2>3, <2>5, <3>1
  <2> QED
    BY <2>1, <2>2, <2>4, <2>5 DEF Ranking
<1>4. ASSUME NEW k \in 1 .. n PROVE o[k] \in S /\ Cardinality(below[o[k]]) = k - 1
  <2>1. \E x \in S : Cardinality(below[x]) = k - 1
    <3> HIDE DEF below
    <3> QED
      BY <1>2, RanksFill
  <2>2. \E x \in S : Cardinality({y \in S : Better(side, y, x)}) = k - 1
    BY <1>3, <2>1
  <2> DEFINE c == CHOOSE x \in S : Cardinality({y \in S : Better(side, y, x)}) = k - 1
  <2>3. c \in S /\ Cardinality({y \in S : Better(side, y, c)}) = k - 1
    BY <2>2
  <2>4. o[k] = c
    OBVIOUS
  <2> HIDE DEF c, o
  <2> QED
    BY <1>3, <2>3, <2>4
<1>5. o \in [1 .. n -> S]
  BY <1>4
<1>6. InOrder(side, f, S) = [k \in 1 .. n |-> f[o[k]]]
  <2> DEFINE e(k) == CHOOSE x \in S : Cardinality({y \in S : Better(side, y, x)}) = k - 1
  <2>1. InOrder(side, f, S) = [k \in 1 .. n |-> f[e(k)]]
    BY DEF InOrder
  <2>2. \A k \in 1 .. n : o[k] = e(k)
    OBVIOUS
  <2> HIDE DEF e, o, n
  <2> QED
    BY <2>1, <2>2
<1> HIDE DEF o, below
<1>7. ASSUME NEW x \in S PROVE \E k \in 1 .. n : o[k] = x
  <2> DEFINE k == Cardinality(below[x]) + 1
  <2>1. k \in 1 .. n
    <3>1. Cardinality(below[x]) \in 0 .. n - 1
      BY <1>2, RanksRise
    <3> QED
      BY <1>1, <3>1
  <2>2. o[k] \in S /\ Cardinality(below[o[k]]) = Cardinality(below[x])
    <3>1. Cardinality(below[x]) \in Int
      BY <1>2, RanksRise
    <3> QED
      BY <1>4, <2>1, <3>1
  <2>3. o[k] = x
    BY <1>2, <2>2, RanksDiffer
  <2> QED
    BY <2>1, <2>3
<1>8. ASSUME NEW j \in 1 .. n, NEW k \in 1 .. n, j < k PROVE Better(side, o[j], o[k])
  <2>1. o[j] \in S /\ o[k] \in S /\ Cardinality(below[o[j]]) < Cardinality(below[o[k]])
        /\ Cardinality(below[o[j]]) \in Int /\ Cardinality(below[o[k]]) \in Int
    BY <1>1, <1>4, <1>8
  <2>2. o[k] \notin below[o[j]]
    BY <1>2, <2>1, RanksRise
  <2>3. o[j] # o[k]
    BY <2>1
  <2>4. o[j] \in below[o[k]]
    BY <1>2, <2>1, <2>2, <2>3 DEF Ranking
  <2> QED
    BY <1>3, <2>1, <2>4
<1> QED
  BY <1>1, <1>5, <1>6, <1>7, <1>8 DEF Lists

\* The levels of L, each once, in a strict order of price.
Ranked(side, q, L) ==
  /\ q \in Seq(L)
  /\ \A l \in L : \E k \in 1 .. Len(q) : q[k] = l
  /\ \A j, k \in 1 .. Len(q) : j < k => Better(side, q[j].price, q[k].price)

\* Values whose prices are in the order of what they are the values of.
LEMMA ListedRanked ==
  ASSUME NEW side, NEW f, NEW S \in SUBSET Int, IsFiniteSet(S),
         \A x, y \in S : Better(side, x, y) => Better(side, f[x].price, f[y].price)
  PROVE  Ranked(side, InOrder(side, f, S), {f[x] : x \in S})
<1> DEFINE n == Cardinality(S)
           q == InOrder(side, f, S)
           L == {f[x] : x \in S}
<1>1. n \in Nat /\ \E o : Lists(side, f, S, n, o)
  BY InOrderLists
<1> HIDE DEF n
<1>2. PICK o : Lists(side, f, S, n, o)
  BY <1>1
<1>3. /\ o \in [1 .. n -> S] /\ q = [k \in 1 .. n |-> f[o[k]]]
      /\ \A x \in S : \E k \in 1 .. n : o[k] = x
      /\ \A j, k \in 1 .. n : j < k => Better(side, o[j], o[k])
  BY <1>2 DEF Lists
<1> HIDE DEF q
<1>4. q \in Seq(L) /\ Len(q) = n
  BY <1>1, <1>3
<1>5. ASSUME NEW l \in L PROVE \E k \in 1 .. Len(q) : q[k] = l
  <2>1. PICK x \in S : l = f[x]
    OBVIOUS
  <2>2. PICK k \in 1 .. n : o[k] = x
    BY <1>3
  <2> QED
    BY <1>3, <1>4, <2>1, <2>2
<1>6. ASSUME NEW j \in 1 .. Len(q), NEW k \in 1 .. Len(q), j < k
      PROVE  Better(side, q[j].price, q[k].price)
  <2>1. q[j] = f[o[j]] /\ q[k] = f[o[k]] /\ o[j] \in S /\ o[k] \in S
    BY <1>3, <1>4
  <2>2. Better(side, o[j], o[k])
    BY <1>3, <1>4, <1>6
  <2> QED
    BY <2>1, <2>2
<1> QED
  BY <1>4, <1>5, <1>6 DEF Ranked, q

\* The array of a side, and its map, best first.
LEMMA PartsRanked ==
  ASSUME NEW d, NEW s, SideInv(d, s), NEW side
  PROVE  /\ Ranked(side, InOrder(side, s.cells, s.bits), {s.cells[i] : i \in s.bits})
         /\ Ranked(side, InOrder(side, s.far, DOMAIN s.far), {s.far[p] : p \in DOMAIN s.far})
<1>1. /\ s.base \in Nat \cup {NoBase} /\ s.bits \in SUBSET Cells /\ s.cells \in [Cells -> LevelType]
      /\ \A i \in s.bits : CellOf(s.base, s.cells[i].price) = i
      /\ DOMAIN s.far \in SUBSET Nat /\ IsFiniteSet(DOMAIN s.far)
      /\ \A p \in DOMAIN s.far : s.far[p].price = p
  BY DEF SideInv, IsSide, SideType, ArrayInv, FarInv
<1>2. s.bits \in SUBSET Int /\ IsFiniteSet(s.bits)
  <2>1. IsFiniteSet(s.bits)
    BY <1>1, CellsFinite, FS_Subset
  <2> QED
    BY <1>1, <2>1, SpanAssumption DEF Cells
<1>3. ASSUME NEW a \in s.bits, NEW b \in s.bits, Better(side, a, b)
      PROVE  Better(side, s.cells[a].price, s.cells[b].price)
  <2> DEFINE x == s.cells[a].price
             y == s.cells[b].price
  <2>1. x \in Nat /\ y \in Nat
    BY <1>1 DEF LevelType
  <2>2. CellOf(s.base, x) = a /\ CellOf(s.base, y) = b
    BY <1>1
  <2>3. a # NoCell /\ b # NoCell
    BY <1>1, SpanAssumption DEF Cells, NoCell
  <2> HIDE DEF x, y
  <2>4. Better(side, x, y) <=> Better(side, CellOf(s.base, x), CellOf(s.base, y))
    BY <1>1, <2>1, <2>2, <2>3, BetterCell
  <2> QED
    BY <1>3, <2>2, <2>4 DEF x, y
<1>4. \A p, q \in DOMAIN s.far : Better(side, p, q) => Better(side, s.far[p].price, s.far[q].price)
  BY <1>1
<1>5. DOMAIN s.far \in SUBSET Int
  BY <1>1
<1> QED
  BY <1>1, <1>2, <1>3, <1>4, <1>5, ListedRanked

-----------------------------------------------------------------------------
(***************************************************************************)
(* The loop.                                                               *)
(***************************************************************************)
\* placed records every step of the loop that places a sequence of levels.
PlacesAll(side, cleared, levels, placed) ==
  placed = [k \in 0 .. Len(levels) |->
              IF k = 0 THEN cleared ELSE PlaceLevel(side, placed[k - 1], levels[k])]

\* There is one record of a loop.
LEMMA PlacedOnce ==
  ASSUME NEW side, NEW cleared, NEW levels, Len(levels) \in Nat,
         NEW g, PlacesAll(side, cleared, levels, g), NEW h, PlacesAll(side, cleared, levels, h)
  PROVE  g = h
<1> DEFINE n == Len(levels)
           Bad == {k \in 0 .. n : g[k] # h[k]}
<1>1. /\ \A k \in 0 .. n : g[k] = IF k = 0 THEN cleared ELSE PlaceLevel(side, g[k - 1], levels[k])
      /\ \A k \in 0 .. n : h[k] = IF k = 0 THEN cleared ELSE PlaceLevel(side, h[k - 1], levels[k])
  BY Zenon DEF PlacesAll
<1>2. ASSUME Bad # {} PROVE FALSE
  <2>0. Bad \in SUBSET Nat
    OBVIOUS
  <2>1. PICK k \in Bad : \A m \in Bad : k <= m
    <3> HIDE DEF Bad
    <3> QED
      BY <1>2, <2>0, LeastOf
  <2>2. k \in 0 .. n /\ g[k] # h[k] /\ k # 0
    BY <1>1
  <2>3. k - 1 \in 0 .. n /\ k - 1 \notin Bad
    BY <2>1, <2>2
  <2> QED
    BY <1>1, <2>2, <2>3
<1>3. \A k \in 0 .. n : g[k] = h[k]
  BY <1>2
<1>4. g = [k \in 0 .. n |-> g[k]] /\ h = [k \in 0 .. n |-> h[k]]
  BY DEF PlacesAll
<1> QED
  BY <1>3, <1>4

\* Nothing placed yet: the cells cleared, the map empty, the window moved.
LEMMA NonePlaced ==
  ASSUME NEW side, NEW s, NEW base
  PROVE  Placed(side, base, s, {}) =
           [base |-> base, alloc |-> TRUE,
            cells |-> [i \in Cells |-> IF i \in s.bits THEN EmptyLevel ELSE s.cells[i]],
            bits |-> {}, count |-> 0, best |-> NoCell, far |-> [p \in {} |-> EmptyLevel]]
<1> DEFINE cells == [i \in Cells |-> IF i \in s.bits THEN EmptyLevel ELSE s.cells[i]]
           far == [p \in {} |-> EmptyLevel]
<1>1. Near(base, {}) = {} /\ Away(base, {}) = {} /\ Taken(base, {}) = {}
  BY DEF Near, Away, Taken
<1>2. CellsOf(base, s, {}) = cells
  <2>1. CellsOf(base, s, {}) = [i \in Cells |-> CellsOf(base, s, {})[i]]
    BY CellsIsFcn
  <2>2. \A i \in Cells : CellsOf(base, s, {})[i] = IF i \in s.bits THEN EmptyLevel ELSE s.cells[i]
    BY <1>1 DEF CellsOf, CellsHolding
  <2> QED
    BY <2>1, <2>2
<1>3. FarOf(base, {}) = far
  <2>1. DOMAIN FarOf(base, {}) = {}
    BY <1>1 DEF FarOf, FarHolding
  <2>2. FarOf(base, {}) = [p \in DOMAIN FarOf(base, {}) |-> FarOf(base, {})[p]]
    BY FarIsFcn
  <2> QED
    BY <2>1, <2>2
<1>4. Cardinality({}) = 0 /\ ScanBest(side, {}) = NoCell
  BY FS_EmptySet DEF ScanBest
<1> QED
  BY <1>1, <1>2, <1>3, <1>4, Zenon DEF Placed

\* The levels of a side are finitely many, one at a price.
LEMMA GatheredOneAPrice ==
  ASSUME NEW d, NEW s, SideInv(d, s)
  PROVE  OneAPrice(Gathered(s))
<1>1. \A l \in Gathered(s) : l \in LevelType /\ LevelAt(s, l.price) = l
  BY GatheredIsHeld
<1>2. IsFiniteSet(Gathered(s))
  BY GatheredFinite
<1> QED
  BY <1>1, <1>2 DEF OneAPrice

\* q lists the members of L, each once.
EachOnce(q, L) ==
  /\ q \in Seq(L)
  /\ \A l \in L : \E k \in 1 .. Len(q) : q[k] = l
  /\ \A j, k \in 1 .. Len(q) : j < k => q[j] # q[k]

\* Two rankings of levels that share no price, one after the other: every level once.
LEMMA RankedTwice ==
  ASSUME NEW side, NEW q, NEW A \in SUBSET LevelType, Ranked(side, q, A),
         NEW r, NEW B \in SUBSET LevelType, Ranked(side, r, B),
         \A l \in A, m \in B : l.price # m.price
  PROVE  EachOnce(q \o r, A \cup B)
<1> DEFINE t == q \o r
           m == Len(q)
           n == Len(r)
<1>1. /\ q \in Seq(A) /\ r \in Seq(B) /\ m \in Nat /\ n \in Nat
      /\ \A k \in 1 .. m : q[k] \in A /\ q[k] \in LevelType
      /\ \A k \in 1 .. n : r[k] \in B /\ r[k] \in LevelType
  BY DEF Ranked
<1>2. q \in Seq(A \cup B) /\ r \in Seq(A \cup B)
  BY <1>1
<1>3. /\ t \in Seq(A \cup B) /\ Len(t) = m + n
      /\ \A k \in 1 .. m + n : t[k] = IF k <= m THEN q[k] ELSE r[k - m]
  BY <1>2, ConcatProperties
<1> HIDE DEF t, m, n
<1>4. /\ \A l \in A : \E k \in 1 .. m : q[k] = l
      /\ \A l \in B : \E k \in 1 .. n : r[k] = l
      /\ \A j, k \in 1 .. m : j < k => Better(side, q[j].price, q[k].price)
      /\ \A j, k \in 1 .. n : j < k => Better(side, r[j].price, r[k].price)
  BY DEF Ranked, m, n
<1>5. ASSUME NEW l \in A \cup B PROVE \E k \in 1 .. m + n : t[k] = l
  <2>1. CASE l \in A
    <3>1. PICK k \in 1 .. m : q[k] = l
      BY <1>4, <2>1
    <3>2. k \in 1 .. m + n /\ t[k] = l
      BY <1>1, <1>3, <3>1
    <3> QED
      BY <3>2
  <2>2. CASE l \in B
    <3>1. PICK k \in 1 .. n : r[k] = l
      BY <1>4, <2>2
    <3>2. m + k \in 1 .. m + n /\ t[m + k] = r[k]
      <4>1. m + k \in 1 .. m + n /\ ~(m + k <= m) /\ (m + k) - m = k
        BY <1>1
      <4> QED
        BY <1>3, <4>1
    <3> QED
      BY <3>1, <3>2
  <2> QED
    BY <2>1, <2>2
<1>6. ASSUME NEW j \in 1 .. m + n, NEW k \in 1 .. m + n, j < k PROVE t[j] # t[k]
  <2>1. CASE k <= m
    <3>1. t[j] = q[j] /\ t[k] = q[k] /\ Better(side, q[j].price, q[k].price)
      BY <1>1, <1>3, <1>4, <1>6, <2>1
    <3>2. q[j].price \in Int
      BY <1>1, <1>6, <2>1 DEF LevelType
    <3> QED
      BY <3>1, <3>2 DEF Better
  <2>2. CASE j <= m /\ m < k
    <3>1. t[j] = q[j] /\ t[k] = r[k - m] /\ j \in 1 .. m /\ k - m \in 1 .. n
      BY <1>1, <1>3, <2>2
    <3>2. q[j] \in A /\ r[k - m] \in B
      BY <1>1, <3>1
    <3> QED
      BY <3>1, <3>2
  <2>3. CASE m < j
    <3> DEFINE a == j - m
               b == k - m
    <3>1. t[j] = r[a] /\ t[k] = r[b] /\ a \in 1 .. n /\ b \in 1 .. n /\ a < b
      <4>1. a \in 1 .. n /\ b \in 1 .. n /\ a < b /\ ~(j <= m) /\ ~(k <= m)
        BY <1>1, <1>6, <2>3
      <4> QED
        BY <1>3, <4>1
    <3> HIDE DEF a, b
    <3>2. Better(side, r[a].price, r[b].price)
      BY <1>4, <3>1
    <3>3. r[a] \in LevelType
      BY <1>1, <3>1
    <3> QED
      BY <3>1, <3>2, <3>3 DEF Better, LevelType
  <2> QED
    BY <1>1, <2>1, <2>2, <2>3
<1>7. Len(t) = m + n
  BY <1>3
<1> QED
  BY <1>3, <1>5, <1>6, <1>7 DEF EachOnce, t

\* The cells in slot order, then the map in price order: every gathered level once.
LEMMA GatheredInOrder ==
  ASSUME NEW d, NEW s, SideInv(d, s), NEW levels,
         levels = InOrder("Sell", s.cells, s.bits) \o InOrder("Sell", s.far, DOMAIN s.far)
  PROVE  EachOnce(levels, Gathered(s))
<1> DEFINE A == {s.cells[i] : i \in s.bits}
           B == {s.far[p] : p \in DOMAIN s.far}
           q == InOrder("Sell", s.cells, s.bits)
           r == InOrder("Sell", s.far, DOMAIN s.far)
<1>1. Ranked("Sell", q, A) /\ Ranked("Sell", r, B)
  BY PartsRanked
<1>2. Gathered(s) = A \cup B /\ A \in SUBSET LevelType /\ B \in SUBSET LevelType
  BY GatheredIsHeld DEF Gathered
<1>3. ASSUME NEW l \in A, NEW m \in B PROVE l.price # m.price
  <2>1. CellOf(s.base, l.price) # NoCell
    BY SpanAssumption DEF SideInv, IsSide, SideType, ArrayInv, Cells, NoCell
  <2>2. CellOf(s.base, m.price) = NoCell
    BY DEF SideInv, FarInv
  <2> QED
    BY <2>1, <2>2
<1>4. levels = q \o r
  OBVIOUS
<1> HIDE DEF A, B, q, r
<1> QED
  <2>1. EachOnce(q \o r, A \cup B)
    BY <1>1, <1>2, <1>3, RankedTwice
  <2> QED
    BY <1>2, <1>4, <2>1

\* After the whole loop the side is what Rebase describes.
LEMMA LoopRebases ==
  ASSUME NEW d, NEW s, SideInv(d, s), NEW price \in Nat
  PROVE  RebaseLoop(d, s, price) = Rebase(d, s, price)
<1> DEFINE base == WindowAt(price)
           levels == InOrder("Sell", s.cells, s.bits) \o InOrder("Sell", s.far, DOMAIN s.far)
           cleared == [base |-> WindowAt(price), alloc |-> TRUE,
                       cells |-> [i \in Cells |-> IF i \in s.bits THEN EmptyLevel ELSE s.cells[i]],
                       bits |-> {}, count |-> 0, best |-> NoCell, far |-> [p \in {} |-> EmptyLevel]]
           n == Len(levels)
           First(k) == {levels[i] : i \in 1 .. k}
           g == [k \in 0 .. n |-> Placed(d, base, s, First(k))]
<1>1. /\ levels \in Seq(Gathered(s))
      /\ \A l \in Gathered(s) : \E k \in 1 .. n : levels[k] = l
      /\ \A j, k \in 1 .. n : j < k => levels[j] # levels[k]
  <2>1. levels = InOrder("Sell", s.cells, s.bits) \o InOrder("Sell", s.far, DOMAIN s.far)
    OBVIOUS
  <2> HIDE DEF levels
  <2>2. EachOnce(levels, Gathered(s))
    BY <2>1, GatheredInOrder
  <2> QED
    BY <2>2 DEF EachOnce
<1>2. base \in Nat /\ cleared = Placed(d, base, s, {})
  BY WindowAtType, NonePlaced
<1>3. RebaseLoop(d, s, price) = (CHOOSE h : PlacesAll(d, cleared, levels, h))[n]
  BY DEF RebaseLoop, PlacesAll
<1> HIDE DEF base, levels, cleared
<1>4. n \in Nat /\ \A k \in 1 .. n : levels[k] \in Gathered(s)
  BY <1>1
<1>5. First(n) = Gathered(s)
  BY <1>1, <1>4
<1>6. ASSUME NEW k \in 1 .. n
      PROVE  PlaceLevel(d, g[k - 1], levels[k]) = g[k]
  <2>1. First(k) = First(k - 1) \cup {levels[k]}
    <3>1. 1 .. k = (1 .. k - 1) \cup {k}
      BY <1>4
    <3> QED
      BY <3>1
  <2>2. levels[k] \notin First(k - 1)
    <3>1. ASSUME NEW i \in 1 .. k - 1 PROVE levels[i] # levels[k]
      <4>1. i \in 1 .. n /\ i < k
        BY <1>4
      <4> QED
        BY <1>1, <4>1
    <3> QED
      BY <3>1
  <2>3. First(k) \in SUBSET Gathered(s)
    BY <1>4
  <2>4. OneAPrice(First(k))
    <3>1. OneAPrice(Gathered(s))
      BY GatheredOneAPrice
    <3> HIDE DEF First
    <3> QED
      BY <2>3, <3>1, FS_Subset DEF OneAPrice
  <2>5. g[k - 1] = Placed(d, base, s, First(k - 1)) /\ g[k] = Placed(d, base, s, First(k))
    BY <1>4
  <2> HIDE DEF First, g
  <2>6. PlaceLevel(d, Placed(d, base, s, First(k - 1)), levels[k])
          = Placed(d, base, s, First(k - 1) \cup {levels[k]})
    BY <1>2, <2>1, <2>2, <2>4, PlaceStep
  <2> QED
    BY <2>1, <2>5, <2>6
<1>7. g[0] = cleared
  <2>1. First(0) = {}
    OBVIOUS
  <2>2. g[0] = Placed(d, base, s, First(0))
    BY <1>4
  <2> HIDE DEF First, g
  <2> QED
    BY <1>2, <2>1, <2>2
<1>8. PlacesAll(d, cleared, levels, g)
  <2>2. g = [k \in 0 .. n |-> g[k]]
    OBVIOUS
  <2> HIDE DEF g
  <2>1. \A k \in 0 .. n : g[k] = IF k = 0 THEN cleared ELSE PlaceLevel(d, g[k - 1], levels[k])
    BY <1>4, <1>6, <1>7
  <2>3. g = [k \in 0 .. n |-> IF k = 0 THEN cleared ELSE PlaceLevel(d, g[k - 1], levels[k])]
    BY <2>1, <2>2
  <2> QED
    BY <2>3, Zenon DEF PlacesAll
<1>9. (CHOOSE h : PlacesAll(d, cleared, levels, h)) = g
  <2> DEFINE c == CHOOSE h : PlacesAll(d, cleared, levels, h)
  <2> HIDE DEF g
  <2>1. PlacesAll(d, cleared, levels, c)
    BY <1>8
  <2> HIDE DEF c
  <2>2. c = g
    BY <1>4, <1>8, <2>1, PlacedOnce
  <2> QED
    BY <2>2 DEF c
<1>10. g[n] = Placed(d, base, s, Gathered(s))
  <2>1. g[n] = Placed(d, base, s, First(n))
    BY <1>4
  <2> HIDE DEF g, First
  <2> QED
    BY <1>5, <2>1
<1> QED
  BY <1>3, <1>9, <1>10, RebasePlaces DEF base

-----------------------------------------------------------------------------
(***************************************************************************)
(* Rankings: of a set of levels, one at a price, there is exactly one.     *)
(***************************************************************************)
\* Two rankings of the same levels agree as far as the first one goes.
LEMMA RankedPrefix ==
  ASSUME NEW side, NEW L \in SUBSET LevelType,
         NEW q, Ranked(side, q, L), NEW r, Ranked(side, r, L), NEW k \in 1 .. Len(q)
  PROVE  k <= Len(r) /\ q[k] = r[k]
<1> DEFINE m == Len(q)
           n == Len(r)
           Bad == {i \in 1 .. m : ~(i <= n /\ q[i] = r[i])}
<1>1. /\ m \in Nat /\ n \in Nat
      /\ \A i \in 1 .. m : q[i] \in L /\ q[i].price \in Nat
      /\ \A i \in 1 .. n : r[i] \in L /\ r[i].price \in Nat
      /\ \A l \in L : (\E i \in 1 .. m : q[i] = l) /\ (\E i \in 1 .. n : r[i] = l)
      /\ \A i, j \in 1 .. m : i < j => Better(side, q[i].price, q[j].price)
      /\ \A i, j \in 1 .. n : i < j => Better(side, r[i].price, r[j].price)
  <2>0. q \in Seq(L) /\ r \in Seq(L)
    BY DEF Ranked
  <2>1. m \in Nat /\ n \in Nat
    BY <2>0
  <2>2. (\A i \in 1 .. m : q[i] \in L) /\ (\A i \in 1 .. n : r[i] \in L)
    BY <2>0
  <2> QED
    BY <2>1, <2>2 DEF Ranked, LevelType
<1> HIDE DEF m, n
<1>2. ASSUME Bad # {} PROVE FALSE
  <2>1. Bad \in SUBSET Nat
    OBVIOUS
  <2>2. PICK i \in Bad : \A j \in Bad : i <= j
    <3> HIDE DEF Bad
    <3> QED
      BY <1>2, <2>1, LeastOf
  <2>3. i \in 1 .. m /\ ~(i <= n /\ q[i] = r[i])
    OBVIOUS
  <2>4. \A j \in 1 .. m : j < i => j <= n /\ q[j] = r[j]
    BY <1>1, <2>2, <2>3
  <2> HIDE DEF Bad
  <2>5. PICK j \in 1 .. n : r[j] = q[i]
    BY <1>1, <2>3
  <2>6. ASSUME j < i PROVE FALSE
    <3>1. j \in 1 .. m /\ q[j] = r[j]
      BY <1>1, <2>3, <2>4, <2>5, <2>6
    <3>2. Better(side, q[j].price, q[i].price) /\ q[j] = q[i]
      BY <1>1, <2>3, <2>5, <2>6, <3>1
    <3> QED
      BY <1>1, <3>1, <3>2 DEF Better
  <2>7. i < j /\ i \in 1 .. n
    BY <1>1, <2>3, <2>5, <2>6
  <2>8. Better(side, r[i].price, q[i].price)
    BY <1>1, <2>5, <2>7
  <2>9. PICK h \in 1 .. m : q[h] = r[i]
    BY <1>1, <2>7
  <2>10. ASSUME h < i PROVE FALSE
    <3>1. q[h] = r[h] /\ h \in 1 .. n
      BY <1>1, <2>4, <2>7, <2>9, <2>10
    <3>2. Better(side, r[h].price, r[i].price) /\ r[h] = r[i]
      BY <1>1, <2>7, <2>9, <2>10, <3>1
    <3> QED
      BY <1>1, <3>1, <3>2 DEF Better
  <2>11. i < h
    <3>1. h # i
      BY <2>3, <2>7, <2>9
    <3> QED
      BY <2>7, <2>10, <3>1
  <2>12. Better(side, q[i].price, r[i].price)
    BY <1>1, <2>3, <2>9, <2>11
  <2> QED
    BY <1>1, <2>3, <2>7, <2>8, <2>12 DEF Better
<1> QED
  BY <1>2 DEF m, n

\* So they are the same.
LEMMA RankedOnce ==
  ASSUME NEW side, NEW L \in SUBSET LevelType, NEW q, Ranked(side, q, L), NEW r, Ranked(side, r, L)
  PROVE  q = r
<1>1. q \in Seq(L) /\ r \in Seq(L) /\ Len(q) \in Nat /\ Len(r) \in Nat
  BY DEF Ranked
<1>2. \A k \in 1 .. Len(q) : k <= Len(r) /\ q[k] = r[k]
  BY RankedPrefix
<1>3. \A k \in 1 .. Len(r) : k <= Len(q) /\ r[k] = q[k]
  BY RankedPrefix
<1>4. Len(q) = Len(r)
  <2>1. Len(q) > 0 => Len(q) <= Len(r)
    BY <1>1, <1>2
  <2>2. Len(r) > 0 => Len(r) <= Len(q)
    BY <1>1, <1>3
  <2> QED
    BY <1>1, <2>1, <2>2
<1> QED
  BY <1>1, <1>2, <1>4

\* There is one of any levels of which no two share a price.
LEMMA RankedExists ==
  ASSUME NEW side, NEW L, OneAPrice(L)
  PROVE  \E q : Ranked(side, q, L)
<1> DEFINE P == {l.price : l \in L}
           f == [p \in P |-> CHOOSE l \in L : l.price = p]
<1>1. L \in SUBSET LevelType /\ IsFiniteSet(L) /\ \A l, m \in L : l.price = m.price => l = m
  BY DEF OneAPrice
<1>2. P \in SUBSET Int
  BY <1>1 DEF LevelType
<1>3. IsFiniteSet(P)
  <2>1. [l \in L |-> l.price] \in Surjection(L, P)
    BY DEF Surjection
  <2> QED
    BY <1>1, <2>1, FS_Surjection
<1>4. \A l \in L : f[l.price] = l
  <2> TAKE l \in L
  <2> DEFINE p == l.price
  <2>1. p \in P /\ f[p] = CHOOSE m \in L : m.price = p
    OBVIOUS
  <2>2. \A m \in L : m.price = p => m = l
    BY <1>1
  <2> HIDE DEF p, f
  <2>3. l \in L /\ l.price = p
    BY DEF p
  <2>4. (CHOOSE m \in L : m.price = p) = l
    BY <2>2, <2>3
  <2> QED
    BY <2>1, <2>4 DEF p
<1> HIDE DEF f
<1>5. \A p \in P : f[p].price = p
  BY <1>4
<1>6. {f[p] : p \in P} = L
  BY <1>4
<1>7. \A x, y \in P : Better(side, x, y) => Better(side, f[x].price, f[y].price)
  BY <1>5
<1> HIDE DEF P
<1>8. Ranked(side, InOrder(side, f, P), {f[p] : p \in P})
  BY <1>2, <1>3, <1>7, ListedRanked
<1> QED
  BY <1>6, <1>8

\* A level better than all of a ranking goes before it.
LEMMA RankedCons ==
  ASSUME NEW side, NEW L, NEW q, Ranked(side, q, L), NEW x,
         \A l \in L : Better(side, x.price, l.price)
  PROVE  Ranked(side, <<x>> \o q, L \cup {x})
<1> DEFINE m == Len(q)
           t == <<x>> \o q
<1>1. q \in Seq(L) /\ m \in Nat /\ \A k \in 1 .. m : q[k] \in L
  BY DEF Ranked
<1>2. q \in Seq(L \cup {x}) /\ <<x>> \in Seq(L \cup {x}) /\ Len(<<x>>) = 1 /\ <<x>>[1] = x
  BY <1>1
<1>3. /\ t \in Seq(L \cup {x}) /\ Len(t) = 1 + m
      /\ \A k \in 1 .. 1 + m : t[k] = IF k <= 1 THEN <<x>>[k] ELSE q[k - 1]
  BY <1>2, ConcatProperties
<1> HIDE DEF t, m
<1>4. t[1] = x /\ \A k \in 1 .. m : t[k + 1] = q[k]
  BY <1>1, <1>2, <1>3
<1>5. ASSUME NEW l \in L \cup {x} PROVE \E k \in 1 .. 1 + m : t[k] = l
  <2>1. CASE l = x
    BY <1>1, <1>4, <2>1
  <2>2. CASE l # x
    <3>1. PICK k \in 1 .. m : q[k] = l
      BY <2>2 DEF Ranked, m
    <3>2. k + 1 \in 1 .. 1 + m
      BY <1>1
    <3> QED
      BY <1>4, <3>1, <3>2
  <2> QED
    BY <2>1, <2>2
<1>6. ASSUME NEW j \in 1 .. 1 + m, NEW k \in 1 .. 1 + m, j < k
      PROVE  Better(side, t[j].price, t[k].price)
  <2>1. k - 1 \in 1 .. m /\ t[k] = q[k - 1]
    BY <1>1, <1>3, <1>6
  <2>2. CASE j = 1
    BY <1>1, <1>4, <2>1, <2>2
  <2>3. CASE j # 1
    <3> DEFINE a == j - 1
               b == k - 1
    <3>1. a \in 1 .. m /\ b \in 1 .. m /\ a < b /\ t[j] = q[a] /\ t[k] = q[b]
      BY <1>1, <1>3, <1>6, <2>3
    <3> HIDE DEF a, b
    <3>2. Better(side, q[a].price, q[b].price)
      BY <3>1 DEF Ranked, m
    <3> QED
      BY <3>1, <3>2
  <2> QED
    BY <2>2, <2>3
<1>7. Len(t) = 1 + m
  BY <1>3
<1> QED
  BY <1>3, <1>5, <1>6, <1>7 DEF Ranked, t

\* What is left of a ranking from some place on.
LEMMA RankedRest ==
  ASSUME NEW side, NEW L, NEW q, Ranked(side, q, L), NEW j \in 1 .. Len(q) + 1
  PROVE  Ranked(side, SubSeq(q, j, Len(q)), {q[k] : k \in j .. Len(q)})
<1> DEFINE m == Len(q)
           M == {q[k] : k \in j .. m}
           t == SubSeq(q, j, m)
           d == j - 1
<1>1. q \in Seq(L) /\ m \in Nat /\ j \in Nat /\ d \in Nat /\ d <= m /\ j = d + 1
  BY DEF Ranked
<1>2. Len(t) = m - d /\ \A k \in 1 .. m - d : t[k] = q[d + k]
  <2>1. /\ Len(t) = IF j <= m THEN m - j + 1 ELSE 0
        /\ \A k \in 1 .. m - j + 1 : t[k] = q[j + k - 1]
    BY <1>1, SubSeqProperties
  <2>2. m - j + 1 = m - d
    BY <1>1
  <2>3. \A k \in 1 .. m - d : j + k - 1 = d + k
    BY <1>1
  <2> HIDE DEF t, m, d
  <2> QED
    BY <1>1, <2>1, <2>2, <2>3
<1> HIDE DEF t, m, d
<1>3. \A k \in 1 .. m - d : d + k \in 1 .. m /\ d + k \in j .. m
  BY <1>1
<1>4. t \in Seq(M)
  <2>1. t = [k \in 1 .. m - d |-> t[k]] /\ m - d \in Nat
    BY <1>1, <1>2 DEF t, m
  <2>2. \A k \in 1 .. m - d : t[k] \in M
    BY <1>2, <1>3
  <2> HIDE DEF M
  <2> QED
    BY <2>1, <2>2
<1>5. ASSUME NEW l \in M PROVE \E k \in 1 .. m - d : t[k] = l
  <2>1. PICK i \in j .. m : q[i] = l
    OBVIOUS
  <2>2. i - d \in 1 .. m - d /\ d + (i - d) = i
    BY <1>1
  <2>3. t[i - d] = q[d + (i - d)]
    BY <1>2, <2>2
  <2> QED
    BY <2>1, <2>2, <2>3
<1>6. ASSUME NEW h \in 1 .. m - d, NEW k \in 1 .. m - d, h < k
      PROVE  Better(side, t[h].price, t[k].price)
  <2>1. d + h \in 1 .. m /\ d + k \in 1 .. m /\ d + h < d + k
    BY <1>1, <1>3, <1>6
  <2>2. Better(side, q[d + h].price, q[d + k].price)
    BY <2>1 DEF Ranked, m
  <2> QED
    BY <1>2, <2>2
<1> QED
  BY <1>2, <1>4, <1>5, <1>6 DEF Ranked, t, m

-----------------------------------------------------------------------------
(***************************************************************************)
(* The merge of levels(): what it returns from any place of the array and  *)
(* of the map on is the ranking of what is left there.                     *)
(***************************************************************************)
\* What is left of the two sequences from places i and j on.
Left(arr, far, i, j) == {arr[k] : k \in i .. Len(arr)} \cup {far[k] : k \in j .. Len(far)}

\* One round of the merge, given what follows when the array, or the map, gave a level.
MergeStep(side, arr, far, i, j, afterArr, afterFar) ==
  CASE i > Len(arr) -> SubSeq(far, j, Len(far))
    [] i <= Len(arr) /\ j > Len(far) -> SubSeq(arr, i, Len(arr))
    [] OTHER -> IF Better(side, arr[i].price, far[j].price)
                THEN <<arr[i]>> \o afterArr ELSE <<far[j]>> \o afterFar

Merges(side, arr, far, out) ==
  out = [p \in (1 .. Len(arr) + 1) \X (1 .. Len(far) + 1) |->
           MergeStep(side, arr, far, p[1], p[2], out[<<p[1] + 1, p[2]>>], out[<<p[1], p[2] + 1>>])]

\* Two sequences that rank levels of which no two share a price.
TwoRanked(side, arr, A, far, F) ==
  /\ OneAPrice(A \cup F) /\ \A l \in A, m \in F : l.price # m.price
  /\ Ranked(side, arr, A) /\ Ranked(side, far, F)

\* What is better than the better one.
LEMMA BetterThrough ==
  ASSUME NEW side, NEW x \in Int, NEW y \in Int, NEW z \in Int, Better(side, x, y), Better(side, y, z)
  PROVE  Better(side, x, z)
BY DEF Better

\* A round whose rest is ranked ranks one level more.
LEMMA MergeStepRanked ==
  ASSUME NEW side, NEW arr, NEW A, NEW far, NEW F, TwoRanked(side, arr, A, far, F),
         NEW i \in 1 .. Len(arr) + 1, NEW j \in 1 .. Len(far) + 1, NEW q, NEW r,
         i <= Len(arr) => Ranked(side, q, Left(arr, far, i + 1, j)),
         j <= Len(far) => Ranked(side, r, Left(arr, far, i, j + 1))
  PROVE  Ranked(side, MergeStep(side, arr, far, i, j, q, r), Left(arr, far, i, j))
<1> DEFINE m == Len(arr)
           n == Len(far)
<1>1. /\ m \in Nat /\ n \in Nat
      /\ \A k \in 1 .. m : arr[k] \in A /\ arr[k].price \in Int
      /\ \A k \in 1 .. n : far[k] \in F /\ far[k].price \in Int
      /\ \A h, k \in 1 .. m : h < k => Better(side, arr[h].price, arr[k].price)
      /\ \A h, k \in 1 .. n : h < k => Better(side, far[h].price, far[k].price)
      /\ \A l \in A, k \in F : l.price # k.price
  <2>1. arr \in Seq(A) /\ far \in Seq(F) /\ A \cup F \subseteq LevelType
    BY DEF TwoRanked, Ranked, OneAPrice
  <2>2. m \in Nat /\ n \in Nat /\ (\A k \in 1 .. m : arr[k] \in A) /\ (\A k \in 1 .. n : far[k] \in F)
    BY <2>1
  <2>3. /\ \A k \in 1 .. m : arr[k].price \in Int
        /\ \A k \in 1 .. n : far[k].price \in Int
    <3>1. A \in SUBSET LevelType /\ F \in SUBSET LevelType
      BY <2>1
    <3>2. \A l \in LevelType : l.price \in Int
      BY DEF LevelType
    <3> QED
      BY <2>2, <3>1, <3>2
  <2>4. /\ \A h, k \in 1 .. m : h < k => Better(side, arr[h].price, arr[k].price)
        /\ \A h, k \in 1 .. n : h < k => Better(side, far[h].price, far[k].price)
        /\ \A l \in A, k \in F : l.price # k.price
    BY DEF TwoRanked, Ranked
  <2> HIDE DEF m, n
  <2> QED
    BY <2>2, <2>3, <2>4
<1>2. CASE i > m
  <2>1. MergeStep(side, arr, far, i, j, q, r) = SubSeq(far, j, n)
    BY SMTT(30), <1>2 DEF MergeStep
  <2>2. Ranked(side, SubSeq(far, j, n), {far[k] : k \in j .. n})
    BY RankedRest DEF TwoRanked
  <2>3. Left(arr, far, i, j) = {far[k] : k \in j .. n}
    BY <1>1, <1>2 DEF Left
  <2> QED
    BY <2>1, <2>2, <2>3
<1>3. CASE i <= m /\ j > n
  <2>1. MergeStep(side, arr, far, i, j, q, r) = SubSeq(arr, i, m)
    BY SMTT(30), <1>1, <1>3 DEF MergeStep
  <2>2. Ranked(side, SubSeq(arr, i, m), {arr[k] : k \in i .. m})
    BY RankedRest DEF TwoRanked
  <2>3. Left(arr, far, i, j) = {arr[k] : k \in i .. m}
    BY <1>1, <1>3 DEF Left
  <2> QED
    BY <2>1, <2>2, <2>3
<1>4. CASE i <= m /\ j <= n
  <2>0. i \in 1 .. m /\ j \in 1 .. n
    BY <1>1, <1>4
  <2>1. MergeStep(side, arr, far, i, j, q, r)
          = IF Better(side, arr[i].price, far[j].price) THEN <<arr[i]>> \o q ELSE <<far[j]>> \o r
    <3>1. ~(i > m) /\ ~(i <= m /\ j > n)
      BY <1>1, <1>4
    <3> QED
      BY <3>1 DEF MergeStep
  <2>2. CASE Better(side, arr[i].price, far[j].price)
    <3>1. Left(arr, far, i, j) = Left(arr, far, i + 1, j) \cup {arr[i]}
      <4>1. i .. m = (i + 1 .. m) \cup {i}
        BY <1>1, <1>4
      <4> QED
        BY <4>1 DEF Left
    <3>2. ASSUME NEW l \in Left(arr, far, i + 1, j) PROVE Better(side, arr[i].price, l.price)
      <4>1. CASE l \in {arr[k] : k \in i + 1 .. m}
        <5>1. PICK k \in i + 1 .. m : l = arr[k]
          BY <4>1
        <5>2. k \in 1 .. m /\ i < k
          BY <1>1
        <5> QED
          BY <1>1, <2>0, <5>1, <5>2
      <4>2. CASE l \in {far[k] : k \in j .. n}
        <5>1. PICK k \in j .. n : l = far[k]
          BY <4>2
        <5>2. k \in 1 .. n /\ (k = j \/ j < k)
          BY <1>1
        <5>3. CASE j < k
          <6>1. Better(side, far[j].price, far[k].price)
            BY <1>1, <2>0, <5>2, <5>3
          <6>2. arr[i].price \in Int /\ far[j].price \in Int /\ far[k].price \in Int
            BY <1>1, <2>0, <5>2
          <6>3. Better(side, arr[i].price, far[k].price)
            BY <2>2, <6>1, <6>2, BetterThrough
          <6> QED
            BY <5>1, <6>3
        <5> QED
          BY <2>2, <5>1, <5>2, <5>3
      <4> QED
        BY <4>1, <4>2 DEF Left
    <3>3. Ranked(side, q, Left(arr, far, i + 1, j))
      BY <1>4
    <3>4. Ranked(side, <<arr[i]>> \o q, Left(arr, far, i + 1, j) \cup {arr[i]})
      BY <3>2, <3>3, RankedCons
    <3> QED
      BY <2>1, <2>2, <3>1, <3>4
  <2>3. CASE ~Better(side, arr[i].price, far[j].price)
    <3>0. Better(side, far[j].price, arr[i].price)
      <4>1. arr[i].price \in Int /\ far[j].price \in Int /\ arr[i].price # far[j].price
        BY <1>1, <2>0
      <4> QED
        BY <2>3, <4>1 DEF Better
    <3>1. Left(arr, far, i, j) = Left(arr, far, i, j + 1) \cup {far[j]}
      <4>1. j .. n = (j + 1 .. n) \cup {j}
        BY <1>1, <1>4
      <4> QED
        BY <4>1 DEF Left
    <3>2. ASSUME NEW l \in Left(arr, far, i, j + 1) PROVE Better(side, far[j].price, l.price)
      <4>1. CASE l \in {far[k] : k \in j + 1 .. n}
        <5>1. PICK k \in j + 1 .. n : l = far[k]
          BY <4>1
        <5>2. k \in 1 .. n /\ j < k
          BY <1>1
        <5> QED
          BY <1>1, <2>0, <5>1, <5>2
      <4>2. CASE l \in {arr[k] : k \in i .. m}
        <5>1. PICK k \in i .. m : l = arr[k]
          BY <4>2
        <5>2. k \in 1 .. m /\ (k = i \/ i < k)
          BY <1>1
        <5>3. CASE i < k
          <6>1. Better(side, arr[i].price, arr[k].price)
            BY <1>1, <2>0, <5>2, <5>3
          <6>2. arr[i].price \in Int /\ far[j].price \in Int /\ arr[k].price \in Int
            BY <1>1, <2>0, <5>2
          <6>3. Better(side, far[j].price, arr[k].price)
            BY <3>0, <6>1, <6>2, BetterThrough
          <6> QED
            BY <5>1, <6>3
        <5> QED
          BY <3>0, <5>1, <5>2, <5>3
      <4> QED
        BY <4>1, <4>2 DEF Left
    <3>3. Ranked(side, r, Left(arr, far, i, j + 1))
      BY <1>4
    <3>4. Ranked(side, <<far[j]>> \o r, Left(arr, far, i, j + 1) \cup {far[j]})
      BY <3>2, <3>3, RankedCons
    <3> QED
      BY <2>1, <2>3, <3>1, <3>4
  <2> QED
    BY <2>2, <2>3
<1> QED
  BY <1>1, <1>2, <1>3, <1>4

\* What is left is some of the levels, one at a price.
LEMMA LeftOneAPrice ==
  ASSUME NEW side, NEW arr, NEW A, NEW far, NEW F, TwoRanked(side, arr, A, far, F),
         NEW i \in Nat \ {0}, NEW j \in Nat \ {0}
  PROVE  OneAPrice(Left(arr, far, i, j))
<1>1. arr \in Seq(A) /\ far \in Seq(F) /\ OneAPrice(A \cup F)
  BY DEF TwoRanked, Ranked
<1>2. Left(arr, far, i, j) \in SUBSET (A \cup F)
  BY <1>1 DEF Left
<1> HIDE DEF Left
<1> QED
  BY <1>1, <1>2, FS_Subset DEF OneAPrice

\* There is a table of the merge from every place on.
LEMMA MergeExists ==
  ASSUME NEW side, NEW arr, NEW A, NEW far, NEW F, TwoRanked(side, arr, A, far, F)
  PROVE  \E out : Merges(side, arr, far, out)
<1> DEFINE m == Len(arr)
           n == Len(far)
           P == (1 .. m + 1) \X (1 .. n + 1)
           Rest(i, j) == CHOOSE q : Ranked(side, q, Left(arr, far, i, j))
           out == [p \in P |-> Rest(p[1], p[2])]
           Step(p) == MergeStep(side, arr, far, p[1], p[2],
                                out[<<p[1] + 1, p[2]>>], out[<<p[1], p[2] + 1>>])
<1>1. m \in Nat /\ n \in Nat
  BY DEF TwoRanked, Ranked
<1>2. ASSUME NEW i \in Nat \ {0}, NEW j \in Nat \ {0}
      PROVE  Ranked(side, Rest(i, j), Left(arr, far, i, j))
  <2>1. \E q : Ranked(side, q, Left(arr, far, i, j))
    BY LeftOneAPrice, RankedExists
  <2> QED
    BY <2>1
<1> HIDE DEF Rest
<1>3. \A i \in 1 .. m + 1, j \in 1 .. n + 1 : out[<<i, j>>] = Rest(i, j)
  OBVIOUS
<1>4. ASSUME NEW p \in P PROVE out[p] = Step(p)
  <2> DEFINE i == p[1]
             j == p[2]
  <2>1. i \in 1 .. m + 1 /\ j \in 1 .. n + 1 /\ out[p] = Rest(i, j)
    OBVIOUS
  <2>2. Step(p) = MergeStep(side, arr, far, i, j, out[<<i + 1, j>>], out[<<i, j + 1>>])
    OBVIOUS
  <2> HIDE DEF i, j, out, Step
  <2>3. i \in Nat \ {0} /\ j \in Nat \ {0} /\ i + 1 \in Nat \ {0} /\ j + 1 \in Nat \ {0}
    BY <1>1, <2>1
  <2>4. i <= m => Ranked(side, out[<<i + 1, j>>], Left(arr, far, i + 1, j))
    <3>1. i <= m => out[<<i + 1, j>>] = Rest(i + 1, j)
      BY <1>1, <1>3, <2>1
    <3> QED
      BY <1>2, <2>3, <3>1
  <2>5. j <= n => Ranked(side, out[<<i, j + 1>>], Left(arr, far, i, j + 1))
    <3>1. j <= n => out[<<i, j + 1>>] = Rest(i, j + 1)
      BY <1>1, <1>3, <2>1
    <3> QED
      BY <1>2, <2>3, <3>1
  <2>6. Ranked(side, Step(p), Left(arr, far, i, j))
    BY <2>1, <2>2, <2>4, <2>5, MergeStepRanked DEF m, n
  <2>7. Ranked(side, out[p], Left(arr, far, i, j))
    BY <1>2, <2>1, <2>3
  <2>8. Left(arr, far, i, j) \in SUBSET LevelType
    BY <2>3, LeftOneAPrice DEF OneAPrice
  <2> QED
    BY <2>6, <2>7, <2>8, RankedOnce
<1>5. out = [p \in P |-> out[p]]
  OBVIOUS
<1> HIDE DEF out, Step, P
<1>6. out = [p \in P |-> Step(p)]
  BY <1>4, <1>5
<1>7. Merges(side, arr, far, out)
  BY <1>6, Zenon DEF Merges, P, Step, m, n
<1> QED
  BY <1>7

\* From any place on, the merge ranks what is left: take the least that is left where it
\* does not.
LEMMA MergesRanked ==
  ASSUME NEW side, NEW arr, NEW A, NEW far, NEW F, TwoRanked(side, arr, A, far, F),
         NEW out, Merges(side, arr, far, out),
         NEW i \in 1 .. Len(arr) + 1, NEW j \in 1 .. Len(far) + 1
  PROVE  Ranked(side, out[<<i, j>>], Left(arr, far, i, j))
<1> DEFINE m == Len(arr)
           n == Len(far)
           Bad(k) == \E g \in 1 .. m + 1, h \in 1 .. n + 1 :
                       /\ k = (m + 1 - g) + (n + 1 - h)
                       /\ ~Ranked(side, out[<<g, h>>], Left(arr, far, g, h))
           Bads == {k \in Nat : Bad(k)}
<1>1. m \in Nat /\ n \in Nat
  BY DEF TwoRanked, Ranked
<1>2. \A g \in 1 .. m + 1, h \in 1 .. n + 1 :
        out[<<g, h>>] = MergeStep(side, arr, far, g, h, out[<<g + 1, h>>], out[<<g, h + 1>>])
  <2>1. ASSUME NEW g \in 1 .. m + 1, NEW h \in 1 .. n + 1
        PROVE  out[<<g, h>>] = MergeStep(side, arr, far, g, h, out[<<g + 1, h>>], out[<<g, h + 1>>])
    <3> DEFINE p == <<g, h>>
               P == (1 .. m + 1) \X (1 .. n + 1)
               T(x) == MergeStep(side, arr, far, x[1], x[2],
                                 out[<<x[1] + 1, x[2]>>], out[<<x[1], x[2] + 1>>])
    <3>1. p \in P /\ p[1] = g /\ p[2] = h
      OBVIOUS
    <3>2. T(p) = MergeStep(side, arr, far, g, h, out[<<g + 1, h>>], out[<<g, h + 1>>])
      BY <3>1
    <3>3. out = [x \in P |-> T(x)]
      BY Zenon DEF Merges
    <3> HIDE DEF p, P, T
    <3>4. out[p] = T(p)
      BY <3>1, <3>3
    <3> QED
      BY <3>2, <3>4 DEF p
  <2> QED
    BY <2>1
<1>3. ASSUME Bads # {} PROVE FALSE
  <2>1. Bads \in SUBSET Nat
    OBVIOUS
  <2>2. PICK k \in Bads : \A l \in Bads : k <= l
    <3> HIDE DEF Bads
    <3> QED
      BY <1>3, <2>1, LeastOf
  <2>3. PICK g \in 1 .. m + 1, h \in 1 .. n + 1 :
          k = (m + 1 - g) + (n + 1 - h) /\ ~Ranked(side, out[<<g, h>>], Left(arr, far, g, h))
    OBVIOUS
  <2>4. g <= m => Ranked(side, out[<<g + 1, h>>], Left(arr, far, g + 1, h))
    <3>1. HAVE g <= m
    <3> DEFINE x == g + 1
               l == (m + 1 - x) + (n + 1 - h)
    <3>2. x \in 1 .. m + 1 /\ l \in Nat /\ l < k
      BY <1>1, <2>3, <3>1
    <3>3. l \notin Bads
      <4> HIDE DEF Bads, l
      <4> QED
        BY <2>1, <2>2, <3>2
    <3> HIDE DEF x
    <3> QED
      BY <3>2, <3>3 DEF x
  <2>5. h <= n => Ranked(side, out[<<g, h + 1>>], Left(arr, far, g, h + 1))
    <3>1. HAVE h <= n
    <3> DEFINE x == h + 1
               l == (m + 1 - g) + (n + 1 - x)
    <3>2. x \in 1 .. n + 1 /\ l \in Nat /\ l < k
      BY <1>1, <2>3, <3>1
    <3>3. l \notin Bads
      <4> HIDE DEF Bads, l
      <4> QED
        BY <2>1, <2>2, <3>2
    <3> HIDE DEF x
    <3> QED
      BY <3>2, <3>3 DEF x
  <2>6. Ranked(side, MergeStep(side, arr, far, g, h, out[<<g + 1, h>>], out[<<g, h + 1>>]),
               Left(arr, far, g, h))
    BY <2>4, <2>5, MergeStepRanked
  <2> QED
    BY <1>2, <2>3, <2>6
<1>4. (m + 1 - i) + (n + 1 - j) \in Nat
  BY <1>1
<1> QED
  BY <1>3, <1>4

\* The merge of two rankings ranks the levels of both.
LEMMA MergeRanked ==
  ASSUME NEW side, NEW arr, NEW A, NEW far, NEW F, TwoRanked(side, arr, A, far, F)
  PROVE  Ranked(side, Merge(side, arr, far), A \cup F)
<1> DEFINE out == CHOOSE o : Merges(side, arr, far, o)
<1>1. Merges(side, arr, far, out)
  BY MergeExists
<1>2. Merge(side, arr, far) = out[<<1, 1>>]
  BY DEF Merge, Merges, MergeStep
<1> HIDE DEF out
<1>3. /\ arr \in Seq(A) /\ far \in Seq(F)
      /\ \A l \in A : \E k \in 1 .. Len(arr) : arr[k] = l
      /\ \A l \in F : \E k \in 1 .. Len(far) : far[k] = l
  BY DEF TwoRanked, Ranked
<1>4. Left(arr, far, 1, 1) = A \cup F
  <2>1. {arr[k] : k \in 1 .. Len(arr)} = A /\ {far[k] : k \in 1 .. Len(far)} = F
    <3> HIDE DEF out
    <3>1. ASSUME NEW k \in 1 .. Len(arr) PROVE arr[k] \in A
      BY <1>3
    <3>2. ASSUME NEW k \in 1 .. Len(far) PROVE far[k] \in F
      BY <1>3
    <3> QED
      BY <1>3, <3>1, <3>2, Zenon
  <2> QED
    BY <2>1 DEF Left
<1>5. 1 \in 1 .. Len(arr) + 1 /\ 1 \in 1 .. Len(far) + 1
  BY <1>3
<1>6. Ranked(side, out[<<1, 1>>], Left(arr, far, 1, 1))
  BY <1>1, <1>5, MergesRanked
<1> QED
  BY <1>2, <1>4, <1>6

\* levels() ranks what a side holds.
LEMMA LevelsRanked ==
  ASSUME NEW d, NEW s, SideInv(d, s), NEW side
  PROVE  Ranked(side, Levels(side, s), Gathered(s))
<1> DEFINE A == {s.cells[i] : i \in s.bits}
           F == {s.far[p] : p \in DOMAIN s.far}
           arr == InOrder(side, s.cells, s.bits)
           far == InOrder(side, s.far, DOMAIN s.far)
<1>1. Ranked(side, arr, A) /\ Ranked(side, far, F)
  BY PartsRanked
<1>2. Gathered(s) = A \cup F
  BY DEF Gathered
<1>3. ASSUME NEW l \in A, NEW m \in F PROVE l.price # m.price
  <2>1. CellOf(s.base, l.price) # NoCell
    BY SpanAssumption DEF SideInv, IsSide, SideType, ArrayInv, Cells, NoCell
  <2>2. CellOf(s.base, m.price) = NoCell
    BY DEF SideInv, FarInv
  <2> QED
    BY <2>1, <2>2
<1>4. Levels(side, s) = Merge(side, arr, far)
  BY DEF Levels
<1> HIDE DEF A, F, arr, far
<1>5. TwoRanked(side, arr, A, far, F)
  BY <1>1, <1>2, <1>3, GatheredOneAPrice DEF TwoRanked
<1> QED
  BY <1>2, <1>4, <1>5, MergeRanked

-----------------------------------------------------------------------------
(***************************************************************************)
(* What the two loops of price_levels.cc come to in every book.            *)
(***************************************************************************)
\* rebase(), which gathers the levels and places them again one by one, leaves what the
\* model says it leaves, from every book that calls can build and for every new centre.
THEOREM RebaseLoops == Spec => []RebaseIsItsLoop
<1>1. Inv => RebaseIsItsLoop
  BY LoopRebases, InputAssumption DEF Inv, BookInv, RebaseIsItsLoop
<1> QED
  BY <1>1, Invariance, PTL

\* levels() returns every level of a side once, best first, and best() is its front.
THEOREM LevelsInOrder == Spec => []LevelsBestFirst
<1>1. ASSUME Inv, NEW d \in Sides
      PROVE  LET out == Levels(d, book.side[d])
             IN  /\ {out[k] : k \in DOMAIN out} = RebuiltLevels(book.orders, d)
                 /\ \A j, k \in DOMAIN out : j < k => Better(d, out[j].price, out[k].price)
                 /\ out # << >> => out[1] = Best(d, book.side[d])
  <2> DEFINE s == book.side[d]
             L == Gathered(s)
             out == Levels(d, s)
             b == Best(d, s)
  <2>1. SideInv(d, s) /\ L = RebuiltLevels(book.orders, d)
    BY <1>1, GatheredAreRebuilt DEF Inv, BookInv
  <2>2. Ranked(d, out, L) /\ OneAPrice(L)
    BY <2>1, LevelsRanked, GatheredOneAPrice
  <2>3. b \in L \/ L = {}
    BY <2>1, BestIsBestGathered
  <2>4. \A m \in L : ~Better(d, m.price, b.price)
    BY <2>1, BestIsBestGathered
  <2> HIDE DEF out, L, b
  <2>5. /\ out \in Seq(L) /\ DOMAIN out = 1 .. Len(out) /\ Len(out) \in Nat
        /\ \A l \in L : \E k \in 1 .. Len(out) : out[k] = l
        /\ \A j, k \in 1 .. Len(out) : j < k => Better(d, out[j].price, out[k].price)
    BY <2>2 DEF Ranked
  <2>6. \A k \in 1 .. Len(out) : out[k] \in L
    BY <2>5
  <2>7. {out[k] : k \in DOMAIN out} = L
    BY <2>5, <2>6, Zenon
  <2>8. ASSUME out # << >> PROVE out[1] = b
    <3>1. Len(out) > 0
      BY <2>5, <2>8
    <3>2. 1 \in 1 .. Len(out) /\ out[1] \in L
      BY <2>5, <2>6, <3>1
    <3>3. PICK k \in 1 .. Len(out) : out[k] = b
      BY <2>3, <2>5, <3>2
    <3>4. ~(1 < k)
      BY <2>4, <2>5, <3>2, <3>3
    <3> QED
      BY <2>5, <3>3, <3>4
  <2> QED
    BY <2>1, <2>5, <2>7, <2>8 DEF out, b
<1>2. Inv => LevelsBestFirst
  BY <1>1 DEF LevelsBestFirst
<1> QED
  BY <1>2, Invariance, PTL
=============================================================================
