----------------------------- MODULE BookProofs -----------------------------
(***************************************************************************)
(* The invariant of one book, for every window size, and what each         *)
(* operation of modules PriceLevels and Book does to it.                   *)
(*                                                                         *)
(* SideInv is the structural invariant behind                              *)
(* PriceLevels::check_invariants, without its condition on shares; LevelAt *)
(* is what a side holds at a price, in the array or in the map.  Each      *)
(* operation of a side preserves SideInv and changes LevelAt at one price  *)
(* only; a rebase changes it nowhere.  BookInv joins the two paths by      *)
(* which the code keeps its totals: the order index on one side, the two   *)
(* PriceLevels on the other.  Nothing here depends on who calls the book:  *)
(* OrderBookProofs and FeedHandlerProofs both rest on these lemmas.        *)
(***************************************************************************)
EXTENDS Book, OrdersProofs

LevelAt(s, p) ==
  LET c == CellOf(s.base, p)
  IN  IF c # NoCell
      THEN IF c \in s.bits THEN s.cells[c] ELSE EmptyLevel
      ELSE IF p \in DOMAIN s.far THEN s.far[p] ELSE EmptyLevel

\* The array: the bitmap, the count and the cached best agree with the cells.
ArrayInv(side, s) ==
  /\ \A i \in Cells : i \in s.bits <=> s.cells[i].orders # 0
  /\ \A i \in Cells \ s.bits : s.cells[i].shares = 0
  /\ \A i \in s.bits : CellOf(s.base, s.cells[i].price) = i
  /\ s.count = Cardinality(s.bits)
  /\ s.best = ScanBest(side, s.bits)
  /\ s.bits # {} => s.alloc

\* What s holds at one price becomes l; it holds the same at every other price.
MovesOnly(s, t, price, l) ==
  \A q \in Nat : LevelAt(t, q) = IF q = price THEN l ELSE LevelAt(s, q)

\* The map: only what has no cell, and before the first whole-cent price only the rest.
FarInv(s) ==
  /\ IsFiniteSet(DOMAIN s.far)
  /\ \A p \in DOMAIN s.far :
       /\ s.far[p].price = p /\ s.far[p].orders # 0
       /\ CellOf(s.base, p) = NoCell
       /\ s.base = NoBase => ~WholeCent(p)

SideInv(side, s) == IsSide(s) /\ ArrayInv(side, s) /\ FarInv(s)

-----------------------------------------------------------------------------
(***************************************************************************)
(* Cells and windows.                                                      *)
(***************************************************************************)
LEMMA CellOfType ==
  ASSUME NEW base \in Nat \cup {NoBase}, NEW p \in Nat
  PROVE  CellOf(base, p) \in Cells \cup {NoCell}
BY SpanAssumption DEF CellOf, Cells, NoCell, NoBase, WholeCent, kTick

\* A cell holds one price only.
LEMMA CellOfInjective ==
  ASSUME NEW base \in Nat \cup {NoBase}, NEW p \in Nat, NEW q \in Nat,
         CellOf(base, p) # NoCell, CellOf(base, p) = CellOf(base, q)
  PROVE  p = q
BY SpanAssumption DEF CellOf, NoCell, NoBase, WholeCent, kTick

\* The base of a window never underflows, however low the price.
LEMMA WindowAtType ==
  ASSUME NEW p \in Nat
  PROVE  WindowAt(p) \in Nat
BY SpanAssumption DEF WindowAt, kTick

\* A record of the right parts is a side.
LEMMA SideTypeRecord ==
  ASSUME NEW base \in Nat \cup {NoBase}, NEW alloc \in BOOLEAN, NEW cells \in [Cells -> LevelType],
         NEW bits \in SUBSET Cells, NEW count \in Nat, NEW best \in Cells \cup {NoCell},
         NEW keys, NEW far \in [keys -> LevelType],
         NEW s, s = [base |-> base, alloc |-> alloc, cells |-> cells, bits |-> bits,
                     count |-> count, best |-> best, far |-> far]
  PROVE  s \in SideType(keys)
BY DEF SideType

\* The window has finitely many cells.
LEMMA CellsFinite == IsFiniteSet(Cells)
BY SpanAssumption, FS_Interval DEF Cells

\* The cached best is the best occupied cell.
LEMMA ScanBestType ==
  ASSUME NEW side, NEW bits \in SUBSET Cells
  PROVE  /\ ScanBest(side, bits) \in Cells \cup {NoCell}
         /\ bits = {} <=> ScanBest(side, bits) = NoCell
         /\ bits # {} => IsBest(side, ScanBest(side, bits), bits)
<1>1. IsFiniteSet(bits) /\ bits \in SUBSET Int
  <2>1. IsFiniteSet(bits)
    BY CellsFinite, FS_Subset
  <2> QED
    BY <2>1 DEF Cells
<1>2. bits # {} => IsBest(side, BestOf(side, bits), bits)
  BY <1>1, BestOfIsBest
<1>3. NoCell \notin Cells
  BY SpanAssumption DEF Cells, NoCell
<1> QED
  BY <1>2, <1>3 DEF ScanBest, IsBest

\* The best price of a non-empty map is one of its prices.
LEMMA FarBestType ==
  ASSUME NEW side, NEW s, IsSide(s), FarInv(s), DOMAIN s.far # {}
  PROVE  FarBestPrice(side, s) \in DOMAIN s.far /\ FarBestPrice(side, s) \in Nat
<1>1. DOMAIN s.far \in SUBSET Int /\ IsFiniteSet(DOMAIN s.far)
  BY DEF IsSide, FarInv
<1>2. IsBest(side, FarBestPrice(side, s), DOMAIN s.far)
  BY <1>1, BestOfIsBest DEF FarBestPrice
<1> QED
  BY <1>2 DEF IsBest, IsSide

\* Prices of cells are equally spaced, so better cells hold better prices.
LEMMA CellPrice ==
  ASSUME NEW base \in Nat \cup {NoBase}, NEW p \in Nat, CellOf(base, p) # NoCell
  PROVE  base \in Nat /\ p = kTick * (base + CellOf(base, p))
BY SpanAssumption DEF CellOf, NoCell, NoBase, WholeCent, kTick

\* Inside one window, better prices have better cells.
LEMMA BetterCell ==
  ASSUME NEW side, NEW base \in Nat \cup {NoBase}, NEW p \in Nat, NEW q \in Nat,
         CellOf(base, p) # NoCell, CellOf(base, q) # NoCell
  PROVE  Better(side, p, q) <=> Better(side, CellOf(base, p), CellOf(base, q))
<1>1. p = kTick * (base + CellOf(base, p)) /\ q = kTick * (base + CellOf(base, q))
  BY CellPrice
<1>2. base \in Nat
  BY CellPrice
<1>3. CellOf(base, p) \in Int /\ CellOf(base, q) \in Int
  BY CellOfType, SpanAssumption DEF Cells, NoCell
<1> DEFINE c == CellOf(base, p)  d == CellOf(base, q)
<1>4. p = kTick * (base + c) /\ q = kTick * (base + d) /\ c \in Int /\ d \in Int
  BY <1>1, <1>3
<1> HIDE DEF c, d
<1>5. Better(side, p, q) <=> Better(side, c, d)
  BY <1>2, <1>4 DEF Better, kTick
<1> QED
  BY <1>5 DEF c, d

\* Occupying one more cell: the cached best is compared with the new cell only.
LEMMA ScanBestAdd ==
  ASSUME NEW side, NEW bits \in SUBSET Cells, NEW c \in Cells \ bits
  PROVE  ScanBest(side, bits \cup {c}) =
           IF bits = {} \/ Better(side, c, ScanBest(side, bits)) THEN c ELSE ScanBest(side, bits)
<1> DEFINE b == ScanBest(side, bits)
           r == IF bits = {} \/ Better(side, c, b) THEN c ELSE b
<1>1. bits # {} => IsBest(side, b, bits)
  BY ScanBestType
<1>2. c \in Int /\ bits \in SUBSET Int /\ bits \cup {c} \in SUBSET Int
  BY SpanAssumption DEF Cells
<1>3. IsBest(side, r, bits \cup {c})
  <2> HIDE DEF b
  <2>1. CASE bits = {}
    BY <1>2, <2>1 DEF IsBest, Better
  <2>2. CASE bits # {} /\ Better(side, c, b)
    <3>1. r = c /\ IsBest(side, b, bits)
      BY <1>1, <2>2
    <3>2. ASSUME NEW y \in bits \cup {c} PROVE ~Better(side, y, c)
      BY <1>2, <2>2, <3>1 DEF IsBest, Better
    <3> QED
      BY <3>1, <3>2 DEF IsBest
  <2>3. CASE bits # {} /\ ~Better(side, c, b)
    <3>1. r = b /\ IsBest(side, b, bits)
      BY <1>1, <2>3
    <3>2. ASSUME NEW y \in bits \cup {c} PROVE ~Better(side, y, b)
      BY <2>3, <3>1 DEF IsBest
    <3> QED
      BY <3>1, <3>2 DEF IsBest
  <2> QED
    BY <2>1, <2>2, <2>3
<1>4. BestOf(side, bits \cup {c}) = r
  BY <1>2, <1>3, BestIsUnique
<1> QED
  BY <1>4 DEF ScanBest

-----------------------------------------------------------------------------
(***************************************************************************)
(* add, in the array.                                                      *)
(***************************************************************************)
Raised(l, price, shares) ==
  [price |-> price, shares |-> l.shares + shares, orders |-> l.orders + 1]

\* An add inside the window changes the level at its price and nothing else.
LEMMA AddToCellInv ==
  ASSUME NEW side, NEW s, SideInv(side, s), NEW price \in Nat, NEW shares \in Nat,
         NEW c, c = CellOf(s.base, price), c # NoCell,
         NEW t, t = AddToCell(side, s, c, price, shares)
  PROVE  SideInv(side, t) /\ MovesOnly(s, t, price, Raised(LevelAt(s, price), price, shares))
<1> DEFINE l == s.cells[c]
           n == IF l.orders = 0 THEN price ELSE l.price
<1>1. /\ s.base \in Nat \cup {NoBase} /\ s.cells \in [Cells -> LevelType]
      /\ s.bits \in SUBSET Cells /\ s.count \in Nat /\ s.alloc \in BOOLEAN
      /\ s.best \in Cells \cup {NoCell}
      /\ c \in Cells
  BY CellOfType DEF SideInv, IsSide, SideType
<1>2. l.orders # 0 => l.price = price
  <2>1. l.orders # 0 => CellOf(s.base, l.price) = c
    BY <1>1 DEF SideInv, ArrayInv
  <2>2. l.price \in Nat
    BY <1>1 DEF LevelType
  <2> QED
    BY <1>1, <2>1, <2>2, CellOfInjective
<1>3. /\ t.base = s.base /\ t.far = s.far /\ t.alloc = TRUE
      /\ t.cells = [s.cells EXCEPT ![c] = Raised(l, price, shares)]
      /\ t.bits = s.bits \cup {c}
      /\ t.count = IF c \in s.bits THEN s.count ELSE s.count + 1
      /\ t.best = IF c \notin s.bits /\ BeatsArray(side, s, price) THEN c ELSE s.best
      /\ t \in SideType(DOMAIN t.far)
  <2>1. c \in s.bits <=> l.orders # 0
    BY <1>1 DEF SideInv, ArrayInv
  <2>2. l \in LevelType
    BY <1>1
  <2>3. s \in SideType(DOMAIN s.far)
    BY DEF SideInv, IsSide
  <2>4. Raised(l, price, shares) = [price |-> n, shares |-> l.shares + shares,
                                    orders |-> l.orders + 1]
    BY <1>2 DEF Raised
  <2>5. Raised(l, price, shares) \in LevelType
    BY <2>2 DEF Raised, LevelType
  <2>6. t = [s EXCEPT !.alloc = TRUE,
                      !.cells[c] = Raised(l, price, shares),
                      !.bits  = IF l.orders = 0 THEN @ \cup {c} ELSE @,
                      !.count = IF l.orders = 0 THEN @ + 1 ELSE @,
                      !.best  = IF l.orders = 0 /\ BeatsArray(side, s, price) THEN c ELSE @]
    BY <2>4 DEF AddToCell
  <2> DEFINE cells == [s.cells EXCEPT ![c] = Raised(l, price, shares)]
             bits == IF l.orders = 0 THEN s.bits \cup {c} ELSE s.bits
             count == IF l.orders = 0 THEN s.count + 1 ELSE s.count
             best == IF l.orders = 0 /\ BeatsArray(side, s, price) THEN c ELSE s.best
  <2>7. t = [base |-> s.base, alloc |-> TRUE, cells |-> cells, bits |-> bits,
             count |-> count, best |-> best, far |-> s.far]
    BY <2>3, <2>6 DEF SideType
  <2>8. cells \in [Cells -> LevelType] /\ bits \in SUBSET Cells /\ count \in Nat
        /\ best \in Cells \cup {NoCell}
    BY <1>1, <2>5
  <2>9. bits = s.bits \cup {c}
    BY <1>1, <2>1
  <2>10. s.far \in [DOMAIN s.far -> LevelType]
    BY <2>3 DEF SideType
  <2> HIDE DEF cells, bits, count, best
  <2>11. /\ t.base = s.base /\ t.far = s.far /\ t.alloc = TRUE
         /\ t.cells = cells /\ t.bits = bits /\ t.count = count /\ t.best = best
    BY <2>7
  <2>12. t \in SideType(DOMAIN t.far)
    BY <1>1, <2>7, <2>8, <2>10 DEF SideType
  <2> QED
    BY <2>1, <2>9, <2>11, <2>12 DEF cells, count, best
<1>4. ArrayInv(side, t)
  <2>0. c \in s.bits <=> l.orders # 0
    BY <1>1 DEF SideInv, ArrayInv
  <2>1. \A i \in Cells : i \in t.bits <=> t.cells[i].orders # 0
    <3>1. l.orders \in Nat
      BY <1>1 DEF LevelType
    <3> QED
      BY <1>1, <1>3, <3>1 DEF SideInv, ArrayInv, Raised
  <2>2. \A i \in Cells \ t.bits : t.cells[i].shares = 0
    BY <1>1, <1>3 DEF SideInv, ArrayInv
  <2>3. \A i \in t.bits : CellOf(t.base, t.cells[i].price) = i
    BY <1>1, <1>3 DEF SideInv, ArrayInv, Raised
  <2>4. t.count = Cardinality(t.bits)
    <3>1. IsFiniteSet(s.bits)
      BY <1>1, CellsFinite, FS_Subset
    <3>2. Cardinality(s.bits \cup {c}) = IF c \in s.bits THEN Cardinality(s.bits)
                                         ELSE Cardinality(s.bits) + 1
      BY <3>1, FS_AddElement
    <3> QED
      BY <1>3, <3>2 DEF SideInv, ArrayInv
  <2>5. t.best = ScanBest(side, t.bits)
    <3>1. CASE c \in s.bits
      <4>1. t.bits = s.bits
        BY <1>3, <3>1
      <4> QED
        BY <1>3, <3>1, <4>1 DEF SideInv, ArrayInv
    <3>2. CASE c \notin s.bits
      <4>1. BeatsArray(side, s, price) <=>
              s.bits = {} \/ Better(side, c, ScanBest(side, s.bits))
        <5>1. s.best = ScanBest(side, s.bits)
          BY DEF SideInv, ArrayInv
        <5>2. s.bits = {} <=> s.best = NoCell
          BY <1>1, <5>1, ScanBestType
        <5>3. CASE s.bits = {}
          BY <5>2, <5>3 DEF BeatsArray
        <5>4. CASE s.bits # {}
          <6>1. s.best \in s.bits
            BY <1>1, <5>1, <5>4, ScanBestType DEF IsBest
          <6>2. CellOf(s.base, s.cells[s.best].price) = s.best
            BY <6>1 DEF SideInv, ArrayInv
          <6>3. s.cells[s.best].price \in Nat
            BY <1>1, <6>1 DEF LevelType
          <6>4. Better(side, price, s.cells[s.best].price) <=> Better(side, c, s.best)
            <7> DEFINE z == s.cells[s.best].price
            <7>1. CellOf(s.base, z) = s.best /\ z \in Nat /\ s.best # NoCell
              BY <5>2, <5>4, <6>2, <6>3
            <7> HIDE DEF z
            <7>2. Better(side, price, z) <=> Better(side, CellOf(s.base, price), CellOf(s.base, z))
              BY <1>1, <7>1, BetterCell
            <7> QED
              BY <7>1, <7>2 DEF z
          <6> QED
            BY <5>1, <5>2, <5>4, <6>4 DEF BeatsArray
        <5> QED
          BY <5>3, <5>4
      <4>2. s.best = ScanBest(side, s.bits)
        BY DEF SideInv, ArrayInv
      <4> QED
        BY <1>1, <1>3, <3>2, <4>1, <4>2, ScanBestAdd
    <3> QED
      BY <3>1, <3>2
  <2> QED
    BY <1>3, <2>1, <2>2, <2>3, <2>4, <2>5 DEF ArrayInv
<1>5. FarInv(t) /\ IsSide(t)
  BY <1>3 DEF SideInv, FarInv, IsSide
<1>6. ASSUME NEW q \in Nat
      PROVE  LevelAt(t, q) = IF q = price THEN Raised(LevelAt(s, q), price, shares)
                                          ELSE LevelAt(s, q)
  <2>1. CASE q = price
    <3>1. LevelAt(t, q) = Raised(l, price, shares)
      BY <1>1, <1>3, <2>1 DEF LevelAt
    <3>2. Raised(LevelAt(s, q), price, shares) = Raised(l, price, shares)
      <4>1. CASE c \in s.bits
        BY <2>1, <4>1 DEF LevelAt
      <4>2. CASE c \notin s.bits
        <5>1. l.orders = 0 /\ l.shares = 0
          BY <1>1, <4>2 DEF SideInv, ArrayInv
        <5> QED
          BY <2>1, <4>2, <5>1 DEF LevelAt, EmptyLevel, Raised
      <4> QED
        BY <4>1, <4>2
    <3> QED
      BY <2>1, <3>1, <3>2
  <2>2. CASE q # price
    <3>1. CellOf(s.base, q) # NoCell => CellOf(s.base, q) # c
      BY <1>1, <2>2, CellOfInjective
    <3>2. CellOf(s.base, q) \in Cells \cup {NoCell}
      BY <1>1, CellOfType
    <3> QED
      BY <1>1, <1>3, <2>2, <3>1, <3>2 DEF LevelAt
  <2> QED
    BY <2>1, <2>2
<1> QED
  BY <1>4, <1>5, <1>6 DEF SideInv, MovesOnly
-----------------------------------------------------------------------------
(***************************************************************************)
(* add, in the map, and the first whole-cent price.                        *)
(***************************************************************************)
LEMMA AddToFarInv ==
  ASSUME NEW side, NEW s, SideInv(side, s), NEW price \in Nat, NEW shares \in Nat,
         CellOf(s.base, price) = NoCell, s.base = NoBase => ~WholeCent(price),
         NEW t, t = AddToFar(s, price, shares)
  PROVE  SideInv(side, t) /\ MovesOnly(s, t, price, Raised(LevelAt(s, price), price, shares))
<1> DEFINE l == IF price \in DOMAIN s.far THEN s.far[price] ELSE EmptyLevel
           new == Raised(l, price, shares)
           far == Put(s.far, price, new)
<1>1. s \in SideType(DOMAIN s.far) /\ DOMAIN s.far \subseteq Nat
  BY DEF SideInv, IsSide
<1>2. s.far \in [DOMAIN s.far -> LevelType]
  BY <1>1 DEF SideType
<1>3. l \in LevelType /\ new \in LevelType /\ new.price = price /\ new.orders # 0
  <2>1. l \in LevelType
    BY <1>2 DEF EmptyLevel, LevelType
  <2> HIDE DEF l
  <2> QED
    BY <2>1 DEF Raised, LevelType
<1>4. t = [s EXCEPT !.far = far]
  BY DEF AddToFar, Raised
<1>5. /\ DOMAIN far = DOMAIN s.far \cup {price}
      /\ far \in [DOMAIN far -> LevelType]
      /\ far[price] = new
      /\ \A q \in DOMAIN s.far : q # price => far[q] = s.far[q]
  <2> HIDE DEF new
  <2> QED
    BY <1>2, <1>3 DEF Put
<1> HIDE DEF far, new, l
<1>6. /\ t.base = s.base /\ t.alloc = s.alloc /\ t.cells = s.cells /\ t.bits = s.bits
      /\ t.count = s.count /\ t.best = s.best /\ t.far = far
      /\ t \in SideType(DOMAIN far)
  BY <1>1, <1>4, <1>5 DEF SideType
<1>7. IsSide(t)
  BY <1>1, <1>5, <1>6 DEF IsSide
<1>8. ArrayInv(side, t)
  BY <1>6 DEF SideInv, ArrayInv
<1>9. FarInv(t)
  <2>1. IsFiniteSet(DOMAIN far)
    BY <1>5, FS_AddElement DEF SideInv, FarInv
  <2>2. \A q \in DOMAIN far : far[q].price = q /\ far[q].orders # 0
    BY <1>3, <1>5 DEF SideInv, FarInv
  <2>3. \A q \in DOMAIN far : CellOf(s.base, q) = NoCell /\ (s.base = NoBase => ~WholeCent(q))
    BY <1>5 DEF SideInv, FarInv
  <2> QED
    BY <1>6, <2>1, <2>2, <2>3 DEF FarInv
<1>10. LevelAt(s, price) = l
  BY DEF LevelAt, l
<1>11. MovesOnly(s, t, price, new)
  BY <1>5, <1>6 DEF MovesOnly, LevelAt
<1> QED
  BY <1>7, <1>8, <1>9, <1>10, <1>11 DEF SideInv, new

\* A sub-penny price has no cell.
LEMMA NotWholeCent ==
  ASSUME NEW base, NEW p, ~WholeCent(p)
  PROVE  CellOf(base, p) = NoCell
BY DEF CellOf

\* Fixing the window moves no level: the array is empty and the map holds no whole cent.
LEMMA FixBaseInv ==
  ASSUME NEW side, NEW s, SideInv(side, s), NEW price \in Nat,
         NEW t, t = FixBase(s, price)
  PROVE  /\ SideInv(side, t)
         /\ \A q \in Nat : LevelAt(t, q) = LevelAt(s, q)
         /\ t.base = NoBase => ~WholeCent(price)
<1>1. CASE ~(s.base = NoBase /\ WholeCent(price))
  BY <1>1 DEF FixBase
<1>2. CASE s.base = NoBase /\ WholeCent(price)
  <2> DEFINE base == WindowAt(price)
  <2>1. s \in SideType(DOMAIN s.far) /\ DOMAIN s.far \subseteq Nat
    BY DEF SideInv, IsSide
  <2>2. t = [s EXCEPT !.base = base] /\ base \in Nat
    BY <1>2, WindowAtType DEF FixBase
  <2> HIDE DEF base
  <2>3. /\ t.base = base /\ t.alloc = s.alloc /\ t.cells = s.cells /\ t.bits = s.bits
        /\ t.count = s.count /\ t.best = s.best /\ t.far = s.far
        /\ t \in SideType(DOMAIN t.far)
    BY <2>1, <2>2 DEF SideType
  <2>4. s.bits = {}
    <3>1. s.bits \subseteq Cells /\ \A i \in s.bits : CellOf(s.base, s.cells[i].price) = i
      BY <2>1 DEF SideInv, ArrayInv, SideType
    <3>2. \A i \in s.bits : i = NoCell
      BY <1>2, <3>1 DEF CellOf
    <3>3. NoCell \notin Cells
      BY SpanAssumption DEF Cells, NoCell
    <3> QED
      BY <3>1, <3>2, <3>3
  <2>5. \A p \in DOMAIN s.far : ~WholeCent(p)
    BY <1>2 DEF SideInv, FarInv
  <2>6. \A p \in DOMAIN s.far : CellOf(base, p) = NoCell
    BY <2>5, NotWholeCent
  <2>7. base # NoBase
    BY <2>2 DEF NoBase
  <2>8. SideInv(side, t)
    <3>1. IsSide(t)
      BY <2>1, <2>3 DEF IsSide
    <3>2. ArrayInv(side, t)
      BY <2>3, <2>4 DEF SideInv, ArrayInv
    <3>3. FarInv(t)
      BY <2>3, <2>6, <2>7 DEF SideInv, FarInv
    <3> QED
      BY <3>1, <3>2, <3>3 DEF SideInv
  <2>9. ASSUME NEW q \in Nat PROVE LevelAt(t, q) = LevelAt(s, q)
    <3>1. CellOf(s.base, q) = NoCell
      BY <1>2 DEF CellOf
    <3>2. CASE q \in DOMAIN s.far
      BY <2>3, <2>6, <3>1, <3>2 DEF LevelAt
    <3>3. CASE q \notin DOMAIN s.far
      BY <2>3, <2>4, <3>1, <3>3 DEF LevelAt
    <3> QED
      BY <3>2, <3>3
  <2> QED
    BY <2>3, <2>7, <2>8, <2>9
<1> QED
  BY <1>1, <1>2
-----------------------------------------------------------------------------
(***************************************************************************)
(* rebase.  Each gathered level is what the side holds at its price, so    *)
(* two of them never compete for a cell and none is lost.                  *)
(***************************************************************************)
LEMMA GatheredIsHeld ==
  ASSUME NEW side, NEW s, SideInv(side, s), NEW l \in Gathered(s)
  PROVE  /\ l \in LevelType /\ l.price \in Nat /\ l.orders # 0
         /\ LevelAt(s, l.price) = l
<1>1. /\ s.cells \in [Cells -> LevelType] /\ s.bits \in SUBSET Cells
      /\ s.far \in [DOMAIN s.far -> LevelType]
  BY DEF SideInv, IsSide, SideType
<1>2. CASE \E i \in s.bits : l = s.cells[i]
  <2>1. PICK i \in s.bits : l = s.cells[i]
    BY <1>2
  <2>2. i \in Cells /\ l \in LevelType /\ l.orders # 0 /\ CellOf(s.base, l.price) = i
    BY <1>1, <2>1 DEF SideInv, ArrayInv
  <2>3. i # NoCell
    BY <2>2, SpanAssumption DEF Cells, NoCell
  <2>4. LevelAt(s, l.price) = l
    BY <2>1, <2>2, <2>3 DEF LevelAt
  <2> QED
    BY <2>2, <2>4 DEF LevelType
<1>3. CASE \E p \in DOMAIN s.far : l = s.far[p]
  <2>1. PICK p \in DOMAIN s.far : l = s.far[p]
    BY <1>3
  <2>2. l \in LevelType
    BY <1>1, <2>1
  <2>3. l.price = p /\ l.orders # 0 /\ CellOf(s.base, p) = NoCell
    BY <2>1 DEF SideInv, FarInv
  <2>4. LevelAt(s, l.price) = l
    BY <2>1, <2>3 DEF LevelAt
  <2> QED
    BY <2>2, <2>3, <2>4 DEF LevelType
<1> QED
  BY <1>2, <1>3 DEF Gathered

\* No price has two levels.
LEMMA GatheredUnique ==
  ASSUME NEW side, NEW s, SideInv(side, s), NEW l \in Gathered(s), NEW m \in Gathered(s),
         l.price = m.price
  PROVE  l = m
<1>1. LevelAt(s, l.price) = l /\ LevelAt(s, m.price) = m
  BY GatheredIsHeld
<1> QED
  BY <1>1

\* Conversely, a price at which nothing was gathered holds nothing.
LEMMA NothingGathered ==
  ASSUME NEW side, NEW s, SideInv(side, s), NEW q \in Nat,
         \A l \in Gathered(s) : l.price # q
  PROVE  LevelAt(s, q) = EmptyLevel
<1>1. /\ s.cells \in [Cells -> LevelType] /\ s.bits \in SUBSET Cells
      /\ s.base \in Nat \cup {NoBase}
  BY DEF SideInv, IsSide, SideType
<1> DEFINE c == CellOf(s.base, q)
<1>2. CASE c \in s.bits
  <2>1. s.cells[c] \in Gathered(s)
    BY <1>2 DEF Gathered
  <2>2. s.cells[c].price \in Nat /\ CellOf(s.base, s.cells[c].price) = c
    BY <1>1, <1>2 DEF LevelType, SideInv, ArrayInv
  <2>3. c # NoCell
    BY <1>1, <1>2, SpanAssumption DEF Cells, NoCell
  <2>4. s.cells[c].price = q
    BY <1>1, <2>2, <2>3, CellOfInjective
  <2> QED
    BY <2>1, <2>4
<1>3. CASE c = NoCell /\ q \in DOMAIN s.far
  <2>1. s.far[q] \in Gathered(s) /\ s.far[q].price = q
    BY <1>3 DEF Gathered, SideInv, FarInv
  <2> QED
    BY <2>1
<1> QED
  BY <1>2, <1>3 DEF LevelAt

\* A side holds finitely many levels.
LEMMA GatheredFinite ==
  ASSUME NEW side, NEW s, SideInv(side, s)
  PROVE  IsFiniteSet(Gathered(s))
<1> DEFINE A == {s.cells[i] : i \in s.bits}
           B == {s.far[p] : p \in DOMAIN s.far}
           f == [i \in s.bits |-> s.cells[i]]
           g == [p \in DOMAIN s.far |-> s.far[p]]
<1>1. IsFiniteSet(s.bits)
  <2>1. s.bits \in SUBSET Cells
    BY DEF SideInv, IsSide, SideType
  <2> QED
    BY <2>1, CellsFinite, FS_Subset
<1>2. IsFiniteSet(DOMAIN s.far)
  BY DEF SideInv, FarInv
<1>3. f \in Surjection(s.bits, A) /\ g \in Surjection(DOMAIN s.far, B)
  BY DEF Surjection
<1>4. IsFiniteSet(A) /\ IsFiniteSet(B)
  BY <1>1, <1>2, <1>3, FS_Surjection
<1>5. IsFiniteSet(A \cup B)
  BY <1>4, FS_Union
<1> QED
  BY <1>5 DEF Gathered

\* A rebase re-establishes everything and moves no level.
LEMMA RebaseInv ==
  ASSUME NEW side, NEW s, SideInv(side, s), NEW price \in Nat,
         NEW t, t = Rebase(side, s, price)
  PROVE  SideInv(side, t) /\ \A q \in Nat : LevelAt(t, q) = LevelAt(s, q)
<1> DEFINE G == Gathered(s)
           base == WindowAt(price)
           near == {l \in G : CellOf(base, l.price) # NoCell}
           away == {l \in G : CellOf(base, l.price) = NoCell}
           bits == {CellOf(base, l.price) : l \in near}
           cells == [i \in Cells |->
                       IF i \in bits THEN CHOOSE l \in near : CellOf(base, l.price) = i
                       ELSE IF i \in s.bits THEN EmptyLevel
                       ELSE s.cells[i]]
           far == [p \in {l.price : l \in away} |-> CHOOSE l \in away : l.price = p]
<1>1. t = [base |-> base, alloc |-> TRUE, cells |-> cells, bits |-> bits,
           count |-> Cardinality(near), best |-> ScanBest(side, bits), far |-> far]
  BY DEF Rebase
<1>2. base \in Nat /\ base \in Nat \cup {NoBase} /\ base # NoBase
  BY WindowAtType DEF NoBase
<1>3. /\ s.cells \in [Cells -> LevelType] /\ s.bits \in SUBSET Cells
      /\ \A i \in Cells \ s.bits : s.cells[i].orders = 0 /\ s.cells[i].shares = 0
  BY DEF SideInv, IsSide, SideType, ArrayInv
<1>4. \A l \in G : l \in LevelType /\ l.price \in Nat /\ l.orders # 0 /\ LevelAt(s, l.price) = l
  BY GatheredIsHeld
<1>5. \A l, m \in G : l.price = m.price => l = m
  BY GatheredUnique
<1>6. IsFiniteSet(near) /\ IsFiniteSet(away)
  <2>1. IsFiniteSet(G)
    BY GatheredFinite
  <2> QED
    BY <2>1, FS_Subset
<1> HIDE DEF G, base
<1>7. \A l \in near, m \in near : CellOf(base, l.price) = CellOf(base, m.price) => l = m
  <2> TAKE l \in near, m \in near
  <2> HAVE CellOf(base, l.price) = CellOf(base, m.price)
  <2>1. l.price \in Nat /\ m.price \in Nat /\ CellOf(base, l.price) # NoCell
    BY <1>4
  <2>2. l.price = m.price
    BY <1>2, <2>1, CellOfInjective
  <2> QED
    BY <1>5, <2>2
<1>8. bits \subseteq Cells
  <2> SUFFICES ASSUME NEW c \in bits PROVE c \in Cells
    OBVIOUS
  <2>1. PICK l \in near : c = CellOf(base, l.price)
    OBVIOUS
  <2>2. c \in Cells \cup {NoCell} /\ c # NoCell
    BY <1>2, <1>4, <2>1, CellOfType
  <2> QED
    BY <2>2
<1>9. \A i \in bits : cells[i] \in near /\ CellOf(base, cells[i].price) = i
  BY <1>8
<1>10. \A i \in Cells \ bits : cells[i].orders = 0 /\ cells[i].shares = 0 /\ cells[i] \in LevelType
  BY <1>3 DEF EmptyLevel, LevelType
<1>11. \A p \in DOMAIN far : far[p] \in away /\ far[p].price = p /\ p \in Nat
  BY <1>4
<1>12. \A l \in near : cells[CellOf(base, l.price)] = l
  <2> TAKE l \in near
  <2>1. CellOf(base, l.price) \in bits
    OBVIOUS
  <2>2. cells[CellOf(base, l.price)] \in near
        /\ CellOf(base, cells[CellOf(base, l.price)].price) = CellOf(base, l.price)
    BY <1>9, <2>1
  <2> HIDE DEF cells, bits, near
  <2> QED
    BY <1>7, <2>2
<1>13. \A l \in away : l.price \in DOMAIN far /\ far[l.price] = l
  BY <1>5, <1>11
<1>14. IsFiniteSet(DOMAIN far)
  <2> DEFINE f == [l \in away |-> l.price]
  <2>1. f \in Surjection(away, {l.price : l \in away})
    BY DEF Surjection
  <2> QED
    BY <1>6, <2>1, FS_Surjection
<1>15. Cardinality(bits) = Cardinality(near) /\ Cardinality(near) \in Nat
  <2> DEFINE f == [l \in near |-> CellOf(base, l.price)]
  <2>1. f \in Surjection(near, bits) /\ f \in Injection(near, bits)
    <3>1. f \in [near -> bits] /\ \A c \in bits : \E l \in near : f[l] = c
      OBVIOUS
    <3>2. \A l, m \in near : f[l] = f[m] => l = m
      BY <1>7
    <3> HIDE DEF f, near, bits
    <3> QED
      BY <3>1, <3>2 DEF Surjection, Injection, IsInjective
  <2>2. Cardinality(bits) = Cardinality(near)
    BY <1>6, <2>1, FS_Surjection
  <2> QED
    BY <1>6, <2>2, FS_CardinalityType
<1>16. ScanBest(side, bits) \in Cells \cup {NoCell}
  BY <1>8, ScanBestType
<1>17. \A l \in G : l \in near \/ l \in away
  OBVIOUS
<1>18. near \subseteq G /\ away \subseteq G /\ \A l \in away : CellOf(base, l.price) = NoCell
  OBVIOUS
<1>19. DOMAIN cells = Cells /\ cells = [i \in Cells |-> cells[i]]
  OBVIOUS
<1>20. far = [p \in DOMAIN far |-> far[p]]
  OBVIOUS
<1>21. \A c : c \in bits => \E l \in near : CellOf(base, l.price) = c
  OBVIOUS
<1>22. \A l \in near : CellOf(base, l.price) \in bits /\ CellOf(base, l.price) # NoCell
  OBVIOUS
<1> HIDE DEF near, away, bits, cells, far
<1>23. /\ t.base = base /\ t.alloc = TRUE /\ t.cells = cells /\ t.bits = bits
       /\ t.count = Cardinality(bits) /\ t.best = ScanBest(side, bits) /\ t.far = far
  BY <1>1, <1>15
<1>24. IsSide(t)
  <2>1. cells \in [Cells -> LevelType]
    <3>1. \A i \in Cells : cells[i] \in LevelType
      BY <1>4, <1>9, <1>10, <1>18
    <3> QED
      BY <1>19, <3>1
  <2>2. far \in [DOMAIN far -> LevelType]
    <3>1. \A p \in DOMAIN far : far[p] \in LevelType
      BY <1>4, <1>11, <1>18
    <3> QED
      BY <1>20, <3>1
  <2>3. DOMAIN far \subseteq Nat
    BY <1>11
  <2>4. t \in SideType(DOMAIN far)
    BY <1>1, <1>2, <1>8, <1>15, <1>16, <2>1, <2>2 DEF SideType
  <2> QED
    BY <1>23, <2>3, <2>4 DEF IsSide
<1>25. ArrayInv(side, t)
  <2>1. \A i \in Cells : i \in bits <=> cells[i].orders # 0
    BY <1>4, <1>9, <1>10, <1>18
  <2>2. \A i \in Cells \ bits : cells[i].shares = 0
    BY <1>10
  <2>3. \A i \in bits : CellOf(base, cells[i].price) = i
    BY <1>9
  <2> QED
    BY <1>23, <2>1, <2>2, <2>3 DEF ArrayInv
<1>26. FarInv(t)
  <2>1. \A p \in DOMAIN far : far[p].price = p /\ far[p].orders # 0 /\ CellOf(base, p) = NoCell
    BY <1>4, <1>11, <1>18
  <2> QED
    BY <1>2, <1>14, <1>23, <2>1 DEF FarInv
<1>27. ASSUME NEW q \in Nat PROVE LevelAt(t, q) = LevelAt(s, q)
  <2> DEFINE c == CellOf(base, q)
  <2>0. c \in Cells \cup {NoCell}
    BY <1>2, CellOfType
  <2>1. CASE \E l \in G : l.price = q
    <3>1. PICK l \in G : l.price = q
      BY <2>1
    <3>2. LevelAt(s, q) = l
      BY <1>4, <3>1
    <3>3. CASE l \in near
      BY <1>12, <1>22, <1>23, <3>1, <3>2, <3>3 DEF LevelAt
    <3>4. CASE l \in away
      BY <1>13, <1>18, <1>23, <3>1, <3>2, <3>4 DEF LevelAt
    <3> QED
      BY <1>17, <3>3, <3>4
  <2>2. CASE \A l \in G : l.price # q
    <3>1. LevelAt(s, q) = EmptyLevel
      BY <2>2, NothingGathered DEF G
    <3>2. CASE c # NoCell
      <4>1. c \notin bits
        <5> SUFFICES ASSUME c \in bits PROVE FALSE
          OBVIOUS
        <5>1. PICK l \in near : CellOf(base, l.price) = c
          BY <1>21
        <5>2. l \in G /\ l.price \in Nat
          BY <1>4, <1>18
        <5>3. l.price = q
          BY <1>2, <3>2, <5>1, <5>2, CellOfInjective
        <5> QED
          BY <2>2, <5>2, <5>3
      <4> QED
        BY <1>23, <3>1, <3>2, <4>1 DEF LevelAt
    <3>3. CASE c = NoCell
      <4>1. q \notin DOMAIN far
        BY <1>11, <1>18, <2>2
      <4> QED
        BY <1>23, <3>1, <3>3, <4>1 DEF LevelAt
    <3> QED
      BY <3>2, <3>3
  <2> QED
    BY <2>1, <2>2
<1> QED
  BY <1>24, <1>25, <1>26, <1>27 DEF SideInv
-----------------------------------------------------------------------------
(***************************************************************************)
(* add, reduce and remove as a whole.                                      *)
(***************************************************************************)
LEMMA MovesOnlyAfter ==
  ASSUME NEW r, NEW s, NEW t, NEW u, NEW price \in Nat, NEW l, NEW m,
         \A q \in Nat : LevelAt(s, q) = LevelAt(r, q),
         MovesOnly(s, t, price, l),
         \A q \in Nat : LevelAt(u, q) = LevelAt(t, q),
         l = m
  PROVE  MovesOnly(r, u, price, m)
BY DEF MovesOnly

\* add(): whatever path it takes, the window moved or not, one level is raised.
LEMMA LevelsAddInv ==
  ASSUME NEW side, NEW s, SideInv(side, s), NEW price \in Nat, NEW shares \in Nat,
         NEW v, v = LevelsAdd(side, s, price, shares)
  PROVE  SideInv(side, v) /\ MovesOnly(s, v, price, Raised(LevelAt(s, price), price, shares))
<1> DEFINE t == FixBase(s, price)
           c == CellOf(t.base, price)
           u == AddToFar(t, price, shares)
           w == Rebase(side, u, price)
           new == Raised(LevelAt(s, price), price, shares)
<1>1. /\ SideInv(side, t)
      /\ \A q \in Nat : LevelAt(t, q) = LevelAt(s, q)
      /\ t.base = NoBase => ~WholeCent(price)
  BY FixBaseInv
<1>2. v = IF c # NoCell THEN AddToCell(side, t, c, price, shares)
          ELSE IF WholeCent(price) /\ BeatsArray(side, u, price) THEN w ELSE u
  BY DEF LevelsAdd
<1>3. Raised(LevelAt(t, price), price, shares) = new
  BY <1>1
<1> HIDE DEF t
<1>4. CASE c # NoCell
  <2>1. SideInv(side, v) /\ MovesOnly(t, v, price, Raised(LevelAt(t, price), price, shares))
    <3> DEFINE x == AddToCell(side, t, c, price, shares)
    <3>1. SideInv(side, x) /\ MovesOnly(t, x, price, Raised(LevelAt(t, price), price, shares))
      BY <1>1, <1>4, AddToCellInv
    <3>2. v = x
      BY <1>2, <1>4
    <3> QED
      BY <3>1, <3>2
  <2> QED
    BY <1>1, <1>3, <2>1, MovesOnlyAfter
<1>5. CASE c = NoCell
  <2>1. SideInv(side, u) /\ MovesOnly(t, u, price, Raised(LevelAt(t, price), price, shares))
    BY <1>1, <1>5, AddToFarInv
  <2>2. SideInv(side, w) /\ \A q \in Nat : LevelAt(w, q) = LevelAt(u, q)
    BY <2>1, RebaseInv
  <2> HIDE DEF u, w, c
  <2>3. SideInv(side, v) /\ \A q \in Nat : LevelAt(v, q) = LevelAt(u, q)
    BY <1>2, <1>5, <2>1, <2>2
  <2> QED
    BY <1>1, <1>3, <2>1, <2>3, MovesOnlyAfter
<1> QED
  BY <1>4, <1>5

\* A level with fewer shares and, when an order leaves, fewer orders; the last order
\* takes the level with it.
Lowered(l, shares, gone) ==
  IF l.orders = gone THEN EmptyLevel
  ELSE [price |-> l.price, shares |-> l.shares - shares, orders |-> l.orders - gone]

\* A level with two of its fields replaced, field by field.
LEMMA TwoFields ==
  ASSUME NEW l \in LevelType, NEW a, NEW b
  PROVE  [l EXCEPT !.shares = a, !.orders = b] = [price |-> l.price, shares |-> a, orders |-> b]
<1> DEFINE k == [l EXCEPT !.shares = a]
<1>1. k = [price |-> l.price, shares |-> a, orders |-> l.orders]
  BY DEF LevelType
<1>2. [l EXCEPT !.shares = a, !.orders = b] = [k EXCEPT !.orders = b]
  OBVIOUS
<1>3. [k EXCEPT !.orders = b] = [price |-> l.price, shares |-> a, orders |-> b]
  <2> HIDE DEF k
  <2> QED
    BY <1>1
<1> QED
  BY <1>2, <1>3

\* A level that keeps at least one order, after an order left it.
LEMMA LoweredRecord ==
  ASSUME NEW l \in LevelType, NEW shares \in Nat, l.orders \notin {0, 1}, shares <= l.shares
  PROVE  /\ Lowered(l, shares, 1) = [l EXCEPT !.shares = @ - shares, !.orders = @ - 1]
         /\ Lowered(l, shares, 1) \in LevelType /\ Lowered(l, shares, 1).price = l.price
         /\ Lowered(l, shares, 1).orders # 0
<1> DEFINE m == [price |-> l.price, shares |-> l.shares - shares, orders |-> l.orders - 1]
<1>1. Lowered(l, shares, 1) = m
  BY DEF Lowered
<1>2. l = [price |-> l.price, shares |-> l.shares, orders |-> l.orders]
      /\ l.price \in Nat /\ l.shares \in Nat /\ l.orders \in Nat
  BY DEF LevelType
<1>3. m = [l EXCEPT !.shares = @ - shares, !.orders = @ - 1]
  BY TwoFields
<1>4. m \in LevelType /\ m.price = l.price /\ m.orders # 0
  BY <1>2 DEF LevelType
<1> QED
  BY <1>1, <1>3, <1>4

\* Where the level of an order that rests is stored.
LEMMA HeldInCell ==
  ASSUME NEW side, NEW s, SideInv(side, s), NEW price \in Nat,
         LevelAt(s, price).orders # 0, NEW c, c = CellOf(s.base, price), c # NoCell
  PROVE  /\ c \in s.bits /\ c \in Cells /\ LevelAt(s, price) = s.cells[c]
         /\ s.cells[c] \in LevelType /\ s.cells[c].price = price
<1>1. /\ s.cells \in [Cells -> LevelType] /\ s.bits \in SUBSET Cells
      /\ s.base \in Nat \cup {NoBase}
  BY DEF SideInv, IsSide, SideType
<1>2. c \in s.bits /\ LevelAt(s, price) = s.cells[c]
  BY DEF LevelAt, EmptyLevel
<1>3. s.cells[c] \in LevelType /\ CellOf(s.base, s.cells[c].price) = c
  BY <1>1, <1>2 DEF SideInv, ArrayInv
<1>4. s.cells[c].price = price
  BY <1>1, <1>3, CellOfInjective DEF LevelType
<1> QED
  BY <1>1, <1>2, <1>3, <1>4

\* A level that is held and has no cell is in the map.
LEMMA HeldInFar ==
  ASSUME NEW side, NEW s, SideInv(side, s), NEW price \in Nat,
         LevelAt(s, price).orders # 0, CellOf(s.base, price) = NoCell
  PROVE  /\ price \in DOMAIN s.far /\ LevelAt(s, price) = s.far[price]
         /\ s.far[price] \in LevelType /\ s.far[price].price = price
<1>1. s.far \in [DOMAIN s.far -> LevelType]
  BY DEF SideInv, IsSide, SideType
<1>2. price \in DOMAIN s.far /\ LevelAt(s, price) = s.far[price]
  BY DEF LevelAt, EmptyLevel
<1> QED
  BY <1>1, <1>2 DEF SideInv, FarInv

\* Changing a cell that stays occupied.
LEMMA CellUpdated ==
  ASSUME NEW side, NEW s, SideInv(side, s), NEW c \in s.bits, NEW price \in Nat,
         c = CellOf(s.base, price), c # NoCell,
         NEW l \in LevelType, l.price = price, l.orders # 0,
         NEW t, t = [s EXCEPT !.cells[c] = l]
  PROVE  SideInv(side, t) /\ MovesOnly(s, t, price, l)
<1>1. /\ s.cells \in [Cells -> LevelType] /\ s.bits \in SUBSET Cells
      /\ s.base \in Nat \cup {NoBase} /\ s \in SideType(DOMAIN s.far)
      /\ DOMAIN s.far \subseteq Nat /\ c \in Cells
  BY DEF SideInv, IsSide, SideType
<1> DEFINE cells == [s.cells EXCEPT ![c] = l]
<1>2. /\ cells \in [Cells -> LevelType] /\ cells[c] = l
      /\ \A i \in Cells : i # c => cells[i] = s.cells[i]
  BY <1>1
<1>3. t = [s EXCEPT !.cells = cells]
  OBVIOUS
<1> HIDE DEF cells
<1>4. /\ t.base = s.base /\ t.alloc = s.alloc /\ t.cells = cells /\ t.bits = s.bits
      /\ t.count = s.count /\ t.best = s.best /\ t.far = s.far
      /\ t \in SideType(DOMAIN s.far)
  BY <1>1, <1>2, <1>3 DEF SideType
<1>5. ArrayInv(side, t)
  <2>1. \A i \in Cells : i \in s.bits <=> cells[i].orders # 0
    BY <1>2 DEF SideInv, ArrayInv
  <2>2. \A i \in Cells \ s.bits : cells[i].shares = 0
    BY <1>2 DEF SideInv, ArrayInv
  <2>3. \A i \in s.bits : CellOf(s.base, cells[i].price) = i
    BY <1>1, <1>2 DEF SideInv, ArrayInv
  <2> QED
    BY <1>4, <2>1, <2>2, <2>3 DEF SideInv, ArrayInv
<1>6. IsSide(t) /\ FarInv(t)
  BY <1>1, <1>4 DEF IsSide, SideInv, FarInv
<1>7. ASSUME NEW q \in Nat PROVE LevelAt(t, q) = IF q = price THEN l ELSE LevelAt(s, q)
  <2>1. CASE q = price
    BY <1>2, <1>4, <2>1 DEF LevelAt
  <2>2. CASE q # price
    <3>1. CellOf(s.base, q) # NoCell => CellOf(s.base, q) # c
      BY <1>1, <2>2, CellOfInjective
    <3>2. CellOf(s.base, q) \in Cells \cup {NoCell}
      BY <1>1, CellOfType
    <3> QED
      BY <1>2, <1>4, <2>2, <3>1, <3>2 DEF LevelAt
  <2> QED
    BY <2>1, <2>2
<1> QED
  BY <1>5, <1>6, <1>7 DEF SideInv, MovesOnly

\* Changing a level of the map that stays there.
LEMMA FarUpdated ==
  ASSUME NEW side, NEW s, SideInv(side, s), NEW price \in DOMAIN s.far,
         NEW l \in LevelType, l.price = price, l.orders # 0,
         NEW t, t = [s EXCEPT !.far[price] = l]
  PROVE  SideInv(side, t) /\ MovesOnly(s, t, price, l)
<1>1. /\ s.far \in [DOMAIN s.far -> LevelType] /\ s \in SideType(DOMAIN s.far)
      /\ DOMAIN s.far \subseteq Nat /\ price \in Nat
  BY DEF SideInv, IsSide, SideType
<1> DEFINE far == [s.far EXCEPT ![price] = l]
<1>2. /\ far \in [DOMAIN s.far -> LevelType] /\ DOMAIN far = DOMAIN s.far /\ far[price] = l
      /\ \A p \in DOMAIN s.far : p # price => far[p] = s.far[p]
  BY <1>1
<1>3. t = [s EXCEPT !.far = far]
  OBVIOUS
<1> HIDE DEF far
<1>4. /\ t.base = s.base /\ t.alloc = s.alloc /\ t.cells = s.cells /\ t.bits = s.bits
      /\ t.count = s.count /\ t.best = s.best /\ t.far = far
      /\ t \in SideType(DOMAIN far)
  BY <1>1, <1>2, <1>3 DEF SideType
<1>5. ArrayInv(side, t)
  BY <1>4 DEF SideInv, ArrayInv
<1>6. IsSide(t)
  BY <1>1, <1>2, <1>4 DEF IsSide
<1>7. FarInv(t)
  <2>1. \A p \in DOMAIN far : far[p].price = p /\ far[p].orders # 0
    BY <1>2 DEF SideInv, FarInv
  <2> QED
    BY <1>2, <1>4, <2>1 DEF SideInv, FarInv
<1>8. CellOf(s.base, price) = NoCell
  BY DEF SideInv, FarInv
<1>9. MovesOnly(s, t, price, l)
  BY <1>2, <1>4, <1>8 DEF MovesOnly, LevelAt
<1> QED
  BY <1>5, <1>6, <1>7, <1>9 DEF SideInv

\* reduce() lowers the shares of one level and changes nothing else.
LEMMA LevelsReduceInv ==
  ASSUME NEW side, NEW s, SideInv(side, s), NEW price \in Nat, NEW shares \in Nat,
         LevelAt(s, price).orders # 0, shares <= LevelAt(s, price).shares,
         NEW t, t = LevelsReduce(s, price, shares)
  PROVE  SideInv(side, t) /\ MovesOnly(s, t, price, Lowered(LevelAt(s, price), shares, 0))
<1> DEFINE c == CellOf(s.base, price)
           l == LevelAt(s, price)
           m == Lowered(l, shares, 0)
<1>1. CASE c # NoCell
  <2>1. c \in s.bits /\ c \in Cells /\ l = s.cells[c] /\ l \in LevelType /\ l.price = price
    <3> DEFINE d == c
    <3>1. d = CellOf(s.base, price) /\ d # NoCell
      BY <1>1
    <3> HIDE DEF d
    <3>2. d \in s.bits /\ d \in Cells /\ l = s.cells[d] /\ s.cells[d] \in LevelType
          /\ s.cells[d].price = price
      BY <3>1, HeldInCell
    <3> QED
      BY <3>2 DEF d
  <2>2. m = [l EXCEPT !.shares = @ - shares]
    BY <2>1 DEF Lowered, LevelType
  <2>3. m \in LevelType /\ m.price = price /\ m.orders # 0
    <3> HIDE DEF l
    <3>1. l \in LevelType /\ l.price = price /\ l.orders # 0 /\ shares <= l.shares
      BY <2>1 DEF l
    <3> QED
      BY <3>1 DEF Lowered, LevelType
  <2>4. t = [s EXCEPT !.cells[c] = m]
    <3>1. t = [s EXCEPT !.cells[c].shares = @ - shares]
      BY <1>1 DEF LevelsReduce
    <3>2. s.cells \in [Cells -> LevelType] /\ s \in SideType(DOMAIN s.far)
      BY DEF SideInv, IsSide, SideType
    <3> HIDE DEF c, m, l
    <3> QED
      BY <2>1, <2>2, <3>1, <3>2 DEF SideType
  <2> HIDE DEF m, c, l
  <2>5. c = CellOf(s.base, price)
    BY DEF c
  <2>6. SideInv(side, t) /\ MovesOnly(s, t, price, m)
    BY <1>1, <2>1, <2>3, <2>4, <2>5, CellUpdated
  <2> QED
    BY <2>6 DEF m, l
<1>2. CASE c = NoCell
  <2>1. price \in DOMAIN s.far /\ l = s.far[price] /\ l \in LevelType /\ l.price = price
    BY <1>2, HeldInFar
  <2>2. m = [l EXCEPT !.shares = @ - shares]
    BY <2>1 DEF Lowered, LevelType
  <2>3. m \in LevelType /\ m.price = price /\ m.orders # 0
    <3> HIDE DEF l
    <3>1. l \in LevelType /\ l.price = price /\ l.orders # 0 /\ shares <= l.shares
      BY <2>1 DEF l
    <3> QED
      BY <3>1 DEF Lowered, LevelType
  <2>4. t = [s EXCEPT !.far[price] = m]
    <3>1. t = [s EXCEPT !.far[price].shares = @ - shares]
      BY <1>2, <2>1 DEF LevelsReduce
    <3>2. s.far \in [DOMAIN s.far -> LevelType] /\ s \in SideType(DOMAIN s.far)
      BY DEF SideInv, IsSide, SideType
    <3> HIDE DEF m, l
    <3> QED
      BY <2>1, <2>2, <3>1, <3>2 DEF SideType
  <2> HIDE DEF m, l
  <2>5. SideInv(side, t) /\ MovesOnly(s, t, price, m)
    BY <2>1, <2>3, <2>4, FarUpdated
  <2> QED
    BY <2>5 DEF m, l
<1> QED
  BY <1>1, <1>2
\* Freeing a cell: with the cached best scanned again the side is whole.
Freed(side, s, c) ==
  [s EXCEPT !.cells[c] = [@ EXCEPT !.orders = 0, !.shares = 0],
            !.bits = @ \ {c}, !.count = @ - 1,
            !.best = ScanBest(side, s.bits \ {c})]

\* Emptying a cell and rescanning for the best removes that level and no other.
LEMMA CellFreed ==
  ASSUME NEW side, NEW s, SideInv(side, s), NEW c \in s.bits, NEW price \in Nat,
         c = CellOf(s.base, price), c # NoCell,
         NEW t, t = Freed(side, s, c)
  PROVE  SideInv(side, t) /\ MovesOnly(s, t, price, EmptyLevel)
<1>1. /\ s.cells \in [Cells -> LevelType] /\ s.bits \in SUBSET Cells
      /\ s.base \in Nat \cup {NoBase} /\ s \in SideType(DOMAIN s.far)
      /\ DOMAIN s.far \subseteq Nat /\ c \in Cells /\ s.count \in Nat
      /\ s.alloc \in BOOLEAN /\ s.far \in [DOMAIN s.far -> LevelType]
  BY DEF SideInv, IsSide, SideType
<1> DEFINE cells == [s.cells EXCEPT ![c] = [s.cells[c] EXCEPT !.orders = 0, !.shares = 0]]
           bits == s.bits \ {c}
           count == s.count - 1
           best == ScanBest(side, bits)
<1>2. /\ cells \in [Cells -> LevelType] /\ cells[c].orders = 0 /\ cells[c].shares = 0
      /\ \A i \in Cells : i # c => cells[i] = s.cells[i]
  <2>1. s.cells[c] \in LevelType
    BY <1>1
  <2>2. [s.cells[c] EXCEPT !.orders = 0, !.shares = 0] \in LevelType
        /\ [s.cells[c] EXCEPT !.orders = 0, !.shares = 0].orders = 0
        /\ [s.cells[c] EXCEPT !.orders = 0, !.shares = 0].shares = 0
    BY <2>1 DEF LevelType
  <2> QED
    BY <1>1, <2>2
<1>3. count = Cardinality(bits) /\ count \in Nat
  <2>1. IsFiniteSet(s.bits)
    BY <1>1, CellsFinite, FS_Subset
  <2>2. Cardinality(bits) = Cardinality(s.bits) - 1 /\ IsFiniteSet(bits)
    BY <2>1, FS_RemoveElement
  <2>3. s.count = Cardinality(s.bits)
    BY DEF SideInv, ArrayInv
  <2>4. Cardinality(bits) \in Nat
    BY <2>2, FS_CardinalityType
  <2> HIDE DEF bits
  <2> QED
    BY <2>2, <2>3, <2>4
<1>4. bits \in SUBSET Cells /\ bits \subseteq s.bits /\ c \notin bits
      /\ \A i \in s.bits : i # c => i \in bits
  BY <1>1
<1>5. best \in Cells \cup {NoCell}
  BY <1>4, ScanBestType
<1>6. t = [base |-> s.base, alloc |-> s.alloc, cells |-> cells, bits |-> bits,
           count |-> count, best |-> best, far |-> s.far]
  BY <1>1 DEF SideType, Freed
<1> HIDE DEF cells, count, bits, best
<1>7. /\ t.base = s.base /\ t.alloc = s.alloc /\ t.cells = cells /\ t.bits = bits
      /\ t.count = count /\ t.best = best /\ t.far = s.far
      /\ t \in SideType(DOMAIN s.far)
  <2>1. t \in SideType(DOMAIN s.far)
    BY <1>1, <1>2, <1>3, <1>4, <1>5, <1>6 DEF SideType
  <2> QED
    BY <1>6, <2>1
<1>8. ArrayInv(side, t)
  <2>1. \A i \in Cells : i \in bits <=> cells[i].orders # 0
    BY <1>1, <1>2, <1>4 DEF SideInv, ArrayInv
  <2>2. \A i \in Cells \ bits : cells[i].shares = 0
    BY <1>1, <1>2, <1>4 DEF SideInv, ArrayInv
  <2>3. \A i \in bits : CellOf(s.base, cells[i].price) = i
    BY <1>1, <1>2, <1>4 DEF SideInv, ArrayInv
  <2>4. bits # {} => s.alloc
    BY <1>4 DEF SideInv, ArrayInv
  <2> QED
    BY <1>3, <1>7, <2>1, <2>2, <2>3, <2>4 DEF ArrayInv, best
<1>9. IsSide(t) /\ FarInv(t)
  BY <1>1, <1>7 DEF IsSide, SideInv, FarInv
<1>10. ASSUME NEW q \in Nat
       PROVE  LevelAt(t, q) = IF q = price THEN EmptyLevel ELSE LevelAt(s, q)
  <2>1. CASE q = price
    BY <1>4, <1>7, <2>1 DEF LevelAt
  <2>2. CASE q # price
    <3>1. CellOf(s.base, q) # NoCell => CellOf(s.base, q) # c
      BY <1>1, <2>2, CellOfInjective
    <3>2. CellOf(s.base, q) \in Cells \cup {NoCell}
      BY <1>1, CellOfType
    <3> QED
      BY <1>2, <1>4, <1>7, <2>2, <3>1, <3>2 DEF LevelAt
  <2> QED
    BY <2>1, <2>2
<1> QED
  BY <1>8, <1>9, <1>10 DEF SideInv, MovesOnly

\* Following the market after the best cell emptied moves no level.
LEMMA AfterBestEmptiedInv ==
  ASSUME NEW side, NEW s, NEW t, t = [s EXCEPT !.best = ScanBest(side, s.bits)],
         SideInv(side, t), NEW u, u = AfterBestEmptied(side, s)
  PROVE  SideInv(side, u) /\ \A q \in Nat : LevelAt(u, q) = LevelAt(t, q)
<1> DEFINE fb == FarBestPrice(side, t)
<1>1. \/ u = t
      \/ DOMAIN t.far # {} /\ u = Rebase(side, t, fb)
  BY DEF AfterBestEmptied
<1>2. CASE DOMAIN t.far # {} /\ u = Rebase(side, t, fb)
  <2>1. fb \in Nat
    BY <1>2, FarBestType DEF SideInv
  <2> QED
    BY <1>2, <2>1, RebaseInv
<1> QED
  BY <1>1, <1>2

\* Emptying a cell that is not the best leaves the best as it was.
LEMMA ScanBestWithout ==
  ASSUME NEW side, NEW bits \in SUBSET Cells, NEW c \in bits, ScanBest(side, bits) # c
  PROVE  ScanBest(side, bits \ {c}) = ScanBest(side, bits)
<1> DEFINE b == ScanBest(side, bits)
<1>1. IsBest(side, b, bits)
  BY ScanBestType
<1>2. IsBest(side, b, bits \ {c}) /\ bits \ {c} # {}
  BY <1>1 DEF IsBest
<1>3. bits \ {c} \in SUBSET Int
  BY SpanAssumption DEF Cells
<1>4. BestOf(side, bits \ {c}) = b
  BY <1>2, <1>3, BestIsUnique
<1> QED
  BY <1>2, <1>4 DEF ScanBest

\* remove() inside the window, whether or not the market is followed afterwards.
LEMMA RemoveFromCellInv ==
  ASSUME NEW side, NEW s, SideInv(side, s), NEW c \in s.bits, NEW price \in Nat,
         c = CellOf(s.base, price), c # NoCell, NEW shares \in Nat,
         s.cells[c].price = price, shares <= s.cells[c].shares,
         NEW v, v = RemoveFromCell(side, s, c, shares)
  PROVE  SideInv(side, v) /\ MovesOnly(s, v, price, Lowered(s.cells[c], shares, 1))
<1>1. /\ s.cells \in [Cells -> LevelType] /\ s.bits \in SUBSET Cells
      /\ s \in SideType(DOMAIN s.far) /\ c \in Cells
      /\ s.best = ScanBest(side, s.bits)
  BY DEF SideInv, IsSide, SideType, ArrayInv
<1> DEFINE l == s.cells[c]
           m == Lowered(l, shares, 1)
           t == [s EXCEPT !.cells[c].orders = 0, !.cells[c].shares = 0,
                          !.bits = @ \ {c}, !.count = @ - 1]
           u == Freed(side, s, c)
<1>2. l \in LevelType /\ l.orders # 0
  BY <1>1 DEF SideInv, ArrayInv
<1>3. CASE l.orders # 1
  <2> HIDE DEF l
  <2>0. l.price = price /\ shares <= l.shares
    BY <1>2 DEF l
  <2>1. m = [l EXCEPT !.shares = @ - shares, !.orders = @ - 1]
    BY <1>2, <1>3, <2>0, LoweredRecord
  <2>2. m \in LevelType /\ m.price = price /\ m.orders # 0
    BY <1>2, <1>3, <2>0, LoweredRecord
  <2>3. v = [s EXCEPT !.cells[c] = m]
    <3> DEFINE x == [s.cells[c] EXCEPT !.shares = @ - shares, !.orders = @ - 1]
    <3>1. v = [s EXCEPT !.cells[c] = x]
      BY <1>3 DEF RemoveFromCell, l
    <3>2. m = x
      BY <2>1 DEF l
    <3> HIDE DEF m, x
    <3> QED
      BY <3>1, <3>2
  <2> HIDE DEF m
  <2>4. SideInv(side, v) /\ MovesOnly(s, v, price, m)
    BY <2>2, <2>3, CellUpdated
  <2> QED
    BY <2>4 DEF m, l
<1>4. CASE l.orders = 1
  <2>1. SideInv(side, u) /\ MovesOnly(s, u, price, EmptyLevel)
    BY CellFreed
  <2>2. m = EmptyLevel
    BY <1>4 DEF Lowered
  <2>3. u = [t EXCEPT !.best = ScanBest(side, s.bits \ {c})] /\ t.bits = s.bits \ {c}
        /\ t.best = s.best /\ t = [t EXCEPT !.best = t.best]
    <3>1. u = [t EXCEPT !.best = ScanBest(side, s.bits \ {c})]
      BY <1>1 DEF SideType, Freed
    <3>2. t.bits = s.bits \ {c} /\ t.best = s.best
      BY <1>1 DEF SideType
    <3>3. t = [t EXCEPT !.best = t.best]
      BY <1>1 DEF SideType
    <3> QED
      BY <3>1, <3>2, <3>3
  <2>4. v = IF s.best = c THEN AfterBestEmptied(side, t) ELSE t
    BY <1>4 DEF RemoveFromCell
  <2> HIDE DEF t, u, m
  <2>5. CASE s.best = c
    <3>1. u = [t EXCEPT !.best = ScanBest(side, t.bits)]
      BY <2>3
    <3>2. v = AfterBestEmptied(side, t)
      BY <2>4, <2>5
    <3>3. SideInv(side, v) /\ \A q \in Nat : LevelAt(v, q) = LevelAt(u, q)
      BY <2>1, <3>1, <3>2, AfterBestEmptiedInv
    <3>4. MovesOnly(s, v, price, EmptyLevel)
      BY <2>1, <3>3 DEF MovesOnly
    <3> QED
      BY <2>2, <3>3, <3>4 DEF m
  <2>6. CASE s.best # c
    <3>1. ScanBest(side, s.bits \ {c}) = s.best
      BY <1>1, <2>6, ScanBestWithout
    <3>2. u = t
      BY <2>3, <3>1
    <3> QED
      BY <2>1, <2>2, <2>4, <2>6, <3>2 DEF m
  <2> QED
    BY <2>5, <2>6
<1> QED
  BY <1>3, <1>4

\* remove() in the map.
LEMMA RemoveFromFarInv ==
  ASSUME NEW side, NEW s, SideInv(side, s), NEW price \in DOMAIN s.far, NEW shares \in Nat,
         shares <= s.far[price].shares,
         NEW v, v = RemoveFromFar(s, price, shares)
  PROVE  SideInv(side, v) /\ MovesOnly(s, v, price, Lowered(s.far[price], shares, 1))
<1>1. /\ s.far \in [DOMAIN s.far -> LevelType] /\ s \in SideType(DOMAIN s.far)
      /\ DOMAIN s.far \subseteq Nat /\ price \in Nat
  BY DEF SideInv, IsSide, SideType
<1> DEFINE l == s.far[price]
           m == Lowered(l, shares, 1)
           far == Drop(s.far, price)
<1>2. l \in LevelType /\ l.orders # 0 /\ l.price = price /\ CellOf(s.base, price) = NoCell
  BY <1>1 DEF SideInv, FarInv
<1>3. CASE l.orders # 1
  <2> HIDE DEF l
  <2>0. l.price = price /\ shares <= l.shares
    BY <1>2 DEF l
  <2>1. m = [l EXCEPT !.shares = @ - shares, !.orders = @ - 1]
    BY <1>2, <1>3, <2>0, LoweredRecord
  <2>2. m \in LevelType /\ m.price = price /\ m.orders # 0
    BY <1>2, <1>3, <2>0, LoweredRecord
  <2>3. v = [s EXCEPT !.far[price] = m]
    <3> DEFINE x == [s.far[price] EXCEPT !.shares = @ - shares, !.orders = @ - 1]
    <3>1. v = [s EXCEPT !.far[price] = x]
      BY <1>3 DEF RemoveFromFar, l
    <3>2. m = x
      BY <2>1 DEF l
    <3> HIDE DEF m, x
    <3> QED
      BY <3>1, <3>2
  <2> HIDE DEF m
  <2>4. SideInv(side, v) /\ MovesOnly(s, v, price, m)
    BY <2>2, <2>3, FarUpdated
  <2> QED
    BY <2>4 DEF m, l
<1>4. CASE l.orders = 1
  <2>1. m = EmptyLevel
    BY <1>4 DEF Lowered
  <2>2. v = [s EXCEPT !.far = far]
    BY <1>4 DEF RemoveFromFar
  <2>3. /\ DOMAIN far = DOMAIN s.far \ {price} /\ far \in [DOMAIN far -> LevelType]
        /\ \A p \in DOMAIN far : far[p] = s.far[p]
    BY <1>1 DEF Drop, Restrict
  <2> HIDE DEF far, m, l
  <2>4. /\ v.base = s.base /\ v.alloc = s.alloc /\ v.cells = s.cells /\ v.bits = s.bits
        /\ v.count = s.count /\ v.best = s.best /\ v.far = far
        /\ v \in SideType(DOMAIN far)
    BY <1>1, <2>2, <2>3 DEF SideType
  <2>5. ArrayInv(side, v)
    BY <2>4 DEF SideInv, ArrayInv
  <2>6. IsSide(v)
    BY <1>1, <2>3, <2>4 DEF IsSide
  <2>7. IsFiniteSet(DOMAIN far)
    BY <2>3, FS_Subset DEF SideInv, FarInv
  <2>8. FarInv(v)
    BY <2>3, <2>4, <2>7 DEF SideInv, FarInv
  <2>9. MovesOnly(s, v, price, EmptyLevel)
    BY <1>2, <2>3, <2>4 DEF MovesOnly, LevelAt
  <2> QED
    BY <2>1, <2>5, <2>6, <2>8, <2>9 DEF SideInv, m, l
<1> QED
  BY <1>3, <1>4

\* remove() lowers one level by an order and its shares and changes nothing else.
LEMMA LevelsRemoveInv ==
  ASSUME NEW side, NEW s, SideInv(side, s), NEW price \in Nat, NEW shares \in Nat,
         LevelAt(s, price).orders # 0, shares <= LevelAt(s, price).shares,
         NEW v, v = LevelsRemove(side, s, price, shares)
  PROVE  SideInv(side, v) /\ MovesOnly(s, v, price, Lowered(LevelAt(s, price), shares, 1))
<1> DEFINE c == CellOf(s.base, price)
<1>1. c = CellOf(s.base, price)
  OBVIOUS
<1>2. v = IF c # NoCell THEN RemoveFromCell(side, s, c, shares)
          ELSE IF price \in DOMAIN s.far THEN RemoveFromFar(s, price, shares) ELSE s
  BY DEF LevelsRemove
<1> HIDE DEF c
<1>3. CASE c # NoCell
  <2>1. c \in s.bits /\ LevelAt(s, price) = s.cells[c] /\ s.cells[c].price = price
    BY <1>1, <1>3, HeldInCell
  <2>2. v = RemoveFromCell(side, s, c, shares)
    BY <1>2, <1>3
  <2> QED
    BY <1>1, <1>3, <2>1, <2>2, RemoveFromCellInv
<1>4. CASE c = NoCell
  <2>1. price \in DOMAIN s.far /\ LevelAt(s, price) = s.far[price]
    <3>1. CellOf(s.base, price) = NoCell
      BY <1>1, <1>4
    <3> QED
      BY <3>1, HeldInFar
  <2>2. v = RemoveFromFar(s, price, shares)
    BY <1>2, <1>4, <2>1
  <2> QED
    BY <2>1, <2>2, RemoveFromFarInv
<1> QED
  BY <1>3, <1>4

\* An empty side, and one whose array has been allocated ahead of use.
LEMMA NewLevelsInv ==
  ASSUME NEW side, NEW s, s = NewLevels(0)
  PROVE  SideInv(side, s) /\ \A q \in Nat : LevelAt(s, q) = EmptyLevel
<1> DEFINE none == [p \in {} |-> EmptyLevel]
           cells == [i \in Cells |-> EmptyLevel]
<1>1. s = [base |-> NoBase, alloc |-> FALSE, cells |-> cells, bits |-> {}, count |-> 0,
           best |-> NoCell, far |-> none]
  BY DEF NewLevels
<1>2. DOMAIN none = {} /\ none \in [{} -> LevelType]
  OBVIOUS
<1>3. cells \in [Cells -> LevelType] /\ \A i \in Cells : cells[i].orders = 0 /\ cells[i].shares = 0
  BY DEF EmptyLevel, LevelType
<1> HIDE DEF none, cells
<1>4. /\ s.base = NoBase /\ s.cells = cells /\ s.bits = {} /\ s.count = 0
      /\ s.best = NoCell /\ s.far = none /\ s \in SideType({})
  <2>1. NoBase \in Nat \cup {NoBase} /\ NoCell \in Cells \cup {NoCell} /\ {} \in SUBSET Cells
    OBVIOUS
  <2>2. s \in SideType({})
    BY <1>1, <1>2, <1>3, <2>1, FALSE \in BOOLEAN, 0 \in Nat, SideTypeRecord
  <2> QED
    BY <1>1, <2>2
<1>5. IsSide(s)
  BY <1>2, <1>4 DEF IsSide
<1>6. ArrayInv(side, s)
  <2>1. Cardinality({}) = 0
    BY FS_EmptySet
  <2>2. ScanBest(side, {}) = NoCell
    BY DEF ScanBest
  <2> QED
    BY <1>3, <1>4, <2>1, <2>2 DEF ArrayInv
<1>7. FarInv(s)
  BY <1>2, <1>4, FS_EmptySet DEF FarInv
<1> QED
  BY <1>2, <1>4, <1>5, <1>6, <1>7 DEF SideInv, LevelAt

\* Allocating the arrays changes no level.
LEMMA EnsureCellsInv ==
  ASSUME NEW side, NEW s, SideInv(side, s), NEW t, t = EnsureCells(s)
  PROVE  SideInv(side, t) /\ \A q \in Nat : LevelAt(t, q) = LevelAt(s, q)
<1>1. s \in SideType(DOMAIN s.far)
  BY DEF SideInv, IsSide
<1>2. /\ t.base = s.base /\ t.alloc = TRUE /\ t.cells = s.cells /\ t.bits = s.bits
      /\ t.count = s.count /\ t.best = s.best /\ t.far = s.far
      /\ t \in SideType(DOMAIN t.far)
  BY <1>1 DEF EnsureCells, SideType
<1>3. IsSide(t) /\ ArrayInv(side, t) /\ FarInv(t)
  BY <1>2 DEF SideInv, IsSide, ArrayInv, FarInv
<1> QED
  BY <1>2, <1>3 DEF SideInv, LevelAt

-----------------------------------------------------------------------------
(***************************************************************************)
(* The book: its orders and its two sides agree.                           *)
(***************************************************************************)
\* The levels of one side are what its orders add up to, at every price.
Agrees(s, o, d) ==
  \A p \in Nat : LevelAt(s, p).orders = NumAt(o, d, p) /\ LevelAt(s, p).shares = SumAt(o, d, p)

BookShape(b) ==
  b = [orders |-> b.orders, side |-> b.side, order_shares |-> b.order_shares,
       level_shares |-> b.level_shares, level_orders |-> b.level_orders]

BookInv(b) ==
  /\ BookShape(b)
  /\ IsOrderMap(b.orders)
  /\ DOMAIN b.side = Sides
  /\ \A d \in Sides : SideInv(d, b.side[d]) /\ Agrees(b.side[d], b.orders, d)
  /\ b.order_shares = SumAll(b.orders)
  /\ b.level_shares = SumAll(b.orders)
  /\ b.level_orders = NumAll(b.orders)

-----------------------------------------------------------------------------
(***************************************************************************)
(* The invariant implies the properties.                                   *)
(***************************************************************************)
\* The invariant implies the type of a book.
LEMMA BookInvIsBook ==
  ASSUME NEW b, BookInv(b)
  PROVE  IsBook(b)
<1>1. IsOrderMap(b.orders) /\ DifferAt(b.orders, b.orders, 0)
  BY DEF BookInv, DifferAt
<1>2. SumAll(b.orders) \in Nat /\ NumAll(b.orders) \in Nat
  BY <1>1, SumsChangeAll
<1>3. \A d \in Sides : IsSide(b.side[d])
  BY DEF BookInv, SideInv
<1> QED
  BY <1>1, <1>2, <1>3 DEF BookInv, BookShape, IsBook, IsOrderMap

\* The invariant implies that occupied cells are allocated.
LEMMA BookInvCells ==
  ASSUME NEW b, BookInv(b), NEW d \in Sides
  PROVE  b.side[d].bits # {} \/ b.side[d].best # NoCell => b.side[d].alloc
<1>1. SideInv(d, b.side[d])
  BY DEF BookInv
<1>2. b.side[d].bits \in SUBSET Cells
  BY <1>1 DEF SideInv, IsSide, SideType
<1>3. b.side[d].best # NoCell => b.side[d].bits # {}
  BY <1>1 DEF SideInv, ArrayInv, ScanBest
<1> QED
  BY <1>1, <1>3 DEF SideInv, ArrayInv

-----------------------------------------------------------------------------
(***************************************************************************)
(* Orders in the map and the levels they are part of.                      *)
(***************************************************************************)
\* The level of a live order holds at least that order.
LEMMA LiveOrderIsHeld ==
  ASSUME NEW b, BookInv(b), NEW ref \in DOMAIN b.orders
  PROVE  LET o == b.orders[ref]
             l == LevelAt(b.side[o.side], o.price)
         IN  /\ o \in OrderType /\ o.side \in Sides /\ o.price \in Nat /\ o.qty \in Nat
             /\ SideInv(o.side, b.side[o.side])
             /\ l.orders \in Nat /\ l.orders # 0 /\ l.shares \in Nat /\ o.qty <= l.shares
<1> DEFINE o == b.orders[ref]
           q == Drop(b.orders, ref)
<1>1. o \in OrderType /\ o.side \in Sides /\ o.price \in Nat /\ o.qty \in Nat
  BY DEF BookInv, IsOrderMap, OrderType
<1>2. IsOrderMap(b.orders) /\ IsOrderMap(q) /\ DifferAt(b.orders, q, ref) /\ ref \notin DOMAIN q
  BY DropOrder DEF BookInv
<1> HIDE DEF q
<1>3. /\ OneAt(b.orders, ref, o.side, o.price) = 1 /\ OneAt(q, ref, o.side, o.price) = 0
      /\ QtyAt(b.orders, ref, o.side, o.price) = o.qty /\ QtyAt(q, ref, o.side, o.price) = 0
  BY <1>2 DEF OneAt, QtyAt, IsAt
<1>4. /\ NumAt(b.orders, o.side, o.price) \in Nat /\ SumAt(b.orders, o.side, o.price) \in Nat
      /\ NumAt(q, o.side, o.price) \in Nat /\ SumAt(q, o.side, o.price) \in Nat
      /\ NumAt(q, o.side, o.price) = NumAt(b.orders, o.side, o.price)
           - OneAt(b.orders, ref, o.side, o.price) + OneAt(q, ref, o.side, o.price)
      /\ SumAt(q, o.side, o.price) = SumAt(b.orders, o.side, o.price)
           - QtyAt(b.orders, ref, o.side, o.price) + QtyAt(q, ref, o.side, o.price)
  BY <1>2, SumsChangeAt
<1>5. /\ LevelAt(b.side[o.side], o.price).orders = NumAt(b.orders, o.side, o.price)
      /\ LevelAt(b.side[o.side], o.price).shares = SumAt(b.orders, o.side, o.price)
  BY <1>1 DEF BookInv, Agrees
<1>6. SideInv(o.side, b.side[o.side])
  BY <1>1 DEF BookInv
<1> HIDE DEF o
<1>7. NumAt(b.orders, o.side, o.price) # 0 /\ o.qty <= SumAt(b.orders, o.side, o.price)
  BY <1>1, <1>3, <1>4
<1> QED
  BY <1>1, <1>4, <1>5, <1>6, <1>7 DEF o

\* An order on the other side changes nothing on this one.
LEMMA OtherSideAgrees ==
  ASSUME NEW o, NEW q, IsOrderMap(o), IsOrderMap(q), NEW ref, DifferAt(o, q, ref),
         NEW d, NEW s, Agrees(s, o, d),
         ref \in DOMAIN o => o[ref].side # d, ref \in DOMAIN q => q[ref].side # d
  PROVE  Agrees(s, q, d)
<1> SUFFICES ASSUME NEW p \in Nat
             PROVE  NumAt(q, d, p) = NumAt(o, d, p) /\ SumAt(q, d, p) = SumAt(o, d, p)
  BY DEF Agrees
<1>1. /\ OneAt(o, ref, d, p) = 0 /\ OneAt(q, ref, d, p) = 0
      /\ QtyAt(o, ref, d, p) = 0 /\ QtyAt(q, ref, d, p) = 0
  BY DEF OneAt, QtyAt, IsAt
<1> QED
  BY <1>1, SumsChangeAt

\* A side whose level at the price of one order changed with that order.
LEMMA SameSideAgrees ==
  ASSUME NEW o, NEW q, IsOrderMap(o), IsOrderMap(q), NEW ref, DifferAt(o, q, ref),
         NEW d, NEW s, Agrees(s, o, d), NEW price \in Nat,
         ref \in DOMAIN o => o[ref].side = d /\ o[ref].price = price,
         ref \in DOMAIN q => q[ref].side = d /\ q[ref].price = price,
         NEW t, NEW l, MovesOnly(s, t, price, l),
         l.orders = NumAt(q, d, price), l.shares = SumAt(q, d, price)
  PROVE  Agrees(t, q, d)
<1> SUFFICES ASSUME NEW p \in Nat
             PROVE  LevelAt(t, p).orders = NumAt(q, d, p) /\ LevelAt(t, p).shares = SumAt(q, d, p)
  BY DEF Agrees
<1>1. CASE p = price
  BY <1>1 DEF MovesOnly
<1>2. CASE p # price
  <2>1. /\ OneAt(o, ref, d, p) = 0 /\ OneAt(q, ref, d, p) = 0
        /\ QtyAt(o, ref, d, p) = 0 /\ QtyAt(q, ref, d, p) = 0
    BY <1>2 DEF OneAt, QtyAt, IsAt
  <2>2. NumAt(q, d, p) = NumAt(o, d, p) /\ SumAt(q, d, p) = SumAt(o, d, p)
    BY <2>1, SumsChangeAt
  <2>3. LevelAt(t, p) = LevelAt(s, p)
    BY <1>2 DEF MovesOnly
  <2> QED
    BY <2>2, <2>3 DEF Agrees
<1> QED
  BY <1>1, <1>2

-----------------------------------------------------------------------------
(***************************************************************************)
(* Each operation preserves BookInv.                                       *)
(***************************************************************************)
\* What a book is after one side and one order changed.
LEMMA OneSideChanged ==
  ASSUME NEW b, BookInv(b), NEW ref, NEW d \in Sides, NEW q, IsOrderMap(q),
         DifferAt(b.orders, q, ref),
         ref \in DOMAIN b.orders => b.orders[ref].side = d,
         ref \in DOMAIN q => q[ref].side = d,
         NEW t, SideInv(d, t), Agrees(t, q, d),
         NEW c, c = [orders |-> q, side |-> [b.side EXCEPT ![d] = t], order_shares |-> SumAll(q),
                     level_shares |-> SumAll(q), level_orders |-> NumAll(q)]
  PROVE  BookInv(c)
<1>1. /\ c.orders = q /\ c.side = [b.side EXCEPT ![d] = t] /\ c.order_shares = SumAll(q)
      /\ c.level_shares = SumAll(q) /\ c.level_orders = NumAll(q)
      /\ BookShape(c)
  BY DEF BookShape
<1>2. DOMAIN b.side = Sides
  BY DEF BookInv
<1>3. DOMAIN c.side = Sides /\ c.side[d] = t /\ \A e \in Sides : e # d => c.side[e] = b.side[e]
  BY <1>1, <1>2
<1>4. ASSUME NEW e \in Sides
      PROVE  SideInv(e, c.side[e]) /\ Agrees(c.side[e], c.orders, e)
  <2>1. CASE e = d
    BY <1>1, <1>3, <2>1
  <2>2. CASE e # d
    <3>1. SideInv(e, b.side[e]) /\ Agrees(b.side[e], b.orders, e) /\ IsOrderMap(b.orders)
      BY DEF BookInv
    <3>2. (ref \in DOMAIN b.orders => b.orders[ref].side # e)
          /\ (ref \in DOMAIN q => q[ref].side # e)
      BY <2>2
    <3>3. Agrees(b.side[e], q, e)
      BY <3>1, <3>2, OtherSideAgrees
    <3> QED
      BY <1>1, <1>3, <2>2, <3>1, <3>3
  <2> QED
    BY <2>1, <2>2
<1> QED
  BY <1>1, <1>3, <1>4 DEF BookInv

\* add() preserves the invariant.
LEMMA BookAddInv ==
  ASSUME NEW b, BookInv(b), NEW ref, ref \notin DOMAIN b.orders, NEW d \in Sides,
         NEW n \in Nat, NEW price \in Nat, NEW r, r = BookAdd(b, ref, d, n, price)
  PROVE  BookInv(r.book) /\ r.result \in ApplyResults
<1> DEFINE x == [side |-> d, price |-> price, qty |-> n]
           q == Put(b.orders, ref, x)
           s == b.side[d]
           t == LevelsAdd(d, s, price, n)
           l == Raised(LevelAt(s, price), price, n)
           c == [b EXCEPT !.orders = q, !.side[d] = t, !.order_shares = @ + n,
                          !.level_shares = @ + n, !.level_orders = @ + 1]
<1>1. r = Done(b, "DuplicateRef") \/ r = Done(c, "Applied")
  BY DEF BookAdd
<1>2. x \in OrderType /\ x.side = d /\ x.price = price /\ x.qty = n
  BY DEF OrderType
<1>3. IsOrderMap(b.orders) /\ SideInv(d, s) /\ Agrees(s, b.orders, d)
  BY DEF BookInv
<1> HIDE DEF x, s
<1>4. IsOrderMap(q) /\ DifferAt(b.orders, q, ref) /\ ref \in DOMAIN q /\ q[ref] = x
  BY <1>2, <1>3, PutOrder
<1>5. SideInv(d, t) /\ MovesOnly(s, t, price, l)
  BY <1>3, LevelsAddInv
<1> HIDE DEF q, t
<1>6. NumAt(q, d, price) = NumAt(b.orders, d, price) + 1
      /\ SumAt(q, d, price) = SumAt(b.orders, d, price) + n
      /\ NumAll(q) = NumAll(b.orders) + 1 /\ SumAll(q) = SumAll(b.orders) + n
  <2>1. /\ OneAt(b.orders, ref, d, price) = 0 /\ OneAt(q, ref, d, price) = 1
        /\ QtyAt(b.orders, ref, d, price) = 0 /\ QtyAt(q, ref, d, price) = n
        /\ OneOf(b.orders, ref) = 0 /\ OneOf(q, ref) = 1
        /\ QtyOf(b.orders, ref) = 0 /\ QtyOf(q, ref) = n
    BY <1>2, <1>4 DEF OneAt, QtyAt, IsAt, OneOf, QtyOf
  <2>2. /\ NumAt(b.orders, d, price) \in Nat /\ SumAt(b.orders, d, price) \in Nat
        /\ NumAt(q, d, price) = NumAt(b.orders, d, price)
             - OneAt(b.orders, ref, d, price) + OneAt(q, ref, d, price)
        /\ SumAt(q, d, price) = SumAt(b.orders, d, price)
             - QtyAt(b.orders, ref, d, price) + QtyAt(q, ref, d, price)
    BY <1>3, <1>4, SumsChangeAt
  <2>3. /\ NumAll(b.orders) \in Nat /\ SumAll(b.orders) \in Nat
        /\ NumAll(q) = NumAll(b.orders) - OneOf(b.orders, ref) + OneOf(q, ref)
        /\ SumAll(q) = SumAll(b.orders) - QtyOf(b.orders, ref) + QtyOf(q, ref)
    BY <1>3, <1>4, SumsChangeAll
  <2> QED
    BY <2>1, <2>2, <2>3
<1>7. l.orders = NumAt(q, d, price) /\ l.shares = SumAt(q, d, price)
  BY <1>3, <1>6 DEF Agrees, Raised
<1> HIDE DEF l
<1>8. Agrees(t, q, d)
  BY <1>2, <1>3, <1>4, <1>5, <1>7, SameSideAgrees
<1>9. c = [orders |-> q, side |-> [b.side EXCEPT ![d] = t], order_shares |-> SumAll(q),
           level_shares |-> SumAll(q), level_orders |-> NumAll(q)]
  <2>1. /\ b.order_shares = SumAll(b.orders) /\ b.level_shares = SumAll(b.orders)
        /\ b.level_orders = NumAll(b.orders) /\ BookShape(b)
    BY DEF BookInv
  <2>2. ASSUME NEW e, e = [b EXCEPT !.orders = q, !.side[d] = t, !.order_shares = @ + n,
                                    !.level_shares = @ + n, !.level_orders = @ + 1]
        PROVE  e = [orders |-> q, side |-> [b.side EXCEPT ![d] = t],
                    order_shares |-> b.order_shares + n, level_shares |-> b.level_shares + n,
                    level_orders |-> b.level_orders + 1]
    BY <2>1, <2>2 DEF BookShape
  <2>3. c = [orders |-> q, side |-> [b.side EXCEPT ![d] = t], order_shares |-> b.order_shares + n,
             level_shares |-> b.level_shares + n, level_orders |-> b.level_orders + 1]
    BY <2>2, Zenon
  <2> HIDE DEF c
  <2> QED
    BY <1>6, <2>1, <2>3
<1> HIDE DEF c
<1>10. BookInv(c)
  BY <1>2, <1>4, <1>5, <1>8, <1>9, OneSideChanged
<1> QED
  BY <1>1, <1>10 DEF Done, ApplyResults

\* An order that goes takes its share out of its level and of each total.
LEMMA EraseOrderInv ==
  ASSUME NEW b, BookInv(b), NEW ref \in DOMAIN b.orders, NEW c, c = EraseOrder(b, ref)
  PROVE  /\ BookInv(c) /\ c.orders = Drop(b.orders, ref)
         /\ DOMAIN c.orders = DOMAIN b.orders \ {ref}
<1> DEFINE o == b.orders[ref]
           d == o.side
           n == o.qty
           price == o.price
           q == Drop(b.orders, ref)
           s == b.side[d]
           t == LevelsRemove(d, s, price, n)
           l == LevelAt(s, price)
           m == Lowered(l, n, 1)
<1>1. c = [b EXCEPT !.orders = q, !.side[d] = t, !.order_shares = @ - n,
                    !.level_shares = @ - n, !.level_orders = @ - 1]
  BY DEF EraseOrder
<1>2. /\ d \in Sides /\ price \in Nat /\ n \in Nat /\ SideInv(d, s)
      /\ l.orders \in Nat /\ l.orders # 0 /\ l.shares \in Nat /\ n <= l.shares
  BY LiveOrderIsHeld
<1>3. IsOrderMap(b.orders) /\ Agrees(s, b.orders, d)
  BY <1>2 DEF BookInv
<1>4. IsOrderMap(q) /\ DifferAt(b.orders, q, ref) /\ DOMAIN q = DOMAIN b.orders \ {ref}
  BY <1>3, DropOrder
<1>5. b.orders[ref].side = d /\ b.orders[ref].price = price /\ b.orders[ref].qty = n
  OBVIOUS
<1> HIDE DEF o, d, n, price, q, s
<1>6. SideInv(d, t) /\ MovesOnly(s, t, price, m)
  BY <1>2, LevelsRemoveInv
<1> HIDE DEF t
<1>7. /\ NumAt(q, d, price) \in Nat /\ SumAt(q, d, price) \in Nat
      /\ NumAt(q, d, price) = NumAt(b.orders, d, price) - 1
      /\ SumAt(q, d, price) = SumAt(b.orders, d, price) - n
      /\ NumAll(q) = NumAll(b.orders) - 1 /\ SumAll(q) = SumAll(b.orders) - n
  <2>1. /\ OneAt(b.orders, ref, d, price) = 1 /\ OneAt(q, ref, d, price) = 0
        /\ QtyAt(b.orders, ref, d, price) = n /\ QtyAt(q, ref, d, price) = 0
        /\ OneOf(b.orders, ref) = 1 /\ OneOf(q, ref) = 0
        /\ QtyOf(b.orders, ref) = n /\ QtyOf(q, ref) = 0
    BY <1>4, <1>5 DEF OneAt, QtyAt, IsAt, OneOf, QtyOf
  <2>2. /\ NumAt(b.orders, d, price) \in Nat /\ SumAt(b.orders, d, price) \in Nat
        /\ NumAt(q, d, price) \in Nat /\ SumAt(q, d, price) \in Nat
        /\ NumAt(q, d, price) = NumAt(b.orders, d, price)
             - OneAt(b.orders, ref, d, price) + OneAt(q, ref, d, price)
        /\ SumAt(q, d, price) = SumAt(b.orders, d, price)
             - QtyAt(b.orders, ref, d, price) + QtyAt(q, ref, d, price)
    BY <1>3, <1>4, SumsChangeAt
  <2>3. /\ NumAll(b.orders) \in Nat /\ SumAll(b.orders) \in Nat
        /\ NumAll(q) = NumAll(b.orders) - OneOf(b.orders, ref) + OneOf(q, ref)
        /\ SumAll(q) = SumAll(b.orders) - QtyOf(b.orders, ref) + QtyOf(q, ref)
    BY <1>3, <1>4, SumsChangeAll
  <2> QED
    BY <1>2, <2>1, <2>2, <2>3
<1>8. m.orders = NumAt(q, d, price) /\ m.shares = SumAt(q, d, price)
  <2>1. l.orders = NumAt(b.orders, d, price) /\ l.shares = SumAt(b.orders, d, price)
    BY <1>2, <1>3 DEF Agrees
  <2> HIDE DEF l
  <2>2. CASE l.orders = 1
    <3>1. NumAt(q, d, price) = 0
      BY <1>7, <2>1, <2>2
    <3>2. SumAt(q, d, price) = 0
      BY <1>4, <3>1, NoneAt
    <3> QED
      BY <2>2, <3>1, <3>2 DEF Lowered, EmptyLevel
  <2>3. CASE l.orders # 1
    BY <1>7, <2>1, <2>3 DEF Lowered
  <2> QED
    BY <2>2, <2>3
<1> HIDE DEF m
<1>9. Agrees(t, q, d)
  BY <1>2, <1>3, <1>4, <1>5, <1>6, <1>8, SameSideAgrees
<1>10. c = [orders |-> q, side |-> [b.side EXCEPT ![d] = t], order_shares |-> SumAll(q),
            level_shares |-> SumAll(q), level_orders |-> NumAll(q)]
  <2>1. /\ b.order_shares = SumAll(b.orders) /\ b.level_shares = SumAll(b.orders)
        /\ b.level_orders = NumAll(b.orders) /\ BookShape(b)
    BY DEF BookInv
  <2>2. c = [orders |-> q, side |-> [b.side EXCEPT ![d] = t], order_shares |-> b.order_shares - n,
             level_shares |-> b.level_shares - n, level_orders |-> b.level_orders - 1]
    BY <1>1, <2>1 DEF BookShape
  <2> QED
    BY <1>7, <2>1, <2>2
<1>11. BookInv(c)
  BY <1>2, <1>4, <1>5, <1>6, <1>9, <1>10, OneSideChanged
<1>12. c.orders = q
  BY <1>10
<1> QED
  BY <1>4, <1>11, <1>12 DEF q

\* An order that is cut takes the cut out of its level and of each total.
LEMMA ShrinkOrderInv ==
  ASSUME NEW b, BookInv(b), NEW ref \in DOMAIN b.orders, NEW n \in Nat,
         n <= b.orders[ref].qty, NEW c, c = ShrinkOrder(b, ref, n)
  PROVE  BookInv(c)
<1> DEFINE o == b.orders[ref]
           d == o.side
           price == o.price
           q == [b.orders EXCEPT ![ref].qty = @ - n]
           s == b.side[d]
           t == LevelsReduce(s, price, n)
           l == LevelAt(s, price)
           m == Lowered(l, n, 0)
<1>1. c = [b EXCEPT !.orders[ref].qty = @ - n, !.side[d] = t, !.order_shares = @ - n,
                    !.level_shares = @ - n]
  BY DEF ShrinkOrder
<1>2. /\ d \in Sides /\ price \in Nat /\ o.qty \in Nat /\ SideInv(d, s)
      /\ l.orders \in Nat /\ l.orders # 0 /\ l.shares \in Nat /\ o.qty <= l.shares
  BY LiveOrderIsHeld
<1>3. IsOrderMap(b.orders) /\ Agrees(s, b.orders, d)
  BY <1>2 DEF BookInv
<1>4. /\ IsOrderMap(q) /\ DifferAt(b.orders, q, ref) /\ ref \in DOMAIN q
      /\ q[ref].side = d /\ q[ref].price = price /\ q[ref].qty = o.qty - n
  BY <1>3, CutOrder
<1>5. b.orders[ref].side = d /\ b.orders[ref].price = price /\ b.orders[ref].qty = o.qty
  OBVIOUS
<1>6. n <= l.shares
  <2> HIDE DEF l
  <2> QED
    BY <1>2
<1>7. c = [b EXCEPT !.orders = q, !.side[d] = t, !.order_shares = @ - n, !.level_shares = @ - n]
  <2> HIDE DEF t, d
  <2> QED
    BY <1>1 DEF BookInv, BookShape
<1> HIDE DEF o, d, price, q, s
<1>8. SideInv(d, t) /\ MovesOnly(s, t, price, m)
  BY <1>2, <1>6, LevelsReduceInv
<1> HIDE DEF t
<1>9. /\ NumAt(q, d, price) = NumAt(b.orders, d, price)
      /\ SumAt(q, d, price) = SumAt(b.orders, d, price) - n
      /\ NumAll(q) = NumAll(b.orders) /\ SumAll(q) = SumAll(b.orders) - n
  <2>1. /\ OneAt(b.orders, ref, d, price) = 1 /\ OneAt(q, ref, d, price) = 1
        /\ QtyAt(b.orders, ref, d, price) = o.qty /\ QtyAt(q, ref, d, price) = o.qty - n
        /\ OneOf(b.orders, ref) = 1 /\ OneOf(q, ref) = 1
        /\ QtyOf(b.orders, ref) = o.qty /\ QtyOf(q, ref) = o.qty - n
    BY <1>4, <1>5 DEF OneAt, QtyAt, IsAt, OneOf, QtyOf
  <2>2. /\ NumAt(b.orders, d, price) \in Nat /\ SumAt(b.orders, d, price) \in Nat
        /\ NumAt(q, d, price) = NumAt(b.orders, d, price)
             - OneAt(b.orders, ref, d, price) + OneAt(q, ref, d, price)
        /\ SumAt(q, d, price) = SumAt(b.orders, d, price)
             - QtyAt(b.orders, ref, d, price) + QtyAt(q, ref, d, price)
    BY <1>3, <1>4, SumsChangeAt
  <2>3. /\ NumAll(b.orders) \in Nat /\ SumAll(b.orders) \in Nat
        /\ NumAll(q) = NumAll(b.orders) - OneOf(b.orders, ref) + OneOf(q, ref)
        /\ SumAll(q) = SumAll(b.orders) - QtyOf(b.orders, ref) + QtyOf(q, ref)
    BY <1>3, <1>4, SumsChangeAll
  <2> QED
    BY <1>2, <2>1, <2>2, <2>3
<1>10. m.orders = NumAt(q, d, price) /\ m.shares = SumAt(q, d, price)
  <2>1. l.orders = NumAt(b.orders, d, price) /\ l.shares = SumAt(b.orders, d, price)
    BY <1>2, <1>3 DEF Agrees
  <2> HIDE DEF l
  <2> QED
    BY <1>2, <1>9, <2>1 DEF Lowered
<1> HIDE DEF m
<1>11. Agrees(t, q, d)
  BY <1>2, <1>3, <1>4, <1>5, <1>8, <1>10, SameSideAgrees
<1>12. c = [orders |-> q, side |-> [b.side EXCEPT ![d] = t], order_shares |-> SumAll(q),
            level_shares |-> SumAll(q), level_orders |-> NumAll(q)]
  <2>1. /\ b.order_shares = SumAll(b.orders) /\ b.level_shares = SumAll(b.orders)
        /\ b.level_orders = NumAll(b.orders) /\ BookShape(b)
    BY DEF BookInv
  <2>2. c = [orders |-> q, side |-> [b.side EXCEPT ![d] = t], order_shares |-> b.order_shares - n,
             level_shares |-> b.level_shares - n, level_orders |-> b.level_orders]
    BY <1>7, <2>1 DEF BookShape
  <2> QED
    BY <1>9, <2>1, <2>2
<1> QED
  BY <1>2, <1>4, <1>5, <1>8, <1>11, <1>12, OneSideChanged
\* reduce() preserves the invariant, clamped or not.
LEMMA BookReduceInv ==
  ASSUME NEW b, BookInv(b), NEW ref, NEW n \in Nat, NEW r, r = BookReduce(b, ref, n)
  PROVE  BookInv(r.book) /\ r.result \in ApplyResults
<1>1. CASE ref \notin DOMAIN b.orders
  BY <1>1 DEF BookReduce, Live, Done, ApplyResults
<1>2. CASE ref \in DOMAIN b.orders
  <2> DEFINE qty == b.orders[ref].qty
             c == IF n >= qty THEN EraseOrder(b, ref) ELSE ShrinkOrder(b, ref, n)
             v == IF n > qty THEN "ClampedReduce" ELSE "Applied"
  <2>1. r = Done(c, v)
    BY <1>2 DEF BookReduce, Live
  <2>2. qty \in Nat
    BY <1>2, LiveOrderIsHeld
  <2>3. BookInv(c)
    <3>1. CASE n >= qty
      BY <1>2, <3>1, EraseOrderInv
    <3>2. CASE ~(n >= qty)
      <4>1. n <= qty
        BY <2>2, <3>2
      <4> QED
        BY <1>2, <3>2, <4>1, ShrinkOrderInv
    <3> QED
      BY <3>1, <3>2
  <2>4. v \in ApplyResults
    BY DEF ApplyResults
  <2> HIDE DEF c, v
  <2> QED
    BY <2>1, <2>3, <2>4 DEF Done
<1> QED
  BY <1>1, <1>2

\* remove() preserves the invariant.
LEMMA BookRemoveInv ==
  ASSUME NEW b, BookInv(b), NEW ref, NEW r, r = BookRemove(b, ref)
  PROVE  BookInv(r.book) /\ r.result \in ApplyResults
<1>1. CASE ref \notin DOMAIN b.orders
  BY <1>1 DEF BookRemove, Live, Done, ApplyResults
<1>2. CASE ref \in DOMAIN b.orders
  <2>1. r = Done(EraseOrder(b, ref), "Applied")
    BY <1>2 DEF BookRemove, Live
  <2>2. BookInv(EraseOrder(b, ref))
    BY <1>2, EraseOrderInv
  <2> QED
    BY <2>1, <2>2 DEF Done, ApplyResults
<1> QED
  BY <1>1, <1>2

\* replace() preserves the invariant, whatever its two references are.
LEMMA BookReplaceInv ==
  ASSUME NEW b, BookInv(b), NEW ref, NEW new, NEW n \in Nat, NEW price \in Nat,
         NEW r, r = BookReplace(b, ref, new, n, price)
  PROVE  BookInv(r.book) /\ r.result \in ApplyResults
<1>1. CASE ref \notin DOMAIN b.orders \/ (new # ref /\ new \in DOMAIN b.orders)
  BY <1>1 DEF BookReplace, Live, Done, ApplyResults
<1>2. CASE ref \in DOMAIN b.orders /\ (new = ref \/ new \notin DOMAIN b.orders)
  <2> DEFINE c == EraseOrder(b, ref)
             d == b.orders[ref].side
  <2>1. r = BookAdd(c, new, d, n, price)
    BY <1>2 DEF BookReplace, Live
  <2>2. BookInv(c) /\ DOMAIN c.orders = DOMAIN b.orders \ {ref}
    BY <1>2, EraseOrderInv
  <2>3. d \in Sides
    BY <1>2, LiveOrderIsHeld
  <2>4. new \notin DOMAIN c.orders
    BY <1>2, <2>2
  <2> HIDE DEF c, d
  <2> QED
    BY <2>1, <2>2, <2>3, <2>4, BookAddInv
<1> QED
  BY <1>1, <1>2

\* reserve() preserves the invariant.
LEMMA BookReserveInv ==
  ASSUME NEW b, BookInv(b), NEW c, c = BookReserve(b)
  PROVE  BookInv(c) /\ c.orders = b.orders
<1> DEFINE sides == [d \in Sides |-> EnsureCells(b.side[d])]
<1>1. c = [b EXCEPT !.side = sides]
  BY DEF BookReserve
<1>2. DOMAIN sides = Sides /\ \A d \in Sides : sides[d] = EnsureCells(b.side[d])
  OBVIOUS
<1> HIDE DEF sides
<1>3. c = [orders |-> b.orders, side |-> sides, order_shares |-> b.order_shares,
           level_shares |-> b.level_shares, level_orders |-> b.level_orders]
  BY <1>1 DEF BookInv, BookShape
<1>4. ASSUME NEW d \in Sides PROVE SideInv(d, sides[d]) /\ Agrees(sides[d], b.orders, d)
  <2>1. SideInv(d, b.side[d]) /\ Agrees(b.side[d], b.orders, d)
    BY DEF BookInv
  <2>2. SideInv(d, sides[d]) /\ \A q \in Nat : LevelAt(sides[d], q) = LevelAt(b.side[d], q)
    BY <1>2, <2>1, EnsureCellsInv
  <2> QED
    BY <2>1, <2>2 DEF Agrees
<1>5. /\ c.orders = b.orders /\ c.side = sides /\ c.order_shares = b.order_shares
      /\ c.level_shares = b.level_shares /\ c.level_orders = b.level_orders /\ BookShape(c)
  BY <1>3 DEF BookShape
<1> QED
  BY <1>2, <1>4, <1>5 DEF BookInv

\* A new book satisfies the invariant.
LEMMA NewBookInv == BookInv(NewBook)
<1> DEFINE sides == [d \in Sides |-> NewLevels(0)]
           b == [orders |-> NoOrders, side |-> sides, order_shares |-> 0, level_shares |-> 0,
                 level_orders |-> 0]
<1>1. NewBook = b
  BY DEF NewBook
<1>2. DOMAIN sides = Sides /\ \A d \in Sides : sides[d] = NewLevels(0)
  OBVIOUS
<1>3. ASSUME NEW d \in Sides PROVE SideInv(d, sides[d]) /\ Agrees(sides[d], NoOrders, d)
  <2>1. SideInv(d, sides[d]) /\ \A q \in Nat : LevelAt(sides[d], q) = EmptyLevel
    BY <1>2, NewLevelsInv
  <2>2. \A p \in Nat : NumAt(NoOrders, d, p) = 0 /\ SumAt(NoOrders, d, p) = 0
    BY NoOrdersAtAll
  <2> QED
    BY <2>1, <2>2 DEF Agrees, EmptyLevel
<1> HIDE DEF sides
<1>4. /\ b.orders = NoOrders /\ b.side = sides /\ b.order_shares = 0
      /\ b.level_shares = 0 /\ b.level_orders = 0 /\ BookShape(b)
  BY DEF BookShape
<1> HIDE DEF b
<1>5. BookInv(b)
  BY <1>2, <1>3, <1>4, NoOrdersAtAll DEF BookInv
<1> QED
  BY <1>1, <1>5

-----------------------------------------------------------------------------
(***************************************************************************)
(* What needs every order to hold shares.  add() does not refuse a         *)
(* quantity of zero, so these theorems assume that no message carries one. *)
(***************************************************************************)
Positive(o) == \A r \in DOMAIN o : o[r].qty # 0

\* A level with an order holds shares when every order does.
LEMMA PositiveSum ==
  ASSUME NEW o, IsOrderMap(o), Positive(o), NEW d, NEW p, NumAt(o, d, p) # 0
  PROVE  SumAt(o, d, p) # 0
<1> DEFINE R == RefsAt(o, d, p)
<1>1. PICK r \in R : TRUE
  BY FS_EmptySet DEF NumAt
<1>2. R \in SUBSET DOMAIN o /\ R \ {r} \in SUBSET DOMAIN o
  BY DEF RefsAt
<1>3. o[r].qty \in Nat /\ o[r].qty # 0
  BY <1>2 DEF IsOrderMap, OrderType, Positive
<1>4. Total(o, R) = Total(o, R \ {r}) + o[r].qty
  BY <1>2, TotalWithout
<1>5. Total(o, R \ {r}) \in Nat
  BY <1>2, SharesHeldFinite
<1> HIDE DEF R
<1>6. Total(o, R) # 0
  BY <1>3, <1>4, <1>5
<1> QED
  BY <1>6 DEF SumAt, R

\* The prices of the live orders are those at which a level is held.
LEMMA PricesAreHeld ==
  ASSUME NEW b, BookInv(b), NEW d \in Sides, NEW p
  PROVE  p \in PricesOf(b.orders, d) <=> p \in Nat /\ LevelAt(b.side[d], p).orders # 0
<1> DEFINE R == RefsAt(b.orders, d, p)
<1>1. IsOrderMap(b.orders) /\ Agrees(b.side[d], b.orders, d)
  BY DEF BookInv
<1>2. IsFiniteSet(R)
  <2>1. R \in SUBSET DOMAIN b.orders /\ IsFiniteSet(DOMAIN b.orders)
    BY <1>1 DEF RefsAt, IsOrderMap
  <2> QED
    BY <2>1, FS_Subset
<1>3. NumAt(b.orders, d, p) # 0 <=> R # {}
  BY <1>2, FS_EmptySet DEF NumAt
<1>4. p \in PricesOf(b.orders, d) <=> R # {}
  BY DEF PricesOf, RefsAt
<1>5. p \in PricesOf(b.orders, d) => p \in Nat
  BY <1>1 DEF PricesOf, IsOrderMap, OrderType
<1> QED
  BY <1>1, <1>3, <1>4, <1>5 DEF Agrees

\* What rests at a price is among the gathered levels, under that price.
LEMMA HeldIsGathered ==
  ASSUME NEW side, NEW s, SideInv(side, s), NEW p \in Nat, LevelAt(s, p).orders # 0
  PROVE  LevelAt(s, p) \in Gathered(s) /\ LevelAt(s, p).price = p
<1>1. CASE CellOf(s.base, p) # NoCell
  <2> DEFINE c == CellOf(s.base, p)
  <2>1. c = CellOf(s.base, p) /\ c # NoCell
    BY <1>1
  <2> HIDE DEF c
  <2>2. c \in s.bits /\ LevelAt(s, p) = s.cells[c] /\ s.cells[c].price = p
    BY <2>1, HeldInCell
  <2> QED
    BY <2>2 DEF Gathered
<1>2. CASE CellOf(s.base, p) = NoCell
  <2>1. p \in DOMAIN s.far /\ LevelAt(s, p) = s.far[p] /\ s.far[p].price = p
    BY <1>2, HeldInFar
  <2> QED
    BY <2>1 DEF Gathered
<1> QED
  BY <1>1, <1>2

\* A gathered level is the level rebuilt from the orders at its price.
LEMMA GatheredIsRebuilt ==
  ASSUME NEW b, BookInv(b), NEW d \in Sides, NEW l \in Gathered(b.side[d])
  PROVE  l.price \in PricesOf(b.orders, d) /\ l = RebuiltLevel(b.orders, d, l.price)
<1>1. SideInv(d, b.side[d]) /\ Agrees(b.side[d], b.orders, d)
  BY DEF BookInv
<1>2. l \in LevelType /\ l.price \in Nat /\ l.orders # 0 /\ LevelAt(b.side[d], l.price) = l
  BY <1>1, GatheredIsHeld
<1>3. l.price \in PricesOf(b.orders, d)
  BY <1>2, PricesAreHeld
<1>4. l.orders = NumAt(b.orders, d, l.price) /\ l.shares = SumAt(b.orders, d, l.price)
  BY <1>1, <1>2 DEF Agrees
<1>5. l = [price |-> l.price, shares |-> l.shares, orders |-> l.orders]
  BY <1>2 DEF LevelType
<1>6. l = [price |-> l.price, shares |-> SumAt(b.orders, d, l.price),
           orders |-> NumAt(b.orders, d, l.price)]
  BY <1>4, <1>5
<1> QED
  BY <1>3, <1>6, Zenon DEF RebuiltLevel, SumAt, NumAt, Total

\* The levels of a side are those rebuilt from the order index.
LEMMA GatheredAreRebuilt ==
  ASSUME NEW b, BookInv(b), NEW d \in Sides
  PROVE  Gathered(b.side[d]) = RebuiltLevels(b.orders, d)
<1>1. SideInv(d, b.side[d])
  BY DEF BookInv
<1>2. ASSUME NEW l \in Gathered(b.side[d]) PROVE l \in RebuiltLevels(b.orders, d)
  BY GatheredIsRebuilt DEF RebuiltLevels
<1>3. ASSUME NEW l \in RebuiltLevels(b.orders, d) PROVE l \in Gathered(b.side[d])
  <2>1. PICK p \in PricesOf(b.orders, d) : l = RebuiltLevel(b.orders, d, p)
    BY DEF RebuiltLevels
  <2>2. p \in Nat /\ LevelAt(b.side[d], p).orders # 0
    BY PricesAreHeld
  <2>3. LevelAt(b.side[d], p) \in Gathered(b.side[d]) /\ LevelAt(b.side[d], p).price = p
    BY <1>1, <2>2, HeldIsGathered
  <2>4. LevelAt(b.side[d], p) = RebuiltLevel(b.orders, d, p)
    BY <2>3, GatheredIsRebuilt
  <2> QED
    BY <2>1, <2>3, <2>4
<1> QED
  BY <1>2, <1>3

\* The occupied cells and the keys of the map number the levels.
LEMMA GatheredCount ==
  ASSUME NEW side, NEW s, SideInv(side, s)
  PROVE  s.count + Cardinality(DOMAIN s.far) = Cardinality(Gathered(s))
<1> DEFINE A == {s.cells[i] : i \in s.bits}
           B == {s.far[p] : p \in DOMAIN s.far}
           f == [i \in s.bits |-> s.cells[i]]
           g == [p \in DOMAIN s.far |-> s.far[p]]
           m == Cardinality(s.bits)
           n == Cardinality(DOMAIN s.far)
<1>1. s.bits \in SUBSET Cells /\ s.count = m
  BY DEF SideInv, IsSide, SideType, ArrayInv
<1>2. IsFiniteSet(s.bits) /\ IsFiniteSet(DOMAIN s.far)
  <2>1. IsFiniteSet(s.bits)
    BY <1>1, CellsFinite, FS_Subset
  <2> QED
    BY <2>1 DEF SideInv, FarInv
<1>3. f \in Surjection(s.bits, A) /\ f \in Injection(s.bits, A)
  <2>1. \A i \in s.bits : CellOf(s.base, s.cells[i].price) = i
    BY DEF SideInv, ArrayInv
  <2> QED
    BY <2>1 DEF Surjection, Injection, IsInjective
<1>4. g \in Surjection(DOMAIN s.far, B) /\ g \in Injection(DOMAIN s.far, B)
  <2>1. \A p \in DOMAIN s.far : s.far[p].price = p
    BY DEF SideInv, FarInv
  <2> QED
    BY <2>1 DEF Surjection, Injection, IsInjective
<1>5. IsFiniteSet(A) /\ Cardinality(A) = m
  BY <1>2, <1>3, FS_Surjection
<1>6. IsFiniteSet(B) /\ Cardinality(B) = n
  BY <1>2, <1>4, FS_Surjection
<1>7. A \cap B = {}
  <2>1. \A l \in A : CellOf(s.base, l.price) \in Cells
    BY <1>1 DEF SideInv, ArrayInv
  <2>2. \A l \in B : CellOf(s.base, l.price) = NoCell
    BY DEF SideInv, FarInv
  <2>3. NoCell \notin Cells
    BY SpanAssumption DEF Cells, NoCell
  <2> HIDE DEF A, B
  <2> QED
    BY <2>1, <2>2, <2>3
<1>8. Cardinality(A \cup B) = Cardinality(A) + Cardinality(B) - Cardinality(A \cap B)
  BY <1>5, <1>6, FS_Union
<1>9. Cardinality(A \cap B) = 0
  BY <1>7, FS_EmptySet
<1>10. m \in Nat /\ n \in Nat
  BY <1>2, FS_CardinalityType
<1>11. Gathered(s) = A \cup B
  BY DEF Gathered
<1> HIDE DEF A, B, m, n
<1>12. Cardinality(A \cup B) = m + n - 0
  BY <1>5, <1>6, <1>8, <1>9, Zenon
<1>13. Cardinality(A \cup B) = m + n
  BY <1>10, <1>12
<1>14. Cardinality(Gathered(s)) = m + n
  BY <1>11, <1>13, Zenon
<1> QED
  BY <1>1, <1>14, Zenon DEF n

\* With the invariant, levels without shares are all that check_invariants can find wrong.
LEMMA BookInvChecks ==
  ASSUME NEW b, BookInv(b)
  PROVE  CheckBook(b) <=> FullLevels(b)
<1>1. CheckBookFast(b)
  BY DEF BookInv, CheckBookFast, NumAll
<1>2. \A d \in Sides : Gathered(b.side[d]) = RebuiltLevels(b.orders, d)
  BY GatheredAreRebuilt
<1>3. ASSUME NEW d \in Sides
      PROVE  /\ (\A l \in RebuiltLevels(b.orders, d) : l.shares # 0) <=> CheckLevels(d, b.side[d])
             /\ b.side[d].count + Cardinality(DOMAIN b.side[d].far)
                  = Cardinality(RebuiltLevels(b.orders, d))
  <2> DEFINE s == b.side[d]
  <2>1. SideInv(d, s)
    BY DEF BookInv
  <2>2. Gathered(s) = RebuiltLevels(b.orders, d)
    BY <1>2
  <2>3. s.count + Cardinality(DOMAIN s.far) = Cardinality(Gathered(s))
    BY <2>1, GatheredCount
  <2> HIDE DEF s
  <2>4. (\A l \in Gathered(s) : l.shares # 0)
          <=> /\ \A i \in s.bits : s.cells[i].shares # 0
              /\ \A p \in DOMAIN s.far : s.far[p].shares # 0
    BY DEF Gathered
  <2>5. (\A l \in Gathered(s) : l.shares # 0) <=> CheckLevels(d, s)
    BY <2>1, <2>4 DEF CheckLevels, SideInv, ArrayInv, FarInv
  <2>6. s.count + Cardinality(DOMAIN s.far) = Cardinality(RebuiltLevels(b.orders, d))
    BY <2>2, <2>3, Zenon
  <2> QED
    BY <2>2, <2>5, <2>6 DEF s
<1> QED
  BY <1>1, <1>2, <1>3 DEF CheckBook, FullLevels

\* Positive quantities make full levels.
LEMMA PositiveIsFull ==
  ASSUME NEW b, BookInv(b), Positive(b.orders)
  PROVE  FullLevels(b)
<1> SUFFICES ASSUME NEW d \in Sides, NEW l \in RebuiltLevels(b.orders, d) PROVE l.shares # 0
  BY DEF FullLevels
<1> DEFINE s == b.side[d]
<1>1. SideInv(d, s) /\ Agrees(s, b.orders, d) /\ IsOrderMap(b.orders)
  BY DEF BookInv
<1>2. l \in Gathered(s)
  BY GatheredAreRebuilt
<1>3. l.price \in Nat /\ l.orders # 0 /\ LevelAt(s, l.price) = l
  BY <1>1, <1>2, GatheredIsHeld
<1>4. l.orders = NumAt(b.orders, d, l.price) /\ l.shares = SumAt(b.orders, d, l.price)
  BY <1>1, <1>3 DEF Agrees
<1> QED
  BY <1>1, <1>3, <1>4, PositiveSum

\* With the invariant and positive quantities check_invariants succeeds.
LEMMA BookInvConsistent ==
  ASSUME NEW b, BookInv(b), Positive(b.orders)
  PROVE  CheckBook(b)
BY BookInvChecks, PositiveIsFull

\* Adding shares keeps every quantity positive.
LEMMA AddKeepsPositive ==
  ASSUME NEW b, BookInv(b), Positive(b.orders), NEW ref, NEW d, NEW n \in Nat, n # 0, NEW price,
         NEW r, r = BookAdd(b, ref, d, n, price)
  PROVE  Positive(r.book.orders)
<1> DEFINE x == [side |-> d, price |-> price, qty |-> n]
           q == Put(b.orders, ref, x)
<1>1. r.book = b \/ r.book.orders = q
  BY DEF BookAdd, Done, BookInv, BookShape
<1>2. Positive(q)
  BY DEF Put, Positive
<1> QED
  BY <1>1, <1>2

\* Removing an order keeps every quantity positive.
LEMMA EraseKeepsPositive ==
  ASSUME NEW b, BookInv(b), Positive(b.orders), NEW ref \in DOMAIN b.orders,
         NEW c, c = EraseOrder(b, ref)
  PROVE  Positive(c.orders)
<1>1. c.orders = Drop(b.orders, ref)
  BY EraseOrderInv
<1> QED
  BY <1>1 DEF Drop, Restrict, Positive

\* Cutting or taking an order leaves no empty one behind: an order cut to zero goes.
LEMMA ReduceKeepsPositive ==
  ASSUME NEW b, BookInv(b), Positive(b.orders), NEW ref, NEW n \in Nat,
         NEW r, r = BookReduce(b, ref, n)
  PROVE  Positive(r.book.orders)
<1> DEFINE qty == b.orders[ref].qty
<1>1. CASE ref \notin DOMAIN b.orders
  BY <1>1 DEF BookReduce, Live, Done
<1>2. CASE ref \in DOMAIN b.orders /\ n >= qty
  <2>1. r.book = EraseOrder(b, ref)
    BY <1>2 DEF BookReduce, Live, Done
  <2> QED
    BY <1>2, <2>1, EraseKeepsPositive
<1>3. CASE ref \in DOMAIN b.orders /\ ~(n >= qty)
  <2>1. r.book = ShrinkOrder(b, ref, n)
    BY <1>3 DEF BookReduce, Live, Done
  <2>2. qty \in Nat /\ n < qty
    BY <1>3, LiveOrderIsHeld
  <2> DEFINE q == [b.orders EXCEPT ![ref].qty = @ - n]
  <2>3. r.book.orders = q
    BY <2>1 DEF ShrinkOrder, BookInv, BookShape
  <2>4. IsOrderMap(q) /\ DifferAt(b.orders, q, ref) /\ q[ref].qty = qty - n
    BY <1>3, <2>2, CutOrder DEF BookInv
  <2>5. q[ref].qty # 0
    BY <2>2, <2>4
  <2> HIDE DEF q
  <2>6. Positive(q)
    BY <2>4, <2>5 DEF Positive, DifferAt
  <2> QED
    BY <2>3, <2>6
<1> QED
  BY <1>1, <1>2, <1>3

\* Removing what may not be there leaves no empty order behind.
LEMMA RemoveKeepsPositive ==
  ASSUME NEW b, BookInv(b), Positive(b.orders), NEW ref, NEW r, r = BookRemove(b, ref)
  PROVE  Positive(r.book.orders)
<1>1. r.book = b \/ (ref \in DOMAIN b.orders /\ r.book = EraseOrder(b, ref))
  BY DEF BookRemove, Live, Done
<1> QED
  BY <1>1, EraseKeepsPositive

\* Replacing an order by one with shares leaves no empty order behind.
LEMMA ReplaceKeepsPositive ==
  ASSUME NEW b, BookInv(b), Positive(b.orders), NEW ref, NEW new, NEW n \in Nat, n # 0,
         NEW price, NEW r, r = BookReplace(b, ref, new, n, price)
  PROVE  Positive(r.book.orders)
<1> DEFINE c == EraseOrder(b, ref)
           d == b.orders[ref].side
           a == BookAdd(c, new, d, n, price)
<1>1. r.book = b \/ (ref \in DOMAIN b.orders /\ r.book = a.book)
  BY DEF BookReplace, Live, Done
<1>2. CASE ref \in DOMAIN b.orders /\ r.book = a.book
  <2>1. BookInv(c) /\ Positive(c.orders)
    BY <1>2, EraseOrderInv, EraseKeepsPositive
  <2> HIDE DEF c, d
  <2>2. Positive(a.book.orders)
    BY <2>1, AddKeepsPositive
  <2> QED
    BY <1>2, <2>2
<1> QED
  BY <1>1, <1>2

-----------------------------------------------------------------------------
(***************************************************************************)
(* How many shares each operation moves in or out of a book.               *)
(***************************************************************************)
\* When one order comes, goes or changes, the book's total moves with it.
LEMMA OneOrderMoved ==
  ASSUME NEW b, BookInv(b), NEW c, BookInv(c), NEW ref, DifferAt(b.orders, c.orders, ref)
  PROVE  /\ b.order_shares \in Nat /\ c.order_shares \in Nat
         /\ QtyOf(b.orders, ref) \in Nat /\ QtyOf(c.orders, ref) \in Nat
         /\ c.order_shares = b.order_shares - QtyOf(b.orders, ref) + QtyOf(c.orders, ref)
<1>1. IsOrderMap(b.orders) /\ IsOrderMap(c.orders)
  BY DEF BookInv
<1>2. QtyOf(b.orders, ref) \in Nat /\ QtyOf(c.orders, ref) \in Nat
  BY <1>1 DEF QtyOf, IsOrderMap, OrderType
<1>3. /\ SumAll(b.orders) \in Nat /\ SumAll(c.orders) \in Nat
      /\ SumAll(c.orders) = SumAll(b.orders) - QtyOf(b.orders, ref) + QtyOf(c.orders, ref)
  BY <1>1, SumsChangeAll
<1> QED
  BY <1>2, <1>3 DEF BookInv

\* What an add does to a book's total.
IsAdded(b, ref, n, r) ==
  /\ BookInv(r.book) /\ r.result \in ApplyResults
  /\ r.result = "Applied" => r.book.order_shares = b.order_shares + n
  /\ r.result # "Applied" => r.book = b
  /\ Insertable(b, ref) => r.result = "Applied"

\* An add that is applied brings its shares in; one that is refused changes nothing.
LEMMA AddMoves ==
  ASSUME NEW b, BookInv(b), NEW ref, NEW d \in Sides, NEW n \in Nat, NEW price \in Nat,
         NEW r, r = BookAdd(b, ref, d, n, price)
  PROVE  IsAdded(b, ref, n, r)
<1> USE DEF IsAdded
<1>1. CASE Insertable(b, ref)
  <2> DEFINE q == Put(b.orders, ref, [side |-> d, price |-> price, qty |-> n])
  <2>1. ref \notin DOMAIN b.orders /\ r.result = "Applied"
    BY <1>1 DEF Insertable, Live, BookAdd, Done
  <2>2. BookInv(r.book) /\ r.result \in ApplyResults
    BY <2>1, BookAddInv
  <2>3. r.book.orders = q
    BY <1>1 DEF BookAdd, Done, BookInv, BookShape
  <2>4. [side |-> d, price |-> price, qty |-> n] \in OrderType
    BY DEF OrderType
  <2>5. DifferAt(b.orders, q, ref) /\ ref \in DOMAIN q
        /\ q[ref] = [side |-> d, price |-> price, qty |-> n]
    BY <2>4, PutOrder DEF BookInv
  <2> HIDE DEF q
  <2>6. QtyOf(b.orders, ref) = 0 /\ QtyOf(r.book.orders, ref) = n
    BY <2>1, <2>3, <2>5 DEF QtyOf
  <2>7. r.book.order_shares = b.order_shares + n
    BY <2>2, <2>3, <2>5, <2>6, OneOrderMoved
  <2> QED
    BY <2>1, <2>2, <2>7
<1>2. CASE ~Insertable(b, ref)
  BY <1>2 DEF BookAdd, Done, ApplyResults
<1> QED
  BY <1>1, <1>2

\* An order that is erased takes its quantity out of the book.
LEMMA EraseMoves ==
  ASSUME NEW b, BookInv(b), NEW ref \in DOMAIN b.orders, NEW c, c = EraseOrder(b, ref)
  PROVE  /\ BookInv(c) /\ DOMAIN c.orders = DOMAIN b.orders \ {ref}
         /\ b.orders[ref].side \in Sides /\ b.orders[ref].qty \in Nat
         /\ DifferAt(b.orders, c.orders, ref)
         /\ c.order_shares = b.order_shares - b.orders[ref].qty
<1>1. BookInv(c) /\ c.orders = Drop(b.orders, ref) /\ DOMAIN c.orders = DOMAIN b.orders \ {ref}
  BY EraseOrderInv
<1>2. b.orders[ref].side \in Sides /\ b.orders[ref].qty \in Nat
  BY LiveOrderIsHeld
<1>3. DifferAt(b.orders, c.orders, ref)
  BY <1>1, DropOrder DEF BookInv
<1>4. QtyOf(b.orders, ref) = b.orders[ref].qty /\ QtyOf(c.orders, ref) = 0
  BY <1>1 DEF QtyOf
<1>5. c.order_shares = b.order_shares - b.orders[ref].qty
  BY <1>1, <1>2, <1>3, <1>4, OneOrderMoved
<1> QED
  BY <1>1, <1>2, <1>3, <1>5

\* A reduce changes one order at most.
LEMMA ReduceMoves ==
  ASSUME NEW b, BookInv(b), NEW ref, NEW n \in Nat, NEW r, r = BookReduce(b, ref, n)
  PROVE  /\ BookInv(r.book) /\ r.result \in ApplyResults
         /\ DifferAt(b.orders, r.book.orders, ref)
<1>1. BookInv(r.book) /\ r.result \in ApplyResults
  BY BookReduceInv
<1> DEFINE qty == b.orders[ref].qty
<1>2. CASE ref \notin DOMAIN b.orders
  BY <1>1, <1>2 DEF BookReduce, Live, Done, DifferAt
<1>3. CASE ref \in DOMAIN b.orders /\ n >= qty
  <2>1. r.book = EraseOrder(b, ref)
    BY <1>3 DEF BookReduce, Live, Done
  <2> QED
    BY <1>1, <1>3, <2>1, EraseMoves
<1>4. CASE ref \in DOMAIN b.orders /\ ~(n >= qty)
  <2>1. r.book = ShrinkOrder(b, ref, n)
    BY <1>4 DEF BookReduce, Live, Done
  <2>2. n <= qty
    BY <1>4, LiveOrderIsHeld
  <2> DEFINE q == [b.orders EXCEPT ![ref].qty = @ - n]
  <2>3. r.book.orders = q
    BY <2>1 DEF ShrinkOrder, BookInv, BookShape
  <2>4. DifferAt(b.orders, q, ref)
    BY <1>4, <2>2, CutOrder DEF BookInv
  <2> QED
    BY <1>1, <2>3, <2>4
<1> QED
  BY <1>2, <1>3, <1>4

\* A remove takes out what the order held, and nothing when there is none.
LEMMA RemoveMoves ==
  ASSUME NEW b, BookInv(b), NEW ref, NEW r, r = BookRemove(b, ref)
  PROVE  /\ BookInv(r.book) /\ r.result \in ApplyResults
         /\ QtyOf(b.orders, ref) \in Nat
         /\ r.book.order_shares = b.order_shares - QtyOf(b.orders, ref)
<1>1. BookInv(r.book) /\ r.result \in ApplyResults
  BY BookRemoveInv
<1>2. CASE ref \notin DOMAIN b.orders
  <2>1. r.book = b /\ QtyOf(b.orders, ref) = 0
    BY <1>2 DEF BookRemove, Live, Done, QtyOf
  <2>2. DifferAt(b.orders, b.orders, ref)
    BY DEF DifferAt
  <2>3. b.order_shares \in Nat
    BY <2>2, OneOrderMoved
  <2> QED
    BY <1>1, <2>1, <2>3
<1>3. CASE ref \in DOMAIN b.orders
  <2>1. r.book = EraseOrder(b, ref) /\ QtyOf(b.orders, ref) = b.orders[ref].qty
    BY <1>3 DEF BookRemove, Live, Done, QtyOf
  <2> QED
    BY <1>1, <1>3, <2>1, EraseMoves
<1> QED
  BY <1>2, <1>3

\* A replace that is applied exchanges the original's shares for the new ones, and one that
\* is not changes nothing, provided the new reference is not the one that marks an empty slot.
LEMMA ReplaceMoves ==
  ASSUME NEW b, BookInv(b), NEW ref, NEW new, new # NullRef, NEW n \in Nat, NEW price \in Nat,
         NEW r, r = BookReplace(b, ref, new, n, price)
  PROVE  /\ BookInv(r.book) /\ r.result \in ApplyResults
         /\ QtyOf(b.orders, ref) \in Nat
         /\ r.result = "Applied"
              => r.book.order_shares = b.order_shares - QtyOf(b.orders, ref) + n
         /\ r.result # "Applied" => r.book = b
<1>1. BookInv(r.book) /\ r.result \in ApplyResults
  BY BookReplaceInv
<1>2. QtyOf(b.orders, ref) \in Nat /\ b.order_shares \in Nat
  <2>1. DifferAt(b.orders, b.orders, ref)
    BY DEF DifferAt
  <2> QED
    BY <2>1, OneOrderMoved
<1>3. CASE ref \notin DOMAIN b.orders \/ (new # ref /\ new \in DOMAIN b.orders)
  BY <1>1, <1>2, <1>3 DEF BookReplace, Live, Done
<1>4. CASE ref \in DOMAIN b.orders /\ (new = ref \/ new \notin DOMAIN b.orders)
  <2> DEFINE c == EraseOrder(b, ref)
             d == b.orders[ref].side
  <2>1. r = BookAdd(c, new, d, n, price)
    BY <1>4 DEF BookReplace, Live
  <2>2. /\ BookInv(c) /\ DOMAIN c.orders = DOMAIN b.orders \ {ref} /\ d \in Sides
        /\ c.order_shares = b.order_shares - QtyOf(b.orders, ref)
    BY <1>4, EraseMoves DEF QtyOf
  <2>3. Insertable(c, new)
    BY <1>4, <2>2 DEF Insertable, Live
  <2> HIDE DEF c, d
  <2>4. r.result = "Applied" /\ r.book.order_shares = c.order_shares + n
    BY <2>1, <2>2, <2>3, AddMoves DEF IsAdded
  <2> QED
    BY <1>1, <1>2, <2>2, <2>4
<1> QED
  BY <1>3, <1>4
=============================================================================
