---------------------------- MODULE PriceLevels ----------------------------
(***************************************************************************)
(* One side of a book (src/book/price_levels.h, price_levels.cc): a window *)
(* of Span one-cent cells around the market, with an occupancy bitmap and  *)
(* a cached best cell, and an ordered map for every price that is not a    *)
(* whole cent inside the window.  The window is re-centred ("rebased")     *)
(* when a whole-cent price outside it becomes the best of the side.        *)
(*                                                                         *)
(* The side is a record                                                    *)
(*   base    base_cents_, the cents of cell 0, or NoBase                   *)
(*   alloc   ~cells_.empty(): the arrays are allocated on first use        *)
(*   cells   cells_, with EmptyLevel standing for a cell never allocated   *)
(*   bits    bits_, as the set of occupied cells                           *)
(*   count   array_count_                                                  *)
(*   best    best_cell_, or NoCell                                         *)
(*   far     far_, a map from price to level                               *)
(* and every member function that changes it is an operator from side to   *)
(* side.  The statistic rebases_ is left out.  A share count is a TLA+     *)
(* integer: one that the code would wrap below zero is negative here.      *)
(***************************************************************************)
EXTENDS Orders, Sequences

CONSTANT Span            \* tick_span: cells in the window

ASSUME SpanAssumption == Span \in Nat \ {0}

kTick == 100             \* price units in a cent
NoBase == -1             \* kNoBase: no whole-cent price seen yet
NoCell == -1

Cells == 0 .. Span - 1

SideType(keys) ==
  [base : Nat \cup {NoBase}, alloc : BOOLEAN, cells : [Cells -> LevelType],
   bits : SUBSET Cells, count : Nat, best : Cells \cup {NoCell}, far : [keys -> LevelType]]

IsSide(s) == DOMAIN s.far \subseteq Nat /\ s \in SideType(DOMAIN s.far)

-----------------------------------------------------------------------------
WholeCent(price) == price % kTick = 0

\* The base of a window centred on price.
WindowAt(price) ==
  LET centre == price \div kTick
  IN  IF centre > Span \div 2 THEN centre - Span \div 2 ELSE 0

NewLevels(reference_price) ==
  [base  |-> IF reference_price # 0 /\ WholeCent(reference_price)
             THEN WindowAt(reference_price) ELSE NoBase,
   alloc |-> FALSE, cells |-> [i \in Cells |-> EmptyLevel], bits |-> {},
   count |-> 0, best |-> NoCell, far |-> [p \in {} |-> EmptyLevel]]

CellOf(base, price) ==
  LET cents == price \div kTick
  IN  IF base = NoBase \/ ~WholeCent(price) \/ cents < base \/ cents - base >= Span
      THEN NoCell
      ELSE cents - base

ScanBest(side, bits) == IF bits = {} THEN NoCell ELSE BestOf(side, bits)

FarBestPrice(side, s) == BestOf(side, DOMAIN s.far)

EnsureCells(s) == [s EXCEPT !.alloc = TRUE]

\* Would a level at this price be better than every level in the array?
BeatsArray(side, s, price) ==
  s.best = NoCell \/ Better(side, price, s.cells[s.best].price)

-----------------------------------------------------------------------------
(***************************************************************************)
(* rebase: gather every level of the array and the map, clear the cells    *)
(* they were in, move the window, and place each level again.  The loop of *)
(* place() calls is written as what it leaves behind; RebaseLoop is the    *)
(* loop itself.  A cell that was empty keeps whatever price its last level *)
(* left in it.                                                             *)
(***************************************************************************)
Gathered(s) == {s.cells[i] : i \in s.bits} \cup {s.far[p] : p \in DOMAIN s.far}

\* Mutant of Rebase: the cells are not cleared as they are gathered.
RebaseLeavesStaleCells(side, s, centre_price) ==
  LET base == WindowAt(centre_price)
      near == {l \in Gathered(s) : CellOf(base, l.price) # NoCell}
      bits == {CellOf(base, l.price) : l \in near}
  IN  [base |-> base, alloc |-> TRUE,
       cells |-> [i \in Cells |-> IF i \in bits
                                  THEN CHOOSE l \in near : CellOf(base, l.price) = i
                                  ELSE s.cells[i]],
       bits |-> bits, count |-> Cardinality(near), best |-> ScanBest(side, bits),
       far |-> [p \in {l.price : l \in Gathered(s) \ near} |->
                  CHOOSE l \in Gathered(s) \ near : l.price = p]]

Rebase(side, s, centre_price) ==
  LET base == WindowAt(centre_price)
      near == {l \in Gathered(s) : CellOf(base, l.price) # NoCell}
      away == {l \in Gathered(s) : CellOf(base, l.price) = NoCell}
      bits == {CellOf(base, l.price) : l \in near}
  IN  [base  |-> base,
       alloc |-> TRUE,
       cells |-> [i \in Cells |->
                    IF i \in bits THEN CHOOSE l \in near : CellOf(base, l.price) = i
                    ELSE IF i \in s.bits THEN EmptyLevel
                    ELSE s.cells[i]],
       bits  |-> bits,
       count |-> Cardinality(near),
       best  |-> ScanBest(side, bits),
       far   |-> [p \in {l.price : l \in away} |-> CHOOSE l \in away : l.price = p]]

\* place() on a side whose window has already moved.
PlaceLevel(side, s, l) ==
  LET c == CellOf(s.base, l.price)
  IN  IF c = NoCell THEN [s EXCEPT !.far = Put(@, l.price, l)]
      ELSE [s EXCEPT !.cells[c] = l, !.bits = @ \cup {c}, !.count = @ + 1,
                     !.best = IF BeatsArray(side, s, l.price) THEN c ELSE @]

\* The values of f on a set of prices (or of cells), best first: the k-th has k - 1 better
\* ones.  Lowest first is the order of the sell side.
InOrder(side, f, S) ==
  [k \in 1 .. Cardinality(S) |->
     f[CHOOSE x \in S : Cardinality({y \in S : Better(side, y, x)}) = k - 1]]

\* rebase() as a loop: cells in slot order, then the map in price order.
RebaseLoop(side, s, centre_price) ==
  LET levels == InOrder("Sell", s.cells, s.bits) \o InOrder("Sell", s.far, DOMAIN s.far)
      cleared == [base |-> WindowAt(centre_price), alloc |-> TRUE,
                  cells |-> [i \in Cells |-> IF i \in s.bits THEN EmptyLevel ELSE s.cells[i]],
                  bits |-> {}, count |-> 0, best |-> NoCell, far |-> [p \in {} |-> EmptyLevel]]
      placed[k \in 0 .. Len(levels)] ==
        IF k = 0 THEN cleared ELSE PlaceLevel(side, placed[k - 1], levels[k])
  IN  placed[Len(levels)]

-----------------------------------------------------------------------------
(***************************************************************************)
(* add, reduce, remove.                                                    *)
(***************************************************************************)
\* Mutant of AddToCell: without the ensure_cells() call.
AddToCellUnallocated(side, s, c, price, shares) ==
  LET isNew == s.cells[c].orders = 0
  IN  [s EXCEPT
         !.cells[c] = [price |-> price, shares |-> @.shares + shares, orders |-> @.orders + 1],
         !.bits = @ \cup {c}, !.count = IF isNew THEN @ + 1 ELSE @,
         !.best = IF isNew /\ BeatsArray(side, s, price) THEN c ELSE @]

AddToCell(side, s, c, price, shares) ==
  LET l == s.cells[c]
      isNew == l.orders = 0
  IN  [s EXCEPT
         !.alloc = TRUE,
         !.cells[c] = [price  |-> IF isNew THEN price ELSE l.price,
                       shares |-> l.shares + shares, orders |-> l.orders + 1],
         !.bits  = IF isNew THEN @ \cup {c} ELSE @,
         !.count = IF isNew THEN @ + 1 ELSE @,
         !.best  = IF isNew /\ BeatsArray(side, s, price) THEN c ELSE @]

AddToFar(s, price, shares) ==
  LET l == IF price \in DOMAIN s.far THEN s.far[price] ELSE EmptyLevel
  IN  [s EXCEPT !.far = Put(s.far, price,
                            [price |-> price, shares |-> l.shares + shares,
                             orders |-> l.orders + 1])]

\* The first whole-cent price of a side's life fixes its window.
FixBase(s, price) ==
  IF s.base = NoBase /\ WholeCent(price) THEN [s EXCEPT !.base = WindowAt(price)] ELSE s

LevelsAdd(side, s, price, shares) ==
  LET t == FixBase(s, price)
      c == CellOf(t.base, price)
      u == AddToFar(t, price, shares)
  IN  IF c # NoCell THEN AddToCell(side, t, c, price, shares)
      ELSE IF WholeCent(price) /\ BeatsArray(side, u, price) THEN Rebase(side, u, price)
      ELSE u

LevelsReduce(s, price, shares) ==
  LET c == CellOf(s.base, price)
  IN  IF c # NoCell THEN [s EXCEPT !.cells[c].shares = @ - shares]
      ELSE IF price \in DOMAIN s.far THEN [s EXCEPT !.far[price].shares = @ - shares]
      ELSE s

\* The emptied cell was the best: rescan, and follow the market if the next best
\* whole-cent price is in the map.
AfterBestEmptied(side, s) ==
  LET t == [s EXCEPT !.best = ScanBest(side, s.bits)]
      fb == FarBestPrice(side, t)
  IN  IF DOMAIN t.far # {} /\ WholeCent(fb) /\ BeatsArray(side, t, fb)
      THEN Rebase(side, t, fb)
      ELSE t

\* Mutant of RemoveFromCell: the level is empty when its shares are, not its orders.
RemoveFromCellByShares(side, s, c, shares) ==
  LET l == s.cells[c]
      t == [s EXCEPT !.cells[c].orders = 0, !.cells[c].shares = 0,
                     !.bits = @ \ {c}, !.count = @ - 1]
  IN  IF l.shares # shares
      THEN [s EXCEPT !.cells[c] = [l EXCEPT !.shares = @ - shares, !.orders = @ - 1]]
      ELSE IF s.best = c THEN AfterBestEmptied(side, t)
      ELSE t

RemoveFromCell(side, s, c, shares) ==
  LET l == s.cells[c]
      t == [s EXCEPT !.cells[c].orders = 0, !.cells[c].shares = 0,
                     !.bits = @ \ {c}, !.count = @ - 1]
  IN  IF l.orders # 1
      THEN [s EXCEPT !.cells[c] = [l EXCEPT !.shares = @ - shares, !.orders = @ - 1]]
      ELSE IF s.best = c THEN AfterBestEmptied(side, t)
      ELSE t

RemoveFromFar(s, price, shares) ==
  LET l == s.far[price]
  IN  IF l.orders = 1
      THEN [s EXCEPT !.far = Drop(@, price)]
      ELSE [s EXCEPT !.far[price] = [l EXCEPT !.shares = @ - shares, !.orders = @ - 1]]

LevelsRemove(side, s, price, shares) ==
  LET c == CellOf(s.base, price)
  IN  IF c # NoCell THEN RemoveFromCell(side, s, c, shares)
      ELSE IF price \in DOMAIN s.far THEN RemoveFromFar(s, price, shares)
      ELSE s

-----------------------------------------------------------------------------
(***************************************************************************)
(* best, levels and check_invariants.  EmptyLevel is the answer for an     *)
(* empty side (std::nullopt).                                              *)
(***************************************************************************)
\* Mutant of Best: the map is looked at only when the array is empty.
BestOfArrayFirst(side, s) ==
  IF s.best # NoCell THEN s.cells[s.best]
  ELSE IF DOMAIN s.far # {} THEN s.far[FarBestPrice(side, s)]
  ELSE EmptyLevel

Best(side, s) ==
  IF DOMAIN s.far # {} /\ BeatsArray(side, s, FarBestPrice(side, s))
  THEN s.far[FarBestPrice(side, s)]
  ELSE IF s.best # NoCell THEN s.cells[s.best]
  ELSE EmptyLevel

\* levels(): the array, then the map, each best first, and their merge.
\* Mutant of Merge: the array before the map, as if the window held the best levels.
MergeArrayFirst(side, arr, far) == arr \o far

Merge(side, arr, far) ==
  LET out[p \in (1 .. Len(arr) + 1) \X (1 .. Len(far) + 1)] ==
        LET i == p[1]
            j == p[2]
        IN  CASE i > Len(arr) -> SubSeq(far, j, Len(far))
              [] i <= Len(arr) /\ j > Len(far) -> SubSeq(arr, i, Len(arr))
              [] OTHER -> IF Better(side, arr[i].price, far[j].price)
                          THEN <<arr[i]>> \o out[<<i + 1, j>>]
                          ELSE <<far[j]>> \o out[<<i, j + 1>>]
  IN  out[<<1, 1>>]

Levels(side, s) ==
  Merge(side, InOrder(side, s.cells, s.bits), InOrder(side, s.far, DOMAIN s.far))

CheckLevels(side, s) ==
  /\ \A i \in Cells : s.alloc => (i \in s.bits <=> s.cells[i].orders # 0)
  /\ \A i \in s.bits : s.cells[i].shares # 0 /\ CellOf(s.base, s.cells[i].price) = i
  /\ Cardinality(s.bits) = s.count
  /\ ScanBest(side, s.bits) = s.best
  /\ \A p \in DOMAIN s.far :
       /\ s.far[p].orders # 0 /\ s.far[p].shares # 0 /\ s.far[p].price = p
       /\ CellOf(s.base, p) = NoCell
=============================================================================
