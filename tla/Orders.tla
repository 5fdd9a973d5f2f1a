------------------------------- MODULE Orders -------------------------------
(***************************************************************************)
(* The vocabulary of the book modules: orders, sides, the price levels     *)
(* that a set of orders adds up to, and which of them is the best.  It     *)
(* knows nothing of how src/book stores any of it.                         *)
(*                                                                         *)
(* An order map is a function from live references to orders, a level the  *)
(* record of src/book/level.h.                                             *)
(***************************************************************************)
EXTENDS Integers, FiniteSets, Functions

Sides == {"Buy", "Sell"}

OrderType == [side : Sides, price : Nat, qty : Nat]

LevelType == [price : Nat, shares : Nat, orders : Nat]

EmptyLevel == [price |-> 0, shares |-> 0, orders |-> 0]

NoOrders == [r \in {} |-> [side |-> "Buy", price |-> 0, qty |-> 0]]

Put(f, k, v) == [x \in DOMAIN f \cup {k} |-> IF x = k THEN v ELSE f[x]]

Drop(f, k) == Restrict(f, DOMAIN f \ {k})

-----------------------------------------------------------------------------
Better(side, a, b) == IF side = "Buy" THEN a > b ELSE a < b

\* The best of a non-empty set of prices (or of cells: prices rise with cells).
BestOf(side, S) == CHOOSE x \in S : \A y \in S : ~Better(side, y, x)

-----------------------------------------------------------------------------
(***************************************************************************)
(* The levels of an order map.  A sum of quantities is the number of       *)
(* shares held, a share being an order reference and a position in that    *)
(* order: sums become cardinalities, which can be proved about.            *)
(***************************************************************************)
RefsAt(orders, side, price) ==
  {r \in DOMAIN orders : orders[r].side = side /\ orders[r].price = price}

SharesHeld(orders, R) == UNION {{r} \X (1 .. orders[r].qty) : r \in R}

RebuiltLevel(orders, side, price) ==
  LET R == RefsAt(orders, side, price)
  IN  [price |-> price, shares |-> Cardinality(SharesHeld(orders, R)),
       orders |-> Cardinality(R)]

PricesOf(orders, side) == {p \in {orders[r].price : r \in DOMAIN orders} :
                              RefsAt(orders, side, p) # {}}

RebuiltLevels(orders, side) ==
  {RebuiltLevel(orders, side, p) : p \in PricesOf(orders, side)}

\* The top of one side; EmptyLevel when the side is empty.
TopOf(orders, side) ==
  IF PricesOf(orders, side) = {} THEN EmptyLevel
  ELSE RebuiltLevel(orders, side, BestOf(side, PricesOf(orders, side)))
=============================================================================
