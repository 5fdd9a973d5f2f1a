-------------------------------- MODULE Book --------------------------------
(***************************************************************************)
(* The displayed book of one symbol and its operations                     *)
(* (src/book/order_book.h, order_book.cc), as operators from book to       *)
(* [book, result], so that a book set can hold many of them.               *)
(*                                                                         *)
(*   orders        orders_, the order index, as a map from live reference  *)
(*                 to side, price and remaining quantity (module           *)
(*                 OrderIndex is the hash table that implements it)        *)
(*   side          bids_ and asks_, indexed by side                        *)
(*   order_shares  kept by the order path                                  *)
(*   level_shares, level_orders   kept by the level path                   *)
(***************************************************************************)
EXTENDS PriceLevels

CONSTANT NullRef         \* the reference that marks an empty slot of the index (0)

ApplyResults == {"Applied", "UnknownRef", "DuplicateRef", "ClampedReduce"}

IsBook(b) ==
  /\ b = [orders |-> b.orders, side |-> b.side, order_shares |-> b.order_shares,
          level_shares |-> b.level_shares, level_orders |-> b.level_orders]
  /\ b.orders \in [DOMAIN b.orders -> OrderType]
  /\ DOMAIN b.side = Sides /\ \A d \in Sides : IsSide(b.side[d])
  /\ {b.order_shares, b.level_shares, b.level_orders} \subseteq Nat

NewBook ==
  [orders |-> NoOrders,
   side |-> [d \in Sides |-> NewLevels(0)],
   order_shares |-> 0, level_shares |-> 0, level_orders |-> 0]

Done(b, r) == [book |-> b, result |-> r]

Live(b, ref) == ref \in DOMAIN b.orders

\* OrderIndex::insert refuses its empty-slot marker as it refuses a live reference.
Insertable(b, ref) == ref # NullRef /\ ~Live(b, ref)

-----------------------------------------------------------------------------
\* Mutant of BookAdd: a refused duplicate is credited to its level all the same.
BookAddCreditsDuplicate(b, ref, side, shares, price) ==
  LET credited == [b EXCEPT !.side[side] = LevelsAdd(side, @, price, shares),
                            !.level_shares = @ + shares, !.level_orders = @ + 1]
  IN  IF ~Insertable(b, ref) THEN Done(credited, "DuplicateRef")
      ELSE Done([credited EXCEPT
                   !.orders = Put(@, ref, [side |-> side, price |-> price, qty |-> shares]),
                   !.order_shares = @ + shares],
                "Applied")

BookAdd(b, ref, side, shares, price) ==
  IF ~Insertable(b, ref) THEN Done(b, "DuplicateRef")
  ELSE Done([b EXCEPT
               !.orders = Put(@, ref, [side |-> side, price |-> price, qty |-> shares]),
               !.side[side] = LevelsAdd(side, @, price, shares),
               !.order_shares = @ + shares,
               !.level_shares = @ + shares,
               !.level_orders = @ + 1],
            "Applied")

\* What remove(ref), and a reduce that takes the whole of a live order, do.
EraseOrder(b, ref) ==
  LET o == b.orders[ref]
  IN  [b EXCEPT
         !.orders = Drop(@, ref),
         !.side[o.side] = LevelsRemove(o.side, @, o.price, o.qty),
         !.order_shares = @ - o.qty,
         !.level_shares = @ - o.qty,
         !.level_orders = @ - 1]

\* Mutant of ShrinkOrder: the order path's total is forgotten.
ShrinkOrderUntallied(b, ref, by) ==
  LET o == b.orders[ref]
  IN  [b EXCEPT !.orders[ref].qty = @ - by, !.level_shares = @ - by,
                !.side[o.side] = LevelsReduce(@, o.price, by)]

ShrinkOrder(b, ref, by) ==
  LET o == b.orders[ref]
  IN  [b EXCEPT
         !.orders[ref].qty = @ - by,
         !.side[o.side] = LevelsReduce(@, o.price, by),
         !.order_shares = @ - by,
         !.level_shares = @ - by]

\* Mutant of BookReduce: no clamp.
BookReduceUnclamped(b, ref, shares) ==
  IF ~Live(b, ref) THEN Done(b, "UnknownRef")
  ELSE Done(IF shares = b.orders[ref].qty THEN EraseOrder(b, ref)
            ELSE ShrinkOrder(b, ref, shares), "Applied")

\* A reduction by more than the order holds is clamped to what it holds, and an
\* order that reaches zero dies.
BookReduce(b, ref, shares) ==
  IF ~Live(b, ref) THEN Done(b, "UnknownRef")
  ELSE LET qty == b.orders[ref].qty
       IN  Done(IF shares >= qty THEN EraseOrder(b, ref) ELSE ShrinkOrder(b, ref, shares),
                IF shares > qty THEN "ClampedReduce" ELSE "Applied")

BookRemove(b, ref) ==
  IF ~Live(b, ref) THEN Done(b, "UnknownRef") ELSE Done(EraseOrder(b, ref), "Applied")

\* Mutant of BookReplace: the collision is found out after the original is gone.
BookReplaceChecksLate(b, original_ref, new_ref, shares, price) ==
  IF ~Live(b, original_ref) THEN Done(b, "UnknownRef")
  ELSE BookAdd(EraseOrder(b, original_ref), new_ref, b.orders[original_ref].side,
               shares, price)

\* The side is read before the original goes; the new reference is looked up, not
\* inserted, before anything changes.
BookReplace(b, original_ref, new_ref, shares, price) ==
  IF ~Live(b, original_ref) THEN Done(b, "UnknownRef")
  ELSE IF new_ref # original_ref /\ Live(b, new_ref) THEN Done(b, "DuplicateRef")
  ELSE BookAdd(EraseOrder(b, original_ref), new_ref, b.orders[original_ref].side,
               shares, price)

BookReserve(b) == [b EXCEPT !.side = [d \in Sides |-> EnsureCells(@[d])]]

-----------------------------------------------------------------------------
(***************************************************************************)
(* check_invariants_fast, and check_invariants: rebuild every level from   *)
(* the order index and compare it with the stored one.                     *)
(***************************************************************************)
CheckBookFast(b) ==
  b.order_shares = b.level_shares /\ Cardinality(DOMAIN b.orders) = b.level_orders

\* side_matches compares element by element; as each price occurs once in levels()
\* this is equality of the two sets and of their sizes.
CheckBook(b) ==
  /\ CheckBookFast(b)
  /\ \A d \in Sides :
       /\ CheckLevels(d, b.side[d])
       /\ Gathered(b.side[d]) = RebuiltLevels(b.orders, d)
       /\ b.side[d].count + Cardinality(DOMAIN b.side[d].far)
            = Cardinality(RebuiltLevels(b.orders, d))

\* No level consists of orders of zero shares alone.  add() refuses no quantity, and the full
\* check rejects a level without shares.
FullLevels(b) == \A d \in Sides : \A l \in RebuiltLevels(b.orders, d) : l.shares # 0
=============================================================================
