--------------------------- MODULE LimitOrderBook ---------------------------
(***************************************************************************)
(* What a book promises, whatever it stores: a map of live orders, the     *)
(* top of each side, and for each operation a verdict.  An operation that  *)
(* is rejected (UnknownRef, DuplicateRef) changes nothing, one that is     *)
(* applied changes exactly one order, and the top of each side is the best *)
(* price level of the orders that are live.                                *)
(***************************************************************************)
EXTENDS Orders

CONSTANTS Refs, AddSides, Prices, AddShares, CutShares

VARIABLES orders, top, verdict

vars == <<orders, top, verdict>>

Settle(o, v) ==
  /\ orders' = o
  /\ top' = [d \in Sides |-> TopOf(o, d)]
  /\ verdict' = v

Init ==
  /\ orders = NoOrders
  /\ top = [d \in Sides |-> EmptyLevel]
  /\ verdict = "None"

Reject(v) == UNCHANGED <<orders, top>> /\ verdict' = v

Enter(ref, side, shares, price) ==
  Settle(Put(orders, ref, [side |-> side, price |-> price, qty |-> shares]), "Applied")

Leave(ref, v) == Settle(Drop(orders, ref), v)

Cut(ref, shares) == Settle([orders EXCEPT ![ref].qty = @ - shares], "Applied")

Exchange(ref, new, shares, price) ==
  Settle(Put(Drop(orders, ref), new,
             [side |-> orders[ref].side, price |-> price, qty |-> shares]), "Applied")

\* Preparing for trading shows nothing to the outside.
Prepare == UNCHANGED <<orders, top>> /\ verdict' = "None"

Next ==
  \/ \E v \in {"UnknownRef", "DuplicateRef"} : Reject(v)
  \/ \E ref \in Refs \ DOMAIN orders, side \in AddSides, shares \in AddShares, price \in Prices :
       Enter(ref, side, shares, price)
  \/ \E ref \in DOMAIN orders, v \in {"Applied", "ClampedReduce"} : Leave(ref, v)
  \/ \E ref \in DOMAIN orders, shares \in CutShares :
       shares < orders[ref].qty /\ Cut(ref, shares)
  \/ \E ref \in DOMAIN orders :
       \E new \in (Refs \ DOMAIN orders) \cup {ref}, shares \in AddShares, price \in Prices :
         Exchange(ref, new, shares, price)
  \/ Prepare

Spec == Init /\ [][Next]_vars
=============================================================================
