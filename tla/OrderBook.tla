------------------------------ MODULE OrderBook ------------------------------
(***************************************************************************)
(* One OrderBook object under every sequence of calls that its callers     *)
(* (book/replay.cc, apps/feed_handler/main.cc) can make: add ('A', 'F'),   *)
(* reduce ('E', 'C', 'X'), remove ('D'), replace ('U') and reserve.  The   *)
(* arguments come off the wire, so any reference may be named at any time. *)
(***************************************************************************)
EXTENDS Book

CONSTANTS
  Refs,        \* order references that messages name
  AddSides,    \* sides of added orders
  Prices,      \* prices of added and replaced orders
  AddShares,   \* quantities of added and replaced orders
  CutShares    \* quantities executed or cancelled

ASSUME InputAssumption ==
  AddSides \subseteq Sides /\ Prices \subseteq Nat /\ AddShares \subseteq Nat /\ CutShares \subseteq Nat

VARIABLES
  book,        \* the book
  result       \* what the last call returned

vars == <<book, result>>

Init == book = NewBook /\ result = "None"

Apply(d) == book' = d.book /\ result' = d.result

Add(ref, side, shares, price) == Apply(BookAdd(book, ref, side, shares, price))

Reduce(ref, shares) == Apply(BookReduce(book, ref, shares))

Remove(ref) == Apply(BookRemove(book, ref))

Replace(original_ref, new_ref, shares, price) ==
  Apply(BookReplace(book, original_ref, new_ref, shares, price))

Reserve == book' = BookReserve(book) /\ result' = "None"

Next ==
  \/ \E ref \in Refs, side \in AddSides, shares \in AddShares, price \in Prices :
       Add(ref, side, shares, price)
  \/ \E ref \in Refs, shares \in CutShares : Reduce(ref, shares)
  \/ \E ref \in Refs : Remove(ref)
  \/ \E original_ref, new_ref \in Refs, shares \in AddShares, price \in Prices :
       Replace(original_ref, new_ref, shares, price)
  \/ Reserve

Spec == Init /\ [][Next]_vars

-----------------------------------------------------------------------------
TypeOK == IsBook(book) /\ result \in ApplyResults \cup {"None"}

\* order_book.h, check_invariants: after any sequence of calls both sides are what a
\* rebuild from the order index gives, the occupancy bitmap, the level count and the
\* cached best cell agree with the cells, and nothing in the map would fit in the array.
BookConsistent == CheckBook(book)

\* An order of zero shares is accepted, and the full check fails for as long as a level
\* consists of such orders alone, and no longer: it says so, and neither a level that has
\* other orders nor the book after the last of them is gone is any the worse for it.
OnlyZeroLevelsFail == CheckBook(book) <=> FullLevels(book)

\* resting_shares(), which the feed handler's conservation check trusts, is the sum of
\* the quantities of the live orders.
RestingSharesExact ==
  book.order_shares = Cardinality(SharesHeld(book.orders, DOMAIN book.orders))

\* A cell is reached only once its array exists: reduce, remove and best index cells_
\* without the emptiness check that add makes.
CellsAllocated ==
  \A d \in Sides : book.side[d].bits # {} \/ book.side[d].best # NoCell => book.side[d].alloc

\* Wherever rebase may be called, re-placing the gathered levels one by one ends in the
\* state that Rebase describes, whatever the centre.
RebaseIsItsLoop ==
  \A d \in Sides, p \in {q \in Prices : WholeCent(q)} :
    RebaseLoop(d, book.side[d], p) = Rebase(d, book.side[d], p)

\* price_levels.h:49: "every level, best first" (levels(), which dumps the book and feeds
\* its check): each level once, strictly improving to the front, where best() is.
LevelsBestFirst ==
  \A d \in Sides :
    LET out == Levels(d, book.side[d])
    IN  /\ {out[k] : k \in DOMAIN out} = RebuiltLevels(book.orders, d)
        /\ \A j, k \in DOMAIN out : j < k => Better(d, out[j].price, out[k].price)
        /\ out # << >> => out[1] = Best(d, book.side[d])

\* order_book.cc:16-19 and 130-132: an operation that is refused changes nothing.
RefusedChangesNothing ==
  [][result' \in {"UnknownRef", "DuplicateRef"} => book' = book]_vars

\* The detailed book implements the abstract one: best_bid() and best_ask() always
\* show the best level of the live orders, and each call is one abstract operation.
LOB == INSTANCE LimitOrderBook WITH
         orders <- book.orders,
         top <- [d \in Sides |-> Best(d, book.side[d])],
         verdict <- result

Implements == LOB!Spec
=============================================================================
