----------------------------- MODULE BookReplay -----------------------------
(***************************************************************************)
(* The dispatch of one ITCH message into the books (src/book/replay.h,     *)
(* replay.cc), used for a file and for what a decoder delivers alike: an   *)
(* operator from the book set and the counters to the book set and the     *)
(* counters.                                                               *)
(*                                                                         *)
(* A message is a record with its type, whether its length is the one the  *)
(* table has for the type, its locate and the fields of its type.  Type    *)
(* "A" stands for 'A' and 'F', "E" for 'E' and 'C', "other" for the known  *)
(* types that move no book, "unknown" for every other type byte.           *)
(***************************************************************************)
EXTENDS BookSet

MovesBook(m) == m.type \in {"A", "E", "X", "D", "U"}

NoTally == [r \in ApplyResults |-> 0]

NewReplay ==
  [set |-> NewBookSet, messages |-> 0, unknown_type |-> 0, length_mismatch |-> 0,
   unknown_locate |-> 0, tally |-> NoTally]

\* Mutant of ReplayApply: a partial cancel deletes the order.
ReplayApplyCancelDeletes(b, m) ==
  CASE m.type = "A" -> BookAdd(b, m.order_ref, m.side, m.shares, m.price)
    [] m.type = "E" -> BookReduce(b, m.order_ref, m.shares)
    [] m.type \in {"X", "D"} -> BookRemove(b, m.order_ref)
    [] m.type = "U" -> BookReplace(b, m.order_ref, m.new_order_ref, m.shares, m.price)

ReplayApply(b, m) ==
  CASE m.type = "A" -> BookAdd(b, m.order_ref, m.side, m.shares, m.price)
    [] m.type \in {"E", "X"} -> BookReduce(b, m.order_ref, m.shares)
    [] m.type = "D" -> BookRemove(b, m.order_ref)
    [] m.type = "U" -> BookReplace(b, m.order_ref, m.new_order_ref, m.shares, m.price)

ReplayOrder(r, m) ==
  IF ~Known(r.set, m.locate) THEN [r EXCEPT !.unknown_locate = @ + 1]
  ELSE LET d == ReplayApply(r.set.books[m.locate], m)
       IN  [r EXCEPT !.set = SetBook(@, m.locate, d.book), !.tally[d.result] = @ + 1]

ReplayMessage(before, m) ==
  LET r == [before EXCEPT !.messages = @ + 1,
                          !.length_mismatch = IF m.type # "unknown" /\ ~m.length_ok
                                              THEN @ + 1 ELSE @]
  IN  CASE m.type = "unknown" -> [r EXCEPT !.unknown_type = @ + 1]
        [] m.type = "R" -> [r EXCEPT !.set = OnStockDirectory(@, m.locate)]
        [] m.type = "other" -> r
        [] MovesBook(m) -> ReplayOrder(r, m)

Clean(r) ==
  /\ r.length_mismatch = 0 /\ r.unknown_locate = 0
  /\ \A v \in ApplyResults \ {"Applied"} : r.tally[v] = 0
=============================================================================
