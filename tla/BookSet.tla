------------------------------ MODULE BookSet ------------------------------
(***************************************************************************)
(* The books of all symbols (src/book/book_set.h, book_set.cc): a vector   *)
(* indexed by stock locate that a stock directory message grows, and which *)
(* of its entries a directory message has named.                           *)
(*                                                                         *)
(*   books        books_ (and symbols_, whose text is left out), a function *)
(*                on 0 .. n - 1                                            *)
(*   known        known_, as the set of locates                            *)
(*   registered   registered_                                              *)
(***************************************************************************)
EXTENDS Book

NewBookSet == [books |-> [l \in {} |-> NewBook], known |-> {}, registered |-> 0]

\* resize() default-constructs every book up to the new locate.
OnStockDirectory(s, locate) ==
  [books |-> [l \in DOMAIN s.books \cup 0 .. locate |->
                IF l \in DOMAIN s.books THEN s.books[l] ELSE NewBook],
   known |-> s.known \cup {locate},
   registered |-> IF locate \in s.known THEN s.registered ELSE s.registered + 1]

\* Mutant of Known: a locate within the table passes for a registered one.
KnownIfInTable(s, locate) == locate \in DOMAIN s.books

Known(s, locate) == locate \in DOMAIN s.books /\ locate \in s.known

SetBook(s, locate, b) == [s EXCEPT !.books[locate] = b]

\* The sum of every book's order_shares, counted share by share as in SharesHeld.
RestingShares(s) ==
  Cardinality(UNION {{l} \X (1 .. s.books[l].order_shares) : l \in DOMAIN s.books})

CheckBookSet(s) == \A l \in DOMAIN s.books : l \in s.known => CheckBook(s.books[l])
=============================================================================
