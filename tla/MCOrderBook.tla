---------------------------- MODULE MCOrderBook ----------------------------
(* Model-checking instances of OrderBook. *)
EXTENDS OrderBook, TLC

\* The book treats references alike, the marker of an empty slot excepted.
RefSymmetry == Permutations(Refs)

\* A constraint: the states in which one side holds nothing and has no window, so that a
\* run can take many prices on either side and not the product of the two.
OneSided ==
  \E d \in Sides : book.side[d].base = NoBase /\ DOMAIN book.side[d].far = {}
=============================================================================
