----------------------------- MODULE LossyFile -----------------------------
(***************************************************************************)
(* What a book built from the wire is: the fold of the file with some      *)
(* whole stretches of consecutive messages left out.  Messages are taken   *)
(* in the order of the file, none twice, and how many were left out is     *)
(* known.                                                                  *)
(***************************************************************************)
EXTENDS Integers

CONSTANTS
  Stream,           \* the messages, in the order of the file
  Start,            \* the books and the counters before the first message
  Apply(_, _)       \* what a message makes of them

VARIABLES
  position,         \* the next message
  skipped,          \* messages left out
  folded            \* the books and the counters

\* Fold the messages from first to last, one by one.
Fold(r, first, last) ==
  LET upto[n \in first - 1 .. last] ==
        IF n < first THEN r ELSE Apply(upto[n - 1], Stream[n])
  IN  upto[last]

Init == position = 1 /\ skipped = 0 /\ folded = Start

\* Leave out some messages, then take those up to the new position.
Next ==
  \E from \in position .. position' :
    /\ skipped' = skipped + (from - position)
    /\ folded' = Fold(folded, from, position' - 1)

Spec == Init /\ [][Next]_<<position, skipped, folded>>
=============================================================================
