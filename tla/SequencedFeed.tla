--------------------------- MODULE SequencedFeed ---------------------------
(***************************************************************************)
(* What a subscriber of one MoldUDP64 session is promised, whatever the    *)
(* network does: it joins at some message, and from there on each message  *)
(* is, in order, either handed to it or counted as missing.                *)
(***************************************************************************)
EXTENDS Integers

VARIABLES joined, position, got, missed

vars == <<joined, position, got, missed>>

Init == joined = FALSE /\ position = 1 /\ got = 0 /\ missed = 0

\* Skip m messages and receive k.  The first packet is where the subscriber joins.
Advance(m, k) ==
  /\ joined /\ joined' = TRUE
  /\ position' = position + m + k /\ got' = got + k /\ missed' = missed + m

Join(at, k) ==
  /\ ~joined /\ joined' = TRUE
  /\ position' = at + k /\ got' = k /\ UNCHANGED missed

Next ==
  LET grown == got' - got
      skipped == missed' - missed
  IN  /\ grown >= 0 /\ skipped >= 0
      /\ Advance(skipped, grown) \/ Join(position' - grown, grown)

Spec == Init /\ [][Next]_vars
=============================================================================
