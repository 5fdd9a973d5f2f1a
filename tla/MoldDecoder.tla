---------------------------- MODULE MoldDecoder ----------------------------
(***************************************************************************)
(* The MoldUDP64 decoder (src/mold/decoder.h, decoder.cc): it strips the   *)
(* packet header, tracks the sequence of messages and hands each message   *)
(* block to a sink.  on_packet is an operator from decoder to              *)
(* [decoder, delivered].                                                   *)
(*                                                                         *)
(* A datagram is what the decoder can see of it: whether it is too short   *)
(* for a header, the header, the blocks the framer finds and whether they  *)
(* consume the payload exactly.                                            *)
(***************************************************************************)
EXTENDS Integers, Sequences

CONSTANTS
  kMaxGaps,        \* entries that the list of gaps may have
  kEndOfSession,   \* the message count that marks the end of the session (0xFFFF)
  kSequences       \* sequence numbers, after which they wrap (2^64)

ASSUME DecoderAssumption ==
  /\ kMaxGaps \in Nat
  /\ {kEndOfSession, kSequences} \subseteq Nat \ {0, 1}

kHeartbeat == 0

NoSession == "no session"

Datagram(session, sequence, count, blocks) ==
  [short |-> FALSE, session |-> session, sequence |-> sequence, count |-> count,
   blocks |-> blocks, exhausted |-> TRUE]

NewDecoder ==
  [started |-> FALSE, session |-> NoSession, session_changes |-> 0,
   expected |-> 1, last_sequence |-> 0, eos |-> FALSE,
   applied |-> 0, messages |-> 0, duplicates |-> 0, malformed |-> 0, heartbeats |-> 0,
   gaps |-> << >>, gaps_total |-> 0, gap_messages |-> 0]

-----------------------------------------------------------------------------
\* Mutant of NoteGap: a gap that is not listed is not counted.
NoteGapIfListed(d, first, count) ==
  IF Len(d.gaps) >= kMaxGaps THEN d
  ELSE [d EXCEPT !.gaps_total = @ + 1, !.gap_messages = @ + count,
                 !.gaps = Append(@, [first_missing |-> first, count |-> count])]

NoteGap(d, first, count) ==
  [d EXCEPT !.gaps_total = @ + 1,
            !.gap_messages = @ + count,
            !.gaps = IF Len(@) < kMaxGaps
                     THEN Append(@, [first_missing |-> first, count |-> count]) ELSE @]

\* The hole, if any, in front of a packet.
NoteHole(d, sequence) ==
  IF sequence > d.expected THEN NoteGap(d, d.expected, sequence - d.expected) ELSE d

\* Mutant of EnterSession: the position of the old session is kept.
EnterSessionKeepsExpected(d, pkt) ==
  IF d.started /\ pkt.session = d.session THEN d
  ELSE [d EXCEPT !.session = pkt.session, !.started = TRUE,
                 !.expected = IF d.started THEN @ ELSE pkt.sequence,
                 !.session_changes = IF d.started THEN @ + 1 ELSE @]

\* The first packet defines the session; a packet of another one restarts the sequence.
EnterSession(d, pkt) ==
  IF d.started /\ pkt.session = d.session THEN d
  ELSE [d EXCEPT !.session = pkt.session, !.expected = pkt.sequence, !.started = TRUE,
                 !.session_changes = IF d.started THEN @ + 1 ELSE @]

Ignore(d) == [decoder |-> d, delivered |-> << >>]

EndOfSession(d, pkt) ==
  [NoteHole(d, pkt.sequence) EXCEPT
     !.expected = IF pkt.sequence > @ THEN pkt.sequence ELSE @,
     !.eos = TRUE, !.last_sequence = pkt.sequence]

\* Mutant of Stale: compared with the packet delivered last.
StaleByLastPacket(d, pkt) == pkt.sequence < d.last_sequence

\* A duplicate, or a retransmission of what was delivered or given up.
Stale(d, pkt) == pkt.sequence < d.expected

Valid(pkt) == pkt.exhausted /\ Len(pkt.blocks) = pkt.count

\* Mutant of Deliver: the position advances by the packet's count, past no hole.
DeliverFromExpected(d, pkt) ==
  [decoder   |-> [NoteHole(d, pkt.sequence) EXCEPT
                    !.last_sequence = pkt.sequence, !.messages = @ + pkt.count,
                    !.applied = @ + 1, !.expected = (@ + pkt.count) % kSequences],
   delivered |-> pkt.blocks]

Deliver(d, pkt) ==
  [decoder   |-> [NoteHole(d, pkt.sequence) EXCEPT
                    !.last_sequence = pkt.sequence, !.messages = @ + pkt.count,
                    !.applied = @ + 1,
                    !.expected = (pkt.sequence + pkt.count) % kSequences],
   delivered |-> pkt.blocks]

OnPacket(before, pkt) ==
  LET d == EnterSession(before, pkt)
  IN  CASE pkt.short                    -> Ignore([before EXCEPT !.malformed = @ + 1])
        [] OTHER ->
      CASE pkt.count = kEndOfSession    -> Ignore(EndOfSession(d, pkt))
        [] pkt.count = kHeartbeat       -> Ignore([d EXCEPT !.heartbeats = @ + 1])
        [] OTHER ->
      IF Stale(d, pkt)                  THEN Ignore([d EXCEPT !.duplicates = @ + 1])
      ELSE IF ~Valid(pkt)               THEN Ignore([d EXCEPT !.malformed = @ + 1])
      ELSE Deliver(d, pkt)
=============================================================================
