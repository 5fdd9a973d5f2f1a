---------------------------- MODULE MoldSessions ----------------------------
(***************************************************************************)
(* The MoldUDP64 decoder under any packets at all: of two sessions, with   *)
(* any sequence number up to where it wraps, heartbeats, end of session    *)
(* markers, malformed packets and runts, in any order.  MoldFeed has the   *)
(* decoder behind one replayer; here no sender is assumed.                 *)
(*                                                                         *)
(* What the packets say and what the sink got is kept beside the decoder,  *)
(* one entry per stretch of packets of one session.                        *)
(***************************************************************************)
EXTENDS MoldDecoder

CONSTANTS
  Sessions,        \* session ids
  Sequences,       \* sequence numbers that packets carry
  MessageCounts,   \* message counts that packets carry
  MaxArrivals      \* packets that arrive

ASSUME SessionsAssumption ==
  Sequences \subseteq Nat /\ MessageCounts \subseteq Nat /\ MaxArrivals \in Nat

VARIABLES
  dec,             \* the decoder
  arrived,         \* packets so far
  stretches        \* [session, from, upto, sunk], oldest first

sessionVars == <<dec, arrived, stretches>>

-----------------------------------------------------------------------------
\* The blocks of a packet, by their place in the stream of its session.
BlocksOf(first, n) == [k \in 1 .. n |-> first + k - 1]

Packets ==
  {Datagram(s, first, n, BlocksOf(first, IF n = kEndOfSession THEN 0 ELSE n)) :
     s \in Sessions, first \in Sequences, n \in MessageCounts}

\* As Packets, but with a block missing, with a trailing byte, or too short for a header.
Malformed ==
       {[pkt EXCEPT !.blocks = Tail(@)] : pkt \in {p \in Packets : p.blocks # << >>}}
  \cup {[pkt EXCEPT !.exhausted = FALSE] : pkt \in {p \in Packets : p.blocks # << >>}}
  \cup {[pkt EXCEPT !.short = TRUE] : pkt \in {p \in Packets : p.count = 0}}

Current == stretches[Len(stretches)]

\* The stretches with this packet's: a packet with a header that is of another session than
\* the one before it begins a new one, at its own sequence number.
Reached(pkt) ==
  IF pkt.short \/ (stretches # << >> /\ Current.session = pkt.session) THEN stretches
  ELSE Append(stretches, [session |-> pkt.session, from |-> pkt.sequence,
                          upto |-> pkt.sequence, sunk |-> << >>])

Record(s, sequence, delivered, upto) ==
  [s EXCEPT !.upto = upto,
            !.sunk = IF delivered = << >> THEN @
                     ELSE Append(@, [first |-> sequence, count |-> Len(delivered)])]

OnAnyPacket(pkt) ==
  LET d == OnPacket(dec, pkt)
      at == Reached(pkt)
  IN  /\ arrived < MaxArrivals /\ arrived' = arrived + 1
      /\ dec' = d.decoder
      /\ stretches' = IF at = << >> THEN at ELSE
           [at EXCEPT ![Len(at)] = Record(@, pkt.sequence, d.delivered, d.decoder.expected)]

SessionsInit == dec = NewDecoder /\ arrived = 0 /\ stretches = << >>

SessionsNext == \E pkt \in Packets \cup Malformed : OnAnyPacket(pkt)

SessionsSpec == SessionsInit /\ [][SessionsNext]_sessionVars

-----------------------------------------------------------------------------
Past(x) == (x.first + x.count) % kSequences

\* Where a stretch went on behind the first k packets that were delivered of it.
Resume(s, k) == IF k = 0 THEN s.from ELSE Past(s.sunk[k])

SumOf(f) ==
  LET upto[k \in 0 .. Len(f)] == IF k = 0 THEN 0 ELSE upto[k - 1] + f[k]
  IN  upto[Len(f)]

Messages(s) == SumOf([k \in 1 .. Len(s.sunk) |-> s.sunk[k].count])

\* The messages of a stretch that lie in front of each packet delivered, and behind the last.
Holes(s) ==
  SumOf([k \in 1 .. Len(s.sunk) |-> s.sunk[k].first - Resume(s, k - 1)])
    + (s.upto - Resume(s, Len(s.sunk)))

\* decoder.h:28-30: a duplicate or a retransmission is ignored.  Within a stretch of one
\* session each packet delivered lies behind the one before it, and none lies before the
\* stretch's first sequence number; only the wrap of the sequence, which Past takes part
\* in, and a change of session can bring a number back.
OnceInAStretch ==
  \A i \in DOMAIN stretches :
    \A k \in DOMAIN stretches[i].sunk :
      stretches[i].sunk[k].first >= Resume(stretches[i], k - 1)

\* decoder.cc:31-33: the session separates "this stream lost messages" from "this is a
\* different stream".  What the decoder counts as missing is exactly what is missing inside
\* the stretches of one session, with nothing across a change of session, and what it
\* counts as delivered and as changes is what was delivered and what changed.
GapsWithinSessions ==
  /\ dec.gap_messages = SumOf([i \in 1 .. Len(stretches) |-> Holes(stretches[i])])
  /\ dec.messages = SumOf([i \in 1 .. Len(stretches) |-> Messages(stretches[i])])
  /\ stretches # << >> => dec.session_changes = Len(stretches) - 1
=============================================================================
