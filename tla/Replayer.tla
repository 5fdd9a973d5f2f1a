------------------------------ MODULE Replayer ------------------------------
(***************************************************************************)
(* The replayer (apps/replayer/main.cc) with its packer (src/mold/packer): *)
(* it reads a recorded file message by message, packs the messages into    *)
(* MoldUDP64 packets and sends them, dropping some on purpose, and ends    *)
(* with an end of session packet.  The network is a set of datagrams in    *)
(* flight.  Pacing (RateLimiter) is modelled in Pacing; the schedule log   *)
(* only measures time and is left out.                                     *)
(***************************************************************************)
EXTENDS Integers, Sequences, FiniteSets, MoldDecoder

CONSTANTS
  Sizes,        \* the file: the length of each message
  MaxPayload,   \* --max-payload
  PacketLimits  \* values of --max-packets, 0 for no limit

VARIABLES
  tx,           \* the replayer
  wire          \* datagrams in flight

\* The session id of the replayer's stream (--session).
OwnSession == "own"

\* A message block is its 2-byte length and the message.
Block(n) == 2 + Sizes[n]

BodySize(blocks) ==
  LET sum[k \in 0 .. Len(blocks)] == IF k = 0 THEN 0 ELSE sum[k - 1] + Block(blocks[k])
  IN  sum[Len(blocks)]

NewReplayer(limit) ==
  [phase |-> "reading", max_packets |-> limit, next |-> 1,
   sequence |-> 1, packet |-> << >>,              \* Packer: sequence_ and the packet held
   messages_read |-> 0, messages_packed |-> 0, too_large |-> 0,
   packets_built |-> 0,
   packets_sent |-> 0, failures |-> 0,            \* UdpSender: what sendto accepted and refused
   drops |-> {}]                                  \* the drop log: [first, count] entries

-----------------------------------------------------------------------------
\* Mutant of TooLarge: the block's length prefix is forgotten.
TooLargeWithoutPrefix(n) == Sizes[n] > MaxPayload

TooLarge(n) == Block(n) > MaxPayload

\* Mutant of Fits: the block's length prefix is forgotten.
FitsWithoutPrefix(t, n) ==
  BodySize(t.packet) + Sizes[n] <= MaxPayload /\ Len(t.packet) # kEndOfSession - 1

\* A count can never reach the end of session marker.
Fits(t, n) ==
  /\ BodySize(t.packet) + Block(n) <= MaxPayload
  /\ Len(t.packet) # kEndOfSession - 1

Pack(t, n) == [t EXCEPT !.packet = Append(@, n), !.messages_packed = @ + 1]

\* finish() and what follows it: the sequence advances whether the packet is sent,
\* dropped by the gap injector or refused by the socket.
Outcomes == {"sent", "dropped", "failed"}

\* UdpSender::send counts by what sendto returned; a dropped packet never gets there.
Counted(t, outcome) ==
  [t EXCEPT !.packets_sent = IF outcome = "sent" THEN @ + 1 ELSE @,
            !.failures = IF outcome = "failed" THEN @ + 1 ELSE @]

\* Mutant of Finished: a dropped packet does not use up its numbers, which the next one
\* carries again.
FinishedReusingNumbers(t, outcome) ==
  IF t.packet = << >> THEN t ELSE
  [Counted(t, outcome) EXCEPT
     !.sequence = IF outcome = "dropped" THEN @ ELSE @ + Len(t.packet),
     !.packet = << >>, !.packets_built = @ + 1,
     !.drops = IF outcome = "dropped"
               THEN @ \cup {[first |-> t.sequence, count |-> Len(t.packet)]} ELSE @]

\* Mutant of Finished: a packet that is not sent does not use up its numbers.
FinishedIfSent(t, outcome) ==
  IF t.packet = << >> THEN t ELSE
  [t EXCEPT !.sequence = IF outcome = "sent" THEN @ + Len(t.packet) ELSE @,
            !.packet = << >>, !.packets_built = @ + 1]

Finished(t, outcome) ==
  IF t.packet = << >> THEN t ELSE
  [Counted(t, outcome) EXCEPT
     !.sequence = @ + Len(t.packet), !.packet = << >>, !.packets_built = @ + 1,
     !.drops = IF outcome = "dropped"
               THEN @ \cup {[first |-> t.sequence, count |-> Len(t.packet)]} ELSE @]

SendIf(outcome, pkt) == wire' = IF outcome = "sent" THEN wire \cup {pkt} ELSE wire

\* flush() does nothing when the packer holds nothing.
Flush(outcome) ==
  IF tx.packet = << >> THEN UNCHANGED wire
  ELSE SendIf(outcome, Datagram(OwnSession, tx.sequence, Len(tx.packet), tx.packet))

Reading == tx.phase = "reading" /\ tx.next <= Len(Sizes)

\* The next message of the file, counted as read.
Consumed == [tx EXCEPT !.next = @ + 1, !.messages_read = @ + 1]

\* Mutant of Skip: the message that fits no packet is not counted.
SkipUncounted == Reading /\ TooLarge(tx.next) /\ tx' = Consumed /\ UNCHANGED wire

Skip ==
  /\ Reading /\ TooLarge(tx.next)
  /\ tx' = [Consumed EXCEPT !.too_large = @ + 1]
  /\ UNCHANGED wire

PackNext ==
  /\ Reading /\ ~TooLarge(tx.next) /\ Fits(tx, tx.next)
  /\ tx' = Pack(Consumed, tx.next)
  /\ UNCHANGED wire

\* The packet is full: flush it, then retry the same message unless the packet limit is
\* reached, in which case the message is not counted as read after all.
FlushAndPack(outcome) ==
  LET t == Finished(tx, outcome)
  IN  /\ Reading /\ ~TooLarge(tx.next) /\ ~Fits(tx, tx.next)
      /\ Flush(outcome)
      /\ \/ /\ t.max_packets # 0 /\ t.packets_built >= t.max_packets
            /\ tx' = [t EXCEPT !.phase = "closing"]
         \/ /\ ~(t.max_packets # 0 /\ t.packets_built >= t.max_packets)
            /\ tx' = IF Fits(t, tx.next)
                     THEN Pack([t EXCEPT !.next = @ + 1, !.messages_read = @ + 1], tx.next)
                     ELSE [t EXCEPT !.messages_read = @ + 1, !.phase = "refused"]

EndOfFile ==
  /\ tx.phase = "reading" /\ tx.next > Len(Sizes)
  /\ tx' = [tx EXCEPT !.phase = "closing"]
  /\ UNCHANGED wire

FlushLast(outcome) ==
  /\ tx.phase = "closing" /\ tx.packet # << >>
  /\ Flush(outcome)
  /\ tx' = Finished(tx, outcome)

\* The end of session packet is never dropped on purpose, but its send may fail.
SendEnd(outcome) ==
  /\ tx.phase = "closing" /\ tx.packet = << >>
  /\ SendIf(outcome, Datagram(OwnSession, tx.sequence, kEndOfSession, << >>))
  /\ tx' = [Counted(tx, outcome) EXCEPT !.phase = "done"]

ReplayerInit == wire = {} /\ \E limit \in PacketLimits : tx = NewReplayer(limit)

ReplayerNext ==
  \/ Skip \/ PackNext \/ EndOfFile
  \/ \E outcome \in Outcomes : FlushAndPack(outcome) \/ FlushLast(outcome)
  \/ \E outcome \in {"sent", "failed"} : SendEnd(outcome)
=============================================================================
