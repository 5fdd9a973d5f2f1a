------------------------------ MODULE MoldFeed ------------------------------
(***************************************************************************)
(* The market data path end to end: the replayer, a UDP network that may   *)
(* lose, duplicate and reorder, the receiver thread                        *)
(* (src/receive/recvfrom_receiver.cc) and the decoder it feeds.  Another   *)
(* thread may ask the receiver to stop at any time.  Datagrams of other    *)
(* senders (Strays: heartbeats, retransmissions, malformed packets) may    *)
(* arrive as well, at most MaxExtra of them and of duplicates.             *)
(***************************************************************************)
EXTENDS Replayer

CONSTANTS
  kBufferSize,   \* bytes of the receive buffer
  Strays,        \* datagrams the replayer did not send
  MaxExtra       \* bound on stray and duplicated datagrams

ASSUME FeedAssumption == kBufferSize \in Nat /\ MaxExtra \in Nat

VARIABLES
  rx,      \* the receiver: pc, the stop flag, the counters
  dec,     \* the decoder
  sunk,    \* the packets the decoder delivered: [first, blocks], in order
  extra,   \* strays and duplicates so far
  late     \* packets handed to the decoder since stop was requested

feedVars == <<tx, wire, rx, dec, sunk, extra, late>>

kHeaderSize == 20

\* The messages that a packet can carry, and the sequence number that each of them gets: one
\* more than there are such messages before it in the file.
Sendable == {n \in 1 .. Len(Sizes) : ~TooLarge(n)}

Place(n) == Cardinality({m \in Sendable : m <= n})

\* The message behind each sequence number.
Packed == [s \in 1 .. Cardinality(Sendable) |-> CHOOSE n \in Sendable : Place(n) = s]

Carries(first, blocks) ==
  \A i \in DOMAIN blocks : blocks[i] \in Sendable /\ Place(blocks[i]) = first + i - 1

\* The sequence numbers of a recording do not wrap (2^64 messages are no file).
ASSUME RecordingAssumption ==
  /\ Sizes \in Seq(Nat) /\ MaxPayload \in Nat /\ PacketLimits \subseteq Nat
  /\ Len(Sizes) + 1 < kSequences

\* What other senders may put on the replayer's session: a packet that the decoder takes for
\* messages carries those of the file, under their numbers, and only the replayer says that
\* the session ends.  Malformed packets, runts and heartbeats may say anything.
ASSUME StrayAssumption ==
  \A p \in Strays :
    /\ p.short \in BOOLEAN /\ p.exhausted \in BOOLEAN
    /\ p.sequence \in Nat /\ p.count \in Nat /\ p.blocks \in Seq(Nat)
    /\ ~p.short =>
         /\ p.session = OwnSession /\ p.count # kEndOfSession
         /\ Valid(p) => Carries(p.sequence, p.blocks)

DatagramSize(pkt) == IF pkt.short THEN kHeaderSize - 1 ELSE kHeaderSize + BodySize(pkt.blocks)

-----------------------------------------------------------------------------
FeedInit ==
  /\ ReplayerInit
  /\ rx = [pc |-> "check", stop |-> FALSE, packets |-> 0, truncated |-> 0]
  /\ dec = NewDecoder /\ sunk = << >> /\ extra = 0 /\ late = 0

Replay == ReplayerNext /\ UNCHANGED <<rx, dec, sunk, extra, late>>

Lose(pkt) == wire' = wire \ {pkt} /\ UNCHANGED <<tx, rx, dec, sunk, extra, late>>

\* Mutant of CheckStop: the flag is not looked at.
CheckStopIgnored ==
  rx.pc = "check" /\ rx' = [rx EXCEPT !.pc = "recvfrom"] /\ UNCHANGED <<tx, wire, dec, sunk, extra, late>>

\* run(): the loop condition, read once per datagram.
CheckStop ==
  /\ rx.pc = "check"
  /\ rx' = [rx EXCEPT !.pc = IF rx.stop THEN "returned" ELSE "recvfrom"]
  /\ UNCHANGED <<tx, wire, dec, sunk, extra, late>>

\* recvfrom returned a datagram: a truncated one is counted and dropped, the rest go
\* to the decoder, which hands the blocks to its sink.
Take(pkt) ==
  LET d == OnPacket(dec, pkt)
      accepted == DatagramSize(pkt) <= kBufferSize
  IN  /\ rx.pc = "recvfrom"
      /\ rx' = [rx EXCEPT !.pc = "check",
                          !.packets = IF accepted THEN @ + 1 ELSE @,
                          !.truncated = IF accepted THEN @ ELSE @ + 1]
      /\ dec' = IF accepted THEN d.decoder ELSE dec
      /\ sunk' = IF accepted /\ d.delivered # << >>
                 THEN Append(sunk, [first |-> pkt.sequence, blocks |-> d.delivered]) ELSE sunk
      /\ late' = IF accepted /\ rx.stop THEN late + 1 ELSE late
      /\ UNCHANGED tx

Receive(pkt) == Take(pkt) /\ wire' = wire \ {pkt} /\ UNCHANGED extra

ReceiveExtra(pkt) ==
  Take(pkt) /\ extra < MaxExtra /\ extra' = extra + 1 /\ UNCHANGED wire

\* recvfrom failed: EINTR is retried, anything else ends run().
Interrupted ==
  /\ rx.pc = "recvfrom"
  /\ \E pc \in {"check", "returned"} : rx' = [rx EXCEPT !.pc = pc]
  /\ UNCHANGED <<tx, wire, dec, sunk, extra, late>>

\* stop(), from any other thread.
Stop ==
  /\ rx' = [rx EXCEPT !.stop = TRUE]
  /\ UNCHANGED <<tx, wire, dec, sunk, extra, late>>

FeedNext ==
  \/ Replay
  \/ \E pkt \in wire : Lose(pkt) \/ Receive(pkt)
  \/ \E pkt \in wire \cup Strays : ReceiveExtra(pkt)
  \/ CheckStop \/ Interrupted \/ Stop

FeedSpec == FeedInit /\ [][FeedNext]_feedVars

-----------------------------------------------------------------------------
(***************************************************************************)
(* The replayer.                                                           *)
(***************************************************************************)
\* main.cc:323-325, at any time and not only in the summary: every message read was
\* packed or too large, and the packer's sequence is 1 + the messages packed.  Every packet
\* built was sent, dropped or refused, and so was the one that ends the session (304-308).
ReplayAddsUp ==
  /\ tx.packets_sent + tx.failures + Cardinality(tx.drops) =
       tx.packets_built + (IF tx.phase = "done" THEN 1 ELSE 0)
  /\ tx.messages_packed + tx.too_large = tx.messages_read
  /\ tx.sequence + Len(tx.packet) = 1 + tx.messages_packed

\* A packet never outgrows max_payload and never carries the count that means end of
\* session; and a message that fits an empty packet is never refused (main.cc:231-236).
PacketsWellFormed ==
  /\ tx.phase # "refused"
  /\ \A pkt \in wire :
       /\ BodySize(pkt.blocks) <= MaxPayload
       /\ pkt.count = kEndOfSession => pkt.blocks = << >>
       /\ pkt.count # kEndOfSession => pkt.count = Len(pkt.blocks) /\ pkt.count > 0

(***************************************************************************)
(* The decoder.  These hold while no stray packet opens another session.   *)
(***************************************************************************)
SunkSequences(p) == p.first .. p.first + Len(p.blocks) - 1
GapSequences(g) == g.first_missing .. g.first_missing + g.count - 1

Listed == UNION {GapSequences(dec.gaps[k]) : k \in DOMAIN dec.gaps}
Delivered == UNION {SunkSequences(sunk[k]) : k \in DOMAIN sunk}

\* Nothing reaches the sink twice or out of order, however the network behaves, and the
\* message that it gets for a sequence number is the one the replayer packed under it.
DeliveredOnceInOrder ==
  /\ \A j, k \in DOMAIN sunk :
       j < k => sunk[j].first + Len(sunk[j].blocks) <= sunk[k].first
  /\ \A k \in DOMAIN sunk : \A i \in DOMAIN sunk[k].blocks :
       sunk[k].blocks[i] = Packed[sunk[k].first + i - 1]

\* Where the decoder joined the stream.
Joined == dec.expected - dec.messages - dec.gap_messages

EveryGapListed == dec.gaps_total = Len(dec.gaps)

\* The end of session packet reveals a hole at the end of the stream: once it arrived,
\* everything the replayer packed has been delivered, reported missing, or preceded the
\* first packet that arrived.
EndRevealsHoles == dec.eos => tx.phase = "done" /\ dec.expected >= tx.sequence

\* No silent loss: from the first sequence number the decoder saw, every number below
\* the expected one was delivered or lies in exactly one gap, up to the last number of the
\* stream if the end of session arrived; gap_messages() counts the missing ones even when
\* the list of gaps is full.
NoSilentLoss ==
  LET seen == Delivered \cup Listed
  IN  /\ Cardinality(Delivered) = dec.messages
      /\ Delivered \cap Listed = {}
      /\ seen \subseteq Joined .. dec.expected - 1
      /\ EveryGapListed => seen = Joined .. dec.expected - 1
      /\ dec.gaps_total >= Len(dec.gaps) /\ Len(dec.gaps) <= kMaxGaps
      /\ EndRevealsHoles

\* A drop on purpose looks like a real loss (main.cc:191-192), so the drop log and the
\* decoder's list of gaps can be compared: what the log says was dropped, since the decoder
\* joined and up to where it stands, is listed as missing, unless another sender
\* retransmitted it.
Dropped == UNION {d.first .. d.first + d.count - 1 : d \in tx.drops}

Retransmitted == UNION {p.sequence .. p.sequence + p.count - 1 : p \in Strays}

DropsLookLikeLoss ==
  EveryGapListed =>
    (Dropped \cap (Joined .. dec.expected - 1)) \ Retransmitted \subseteq Listed

\* The decoder is an in-order feed: no step of it takes the position back, skips what it
\* does not count, or counts twice.
Promise == INSTANCE SequencedFeed WITH
             joined <- dec.started, position <- dec.expected,
             got <- dec.messages, missed <- dec.gap_messages

ImplementsPromise == Promise!Spec

\* A receiver that was asked to stop hands on at most the datagram it was waiting for.
StopsPromptly == late <= 1

\* The replayer always gets to the end of session packet, whatever is sent, dropped or
\* refused on the way: no message is tried for ever.
ReplayEnds == <>(tx.phase = "done")

\* decoder.h:36-40, decoder.cc:71-74: a malformed packet is rejected whole.
MalformedChangesNothing ==
  [][dec'.malformed # dec.malformed => dec' = [dec EXCEPT !.malformed = @ + 1]]_feedVars
=============================================================================
