--------------------------- MODULE MoldFeedProofs ---------------------------
(***************************************************************************)
(* The market data path of module MoldFeed for every recording, payload    *)
(* size, list of gaps, buffer and number of stray packets: the properties  *)
(* that its runs check, from the inductive invariant FeedInv.              *)
(*                                                                         *)
(* The invariant has a part for each of the replayer (TxInv), a datagram   *)
(* in flight (Own), the decoder with its sink (DecInv), what these say of  *)
(* each other (Agree), and the receiver's stop flag (StopInv).             *)
(***************************************************************************)
EXTENDS MoldFeed, FiniteSetTheorems, SequenceTheorems, WellFoundedInduction, TLAPS

-----------------------------------------------------------------------------
(***************************************************************************)
(* The inductive invariant.                                                *)
(***************************************************************************)
Msgs == 1 .. Len(Sizes)

\* The messages before the n-th that a packet can carry.
Before(n) == {m \in Sendable : m < n}

TxType ==
  [phase : {"reading", "closing", "done"}, max_packets : Nat, next : Nat,
   sequence : Nat, packet : Seq(Msgs),
   messages_read : Nat, messages_packed : Nat, too_large : Nat, packets_built : Nat,
   packets_sent : Nat, failures : Nat, drops : SUBSET [first : Nat, count : Nat]]

\* The packer's counts are those of the file up to where it was read, and the packet it
\* holds carries the last of them.
PackerInv(t) ==
  /\ t.next \in 1 .. Len(Sizes) + 1
  /\ t.messages_read = t.next - 1
  /\ t.messages_packed = Cardinality(Before(t.next))
  /\ t.messages_packed + t.too_large = t.messages_read
  /\ t.sequence >= 1 /\ t.sequence + Len(t.packet) = 1 + t.messages_packed
  /\ Carries(t.sequence, t.packet)
  /\ BodySize(t.packet) <= MaxPayload /\ Len(t.packet) < kEndOfSession
  /\ t.phase = "done" => t.packet = << >>

\* The sender's counts and the drop log are those of the packets built.
SenderInv(t) ==
  /\ IsFiniteSet(t.drops)
  /\ t.packets_sent + t.failures + Cardinality(t.drops) =
       t.packets_built + (IF t.phase = "done" THEN 1 ELSE 0)
  /\ \A d \in t.drops : d.first >= 1 /\ d.count >= 1 /\ d.first + d.count <= t.sequence

TxInv(t) == t \in TxType /\ PackerInv(t) /\ SenderInv(t)

\* A datagram that the replayer sent: the end of the session, or a packet of messages none
\* of which it dropped.
OwnData(pkt, t) ==
  /\ pkt.count = Len(pkt.blocks) /\ pkt.count > 0 /\ pkt.count < kEndOfSession
  /\ pkt.sequence >= 1 /\ pkt.sequence + pkt.count <= t.sequence
  /\ Carries(pkt.sequence, pkt.blocks) /\ BodySize(pkt.blocks) <= MaxPayload
  /\ \A d \in t.drops :
       d.first + d.count <= pkt.sequence \/ pkt.sequence + pkt.count <= d.first

OwnEnd(pkt, t) ==
  /\ pkt.count = kEndOfSession /\ pkt.blocks = << >>
  /\ pkt.sequence = t.sequence /\ t.phase = "done"

Own(pkt, t) ==
  /\ \E sequence \in Nat, count \in Nat, blocks \in Seq(Msgs) :
       pkt = Datagram(OwnSession, sequence, count, blocks)
  /\ OwnData(pkt, t) \/ OwnEnd(pkt, t)

GapType == [first_missing : Nat, count : Nat]

DecType ==
  [started : BOOLEAN, session : {NoSession, OwnSession}, session_changes : Nat,
   expected : Nat, last_sequence : Nat, eos : BOOLEAN,
   applied : Nat, messages : Nat, duplicates : Nat, malformed : Nat, heartbeats : Nat,
   gaps : Seq(GapType), gaps_total : Nat, gap_messages : Nat]

SunkType == [first : Nat, blocks : Seq(Nat)]

\* Listed, Delivered and Joined, of any decoder and sink.
SeqsOf(s) == UNION {SunkSequences(s[k]) : k \in DOMAIN s}
MissingIn(l) == UNION {GapSequences(l[k]) : k \in DOMAIN l}
GapsOf(d) == MissingIn(d.gaps)
JoinedOf(d) == d.expected - d.messages - d.gap_messages
RangeOf(d) == JoinedOf(d) .. d.expected - 1

FreshOrJoined(d, s) ==
  /\ d.started => d.session = OwnSession
  /\ ~d.started =>
       /\ d.expected = 1 /\ d.messages = 0 /\ d.gap_messages = 0 /\ d.gaps_total = 0
       /\ d.gaps = << >> /\ ~d.eos /\ s = << >>

\* What was delivered and what is listed as missing make up what lies between the joining
\* point and the position.
AccountInv(d, s) ==
  /\ SeqsOf(s) \subseteq RangeOf(d) /\ GapsOf(d) \subseteq RangeOf(d)
  /\ SeqsOf(s) \cap GapsOf(d) = {}
  /\ Cardinality(SeqsOf(s)) = d.messages
  /\ Len(d.gaps) <= kMaxGaps /\ Len(d.gaps) <= d.gaps_total
  /\ d.gaps_total = Len(d.gaps) => RangeOf(d) \subseteq SeqsOf(s) \cup GapsOf(d)

OrderInv(d, s) ==
  /\ \A j, k \in DOMAIN s : j < k => s[j].first + Len(s[j].blocks) <= s[k].first
  /\ \A k \in DOMAIN s :
       s[k].first + Len(s[k].blocks) <= d.expected /\ Carries(s[k].first, s[k].blocks)

DecInv(d, s) ==
  d \in DecType /\ s \in Seq(SunkType) /\ FreshOrJoined(d, s) /\ AccountInv(d, s) /\ OrderInv(d, s)

\* Another sender may send the message with the number n.
Retransmits(n) ==
  \E p \in Strays : ~p.short /\ Valid(p) /\ n \in p.sequence .. p.sequence + p.count - 1

\* What reached the sink and was not retransmitted by another sender, the replayer sent; and
\* the end of the session is its end.
Agree(d, s, t) ==
  /\ \A n \in SeqsOf(s) :
       \/ Retransmits(n)
       \/ /\ n < t.sequence
          /\ \A r \in t.drops : n < r.first \/ r.first + r.count <= n
  /\ d.eos => t.phase = "done" /\ d.expected >= t.sequence

StopInv ==
  /\ rx.pc \in {"check", "recvfrom", "returned"} /\ late \in {0, 1}
  /\ late = 1 => rx.stop /\ rx.pc # "recvfrom"

FeedInv ==
  /\ TxInv(tx) /\ \A pkt \in wire : Own(pkt, tx)
  /\ DecInv(dec, sunk) /\ Agree(dec, sunk, tx)

-----------------------------------------------------------------------------
(***************************************************************************)
(* The size of a packet.                                                   *)
(***************************************************************************)

\* A non-empty set of naturals has a least element.
LEMMA LeastNat ==
  ASSUME NEW T \in SUBSET Nat, T # {}
  PROVE  \E m \in T : \A k \in T : m <= k
<1>1. \E m \in T : \A k \in T : ~(<<k, m>> \in OpToRel(<, Nat))
  BY NatLessThanWellFounded, WFMin
<1>2. PICK m \in T : \A k \in T : ~(<<k, m>> \in OpToRel(<, Nat))
  BY <1>1
<1> WITNESS m \in T
<1> TAKE k \in T
<1>3. <<k, m>> \in Nat \X Nat /\ ~(k < m)
  BY <1>2 DEF OpToRel
<1> QED
  BY <1>3

\* What each block has is a natural number of bytes.
LEMMA BlockType ==
  ASSUME NEW n \in Msgs
  PROVE  Block(n) \in Nat /\ Block(n) >= 2
BY RecordingAssumption DEF Block, Msgs

\* The running size of the first blocks, as BodySize adds it up.
Sums(b, n, g) ==
  g = [k \in 0 .. n |-> IF k = 0 THEN 0 ELSE g[k - 1] + Block(b[k])]

SameUpTo(b, c, n) == \A k \in 1 .. n : b[k] = c[k]

\* For any blocks there is one running size: otherwise take the shortest prefix with none.
LEMMA SumsExist ==
  ASSUME NEW b \in Seq(Msgs)
  PROVE  \E g \in [0 .. Len(b) -> Nat] : Sums(b, Len(b), g)
<1> DEFINE Bad == {n \in 0 .. Len(b) : ~\E g \in [0 .. n -> Nat] : Sums(b, n, g)}
<1>0. Len(b) \in Nat
  OBVIOUS
<1>1. SUFFICES ASSUME Bad # {} PROVE FALSE
  BY <1>0
<1>2. PICK n \in Bad : \A k \in Bad : n <= k
  <2>1. Bad \in SUBSET Nat
    BY <1>0
  <2> HIDE DEF Bad
  <2> QED
    BY <1>1, <2>1, LeastNat
<1>3. n # 0
  <2> DEFINE g == [k \in 0 .. 0 |-> 0]
  <2>1. g \in [0 .. 0 -> Nat] /\ Sums(b, 0, g)
    BY DEF Sums
  <2> QED
    BY <2>1
<1>4. n - 1 \in 0 .. Len(b) /\ n - 1 \notin Bad /\ n \in 1 .. Len(b)
  <2>1. n \in 1 .. Len(b)
    BY <1>0, <1>3
  <2>2. ~(n <= n - 1)
    BY <2>1
  <2>3. n - 1 \notin Bad
    <3> HIDE DEF Bad
    <3> QED
      BY <1>2, <2>2
  <2> QED
    BY <1>0, <2>1, <2>3
<1>5. PICK h \in [0 .. n - 1 -> Nat] : Sums(b, n - 1, h)
  BY <1>4
<1>6. b[n] \in Msgs
  BY <1>4
<1> DEFINE g == [k \in 0 .. n |-> IF k = n THEN h[n - 1] + Block(b[n]) ELSE h[k]]
<1>7. g \in [0 .. n -> Nat]
  BY SMTT(30), <1>4, <1>5, <1>6, BlockType
<1>8. ASSUME NEW k \in 0 .. n
      PROVE  g[k] = IF k = 0 THEN 0 ELSE g[k - 1] + Block(b[k])
  <2>1. \A j \in 0 .. n - 1 : h[j] = IF j = 0 THEN 0 ELSE h[j - 1] + Block(b[j])
    BY <1>5 DEF Sums
  <2> QED
    BY <1>3, <1>4, <1>5, <2>1
<1>9. Sums(b, n, g)
  BY <1>7, <1>8 DEF Sums
<1> QED
  BY <1>2, <1>7, <1>9

\* Two running sizes agree as far as their blocks do.
LEMMA SumsUnique ==
  ASSUME NEW b, NEW c, NEW n \in Nat, NEW m \in Nat, NEW g, NEW h,
         Sums(b, n, g), Sums(c, m, h), n <= m, SameUpTo(b, c, n)
  PROVE  g[n] = h[n]
<1> DEFINE Bad == {k \in 0 .. n : g[k] # h[k]}
<1>1. SUFFICES ASSUME Bad # {} PROVE FALSE
  OBVIOUS
<1>2. PICK k \in Bad : \A j \in Bad : k <= j
  <2>1. Bad \in SUBSET Nat
    OBVIOUS
  <2> HIDE DEF Bad
  <2> QED
    BY <1>1, <2>1, LeastNat
<1>3. g[k] = IF k = 0 THEN 0 ELSE g[k - 1] + Block(b[k])
  BY DEF Sums
<1>4. h[k] = IF k = 0 THEN 0 ELSE h[k - 1] + Block(c[k])
  BY DEF Sums
<1>5. CASE k = 0
  BY <1>3, <1>4, <1>5
<1>6. CASE k # 0
  <2>1. k - 1 \in 0 .. n /\ k - 1 \notin Bad /\ k \in 1 .. n
    BY <1>2, <1>6
  <2> QED
    BY <1>3, <1>4, <1>6, <2>1 DEF SameUpTo
<1> QED
  BY <1>5, <1>6

\* The size of some blocks is their running size after the last.
LEMMA BodySizeIs ==
  ASSUME NEW b \in Seq(Msgs)
  PROVE  \E g \in [0 .. Len(b) -> Nat] : Sums(b, Len(b), g) /\ BodySize(b) = g[Len(b)]
<1> DEFINE s == CHOOSE g : Sums(b, Len(b), g)
<1>1. Sums(b, Len(b), s)
  BY SumsExist
<1>2. PICK g \in [0 .. Len(b) -> Nat] : Sums(b, Len(b), g)
  BY SumsExist
<1>3. s[Len(b)] = g[Len(b)]
  <2>1. SameUpTo(b, b, Len(b)) /\ Len(b) \in Nat /\ Len(b) <= Len(b)
    BY DEF SameUpTo
  <2> QED
    BY <1>1, <1>2, <2>1, SumsUnique
<1>4. BodySize(b) = s[Len(b)]
  BY DEF BodySize, Sums
<1> QED
  BY <1>2, <1>3, <1>4

\* Packing a message adds its block to the packet.
LEMMA BodySizeEmpty == BodySize(<< >>) = 0
<1>1. << >> \in Seq(Msgs) /\ Len(<< >>) = 0
  OBVIOUS
<1>2. PICK g \in [0 .. 0 -> Nat] : Sums(<< >>, 0, g) /\ BodySize(<< >>) = g[0]
  BY <1>1, BodySizeIs
<1> QED
  BY <1>2 DEF Sums

\* A packet grows by the block of the message added to it.
LEMMA BodySizeAppend ==
  ASSUME NEW b \in Seq(Msgs), NEW n \in Msgs
  PROVE  BodySize(Append(b, n)) = BodySize(b) + Block(n)
<1> DEFINE c == Append(b, n)
           m == Len(b)
<1>1. c \in Seq(Msgs) /\ Len(c) = m + 1 /\ m \in Nat /\ c[m + 1] = n
      /\ \A k \in 1 .. m : b[k] = c[k]
  OBVIOUS
<1> HIDE DEF c
<1>2. PICK g \in [0 .. m -> Nat] : Sums(b, m, g) /\ BodySize(b) = g[m]
  BY BodySizeIs
<1>3. PICK h \in [0 .. m + 1 -> Nat] : Sums(c, m + 1, h) /\ BodySize(c) = h[m + 1]
  BY <1>1, BodySizeIs
<1>4. g[m] = h[m]
  <2>1. m \in Nat /\ m + 1 \in Nat /\ m <= m + 1 /\ \A k \in 1 .. m : b[k] = c[k]
    BY <1>1
  <2> DEFINE o == m + 1
  <2>2. Sums(b, m, g) /\ Sums(c, o, h) /\ m \in Nat /\ o \in Nat /\ m <= o
    BY <1>2, <1>3, <2>1
  <2>3. SameUpTo(b, c, m)
    BY <2>1 DEF SameUpTo
  <2> HIDE DEF m, o
  <2> QED
    BY <2>2, <2>3, SumsUnique
<1>5. h[m + 1] = h[m] + Block(c[m + 1])
  BY <1>1, <1>3 DEF Sums
<1> QED
  BY <1>1, <1>2, <1>3, <1>4, <1>5 DEF c

\* The size of a body is a natural number.
LEMMA BodySizeType ==
  ASSUME NEW b \in Seq(Msgs)
  PROVE  BodySize(b) \in Nat
<1>1. PICK g \in [0 .. Len(b) -> Nat] : Sums(b, Len(b), g) /\ BodySize(b) = g[Len(b)]
  BY BodySizeIs
<1> QED
  BY <1>1, LenProperties

-----------------------------------------------------------------------------
(***************************************************************************)
(* The sequence numbers of the messages.                                   *)
(***************************************************************************)

\* The file has a number of messages.
LEMMA LenSizes == Len(Sizes) \in Nat
BY RecordingAssumption

\* The messages that fit a packet are some of the file's.
LEMMA SendableFinite == IsFiniteSet(Sendable) /\ Sendable \subseteq Msgs
<1>1. IsFiniteSet(Msgs)
  BY LenSizes, FS_Interval DEF Msgs
<1>2. Sendable \subseteq Msgs
  BY DEF Sendable, Msgs
<1> QED
  BY <1>1, <1>2, FS_Subset

\* A message that a packet can carry gets the next number; others change no number.
LEMMA NextPlace ==
  ASSUME NEW n \in Msgs
  PROVE  /\ Cardinality(Before(n)) \in Nat
         /\ n \in Sendable => /\ Place(n) = Cardinality(Before(n)) + 1
                              /\ Cardinality(Before(n + 1)) = Cardinality(Before(n)) + 1
         /\ n \notin Sendable => Before(n + 1) = Before(n)
<1>1. Sendable \subseteq Int /\ n \in Int
  BY SendableFinite DEF Msgs
<1>2. IsFiniteSet(Before(n)) /\ Cardinality(Before(n)) \in Nat
  BY SendableFinite, FS_Subset, FS_CardinalityType DEF Before
<1>3. n \notin Before(n)
  BY <1>1 DEF Before
<1>4. ASSUME n \in Sendable
      PROVE  Before(n + 1) = Before(n) \cup {n} /\ {m \in Sendable : m <= n} = Before(n) \cup {n}
  <2>1. \A m \in Sendable : (m < n + 1 <=> m < n \/ m = n) /\ (m <= n <=> m < n \/ m = n)
    BY <1>1
  <2> QED
    BY <1>4, <2>1 DEF Before
<1>5. ASSUME n \notin Sendable
      PROVE  Before(n + 1) = Before(n)
  <2>1. \A m \in Sendable : m < n + 1 <=> m < n
    BY <1>1, <1>5
  <2> QED
    BY <2>1 DEF Before
<1>6. Cardinality(Before(n) \cup {n}) = Cardinality(Before(n)) + 1
  BY <1>2, <1>3, FS_AddElement
<1> QED
  BY <1>2, <1>4, <1>5, <1>6 DEF Place

\* Nothing sendable comes before the first message of the file.
LEMMA FirstPlace == Cardinality(Before(1)) = 0
<1>1. \A m \in Sendable : ~(m < 1)
  <2>1. \A m \in Msgs : ~(m < 1)
    BY LenSizes DEF Msgs
  <2> QED
    BY <2>1, SendableFinite
<1>2. Before(1) = {}
  BY <1>1 DEF Before
<1> QED
  BY <1>2, FS_EmptySet

\* Later messages have higher numbers, so that a number names one message, Packed.
LEMMA PlaceRises ==
  ASSUME NEW m \in Sendable, NEW n \in Sendable, m < n
  PROVE  Place(m) < Place(n)
<1> DEFINE M == {k \in Sendable : k <= m}
           N == {k \in Sendable : k <= n}
<1>1. Sendable \subseteq Int
  BY SendableFinite DEF Msgs
<1>2. M \subseteq N /\ n \in N /\ n \notin M
  <2>1. m \in Int /\ n \in Int /\ n <= n /\ ~(n <= m)
    BY <1>1
  <2>2. \A k \in Sendable : k <= m => k <= n
    BY <1>1, <2>1
  <2> QED
    BY <2>1, <2>2
<1>3. IsFiniteSet(N) /\ IsFiniteSet(M)
  <2>1. N \subseteq Sendable /\ M \subseteq Sendable
    OBVIOUS
  <2> HIDE DEF M, N
  <2> QED
    BY <2>1, SendableFinite, FS_Subset
<1>4. Cardinality(M) \in Nat /\ Cardinality(N) \in Nat
  BY <1>3, FS_CardinalityType
<1> HIDE DEF M, N
<1>5. Cardinality(M) <= Cardinality(N) /\ Cardinality(M) # Cardinality(N)
  BY <1>2, <1>3, FS_Subset
<1> QED
  BY <1>4, <1>5 DEF Place, M, N

\* A message that fits is the one packed at its place.
LEMMA PackedAtPlace ==
  ASSUME NEW n \in Sendable
  PROVE  Place(n) \in 1 .. Cardinality(Sendable) /\ Packed[Place(n)] = n
<1> DEFINE N == {k \in Sendable : k <= n}
<1>1. Sendable \subseteq Int
  BY SendableFinite DEF Msgs
<1>2. IsFiniteSet(N) /\ N \subseteq Sendable /\ N # {}
  BY <1>1, SendableFinite, FS_Subset
<1>3. Cardinality(N) \in Nat /\ Cardinality(N) # 0 /\ Cardinality(N) <= Cardinality(Sendable)
      /\ Cardinality(Sendable) \in Nat
  <2> HIDE DEF N
  <2> QED
    BY <1>2, SendableFinite, FS_CardinalityType, FS_EmptySet, FS_Subset
<1>4. Place(n) \in 1 .. Cardinality(Sendable)
  BY <1>3 DEF Place
<1>5. \A m \in Sendable : Place(m) = Place(n) => m = n
  <2> SUFFICES ASSUME NEW m \in Sendable, Place(m) = Place(n), m # n PROVE FALSE
    OBVIOUS
  <2>1. CASE m < n
    BY <1>3, <2>1, PlaceRises DEF Place
  <2>2. CASE n < m
    BY <1>3, <2>2, PlaceRises DEF Place
  <2> QED
    BY <1>1, <2>1, <2>2
<1>6. (CHOOSE m \in Sendable : Place(m) = Place(n)) = n
  BY <1>5
<1> QED
  BY <1>4, <1>6 DEF Packed

-----------------------------------------------------------------------------
(***************************************************************************)
(* The replayer.                                                           *)
(***************************************************************************)

\* The count that means the end of the session is no count of a heartbeat or of one message.
LEMMA EndMarker == kEndOfSession \in Nat /\ kEndOfSession >= 2 /\ kSequences \in Nat
BY DecoderAssumption

\* A message fits when it is not too large, that is when its block is within the payload.
LEMMA SendableIff ==
  ASSUME NEW n \in Msgs
  PROVE  /\ n \in Sendable <=> ~TooLarge(n)
         /\ n \in Sendable <=> Block(n) <= MaxPayload
<1>1. Block(n) \in Nat /\ MaxPayload \in Nat
  BY BlockType, RecordingAssumption
<1> QED
  BY <1>1 DEF Sendable, TooLarge, Msgs

\* Reading a message that no packet can carry.
LEMMA SkipInv ==
  ASSUME NEW t, TxInv(t), t.phase = "reading", t.next \in Msgs, t.next \notin Sendable, NEW u,
         u = [t EXCEPT !.next = @ + 1, !.messages_read = @ + 1, !.too_large = @ + 1]
  PROVE  TxInv(u) /\ u.sequence = t.sequence /\ u.drops = t.drops /\ u.phase = t.phase
<1>0. u \in TxType
  <2> DEFINE a == t.next + 1
             b == t.messages_read + 1
             c == t.too_large + 1
  <2>1. t \in TxType /\ a \in Nat /\ b \in Nat /\ c \in Nat
    BY SMTT(30) DEF TxInv, TxType
  <2>2. u = [t EXCEPT !.next = a, !.messages_read = b, !.too_large = c]
    OBVIOUS
  <2> HIDE DEF a, b, c
  <2> QED
    BY <2>1, <2>2 DEF TxType
<1>1. /\ u.next = t.next + 1 /\ u.messages_read = t.messages_read + 1
      /\ u.too_large = t.too_large + 1 /\ u.sequence = t.sequence /\ u.drops = t.drops
      /\ u.phase = t.phase /\ u.packet = t.packet /\ u.messages_packed = t.messages_packed
      /\ u.packets_sent = t.packets_sent /\ u.failures = t.failures
      /\ u.packets_built = t.packets_built
  BY DEF TxInv, TxType
<1>2. Before(u.next) = Before(t.next)
  BY <1>1, NextPlace
<1>3. PackerInv(u)
  <2>1. t.next \in Nat /\ t.messages_read \in Nat /\ t.messages_packed \in Nat
        /\ t.too_large \in Nat
    BY DEF TxInv, TxType
  <2>2. t.messages_read = t.next - 1 /\ t.messages_packed + t.too_large = t.messages_read
    BY DEF TxInv, PackerInv
  <2>3. u.messages_read = u.next - 1 /\ u.messages_packed + u.too_large = u.messages_read
    BY <1>1, <2>1, <2>2
  <2>4. u.next \in 1 .. Len(Sizes) + 1
    BY <1>1, LenSizes DEF Msgs
  <2> QED
    BY <1>1, <1>2, <2>3, <2>4 DEF TxInv, PackerInv
<1>4. SenderInv(u)
  BY <1>1 DEF TxInv, SenderInv
<1> QED
  BY <1>0, <1>1, <1>3, <1>4 DEF TxInv

\* Packing the next message into a packet that it fits.
LEMMA PackInv ==
  ASSUME NEW t, TxInv(t), t.phase = "reading", t.next \in Msgs, t.next \in Sendable,
         Fits(t, t.next), NEW u,
         u = Pack([t EXCEPT !.next = @ + 1, !.messages_read = @ + 1], t.next)
  PROVE  TxInv(u) /\ u.sequence = t.sequence /\ u.drops = t.drops /\ u.phase = t.phase
<1> DEFINE n == t.next
<1>0. t.packet \in Seq(Msgs) /\ t.sequence \in Nat /\ n \in Nat /\ t.messages_packed \in Nat
      /\ t.messages_read \in Nat /\ t.too_large \in Nat
  BY DEF TxInv, TxType
<1> DEFINE a == n + 1
           b == t.messages_read + 1
           c == Append(t.packet, n)
           d == t.messages_packed + 1
<1>u. u = [t EXCEPT !.next = a, !.messages_read = b, !.packet = c, !.messages_packed = d]
  BY DEF Pack, TxInv, TxType
<1>t. u \in TxType
  <2>1. t \in TxType /\ a \in Nat /\ b \in Nat /\ c \in Seq(Msgs) /\ d \in Nat
    BY <1>0 DEF TxInv
  <2> HIDE DEF a, b, c, d
  <2> QED
    BY <1>u, <2>1 DEF TxType
<1>1. /\ u.next = n + 1 /\ u.messages_read = t.messages_read + 1
      /\ u.too_large = t.too_large /\ u.sequence = t.sequence /\ u.drops = t.drops
      /\ u.phase = t.phase /\ u.packet = Append(t.packet, n)
      /\ u.messages_packed = t.messages_packed + 1
      /\ u.packets_sent = t.packets_sent /\ u.failures = t.failures
      /\ u.packets_built = t.packets_built
  <2>1. t \in TxType
    BY DEF TxInv
  <2> HIDE DEF a, b, c, d
  <2>2. /\ u.next = a /\ u.messages_read = b
        /\ u.too_large = t.too_large /\ u.sequence = t.sequence /\ u.drops = t.drops
        /\ u.phase = t.phase /\ u.packet = c /\ u.messages_packed = d
        /\ u.packets_sent = t.packets_sent /\ u.failures = t.failures
        /\ u.packets_built = t.packets_built
    BY <1>u, <2>1 DEF TxType
  <2> QED
    BY <2>2 DEF a, b, c, d
<1>2. Place(n) = t.messages_packed + 1 /\ Cardinality(Before(n + 1)) = t.messages_packed + 1
  BY NextPlace DEF TxInv, PackerInv
<1>3. /\ Len(u.packet) = Len(t.packet) + 1 /\ u.packet[Len(t.packet) + 1] = n
      /\ \A i \in 1 .. Len(t.packet) : u.packet[i] = t.packet[i]
      /\ Len(t.packet) \in Nat /\ DOMAIN u.packet = 1 .. Len(t.packet) + 1
      /\ DOMAIN t.packet = 1 .. Len(t.packet)
  BY SMTT(30), <1>0, <1>1
<1>4. BodySize(u.packet) = BodySize(t.packet) + Block(n)
  BY <1>0, <1>1, BodySizeAppend
<1>5. Carries(u.sequence, u.packet)
  <2> SUFFICES ASSUME NEW i \in DOMAIN u.packet
               PROVE  u.packet[i] \in Sendable /\ Place(u.packet[i]) = u.sequence + i - 1
    BY DEF Carries
  <2>1. CASE i = Len(t.packet) + 1
    BY <1>0, <1>1, <1>2, <1>3, <2>1 DEF TxInv, PackerInv
  <2>2. CASE i # Len(t.packet) + 1
    <3>1. i \in DOMAIN t.packet
      BY <1>3, <2>2
    <3> QED
      BY <1>1, <1>3, <3>1 DEF TxInv, PackerInv, Carries
  <2> QED
    BY <2>1, <2>2
<1>6. Len(u.packet) < kEndOfSession
  BY <1>3, EndMarker DEF TxInv, PackerInv, Fits
<1>7. u.sequence + Len(u.packet) = 1 + u.messages_packed
  <2>1. t.sequence + Len(t.packet) = 1 + t.messages_packed
    BY DEF TxInv, PackerInv
  <2> HIDE DEF n
  <2> QED
    BY SMTT(30), <1>0, <1>1, <1>3, <2>1
<1>8. BodySize(u.packet) <= MaxPayload
  BY <1>4 DEF Fits
<1>9. PackerInv(u)
  <2>1. u.next \in 1 .. Len(Sizes) + 1 /\ u.messages_read = u.next - 1
        /\ u.messages_packed + u.too_large = u.messages_read /\ u.sequence >= 1
    <3>1. t.messages_read = n - 1 /\ t.messages_packed + t.too_large = t.messages_read
          /\ t.sequence >= 1 /\ n \in 1 .. Len(Sizes)
      BY DEF TxInv, PackerInv, Msgs
    <3> HIDE DEF n
    <3>2. u.next \in 1 .. Len(Sizes) + 1
      BY <1>1, <3>1, LenSizes
    <3> QED
      BY SMTT(30), <1>0, <1>1, <3>1, <3>2
  <2> QED
    BY <1>1, <1>2, <1>5, <1>6, <1>7, <1>8, <2>1 DEF PackerInv
<1>10. SenderInv(u)
  BY <1>1 DEF TxInv, SenderInv
<1> QED
  BY <1>t, <1>1, <1>9, <1>10 DEF TxInv

\* The fields of the replayer after a packet was finished.
IsFinished(t, outcome, u) ==
  /\ u \in TxType
  /\ u.sequence = t.sequence + Len(t.packet) /\ u.packet = << >>
  /\ u.packets_built = t.packets_built + 1
  /\ u.packets_sent = t.packets_sent + (IF outcome = "sent" THEN 1 ELSE 0)
  /\ u.failures = t.failures + (IF outcome = "failed" THEN 1 ELSE 0)
  /\ u.drops = IF outcome = "dropped"
               THEN t.drops \cup {[first |-> t.sequence, count |-> Len(t.packet)]}
               ELSE t.drops
  /\ u.phase = t.phase /\ u.next = t.next /\ u.max_packets = t.max_packets
  /\ u.messages_read = t.messages_read /\ u.messages_packed = t.messages_packed
  /\ u.too_large = t.too_large

\* Packer::finish and the caller's reaction, field by field.
LEMMA FinishedFields ==
  ASSUME NEW t \in TxType, t.packet # << >>, NEW outcome \in Outcomes, NEW u,
         u = Finished(t, outcome)
  PROVE  IsFinished(t, outcome, u)
<1> DEFINE a == IF outcome = "sent" THEN t.packets_sent + 1 ELSE t.packets_sent
           b == IF outcome = "failed" THEN t.failures + 1 ELSE t.failures
           c == t.sequence + Len(t.packet)
           d == t.packets_built + 1
           e == IF outcome = "dropped"
                THEN t.drops \cup {[first |-> t.sequence, count |-> Len(t.packet)]} ELSE t.drops
           w == [t EXCEPT !.packets_sent = a, !.failures = b]
<1>1. t.packet \in Seq(Msgs) /\ Len(t.packet) \in Nat /\ t.sequence \in Nat /\ t.failures \in Nat
      /\ t.packets_sent \in Nat /\ t.packets_built \in Nat
      /\ t.drops \in SUBSET [first : Nat, count : Nat]
  BY LenProperties DEF TxType
<1>2. a \in Nat /\ b \in Nat /\ c \in Nat /\ d \in Nat /\ e \in SUBSET [first : Nat, count : Nat]
  BY SMTT(30), <1>1
<1>3. w = Counted(t, outcome)
  BY DEF Counted
<1> HIDE DEF a, b
<1>4. w \in TxType /\ w.packets_sent = a /\ w.failures = b /\ w.sequence = t.sequence
      /\ w.packet = t.packet /\ w.packets_built = t.packets_built /\ w.drops = t.drops
      /\ w.phase = t.phase /\ w.next = t.next /\ w.max_packets = t.max_packets
      /\ w.messages_read = t.messages_read /\ w.messages_packed = t.messages_packed
      /\ w.too_large = t.too_large
  BY <1>2 DEF TxType
<1> HIDE DEF w
<1>5. u = [w EXCEPT !.sequence = c, !.packet = << >>, !.packets_built = d, !.drops = e]
  BY <1>3, <1>4 DEF Finished
<1> HIDE DEF c, d, e
<1>6. u \in TxType
  <2>1. << >> \in Seq(Msgs)
    OBVIOUS
  <2> DEFINE v == [w EXCEPT !.sequence = c, !.packet = << >>]
  <2>2. v \in TxType
    BY <1>2, <1>4, <2>1 DEF TxType
  <2>3. u = [v EXCEPT !.packets_built = d, !.drops = e]
    BY <1>5
  <2> HIDE DEF v
  <2> QED
    BY <1>2, <2>2, <2>3 DEF TxType
<1>7. /\ u.sequence = c /\ u.packet = << >> /\ u.packets_built = d
      /\ u.packets_sent = a /\ u.failures = b /\ u.drops = e
      /\ u.phase = t.phase /\ u.next = t.next /\ u.max_packets = t.max_packets
      /\ u.messages_read = t.messages_read /\ u.messages_packed = t.messages_packed
      /\ u.too_large = t.too_large
  BY <1>4, <1>5 DEF TxType
<1>8. a = t.packets_sent + (IF outcome = "sent" THEN 1 ELSE 0)
      /\ b = t.failures + (IF outcome = "failed" THEN 1 ELSE 0)
  BY <1>1 DEF a, b
<1> QED
  BY <1>6, <1>7, <1>8 DEF c, d, e, IsFinished

\* Finishing a packet, whatever becomes of it.
LEMMA FinishInv ==
  ASSUME NEW t, TxInv(t), t.packet # << >>, NEW outcome \in Outcomes, NEW u,
         u = Finished(t, outcome)
  PROVE  TxInv(u)
<1>1. t \in TxType /\ PackerInv(t) /\ SenderInv(t)
  BY DEF TxInv
<1> DEFINE n == Len(t.packet)
           r == [first |-> t.sequence, count |-> n]
<1>2. t.packet \in Seq(Msgs) /\ n \in Nat /\ n # 0 /\ t.sequence \in Nat /\ t.failures \in Nat
      /\ t.packets_sent \in Nat /\ t.packets_built \in Nat /\ t.messages_packed \in Nat
  BY <1>1, LenProperties, EmptySeq DEF TxType
<1>f. IsFinished(t, outcome, u)
  BY <1>1, FinishedFields
<1>3. t.phase # "done" /\ u.phase # "done"
  BY <1>1, <1>f DEF PackerInv, IsFinished
<1>4. u.sequence = t.sequence + n /\ u.packet = << >>
  BY <1>f DEF IsFinished
<1>5. PackerInv(u)
  <2>1. u.next = t.next /\ u.messages_read = t.messages_read
        /\ u.messages_packed = t.messages_packed /\ u.too_large = t.too_large
    BY <1>f DEF IsFinished
  <2>2. Carries(u.sequence, << >>) /\ Len(<< >>) = 0
    BY DEF Carries
  <2>3. BodySize(<< >>) <= MaxPayload /\ 0 < kEndOfSession
    BY BodySizeEmpty, RecordingAssumption, EndMarker
  <2>4. u.sequence >= 1 /\ u.sequence + 0 = 1 + u.messages_packed
    BY <1>1, <1>2, <1>4, <2>1 DEF PackerInv
  <2> QED
    BY <1>1, <1>3, <1>4, <2>1, <2>2, <2>3, <2>4 DEF PackerInv
<1>6. SenderInv(u)
  <2>1. CASE outcome = "dropped"
    <3>1. u.drops = t.drops \cup {r} /\ u.packets_sent = t.packets_sent + 0
          /\ u.failures = t.failures + 0 /\ u.packets_built = t.packets_built + 1
      BY <1>f, <2>1 DEF IsFinished
    <3>2. r \notin t.drops
      <4> SUFFICES ASSUME r \in t.drops PROVE FALSE
        OBVIOUS
      <4>1. r.first = t.sequence /\ r.count = n
        OBVIOUS
      <4>2. r.first + r.count <= t.sequence
        BY <1>1 DEF SenderInv
      <4> HIDE DEF r, n
      <4> QED
        BY <1>2, <4>1, <4>2
    <3>3. IsFiniteSet(u.drops) /\ Cardinality(u.drops) = Cardinality(t.drops) + 1
          /\ Cardinality(t.drops) \in Nat
      <4> HIDE DEF r
      <4> QED
        BY <1>1, <3>1, <3>2, FS_AddElement, FS_CardinalityType DEF SenderInv
    <3>4. ASSUME NEW d \in u.drops
          PROVE  d.first >= 1 /\ d.count >= 1 /\ d.first + d.count <= u.sequence
      <4>1. CASE d \in t.drops
        <5>1. d.first \in Nat /\ d.count \in Nat
          BY <1>1, <4>1 DEF TxType
        <5> QED
          BY SMTT(30), <1>1, <1>2, <1>4, <4>1, <5>1 DEF SenderInv
      <4>2. CASE d = r
        BY <1>1, <1>2, <1>4, <4>2 DEF PackerInv
      <4> QED
        BY <3>1, <4>1, <4>2
    <3>5. u.packets_sent + u.failures + Cardinality(u.drops) = u.packets_built + 0
      BY SMTT(30), <1>1, <1>2, <1>3, <3>1, <3>3 DEF SenderInv
    <3> QED
      BY <1>3, <3>3, <3>4, <3>5 DEF SenderInv
  <2>2. CASE outcome # "dropped"
    <3>1. u.drops = t.drops /\ u.packets_built = t.packets_built + 1
          /\ u.packets_sent + u.failures = t.packets_sent + t.failures + 1
      BY <1>2, <1>f, <2>2 DEF IsFinished, Outcomes
    <3>2. Cardinality(t.drops) \in Nat
      BY <1>1, FS_CardinalityType DEF SenderInv
    <3>3. u.packets_sent + u.failures + Cardinality(u.drops) = u.packets_built + 0
      BY <1>1, <1>2, <1>3, <3>1, <3>2 DEF SenderInv
    <3>4. ASSUME NEW d \in u.drops
          PROVE  d.first >= 1 /\ d.count >= 1 /\ d.first + d.count <= u.sequence
      <4>1. d.first \in Nat /\ d.count \in Nat /\ d \in t.drops
        BY SMTT(30), <1>1, <3>1 DEF TxType
      <4> QED
        BY SMTT(30), <1>1, <1>2, <1>4, <4>1 DEF SenderInv
    <3> QED
      BY <1>1, <1>3, <3>1, <3>3, <3>4 DEF SenderInv
  <2> QED
    BY <2>1, <2>2
<1> QED
  BY <1>5, <1>6, <1>f DEF TxInv, IsFinished

\* What the replayer sent and what the sink got stay as they are when a packet is finished:
\* what is dropped from now on lies behind them.
Later(t, u) ==
  /\ t.phase # "done" /\ t.sequence <= u.sequence
  /\ \A d \in u.drops : d \in t.drops \/ d.first >= t.sequence

\* A datagram of the session stays one: the sequence only grows and a drop recorded later
\* is of later messages.
LEMMA OwnKept ==
  ASSUME NEW t, NEW u, TxInv(t), TxInv(u), Later(t, u), NEW pkt, Own(pkt, t)
  PROVE  Own(pkt, u)
<1>1. PICK sequence \in Nat, count \in Nat, blocks \in Seq(Msgs) :
        pkt = Datagram(OwnSession, sequence, count, blocks)
  BY DEF Own
<1>2. pkt.sequence \in Nat /\ pkt.count \in Nat /\ t.sequence \in Nat /\ u.sequence \in Nat
  BY <1>1 DEF Datagram, TxInv, TxType
<1>3. OwnData(pkt, t)
  BY DEF Own, OwnEnd, Later
<1>4. pkt.sequence + pkt.count <= u.sequence
  BY <1>2, <1>3 DEF OwnData, Later
<1>5. ASSUME NEW d \in u.drops
      PROVE  d.first + d.count <= pkt.sequence \/ pkt.sequence + pkt.count <= d.first
  <2>1. d.first \in Nat
    BY DEF TxInv, TxType
  <2>2. CASE d \in t.drops
    BY <1>3, <2>2 DEF OwnData
  <2>3. CASE d.first >= t.sequence
    BY <1>2, <1>3, <2>1, <2>3 DEF OwnData
  <2> QED
    BY <2>2, <2>3 DEF Later
<1> QED
  BY <1>1, <1>3, <1>4, <1>5 DEF Own, OwnData

\* What decoder and sender agree on survives a step of the sender.
LEMMA AgreeKept ==
  ASSUME NEW t, NEW u, TxInv(t), TxInv(u), Later(t, u), NEW d, NEW s, DecInv(d, s), Agree(d, s, t)
  PROVE  Agree(d, s, u)
<1>1. ~d.eos
  BY DEF Agree, Later
<1>2. ASSUME NEW n \in SeqsOf(s), ~Retransmits(n)
      PROVE  n < u.sequence /\ \A r \in u.drops : n < r.first \/ r.first + r.count <= n
  <2>1. n \in Int /\ t.sequence \in Nat /\ u.sequence \in Nat
    BY DEF SeqsOf, SunkSequences, DecInv, SunkType, TxInv, TxType
  <2>2. n < t.sequence /\ \A r \in t.drops : n < r.first \/ r.first + r.count <= n
    BY <1>2 DEF Agree
  <2>3. ASSUME NEW r \in u.drops
        PROVE  n < r.first \/ r.first + r.count <= n
    <3>1. r.first \in Nat
      BY DEF TxInv, TxType
    <3>2. CASE r \in t.drops
      BY <2>2, <3>2
    <3>3. CASE r.first >= t.sequence
      BY <2>1, <2>2, <3>1, <3>3
    <3> QED
      BY <3>2, <3>3 DEF Later
  <2> QED
    BY <2>1, <2>2, <2>3 DEF Later
<1> QED
  BY <1>1, <1>2 DEF Agree

\* The packet that is sent when it is finished.
LEMMA SentIsOwn ==
  ASSUME NEW t, TxInv(t), t.packet # << >>, NEW u, u.sequence = t.sequence + Len(t.packet),
         u.drops = t.drops, NEW pkt,
         pkt = Datagram(OwnSession, t.sequence, Len(t.packet), t.packet)
  PROVE  Own(pkt, u)
<1>1. t.packet \in Seq(Msgs) /\ t.sequence \in Nat /\ Len(t.packet) \in Nat /\ Len(t.packet) # 0
  BY LenProperties, EmptySeq DEF TxInv, TxType
<1>2. pkt.sequence = t.sequence /\ pkt.count = Len(t.packet) /\ pkt.blocks = t.packet
  BY DEF Datagram
<1>3. OwnData(pkt, u)
  BY <1>1, <1>2 DEF OwnData, TxInv, PackerInv, SenderInv
<1> QED
  BY <1>1, <1>3 DEF Own

\* A step of the replayer that keeps its own invariant, drops no number twice and sends only
\* packets of its own.
LEMMA ReplayStep ==
  ASSUME FeedInv, TxInv(tx'), Later(tx, tx'), \A pkt \in wire' : pkt \in wire \/ Own(pkt, tx'),
         UNCHANGED <<dec, sunk>>
  PROVE  FeedInv'
<1>1. ASSUME NEW pkt \in wire' PROVE Own(pkt, tx')
  BY OwnKept DEF FeedInv
<1>2. Agree(dec, sunk, tx')
  BY AgreeKept DEF FeedInv
<1> QED
  BY <1>1, <1>2 DEF FeedInv

\* A message too large for any packet is counted and skipped.
LEMMA SkipKeeps ==
  ASSUME FeedInv, Skip, UNCHANGED <<dec, sunk>>
  PROVE  FeedInv'
<1>1. TxInv(tx) /\ tx.phase = "reading" /\ tx.next \in Msgs /\ tx.next \notin Sendable
  <2>1. tx.next \in Msgs
    BY LenSizes DEF FeedInv, TxInv, PackerInv, Skip, Reading, Msgs
  <2> QED
    BY <2>1, SendableIff DEF FeedInv, Skip, Reading
<1>2. tx' = [tx EXCEPT !.next = @ + 1, !.messages_read = @ + 1, !.too_large = @ + 1]
  BY <1>1 DEF Skip, Consumed, TxInv, TxType
<1>3. TxInv(tx') /\ tx'.sequence = tx.sequence /\ tx'.drops = tx.drops /\ tx'.phase = tx.phase
  BY <1>1, <1>2, SkipInv
<1>4. Later(tx, tx')
  BY SMTT(30), <1>1, <1>3 DEF Later, TxInv, TxType
<1> QED
  BY <1>3, <1>4, ReplayStep DEF Skip

\* A message that still fits joins the packet being filled.
LEMMA PackNextKeeps ==
  ASSUME FeedInv, PackNext, UNCHANGED <<dec, sunk>>
  PROVE  FeedInv'
<1>1. TxInv(tx) /\ tx.phase = "reading" /\ tx.next \in Msgs /\ tx.next \in Sendable
  <2>1. tx.next \in Msgs
    BY LenSizes DEF FeedInv, TxInv, PackerInv, PackNext, Reading, Msgs
  <2> QED
    BY <2>1, SendableIff DEF FeedInv, PackNext, Reading
<1>2. tx' = Pack([tx EXCEPT !.next = @ + 1, !.messages_read = @ + 1], tx.next)
  BY DEF PackNext, Consumed
<1>3. TxInv(tx') /\ tx'.sequence = tx.sequence /\ tx'.drops = tx.drops /\ tx'.phase = tx.phase
  BY <1>1, <1>2, PackInv DEF PackNext
<1>4. Later(tx, tx')
  BY SMTT(30), <1>1, <1>3 DEF Later, TxInv, TxType
<1> QED
  BY <1>3, <1>4, ReplayStep DEF PackNext

\* Only the phase changes, and not to the last one.
LEMMA ClosingInv ==
  ASSUME NEW t, TxInv(t), t.phase = "reading", NEW u, u = [t EXCEPT !.phase = "closing"]
  PROVE  TxInv(u) /\ u.sequence = t.sequence /\ u.drops = t.drops /\ u.phase = "closing"
<1>1. /\ u \in TxType /\ u.next = t.next /\ u.messages_read = t.messages_read
      /\ u.too_large = t.too_large /\ u.sequence = t.sequence /\ u.drops = t.drops
      /\ u.phase = "closing" /\ u.packet = t.packet /\ u.messages_packed = t.messages_packed
      /\ u.packets_sent = t.packets_sent /\ u.failures = t.failures
      /\ u.packets_built = t.packets_built
  BY DEF TxInv, TxType
<1> QED
  BY <1>1 DEF TxInv, PackerInv, SenderInv

\* The loop over the file ends.
LEMMA EndOfFileKeeps ==
  ASSUME FeedInv, EndOfFile, UNCHANGED <<dec, sunk>>
  PROVE  FeedInv'
<1>1. TxInv(tx') /\ tx'.sequence = tx.sequence /\ tx'.drops = tx.drops
  BY ClosingInv DEF EndOfFile, FeedInv
<1>2. Later(tx, tx')
  BY <1>1 DEF Later, TxInv, TxType, FeedInv, EndOfFile
<1> QED
  BY <1>1, <1>2, ReplayStep DEF EndOfFile

\* What flush() sends, and what comes behind it.
LEMMA FlushSends ==
  ASSUME FeedInv, tx.packet # << >>, NEW outcome \in Outcomes, Flush(outcome), NEW t,
         t = Finished(tx, outcome), NEW u, TxInv(u), u.sequence = t.sequence, u.drops = t.drops
  PROVE  /\ Later(tx, u)
         /\ \A pkt \in wire' : pkt \in wire \/ Own(pkt, u)
<1>1. TxInv(tx) /\ tx \in TxType /\ IsFinished(tx, outcome, t)
  BY FinishedFields DEF FeedInv, TxInv
<1>2. tx.sequence \in Nat /\ Len(tx.packet) \in Nat /\ tx.phase # "done"
      /\ tx.packet \in Seq(Msgs)
  BY <1>1, LenProperties DEF TxType, TxInv, PackerInv
<1>3. Later(tx, u)
  BY <1>1, <1>2 DEF Later, IsFinished
<1>4. CASE outcome = "sent"
  <2> DEFINE own == Datagram(OwnSession, tx.sequence, Len(tx.packet), tx.packet)
  <2>1. wire' = wire \cup {own}
    BY <1>4 DEF Flush, SendIf
  <2>2. u.sequence = tx.sequence + Len(tx.packet) /\ u.drops = tx.drops
    BY <1>1, <1>4 DEF IsFinished
  <2>3. Own(own, u)
    BY <1>1, <2>2, SentIsOwn
  <2> QED
    BY <1>3, <2>1, <2>3
<1>5. CASE outcome # "sent"
  BY <1>3, <1>5 DEF Flush, SendIf
<1> QED
  BY <1>4, <1>5

\* The packet left over at the end is sent, dropped or fails.
LEMMA FlushLastKeeps ==
  ASSUME FeedInv, NEW outcome \in Outcomes, FlushLast(outcome), UNCHANGED <<dec, sunk>>
  PROVE  FeedInv'
<1>1. TxInv(tx')
  BY FinishInv DEF FlushLast, FeedInv
<1> QED
  BY <1>1, FlushSends, ReplayStep DEF FlushLast

\* A full packet is sent, dropped or fails, and the message that did not fit opens the next.
LEMMA FlushAndPackKeeps ==
  ASSUME FeedInv, NEW outcome \in Outcomes, FlushAndPack(outcome), UNCHANGED <<dec, sunk>>
  PROVE  FeedInv'
<1> DEFINE n == tx.next
           t == Finished(tx, outcome)
<1>1. TxInv(tx) /\ tx.phase = "reading" /\ n \in Msgs /\ n \in Sendable /\ Block(n) <= MaxPayload
  <2>1. n \in Msgs
    BY LenSizes DEF FeedInv, TxInv, PackerInv, FlushAndPack, Reading, Msgs
  <2> QED
    BY <2>1, SendableIff DEF FeedInv, FlushAndPack, Reading
<1>2. tx.packet # << >>
  <2>1. Block(n) \in Nat /\ Len(<< >>) = 0
    BY <1>1, BlockType
  <2> QED
    BY <1>1, <2>1, BodySizeEmpty, EndMarker DEF Fits, FlushAndPack
<1>3. TxInv(t) /\ IsFinished(tx, outcome, t)
  BY <1>1, <1>2, FinishInv, FinishedFields DEF TxInv
<1> HIDE DEF t
<1>4. t.next = n /\ t.phase = "reading" /\ t.packet = << >>
  BY <1>1, <1>3 DEF IsFinished
<1>5. Fits(t, n)
  <2>1. Block(n) \in Nat /\ Len(<< >>) = 0
    BY <1>1, BlockType
  <2> QED
    BY <1>1, <1>4, <2>1, BodySizeEmpty, EndMarker DEF Fits
<1>6. TxInv(tx') /\ tx'.sequence = t.sequence /\ tx'.drops = t.drops
  <2>1. CASE tx' = [t EXCEPT !.phase = "closing"]
    BY <1>3, <1>4, <2>1, ClosingInv
  <2>2. CASE tx' = Pack([t EXCEPT !.next = @ + 1, !.messages_read = @ + 1], n)
    BY <1>1, <1>3, <1>4, <1>5, <2>2, PackInv
  <2> QED
    BY <1>5, <2>1, <2>2 DEF FlushAndPack, t
<1>7. Later(tx, tx') /\ \A pkt \in wire' : pkt \in wire \/ Own(pkt, tx')
  BY <1>2, <1>6, FlushSends DEF FlushAndPack, t
<1> QED
  BY <1>6, <1>7, ReplayStep

\* The end of the session is announced.
LEMMA SendEndKeeps ==
  ASSUME FeedInv, NEW outcome \in {"sent", "failed"}, SendEnd(outcome), UNCHANGED <<dec, sunk>>
  PROVE  FeedInv'
<1> DEFINE a == IF outcome = "sent" THEN tx.packets_sent + 1 ELSE tx.packets_sent
           b == IF outcome = "failed" THEN tx.failures + 1 ELSE tx.failures
           end == Datagram(OwnSession, tx.sequence, kEndOfSession, << >>)
<1>1. tx \in TxType /\ PackerInv(tx) /\ SenderInv(tx) /\ tx.phase = "closing"
      /\ tx.packet = << >>
  BY DEF FeedInv, TxInv, SendEnd
<1>2. tx' = [tx EXCEPT !.packets_sent = a, !.failures = b, !.phase = "done"]
  BY DEF SendEnd, Counted
<1>3. a \in Nat /\ b \in Nat /\ a + b = tx.packets_sent + tx.failures + 1
  BY SMTT(30), <1>1 DEF TxType
<1> HIDE DEF a, b
<1>4. tx' \in TxType
  BY <1>1, <1>2, <1>3 DEF TxType
<1>5. /\ tx'.next = tx.next /\ tx'.messages_read = tx.messages_read
      /\ tx'.too_large = tx.too_large /\ tx'.sequence = tx.sequence /\ tx'.drops = tx.drops
      /\ tx'.phase = "done" /\ tx'.packet = << >> /\ tx'.messages_packed = tx.messages_packed
      /\ tx'.packets_sent = a /\ tx'.failures = b
      /\ tx'.packets_built = tx.packets_built
  BY <1>1, <1>2 DEF TxType
<1>6. PackerInv(tx')
  BY <1>1, <1>5 DEF PackerInv
<1>7. SenderInv(tx')
  <2>1. Cardinality(tx.drops) \in Nat /\ tx.packets_sent \in Nat /\ tx.failures \in Nat
        /\ tx.packets_built \in Nat
    BY <1>1, FS_CardinalityType DEF SenderInv, TxType
  <2>2. tx.packets_sent + tx.failures + Cardinality(tx.drops) = tx.packets_built + 0
    BY <1>1 DEF SenderInv
  <2>3. a + b + Cardinality(tx.drops) = tx.packets_built + 1
    BY <1>3, <2>1, <2>2
  <2> QED
    BY <1>1, <1>5, <2>3 DEF SenderInv
<1>8. TxInv(tx') /\ Later(tx, tx')
  BY <1>1, <1>4, <1>5, <1>6, <1>7 DEF TxInv, Later, TxType
<1>9. Own(end, tx')
  <2>1. << >> \in Seq(Msgs) /\ tx.sequence \in Nat /\ kEndOfSession \in Nat
    BY <1>1, EndMarker DEF TxType
  <2>2. OwnEnd(end, tx')
    BY <1>5 DEF OwnEnd, Datagram
  <2> QED
    BY <2>1, <2>2 DEF Own
<1> QED
  BY <1>8, <1>9, ReplayStep DEF SendEnd, SendIf

\* A step of the replayer.
LEMMA ReplayKeeps ==
  ASSUME FeedInv, Replay
  PROVE  FeedInv'
<1> UNCHANGED <<dec, sunk>>
  BY DEF Replay
<1>1. ASSUME NEW outcome \in Outcomes, FlushAndPack(outcome) \/ FlushLast(outcome)
      PROVE  FeedInv'
  BY <1>1, FlushAndPackKeeps, FlushLastKeeps
<1>2. ASSUME NEW outcome \in {"sent", "failed"}, SendEnd(outcome)
      PROVE  FeedInv'
  BY <1>2, SendEndKeeps
<1> QED
  BY <1>1, <1>2, SkipKeeps, PackNextKeeps, EndOfFileKeeps DEF Replay, ReplayerNext

-----------------------------------------------------------------------------
(***************************************************************************)
(* The decoder.                                                            *)
(***************************************************************************)

\* A packet with a header, of the replayer's session: its own, or a stray.
Heard(pkt) ==
  /\ pkt.sequence \in Nat /\ pkt.count \in Nat /\ pkt.blocks \in Seq(Nat)
  /\ pkt.exhausted \in BOOLEAN /\ pkt.session = OwnSession
  /\ pkt.count # kEndOfSession /\ Valid(pkt) => Carries(pkt.sequence, pkt.blocks)

\* The first packet is where the decoder joins.
Entered(d, e, pkt) ==
  /\ e.started /\ (d.started => e = d)
  /\ ~d.started => e.expected = pkt.sequence
  /\ e.messages = d.messages /\ e.gap_messages = d.gap_messages /\ e.eos = d.eos
  /\ e.gaps = d.gaps /\ e.gaps_total = d.gaps_total

\* Joining the session of a packet, or changing to it, keeps the decoder's invariant.
LEMMA EnterInv ==
  ASSUME NEW d, NEW s, DecInv(d, s), NEW pkt, Heard(pkt), NEW e, e = EnterSession(d, pkt)
  PROVE  DecInv(e, s) /\ Entered(d, e, pkt)
<1>1. CASE d.started
  BY <1>1 DEF DecInv, FreshOrJoined, Heard, EnterSession, Entered
<1>2. CASE ~d.started
  <2>1. d \in DecType /\ d.messages = 0 /\ d.gap_messages = 0 /\ d.gaps_total = 0
        /\ d.gaps = << >> /\ ~d.eos /\ s = << >>
    BY <1>2 DEF DecInv, FreshOrJoined
  <2>2. e = [d EXCEPT !.session = pkt.session, !.expected = pkt.sequence, !.started = TRUE,
                      !.session_changes = d.session_changes]
    BY <1>2, <2>1 DEF EnterSession
  <2>3. e \in DecType
    BY <2>1, <2>2 DEF DecType, Heard
  <2>4. e.started /\ e.expected = pkt.sequence /\ e.session = OwnSession /\ e.messages = 0
        /\ e.gap_messages = 0 /\ e.gaps_total = 0 /\ e.gaps = << >> /\ e.eos = d.eos
    BY <2>1, <2>2 DEF DecType, Heard
  <2>5. SeqsOf(s) = {} /\ GapsOf(e) = {}
    BY <2>1, <2>4 DEF SeqsOf, GapsOf, MissingIn
  <2>6. RangeOf(e) = {}
    BY <2>4 DEF RangeOf, JoinedOf, Heard
  <2>7. AccountInv(e, s)
    BY <2>4, <2>5, <2>6, FS_EmptySet, DecoderAssumption DEF AccountInv
  <2>8. OrderInv(e, s) /\ s \in Seq(SunkType)
    BY <2>1 DEF OrderInv, DecInv
  <2> QED
    BY <1>2, <2>1, <2>3, <2>4, <2>7, <2>8 DEF DecInv, FreshOrJoined, Entered
<1> QED
  BY <1>1, <1>2

\* One more packet in the sink, one more entry in the list of gaps.
LEMMA SunkAppend ==
  ASSUME NEW s \in Seq(SunkType), NEW x \in SunkType
  PROVE  /\ Append(s, x) \in Seq(SunkType)
         /\ SeqsOf(Append(s, x)) = SeqsOf(s) \cup SunkSequences(x)
<1> DEFINE w == Append(s, x)
           m == Len(s)
<1>1. w \in Seq(SunkType) /\ DOMAIN w = 1 .. m + 1 /\ DOMAIN s = 1 .. m /\ m \in Nat
      /\ w[m + 1] = x /\ \A k \in 1 .. m : w[k] = s[k]
  OBVIOUS
<1> HIDE DEF w, m
<1>2. 1 .. m + 1 = (1 .. m) \cup {m + 1}
  BY <1>1
<1>3. SeqsOf(w) = SeqsOf(s) \cup SunkSequences(x)
  <2>1. ASSUME NEW n \in SeqsOf(w) PROVE n \in SeqsOf(s) \cup SunkSequences(x)
    BY <1>1, <1>2, <2>1 DEF SeqsOf
  <2>2. ASSUME NEW n \in SeqsOf(s) \cup SunkSequences(x) PROVE n \in SeqsOf(w)
    BY <1>1, <1>2, <2>2 DEF SeqsOf
  <2> QED
    BY <2>1, <2>2
<1> QED
  BY <1>1, <1>3 DEF w

\* A gap listed adds what it covers to the sequence numbers listed.
LEMMA GapsAppend ==
  ASSUME NEW s \in Seq(GapType), NEW g \in GapType
  PROVE  /\ Len(Append(s, g)) = Len(s) + 1
         /\ MissingIn(Append(s, g)) = MissingIn(s) \cup GapSequences(g)
<1> DEFINE w == Append(s, g)
           m == Len(s)
<1>1. Len(w) = m + 1 /\ DOMAIN w = 1 .. m + 1 /\ DOMAIN s = 1 .. m /\ m \in Nat
      /\ w[m + 1] = g /\ \A k \in 1 .. m : w[k] = s[k]
  OBVIOUS
<1> HIDE DEF w, m
<1>2. 1 .. m + 1 = (1 .. m) \cup {m + 1}
  BY <1>1
<1>3. MissingIn(w) = MissingIn(s) \cup GapSequences(g)
  <2>1. ASSUME NEW n \in MissingIn(w) PROVE n \in MissingIn(s) \cup GapSequences(g)
    BY <1>1, <1>2, <2>1 DEF MissingIn
  <2>2. ASSUME NEW n \in MissingIn(s) \cup GapSequences(g) PROVE n \in MissingIn(w)
    BY <1>1, <1>2, <2>2 DEF MissingIn
  <2> QED
    BY <2>1, <2>2
<1> QED
  BY <1>1, <1>3 DEF w, m

\* What noting the hole in front of sequence number q does: the numbers of the hole join the
\* list, or the list is full and says so.
Noted(d, e, q) ==
  LET hole == d.expected .. q - 1
  IN  /\ e \in DecType
      /\ e.started = d.started /\ e.session = d.session /\ e.expected = d.expected
      /\ e.messages = d.messages /\ e.eos = d.eos
      /\ e.gap_messages = d.gap_messages + (IF q > d.expected THEN q - d.expected ELSE 0)
      /\ Len(e.gaps) <= kMaxGaps /\ Len(e.gaps) <= e.gaps_total
      /\ \/ GapsOf(e) = GapsOf(d) \cup hole /\ e.gaps_total - Len(e.gaps) = d.gaps_total - Len(d.gaps)
         \/ GapsOf(e) = GapsOf(d) /\ Len(e.gaps) < e.gaps_total

\* A hole in front of a packet is counted and, while there is room, listed.
LEMMA NoteHoleNotes ==
  ASSUME NEW d \in DecType, NEW q \in Nat, Len(d.gaps) <= kMaxGaps, Len(d.gaps) <= d.gaps_total
  PROVE  Noted(d, NoteHole(d, q), q)
<1> DEFINE e == NoteHole(d, q)
           g == [first_missing |-> d.expected, count |-> q - d.expected]
<1>0. Len(d.gaps) \in Nat /\ kMaxGaps \in Nat /\ d.gaps_total \in Nat /\ d.expected \in Nat
  BY DecoderAssumption DEF DecType
<1>1. CASE ~(q > d.expected)
  <2>1. e = d /\ d.expected .. q - 1 = {}
    BY <1>0, <1>1 DEF NoteHole
  <2> QED
    BY <1>0, <1>1, <2>1 DEF Noted, DecType
<1>2. CASE q > d.expected
  <2> DEFINE n == d.gaps_total + 1
             m == d.gap_messages + (q - d.expected)
             l == IF Len(d.gaps) < kMaxGaps THEN Append(d.gaps, g) ELSE d.gaps
  <2>1. e = [d EXCEPT !.gaps_total = n, !.gap_messages = m, !.gaps = l]
    BY <1>2 DEF NoteHole, NoteGap
  <2>2. q - d.expected \in Nat /\ g \in GapType
    BY <1>0, <1>2 DEF GapType
  <2>3. n \in Nat /\ m \in Nat /\ l \in Seq(GapType)
    <3>1. d.gaps \in Seq(GapType) /\ d.gap_messages \in Nat
      BY DEF DecType
    <3> HIDE DEF g
    <3>2. Append(d.gaps, g) \in Seq(GapType)
      BY <2>2, <3>1
    <3>3. n \in Nat /\ m \in Nat
      BY SMTT(30), <1>0, <2>2, <3>1
    <3> QED
      BY <3>1, <3>2, <3>3
  <2> HIDE DEF n, m, l, e
  <2>4. e \in DecType /\ e.started = d.started /\ e.session = d.session
        /\ e.expected = d.expected /\ e.messages = d.messages /\ e.eos = d.eos
        /\ e.gap_messages = m /\ e.gaps_total = n /\ e.gaps = l
    BY <2>1, <2>3 DEF DecType
  <2>5. GapSequences(g) = d.expected .. q - 1
    BY <1>0, <1>2 DEF GapSequences
  <2>6. CASE Len(d.gaps) < kMaxGaps
    <3>1. e.gaps = Append(d.gaps, g) /\ d.gaps \in Seq(GapType)
      BY <2>4, <2>6 DEF l, DecType
    <3> HIDE DEF g
    <3>2. Len(e.gaps) = Len(d.gaps) + 1 /\ GapsOf(e) = GapsOf(d) \cup (d.expected .. q - 1)
      BY <2>2, <2>5, <3>1, GapsAppend DEF GapsOf
    <3>3. Len(e.gaps) <= kMaxGaps /\ Len(e.gaps) <= e.gaps_total
          /\ e.gaps_total - Len(e.gaps) = d.gaps_total - Len(d.gaps)
      BY <1>0, <2>4, <2>6, <3>2 DEF n
    <3> QED
      BY <1>2, <2>4, <3>2, <3>3 DEF Noted, m, e
  <2>7. CASE ~(Len(d.gaps) < kMaxGaps)
    <3>1. e.gaps = d.gaps /\ GapsOf(e) = GapsOf(d)
      BY <2>4, <2>7 DEF l, GapsOf
    <3>2. Len(e.gaps) < e.gaps_total
      BY <1>0, <2>4, <3>1 DEF n
    <3> QED
      <4>1. e.gap_messages = d.gap_messages + (q - d.expected) /\ Len(e.gaps) <= kMaxGaps
            /\ Len(e.gaps) <= e.gaps_total
        BY <1>0, <2>4, <3>1, <3>2 DEF m, n
      <4> QED
        BY <1>2, <2>4, <3>1, <3>2, <4>1 DEF Noted, e
  <2> QED
    BY <2>6, <2>7
<1> QED
  BY <1>1, <1>2

Moved(d, e, f, q, k) ==
  /\ d.expected <= q /\ Noted(d, e, q)
  /\ f.expected = q + k /\ f.messages = d.messages + k /\ f.gap_messages = e.gap_messages
  /\ f.gaps = e.gaps /\ f.gaps_total = e.gaps_total

\* Moving to position q + k past a hole, with the k messages from q on delivered, keeps the
\* account: the joining point stays, and the numbers up to the new position are in it.
LEMMA MovedAccount ==
  ASSUME NEW d \in DecType, NEW s, AccountInv(d, s), NEW q \in Nat, NEW k \in Nat,
         NEW e, NEW f \in DecType, Moved(d, e, f, q, k), NEW w,
         SeqsOf(w) = SeqsOf(s) \cup (q .. q + k - 1)
  PROVE  AccountInv(f, w)
<1> USE DEF Moved
<1> DEFINE j == JoinedOf(d)
           x == d.expected
           S == SeqsOf(s)
           G == GapsOf(d)
           new == q .. q + k - 1
           hole == x .. q - 1
<1>1. x \in Nat /\ d.messages \in Nat /\ d.gap_messages \in Nat /\ j \in Int
      /\ e.gap_messages = d.gap_messages + (q - x)
  <2>1. x \in Nat /\ d.messages \in Nat /\ d.gap_messages \in Nat
    BY DEF DecType
  <2>2. e.gap_messages = d.gap_messages + (IF q > x THEN q - x ELSE 0)
    BY DEF Noted
  <2>3. e.gap_messages = d.gap_messages + (q - x)
    BY <2>1, <2>2
  <2> QED
    BY <2>1, <2>3 DEF JoinedOf
<1>2. JoinedOf(f) = j
  BY <1>1 DEF JoinedOf
<1>3. S \subseteq j .. x - 1 /\ G \subseteq j .. x - 1 /\ S \cap G = {}
      /\ Cardinality(S) = d.messages
  BY DEF AccountInv, RangeOf
<1>4. RangeOf(f) = j .. q + k - 1 /\ RangeOf(d) = j .. x - 1
  BY <1>2 DEF RangeOf
<1>5. j .. x - 1 \subseteq j .. q + k - 1 /\ new \cap (j .. x - 1) = {}
      /\ new \cap hole = {} /\ hole \cap (j .. x - 1) = {}
  BY <1>1
<1>6. JoinedOf(d) <= x
  BY <1>1 DEF JoinedOf
<1>7. new \subseteq j .. q + k - 1 /\ hole \subseteq j .. q + k - 1
      /\ j .. q + k - 1 = (j .. x - 1) \cup hole \cup new
  BY <1>1, <1>6
<1>8. Cardinality(SeqsOf(w)) = f.messages
  <2>1. IsFiniteSet(S)
    <3>0. j \in Int /\ x - 1 \in Int
      BY <1>1
    <3> HIDE DEF S, j, x
    <3>1. IsFiniteSet(j .. x - 1)
      BY <3>0, FS_Interval
    <3> QED
      BY <1>3, <3>1, FS_Subset
  <2>2. IsFiniteSet(new) /\ Cardinality(new) = k
    <3>1. q \in Int /\ q + k - 1 \in Int /\ (q > q + k - 1 <=> k = 0)
          /\ (q + k - 1) - q + 1 = k
      OBVIOUS
    <3> QED
      BY <3>1, FS_Interval
  <2>3. S \cap new = {}
    BY <1>3, <1>5
  <2> HIDE DEF S, new
  <2>4. Cardinality(S \cup new) = Cardinality(S) + Cardinality(new) - Cardinality({})
    BY <2>1, <2>2, <2>3, FS_Union
  <2>5. Cardinality({}) = 0
    BY FS_EmptySet
  <2> QED
    BY <1>1, <1>3, <2>2, <2>4, <2>5 DEF S, new
<1> HIDE DEF j, x, S, G, new, hole
<1>9. SeqsOf(w) = S \cup new
  BY DEF S, new
<1>10. Len(f.gaps) <= kMaxGaps /\ Len(f.gaps) <= f.gaps_total
  BY DEF Noted
<1>11. GapsOf(f) = GapsOf(e)
  BY DEF GapsOf
<1>12. d.gaps_total \in Nat /\ Len(d.gaps) \in Nat /\ e.gaps_total \in Nat /\ Len(e.gaps) \in Nat
  BY LenProperties DEF Noted, DecType
<1>13. CASE GapsOf(e) = G \cup hole /\ e.gaps_total - Len(e.gaps) = d.gaps_total - Len(d.gaps)
  <2>1. f.gaps_total = Len(f.gaps) => j .. x - 1 \subseteq S \cup G
    BY <1>4, <1>12, <1>13 DEF AccountInv, S, G
  <2>2. SeqsOf(w) \subseteq RangeOf(f) /\ GapsOf(f) \subseteq RangeOf(f)
    BY <1>3, <1>4, <1>5, <1>7, <1>9, <1>11, <1>13
  <2>3. SeqsOf(w) \cap GapsOf(f) = {}
    BY <1>3, <1>5, <1>9, <1>11, <1>13
  <2>4. f.gaps_total = Len(f.gaps) => RangeOf(f) \subseteq SeqsOf(w) \cup GapsOf(f)
    BY <1>4, <1>7, <1>9, <1>11, <1>13, <2>1
  <2> QED
    BY <1>8, <1>10, <2>2, <2>3, <2>4 DEF AccountInv
<1>14. CASE GapsOf(e) = G /\ Len(e.gaps) < e.gaps_total
  <2>1. f.gaps_total # Len(f.gaps)
    BY <1>12, <1>14
  <2>2. SeqsOf(w) \subseteq RangeOf(f) /\ GapsOf(f) \subseteq RangeOf(f)
    BY <1>3, <1>4, <1>5, <1>7, <1>9, <1>11, <1>14
  <2>3. SeqsOf(w) \cap GapsOf(f) = {}
    BY <1>3, <1>5, <1>9, <1>11, <1>14
  <2> QED
    BY <1>8, <1>10, <2>1, <2>2, <2>3 DEF AccountInv
<1> QED
  BY <1>13, <1>14 DEF Noted, G, hole, x

\* The decoder after a delivery is well typed.
LEMMA DeliveredType ==
  ASSUME NEW e \in DecType, NEW q \in Nat, NEW a \in Nat, NEW b \in Nat, NEW c \in Nat
  PROVE  [e EXCEPT !.last_sequence = q, !.messages = a, !.applied = b, !.expected = c] \in DecType
<1> DEFINE h == [e EXCEPT !.last_sequence = q, !.messages = a]
<1>1. h \in DecType
  BY DEF DecType
<1> HIDE DEF h
<1>2. [h EXCEPT !.applied = b, !.expected = c] \in DecType
  BY <1>1 DEF DecType
<1> QED
  BY <1>2 DEF h

\* A number below the modulus does not wrap.
LEMMA NoWrap ==
  ASSUME NEW n \in Nat, NEW m \in Nat, n < m
  PROVE  n % m = n
OBVIOUS

\* A packet of messages that is neither stale nor malformed.
IsDelivered(d, s, pkt, f, w) ==
  /\ DecInv(f, w)
  /\ SeqsOf(w) = SeqsOf(s) \cup (pkt.sequence .. pkt.sequence + pkt.count - 1)
  /\ f.eos = d.eos /\ f.expected = pkt.sequence + pkt.count /\ d.expected <= pkt.sequence
  /\ f.messages = d.messages + pkt.count /\ f.started
  /\ f.gap_messages = d.gap_messages + (pkt.sequence - d.expected)

\* A packet that is neither stale nor malformed is delivered whole: its messages join what was
\* delivered, the hole before it joins what is missing.
LEMMA DeliverInv ==
  ASSUME NEW d, NEW s, DecInv(d, s), d.started, NEW pkt, Heard(pkt), pkt.count # kEndOfSession,
         pkt.count > 0, ~Stale(d, pkt), Valid(pkt), pkt.sequence + pkt.count < kSequences,
         NEW f, f = Deliver(d, pkt).decoder, NEW w,
         w = Append(s, [first |-> pkt.sequence, blocks |-> pkt.blocks])
  PROVE  IsDelivered(d, s, pkt, f, w)
<1> DEFINE q == pkt.sequence
           k == pkt.count
           x == [first |-> q, blocks |-> pkt.blocks]
           e == NoteHole(d, q)
           a == e.messages + k
           b == e.applied + 1
           c == (q + k) % kSequences
<1>0. d \in DecType /\ s \in Seq(SunkType) /\ FreshOrJoined(d, s) /\ AccountInv(d, s)
      /\ OrderInv(d, s)
  BY DEF DecInv
<1>1. q \in Nat /\ k \in Nat /\ d.expected \in Nat /\ d.expected <= q /\ Len(pkt.blocks) = k
  BY SMTT(30), <1>0 DEF Heard, DecType, Stale, Valid
<1>2. c = q + k
  <2>1. q + k \in Nat /\ q + k < kSequences
    BY <1>1
  <2> QED
    BY <2>1, EndMarker, NoWrap
<1>3. Noted(d, e, q)
  BY <1>0, <1>1, NoteHoleNotes DEF AccountInv
<1> HIDE DEF e
<1>4. a \in Nat /\ b \in Nat /\ e \in DecType
  <2>1. e \in DecType
    BY <1>3 DEF Noted
  <2>2. e.messages \in Nat /\ e.applied \in Nat
    BY <2>1 DEF DecType
  <2> QED
    BY <1>1, <2>1, <2>2
<1>5. f = [e EXCEPT !.last_sequence = q, !.messages = a, !.applied = b, !.expected = c]
  BY DEF Deliver, e
<1> HIDE DEF a, b, c
<1>6. f \in DecType /\ f.expected = c /\ f.messages = a /\ f.started = e.started
      /\ f.session = e.session /\ f.eos = e.eos /\ f.gaps = e.gaps
      /\ f.gaps_total = e.gaps_total /\ f.gap_messages = e.gap_messages
  <2>1. c \in Nat /\ q \in Nat
    BY <1>1, <1>2
  <2> HIDE DEF q, k
  <2>2. f \in DecType
    <3>1. [e EXCEPT !.last_sequence = q, !.messages = a, !.applied = b, !.expected = c] \in DecType
      BY <1>4, <2>1, DeliveredType
    <3> QED
      BY <1>5, <3>1
  <2>3. f.expected = c /\ f.messages = a /\ f.started = e.started
        /\ f.session = e.session /\ f.eos = e.eos /\ f.gaps = e.gaps
        /\ f.gaps_total = e.gaps_total /\ f.gap_messages = e.gap_messages
    BY <1>4, <1>5 DEF DecType
  <2> QED
    BY <2>2, <2>3
<1>7. f.messages = d.messages + k /\ f.expected = q + k /\ f.started /\ f.eos = d.eos
      /\ f.session = OwnSession
  BY <1>0, <1>2, <1>3, <1>6 DEF Noted, a, FreshOrJoined
<1>8. f.gap_messages = d.gap_messages + (q - d.expected)
  <2>1. d.gap_messages \in Nat
    BY <1>0 DEF DecType
  <2>2. e.gap_messages = d.gap_messages + (IF q > d.expected THEN q - d.expected ELSE 0)
    BY <1>3 DEF Noted
  <2> QED
    BY <1>1, <1>6, <2>1, <2>2
<1>9. x \in SunkType /\ SunkSequences(x) = q .. q + k - 1 /\ x.first = q /\ x.blocks = pkt.blocks
  BY <1>1 DEF SunkType, SunkSequences, Heard
<1> HIDE DEF x
<1>10. w \in Seq(SunkType) /\ SeqsOf(w) = SeqsOf(s) \cup (q .. q + k - 1)
  BY <1>0, <1>9, SunkAppend DEF x
<1>11. AccountInv(f, w)
  <2>1. Moved(d, e, f, q, k)
    BY <1>1, <1>3, <1>6, <1>7 DEF Moved
  <2>2. d \in DecType /\ f \in DecType /\ AccountInv(d, s) /\ q \in Nat /\ k \in Nat
        /\ SeqsOf(w) = SeqsOf(s) \cup (q .. q + k - 1)
    BY <1>0, <1>1, <1>6, <1>10
  <2> HIDE DEF q, k
  <2> QED
    BY <2>1, <2>2, MovedAccount
<1>12. OrderInv(f, w)
  <2> DEFINE m == Len(s)
  <2>1. DOMAIN w = 1 .. m + 1 /\ DOMAIN s = 1 .. m /\ m \in Nat /\ w[m + 1] = x
        /\ \A i \in 1 .. m : w[i] = s[i]
    BY <1>0, <1>9 DEF x
  <2> HIDE DEF m
  <2>2. ASSUME NEW i \in 1 .. m
        PROVE  /\ s[i].first + Len(s[i].blocks) <= q /\ Carries(s[i].first, s[i].blocks)
               /\ s[i].first + Len(s[i].blocks) <= q + k
    <3>1. s[i].first \in Nat /\ Len(s[i].blocks) \in Nat
      <4>1. s[i] \in SunkType
        BY <1>0, <2>1
      <4> QED
        BY <4>1, LenProperties DEF SunkType
    <3>2. s[i].first + Len(s[i].blocks) <= d.expected /\ Carries(s[i].first, s[i].blocks)
      BY <1>0, <2>1 DEF OrderInv
    <3> DEFINE n == s[i].first + Len(s[i].blocks)
    <3>3. n \in Nat /\ n <= d.expected
      BY <3>1, <3>2
    <3> HIDE DEF n, q, k
    <3>4. n <= q /\ n <= q + k
      BY <1>1, <3>3
    <3> QED
      BY <3>2, <3>4 DEF n
  <2>3. ASSUME NEW i \in DOMAIN w, NEW n \in DOMAIN w, i < n
        PROVE  w[i].first + Len(w[i].blocks) <= w[n].first
    <3>1. i \in 1 .. m /\ (n \in 1 .. m \/ n = m + 1)
      BY <2>1, <2>3
    <3>2. CASE n \in 1 .. m
      BY <1>0, <2>1, <2>3, <3>1, <3>2 DEF OrderInv
    <3>3. CASE n = m + 1
      BY <1>9, <2>1, <2>2, <3>1, <3>3
    <3> QED
      BY <3>1, <3>2, <3>3
  <2>4. ASSUME NEW i \in DOMAIN w
        PROVE  w[i].first + Len(w[i].blocks) <= f.expected /\ Carries(w[i].first, w[i].blocks)
    <3>1. i \in 1 .. m \/ i = m + 1
      BY <2>1
    <3>2. Carries(q, pkt.blocks) /\ q + Len(pkt.blocks) <= q + k
      BY <1>1 DEF Heard
    <3> QED
      BY <1>7, <1>9, <2>1, <2>2, <3>1, <3>2
  <2> QED
    BY <2>3, <2>4 DEF OrderInv
<1> QED
  BY <1>1, <1>6, <1>7, <1>8, <1>10, <1>11, <1>12 DEF DecInv, FreshOrJoined, IsDelivered

\* The numbers that a packet carries are those of the recording.
LEMMA CarriedBound ==
  ASSUME NEW q \in Nat, NEW blocks \in Seq(Nat), blocks # << >>, Carries(q, blocks)
  PROVE  q + Len(blocks) <= Len(Sizes) + 1
<1> DEFINE k == Len(blocks)
           n == blocks[k]
           c == Cardinality(Sendable)
<1>1. k \in Nat /\ k \in DOMAIN blocks
  BY LenProperties, EmptySeq
<1>2. n \in Sendable /\ Place(n) = q + k - 1
  BY <1>1 DEF Carries
<1>3. q + k - 1 \in 1 .. c
  BY <1>2, PackedAtPlace
<1>4. c \in Nat /\ c <= Len(Sizes)
  <2>1. IsFiniteSet(1 .. Len(Sizes)) /\ Cardinality(1 .. Len(Sizes)) = Len(Sizes)
    <3> DEFINE l == Len(Sizes)
    <3>1. l \in Nat /\ 1 \in Int /\ l \in Int
      BY LenSizes
    <3> HIDE DEF l
    <3>2. IsFiniteSet(1 .. l) /\ Cardinality(1 .. l) = IF 1 > l THEN 0 ELSE l - 1 + 1
      BY <3>1, FS_Interval
    <3>3. Cardinality(1 .. l) = l
      BY <3>1, <3>2
    <3> QED
      BY <3>2, <3>3 DEF l
  <2> QED
    BY <2>1, SendableFinite, FS_CardinalityType, FS_Subset DEF Msgs
<1> HIDE DEF k, c
<1>5. q + k <= Len(Sizes) + 1
  BY <1>1, <1>3, <1>4, LenSizes
<1> QED
  BY <1>5 DEF k

\* A step that leaves the decoder where it is.
Stays(d, f) ==
  /\ f.started = d.started /\ f.session = d.session /\ f.expected = d.expected
  /\ f.messages = d.messages /\ f.gap_messages = d.gap_messages
  /\ f.gaps = d.gaps /\ f.gaps_total = d.gaps_total /\ f.eos = d.eos

\* A decoder that only counts something keeps its invariant.
LEMMA StaysInv ==
  ASSUME NEW d, NEW s, DecInv(d, s), NEW f \in DecType, Stays(d, f)
  PROVE  DecInv(f, s)
<1>1. RangeOf(f) = RangeOf(d) /\ GapsOf(f) = GapsOf(d)
  BY DEF Stays, RangeOf, JoinedOf, GapsOf
<1> QED
  BY <1>1 DEF Stays, DecInv, FreshOrJoined, AccountInv, OrderInv

\* A malformed packet, a heartbeat and a duplicate only count.
LEMMA IgnoredInv ==
  ASSUME NEW d, NEW s, DecInv(d, s), NEW f,
         \/ f = [d EXCEPT !.malformed = @ + 1]
         \/ f = [d EXCEPT !.heartbeats = @ + 1]
         \/ f = [d EXCEPT !.duplicates = @ + 1]
  PROVE  DecInv(f, s) /\ Stays(d, f)
<1>1. d \in DecType
  BY DEF DecInv
<1>2. CASE f = [d EXCEPT !.malformed = @ + 1]
  <2> DEFINE n == d.malformed + 1
  <2>1. n \in Nat /\ f = [d EXCEPT !.malformed = n]
    BY <1>1, <1>2 DEF DecType
  <2> HIDE DEF n
  <2>2. f \in DecType /\ Stays(d, f)
    BY <1>1, <2>1 DEF DecType, Stays
  <2> QED
    BY <2>2, StaysInv
<1>3. CASE f = [d EXCEPT !.heartbeats = @ + 1]
  <2> DEFINE n == d.heartbeats + 1
  <2>1. n \in Nat /\ f = [d EXCEPT !.heartbeats = n]
    BY <1>1, <1>3 DEF DecType
  <2> HIDE DEF n
  <2>2. f \in DecType /\ Stays(d, f)
    BY <1>1, <2>1 DEF DecType, Stays
  <2> QED
    BY <2>2, StaysInv
<1>4. CASE f = [d EXCEPT !.duplicates = @ + 1]
  <2> DEFINE n == d.duplicates + 1
  <2>1. n \in Nat /\ f = [d EXCEPT !.duplicates = n]
    BY <1>1, <1>4 DEF DecType
  <2> HIDE DEF n
  <2>2. f \in DecType /\ Stays(d, f)
    BY <1>1, <2>1 DEF DecType, Stays
  <2> QED
    BY <2>2, StaysInv
<1> QED
  BY <1>2, <1>3, <1>4

\* The end of session packet.
LEMMA EndInv ==
  ASSUME NEW d, NEW s, DecInv(d, s), d.started, NEW pkt, pkt.sequence \in Nat,
         NEW f, f = EndOfSession(d, pkt)
  PROVE  /\ DecInv(f, s)
         /\ f.eos /\ f.started /\ f.messages = d.messages /\ f.expected >= pkt.sequence
         /\ f.expected - d.expected = f.gap_messages - d.gap_messages /\ f.expected >= d.expected
<1> DEFINE q == pkt.sequence
           e == NoteHole(d, q)
           c == IF q > e.expected THEN q ELSE e.expected
<1>0. d \in DecType /\ s \in Seq(SunkType) /\ FreshOrJoined(d, s) /\ AccountInv(d, s)
      /\ OrderInv(d, s) /\ d.expected \in Nat /\ d.gap_messages \in Nat
  BY DEF DecInv, DecType
<1>1. Noted(d, e, q)
  BY <1>0, NoteHoleNotes DEF AccountInv
<1>2. f = [e EXCEPT !.expected = c, !.eos = TRUE, !.last_sequence = q]
  BY DEF EndOfSession
<1> HIDE DEF e
<1>3. e \in DecType /\ e.expected = d.expected /\ e.messages = d.messages
      /\ e.started = d.started /\ e.session = d.session
      /\ e.gap_messages = d.gap_messages + (IF q > d.expected THEN q - d.expected ELSE 0)
  BY <1>1 DEF Noted
<1>4. c \in Nat /\ c >= q /\ c >= d.expected /\ c - d.expected = e.gap_messages - d.gap_messages
      /\ (q > d.expected => c = q) /\ (~(q > d.expected) => c = d.expected)
  BY <1>0, <1>3
<1> HIDE DEF c
<1>5. f \in DecType /\ f.expected = c /\ f.messages = e.messages /\ f.started = e.started
      /\ f.session = e.session /\ f.eos /\ f.gaps = e.gaps
      /\ f.gaps_total = e.gaps_total /\ f.gap_messages = e.gap_messages
  <2> DEFINE v == [e EXCEPT !.expected = c, !.eos = TRUE]
  <2>1. v \in DecType /\ v.expected = c /\ v.messages = e.messages /\ v.started = e.started
        /\ v.session = e.session /\ v.eos /\ v.gaps = e.gaps
        /\ v.gaps_total = e.gaps_total /\ v.gap_messages = e.gap_messages
    BY <1>3, <1>4 DEF DecType
  <2>2. f = [v EXCEPT !.last_sequence = q]
    BY <1>2
  <2> HIDE DEF v
  <2> QED
    BY <1>0, <2>1, <2>2 DEF DecType
<1>6. AccountInv(f, s)
  <2>1. CASE q > d.expected
    <3>1. Moved(d, e, f, q, 0)
      <4>1. d.messages \in Nat /\ q \in Nat /\ d.expected <= q /\ q + 0 = q
            /\ d.messages + 0 = d.messages
        BY <1>0, <2>1 DEF DecType
      <4> QED
        BY <1>1, <1>3, <1>4, <1>5, <2>1, <4>1 DEF Moved
    <3>2. SeqsOf(s) = SeqsOf(s) \cup (q .. q + 0 - 1) /\ q \in Nat /\ 0 \in Nat
      OBVIOUS
    <3> HIDE DEF q
    <3> QED
      BY <1>0, <1>5, <3>1, <3>2, MovedAccount
  <2>2. CASE ~(q > d.expected)
    <3>1. e = d
      BY <2>2 DEF e, NoteHole
    <3>2. RangeOf(f) = RangeOf(d) /\ GapsOf(f) = GapsOf(d)
      BY <1>4, <1>5, <2>2, <3>1 DEF RangeOf, JoinedOf, GapsOf
    <3> QED
      BY <1>0, <1>5, <3>1, <3>2 DEF AccountInv
  <2> QED
    BY <2>1, <2>2
<1>7. OrderInv(f, s)
  <2>1. ASSUME NEW k \in DOMAIN s
        PROVE  s[k].first + Len(s[k].blocks) <= f.expected
    <3>1. s[k] \in SunkType
      BY <1>0
    <3>2. s[k].first \in Nat /\ Len(s[k].blocks) \in Nat
      BY <3>1, LenProperties DEF SunkType
    <3>3. s[k].first + Len(s[k].blocks) <= d.expected
      BY <1>0 DEF OrderInv
    <3> QED
      BY <1>0, <1>4, <1>5, <3>2, <3>3
  <2> QED
    BY <1>0, <2>1 DEF OrderInv
<1> QED
  BY <1>0, <1>3, <1>4, <1>5, <1>6, <1>7 DEF DecInv, FreshOrJoined

-----------------------------------------------------------------------------
(***************************************************************************)
(* One datagram, from the network to the sink.                             *)
(***************************************************************************)

\* How a step of the decoder looks to a subscriber: nothing, messages skipped and received,
\* or the packet where it joins.
Follows(d, f) ==
  \/ /\ f.started = d.started /\ f.expected = d.expected
     /\ f.messages = d.messages /\ f.gap_messages = d.gap_messages
  \/ /\ d.started /\ f.started
     /\ f.messages >= d.messages /\ f.gap_messages >= d.gap_messages
     /\ f.expected = d.expected + (f.gap_messages - d.gap_messages) + (f.messages - d.messages)
  \/ /\ ~d.started /\ f.started
     /\ f.messages >= d.messages /\ f.gap_messages = d.gap_messages

\* From the packet that Enters to its effect.
LEMMA FollowsEntered ==
  ASSUME NEW d \in DecType, NEW e \in DecType, NEW f \in DecType, NEW pkt, Entered(d, e, pkt),
         f.started, f.messages >= e.messages, f.gap_messages >= e.gap_messages,
         f.expected = e.expected + (f.gap_messages - e.gap_messages) + (f.messages - e.messages),
         ~d.started => f.gap_messages = e.gap_messages
  PROVE  Follows(d, f)
BY DEF Follows, Entered

\* What arrives is a packet of this session, and its messages are what somebody retransmits or
\* what this sender sent before and did not drop.
LEMMA StraysAreHeard ==
  ASSUME NEW t, TxInv(t), NEW pkt, pkt \in Strays \/ Own(pkt, t), ~pkt.short
  PROVE  /\ Heard(pkt)
         /\ pkt.count = kEndOfSession => OwnEnd(pkt, t)
         /\ pkt.count # kEndOfSession /\ pkt.count > 0 /\ Valid(pkt) =>
              \A n \in pkt.sequence .. pkt.sequence + pkt.count - 1 :
                \/ Retransmits(n)
                \/ n < t.sequence /\ \A r \in t.drops : n < r.first \/ r.first + r.count <= n
<1>1. CASE pkt \in Strays
  <2>1. Heard(pkt) /\ pkt.count # kEndOfSession
    BY <1>1, StrayAssumption DEF Heard
  <2>2. Valid(pkt) =>
          \A n \in pkt.sequence .. pkt.sequence + pkt.count - 1 : Retransmits(n)
    BY <1>1 DEF Retransmits
  <2> QED
    BY <2>1, <2>2
<1>2. CASE Own(pkt, t)
  <2>1. PICK sequence \in Nat, count \in Nat, blocks \in Seq(Msgs) :
          pkt = Datagram(OwnSession, sequence, count, blocks)
    BY <1>2 DEF Own
  <2>2. pkt.sequence \in Nat /\ pkt.count \in Nat /\ pkt.blocks \in Seq(Msgs)
        /\ pkt.exhausted = TRUE /\ pkt.session = OwnSession
    BY <2>1 DEF Datagram
  <2>3. pkt.blocks \in Seq(Nat)
    BY <2>2, LenSizes DEF Msgs
  <2>4. CASE OwnData(pkt, t)
    <3>1. pkt.count # kEndOfSession /\ Carries(pkt.sequence, pkt.blocks)
      BY <2>2, <2>4, EndMarker DEF OwnData
    <3>2. ASSUME NEW n \in pkt.sequence .. pkt.sequence + pkt.count - 1
          PROVE  n < t.sequence /\ \A r \in t.drops : n < r.first \/ r.first + r.count <= n
      <4>1. t.sequence \in Nat /\ \A r \in t.drops : r.first \in Nat /\ r.count \in Nat
        BY DEF TxInv, TxType, GapType
      <4>2. n \in Int /\ n >= pkt.sequence /\ n < pkt.sequence + pkt.count
        BY <2>2
      <4>3. n < t.sequence
        BY <2>2, <2>4, <4>1, <4>2 DEF OwnData
      <4>4. ASSUME NEW r \in t.drops PROVE n < r.first \/ r.first + r.count <= n
        BY SMTT(30), <2>2, <2>4, <4>1, <4>2 DEF OwnData
      <4> QED
        BY <4>3, <4>4
    <3> QED
      BY <2>2, <2>3, <3>1, <3>2 DEF Heard
  <2>5. CASE OwnEnd(pkt, t)
    BY <2>2, <2>3, <2>5 DEF Heard, OwnEnd
  <2> QED
    BY <1>2, <2>4, <2>5 DEF Own
<1> QED
  BY <1>1, <1>2

\* What one datagram does to the decoder and the sink.
Sunk(s, pkt, delivered) ==
  IF delivered # << >> THEN Append(s, [first |-> pkt.sequence, blocks |-> delivered]) ELSE s

\* Decoder::on_packet keeps the decoder's invariant and its agreement with the sender.
LEMMA PacketKeeps ==
  ASSUME NEW d, NEW s, NEW t, TxInv(t), DecInv(d, s), Agree(d, s, t),
         NEW pkt, pkt \in Strays \/ Own(pkt, t), NEW r, r = OnPacket(d, pkt)
  PROVE  /\ DecInv(r.decoder, Sunk(s, pkt, r.delivered))
         /\ Agree(r.decoder, Sunk(s, pkt, r.delivered), t)
         /\ Follows(d, r.decoder)
<1> DEFINE e == EnterSession(d, pkt)
<1>1. CASE pkt.short
  <2> DEFINE f == [d EXCEPT !.malformed = @ + 1]
  <2>1. r.decoder = f /\ Sunk(s, pkt, r.delivered) = s
    BY <1>1 DEF OnPacket, Ignore, Sunk
  <2>2. DecInv(f, s) /\ Stays(d, f)
    BY IgnoredInv
  <2> HIDE DEF f
  <2> QED
    BY <2>1, <2>2 DEF Agree, Stays, Follows
<1>2. CASE ~pkt.short
  <2>1. Heard(pkt)
    BY <1>2, StraysAreHeard
  <2>2. DecInv(e, s) /\ Entered(d, e, pkt)
    BY <2>1, EnterInv
  <2>3. r = CASE pkt.count = kEndOfSession -> Ignore(EndOfSession(e, pkt))
              [] pkt.count = kHeartbeat    -> Ignore([e EXCEPT !.heartbeats = @ + 1])
              [] OTHER ->
            IF Stale(e, pkt)               THEN Ignore([e EXCEPT !.duplicates = @ + 1])
            ELSE IF ~Valid(pkt)            THEN Ignore([e EXCEPT !.malformed = @ + 1])
            ELSE Deliver(e, pkt)
    BY <1>2 DEF OnPacket
  <2>4. e.started /\ Agree(e, s, t) /\ d \in DecType /\ e \in DecType
    <3>1. ~d.started => ~d.eos
      BY DEF DecInv, FreshOrJoined
    <3> QED
      BY <2>2, <3>1 DEF Agree, Entered, DecInv
  <2> HIDE DEF e
  <2>5. CASE pkt.count = kEndOfSession
    <3> DEFINE f == EndOfSession(e, pkt)
    <3>1. r.decoder = f /\ Sunk(s, pkt, r.delivered) = s
      <4>1. pkt.count # kHeartbeat
        BY <2>5, EndMarker DEF kHeartbeat
      <4> QED
        BY <2>3, <2>5, <4>1 DEF Ignore, Sunk
    <3>2. pkt.sequence \in Nat
      BY <2>1 DEF Heard
    <3>3. /\ DecInv(f, s)
          /\ f.eos /\ f.started /\ f.messages = e.messages /\ f.expected >= pkt.sequence
          /\ f.expected - e.expected = f.gap_messages - e.gap_messages
          /\ f.expected >= e.expected
      BY <2>2, <2>4, <3>2, EndInv
    <3> HIDE DEF f
    <3>4. f \in DecType /\ f.expected \in Nat /\ e.expected \in Nat /\ f.messages \in Nat
          /\ f.gap_messages \in Nat /\ e.gap_messages \in Nat
      BY <2>4, <3>3 DEF DecInv, DecType
    <3>5. Follows(d, f)
      <4>1. f.gap_messages >= e.gap_messages /\ f.messages >= e.messages
        BY <3>3, <3>4
      <4>2. f.expected = e.expected + (f.gap_messages - e.gap_messages)
                         + (f.messages - e.messages)
        BY <3>3, <3>4
      <4>3. CASE d.started
        BY <2>2, <2>4, <3>3, <3>4, <4>1, <4>2, <4>3, FollowsEntered
      <4>4. CASE ~d.started
        BY <2>2, <3>3, <4>1, <4>4, <2>4, <3>4 DEF Follows, Entered, EndOfSession, NoteHole, f
      <4> QED
        BY <4>3, <4>4
    <3>6. Agree(f, s, t)
      <4>1. pkt.sequence = t.sequence /\ t.phase = "done"
        BY <1>2, <2>5, StraysAreHeard DEF OwnEnd
      <4> QED
        BY <2>4, <3>3, <4>1 DEF Agree
    <3> QED
      BY <3>1, <3>3, <3>5, <3>6
  <2>6. CASE pkt.count # kEndOfSession
             /\ (pkt.count = kHeartbeat \/ Stale(e, pkt) \/ ~Valid(pkt))
    <3> DEFINE f == r.decoder
    <3>1. Sunk(s, pkt, r.delivered) = s
          /\ (\/ f = [e EXCEPT !.malformed = @ + 1]
              \/ f = [e EXCEPT !.heartbeats = @ + 1]
              \/ f = [e EXCEPT !.duplicates = @ + 1])
      BY <2>3, <2>6 DEF Ignore, Sunk
    <3> HIDE DEF f
    <3>2. DecInv(f, s) /\ Stays(e, f)
      BY <2>2, <3>1, IgnoredInv
    <3>3. Agree(f, s, t)
      BY <2>4, <3>2 DEF Agree, Stays
    <3>4. Follows(d, f)
      <4>1. d.messages \in Nat /\ d.messages >= d.messages
        BY <2>4 DEF DecType
      <4> QED
        BY <2>2, <2>4, <3>2, <4>1 DEF Follows, Stays, Entered
    <3> QED
      BY <3>1, <3>2, <3>3, <3>4 DEF f
  <2>7. CASE pkt.count # kEndOfSession /\ pkt.count # kHeartbeat /\ ~Stale(e, pkt) /\ Valid(pkt)
    <3> DEFINE f == Deliver(e, pkt).decoder
               w == Append(s, [first |-> pkt.sequence, blocks |-> pkt.blocks])
               q == pkt.sequence
               k == pkt.count
    <3>1. q \in Nat /\ k \in Nat /\ pkt.blocks \in Seq(Nat) /\ k > 0
          /\ Len(pkt.blocks) = k /\ Carries(q, pkt.blocks)
      BY <2>1, <2>7 DEF Heard, Valid, kHeartbeat
    <3>2. pkt.blocks # << >>
      BY <3>1
    <3>3. q + k < kSequences
      <4>1. q + k <= Len(Sizes) + 1
        BY <3>1, <3>2, CarriedBound
      <4> QED
        BY <3>1, <4>1, LenSizes, RecordingAssumption, EndMarker
    <3>4. r.decoder = f /\ Sunk(s, pkt, r.delivered) = w
      BY <2>3, <2>7, <3>2 DEF Deliver, Sunk
    <3>5. /\ DecInv(f, w)
          /\ SeqsOf(w) = SeqsOf(s) \cup (q .. q + k - 1)
          /\ f.eos = e.eos /\ f.expected = q + k /\ e.expected <= q
          /\ f.messages = e.messages + k /\ f.started
          /\ f.gap_messages = e.gap_messages + (q - e.expected)
      <4>1. ~Stale(e, pkt) /\ Valid(pkt) /\ e.started /\ pkt.count # kEndOfSession
        BY <2>4, <2>7
      <4> HIDE DEF f, w
      <4>2. f = Deliver(e, pkt).decoder
            /\ w = Append(s, [first |-> pkt.sequence, blocks |-> pkt.blocks])
        BY DEF f, w
      <4>3. IsDelivered(e, s, pkt, f, w)
        BY <2>1, <2>2, <3>1, <3>3, <4>1, <4>2, DeliverInv
      <4> QED
        BY <4>3 DEF IsDelivered
    <3> HIDE DEF f, w
    <3>6. f \in DecType /\ e.expected \in Nat /\ e.messages \in Nat /\ e.gap_messages \in Nat
      BY <2>4, <3>5 DEF DecInv, DecType
    <3>7. Follows(d, f)
      <4>1. f.messages >= e.messages /\ f.gap_messages >= e.gap_messages
            /\ f.expected = e.expected + (f.gap_messages - e.gap_messages)
                            + (f.messages - e.messages)
        BY <3>1, <3>5, <3>6
      <4>2. ~d.started => f.gap_messages = e.gap_messages
        BY <2>2, <3>1, <3>5, <3>6 DEF Entered
      <4> QED
        BY <2>2, <2>4, <3>5, <3>6, <4>1, <4>2, FollowsEntered
    <3>8. Agree(f, w, t)
      <4>1. ASSUME NEW n \in SeqsOf(w)
            PROVE  \/ Retransmits(n)
                   \/ /\ n < t.sequence
                      /\ \A x \in t.drops : n < x.first \/ x.first + x.count <= n
        <5>1. CASE n \in SeqsOf(s)
          BY <2>4, <5>1 DEF Agree
        <5>2. CASE n \in q .. q + k - 1
          BY <1>2, <2>7, <3>1, <5>2, StraysAreHeard
        <5> QED
          BY <3>5, <5>1, <5>2
      <4>2. f.eos => t.phase = "done" /\ f.expected >= t.sequence
        <5>1. t.sequence \in Nat
          BY DEF TxInv, TxType
        <5> QED
          BY SMTT(30), <2>4, <3>1, <3>5, <3>6, <5>1 DEF Agree
      <4> QED
        BY <4>1, <4>2 DEF Agree
    <3> QED
      BY <3>4, <3>5, <3>7, <3>8
  <2> QED
    BY <2>5, <2>6, <2>7
<1> QED
  BY <1>1, <1>2

-----------------------------------------------------------------------------
(***************************************************************************)
(* The steps of the market data path.                                      *)
(***************************************************************************)

\* recvfrom returned a datagram, too long for the buffer or not.
LEMMA TakeKeeps ==
  ASSUME FeedInv, NEW pkt \in wire \cup Strays, Take(pkt), wire' \subseteq wire
  PROVE  FeedInv' /\ Follows(dec, dec')
<1> DEFINE r == OnPacket(dec, pkt)
<1>1. TxInv(tx) /\ DecInv(dec, sunk) /\ Agree(dec, sunk, tx) /\ (pkt \in Strays \/ Own(pkt, tx))
      /\ tx' = tx /\ \A p \in wire' : Own(p, tx)
  BY DEF FeedInv, Take
<1>2. CASE DatagramSize(pkt) <= kBufferSize
  <2>1. dec' = r.decoder /\ sunk' = Sunk(sunk, pkt, r.delivered)
    BY <1>2 DEF Take, Sunk
  <2> HIDE DEF r
  <2>2. DecInv(dec', sunk') /\ Agree(dec', sunk', tx) /\ Follows(dec, dec')
    BY <1>1, <2>1, PacketKeeps DEF r
  <2> QED
    BY <1>1, <2>2 DEF FeedInv
<1>3. CASE ~(DatagramSize(pkt) <= kBufferSize)
  <2>1. dec' = dec /\ sunk' = sunk
    BY <1>3 DEF Take
  <2> QED
    BY <1>1, <2>1 DEF FeedInv, Follows
<1> QED
  BY <1>2, <1>3

\* Every step of the feed keeps the invariant, and the decoder only goes forward.
LEMMA FeedStep ==
  ASSUME FeedInv, [FeedNext]_feedVars
  PROVE  FeedInv' /\ Follows(dec, dec')
<1>1. CASE Replay
  BY <1>1, ReplayKeeps DEF Replay, Follows
<1>2. ASSUME NEW pkt \in wire, Lose(pkt) PROVE FeedInv' /\ Follows(dec, dec')
  BY <1>2 DEF Lose, FeedInv, Follows
<1>3. ASSUME NEW pkt \in wire, Receive(pkt) PROVE FeedInv' /\ Follows(dec, dec')
  BY <1>3, TakeKeeps DEF Receive
<1>4. ASSUME NEW pkt \in wire \cup Strays, ReceiveExtra(pkt) PROVE FeedInv' /\ Follows(dec, dec')
  BY <1>4, TakeKeeps DEF ReceiveExtra
<1>5. CASE UNCHANGED <<tx, wire, dec, sunk>>
  BY <1>5 DEF FeedInv, Follows
<1> QED
  BY <1>1, <1>2, <1>3, <1>4, <1>5 DEF FeedNext, CheckStop, Interrupted, Stop, feedVars

\* The feed starts in the invariant.
LEMMA FeedStart ==
  ASSUME FeedInit
  PROVE  FeedInv
<1>1. PICK limit \in PacketLimits : tx = NewReplayer(limit)
  BY DEF FeedInit, ReplayerInit
<1>2. tx \in TxType
  <2>1. limit \in Nat /\ << >> \in Seq(Msgs)
    BY RecordingAssumption
  <2> QED
    BY <1>1, <2>1 DEF NewReplayer, TxType
<1>3. tx.next = 1 /\ tx.sequence = 1 /\ tx.packet = << >> /\ tx.phase = "reading"
      /\ tx.messages_read = 0 /\ tx.messages_packed = 0 /\ tx.too_large = 0
      /\ tx.packets_built = 0 /\ tx.packets_sent = 0 /\ tx.failures = 0 /\ tx.drops = {}
  BY <1>1 DEF NewReplayer
<1>4. PackerInv(tx)
  <2>1. Carries(1, << >>) /\ Len(<< >>) = 0
    BY DEF Carries
  <2>2. BodySize(<< >>) <= MaxPayload /\ 0 < kEndOfSession /\ 1 \in 1 .. Len(Sizes) + 1
    BY BodySizeEmpty, RecordingAssumption, EndMarker, LenSizes
  <2> QED
    BY <1>3, <2>1, <2>2, FirstPlace DEF PackerInv
<1>5. SenderInv(tx)
  BY <1>3, FS_EmptySet DEF SenderInv
<1>6. DecInv(dec, sunk)
  <2>1. dec = NewDecoder /\ sunk = << >>
    BY DEF FeedInit
  <2>2. dec \in DecType
    <3>1. << >> \in Seq(GapType)
      OBVIOUS
    <3> QED
      BY <2>1, <3>1 DEF NewDecoder, DecType
  <2>3. SeqsOf(sunk) = {} /\ GapsOf(dec) = {} /\ RangeOf(dec) = {}
    BY <2>1 DEF SeqsOf, GapsOf, MissingIn, RangeOf, JoinedOf, NewDecoder
  <2>4. AccountInv(dec, sunk)
    <3>1. dec.gaps = << >> /\ dec.gaps_total = 0 /\ dec.messages = 0 /\ Len(<< >>) = 0
      BY <2>1 DEF NewDecoder
    <3>2. 0 <= kMaxGaps
      BY DecoderAssumption
    <3> QED
      BY <2>3, <3>1, <3>2, FS_EmptySet DEF AccountInv
  <2> QED
    BY <2>1, <2>2, <2>4 DEF DecInv, FreshOrJoined, OrderInv, NewDecoder
<1>7. Agree(dec, sunk, tx) /\ wire = {}
  BY DEF FeedInit, ReplayerInit, Agree, SeqsOf, NewDecoder
<1> QED
  BY <1>2, <1>4, <1>5, <1>6, <1>7 DEF FeedInv, TxInv

\* The inductive invariant of the feed.
LEMMA FeedInvariance == FeedSpec => []FeedInv
<1>1. FeedInit => FeedInv
  BY FeedStart
<1>2. FeedInv /\ [FeedNext]_feedVars => FeedInv'
  BY FeedStep
<1> QED
  BY <1>1, <1>2, PTL DEF FeedSpec

-----------------------------------------------------------------------------
(***************************************************************************)
(* What the runs check, for every value of the constants.                  *)
(***************************************************************************)

\* main.cc:323-325: the replayer's counts add up at any time, whatever was dropped on purpose
\* and whatever the socket refused.
THEOREM AddsUp == FeedSpec => []ReplayAddsUp
<1>1. FeedInv => ReplayAddsUp
  BY DEF FeedInv, TxInv, PackerInv, SenderInv, ReplayAddsUp
<1> QED
  BY <1>1, FeedInvariance, PTL

\* main.cc:231-236: no packet outgrows the payload or carries the count that ends the
\* session, and no message that fits an empty packet is refused.
THEOREM WellFormed == FeedSpec => []PacketsWellFormed
<1>1. FeedInv => PacketsWellFormed
  <2> SUFFICES ASSUME FeedInv PROVE PacketsWellFormed
    OBVIOUS
  <2>1. tx.phase # "refused"
    BY DEF FeedInv, TxInv, TxType
  <2>2. ASSUME NEW pkt \in wire
        PROVE  /\ BodySize(pkt.blocks) <= MaxPayload
               /\ pkt.count = kEndOfSession => pkt.blocks = << >>
               /\ pkt.count # kEndOfSession => pkt.count = Len(pkt.blocks) /\ pkt.count > 0
    <3>1. CASE OwnData(pkt, tx)
      <4>1. pkt.count \in Nat
        BY DEF FeedInv, Own, Datagram
      <4> QED
        BY <3>1, <4>1, EndMarker DEF OwnData
    <3>2. CASE OwnEnd(pkt, tx)
      BY <3>2, BodySizeEmpty, RecordingAssumption DEF OwnEnd
    <3> QED
      BY <3>1, <3>2 DEF FeedInv, Own
  <2> QED
    BY <2>1, <2>2 DEF PacketsWellFormed
<1> QED
  BY <1>1, FeedInvariance, PTL

\* decoder.cc: the sink gets every message once, in order and under its number, whatever the
\* network loses, duplicates and reorders.
THEOREM OnceInOrder == FeedSpec => []DeliveredOnceInOrder
<1>1. FeedInv => DeliveredOnceInOrder
  <2> SUFFICES ASSUME FeedInv PROVE DeliveredOnceInOrder
    OBVIOUS
  <2>1. OrderInv(dec, sunk)
    BY DEF FeedInv, DecInv
  <2>2. ASSUME NEW k \in DOMAIN sunk, NEW i \in DOMAIN sunk[k].blocks
        PROVE  sunk[k].blocks[i] = Packed[sunk[k].first + i - 1]
    <3>1. sunk[k].blocks[i] \in Sendable /\ Place(sunk[k].blocks[i]) = sunk[k].first + i - 1
      BY <2>1 DEF OrderInv, Carries
    <3> QED
      BY <3>1, PackedAtPlace
  <2> QED
    BY <2>1, <2>2 DEF OrderInv, DeliveredOnceInOrder
<1> QED
  BY <1>1, FeedInvariance, PTL

\* decoder.h:50-58: every number from where the decoder joined to where it stands was
\* delivered or lies in a gap, none in both, and the end of the session reveals the rest.
THEOREM NoLoss == FeedSpec => []NoSilentLoss
<1>1. FeedInv => NoSilentLoss
  <2> SUFFICES ASSUME FeedInv PROVE NoSilentLoss
    OBVIOUS
  <2>1. Delivered = SeqsOf(sunk) /\ Listed = GapsOf(dec) /\ Joined = JoinedOf(dec)
    BY DEF Delivered, Listed, Joined, SeqsOf, GapsOf, MissingIn, JoinedOf
  <2>2. AccountInv(dec, sunk) /\ Agree(dec, sunk, tx)
    BY DEF FeedInv, DecInv
  <2>3. Len(dec.gaps) \in Nat /\ dec.gaps_total \in Nat
    BY LenProperties DEF FeedInv, DecInv, DecType
  <2>4. EndRevealsHoles
    BY <2>2 DEF EndRevealsHoles, Agree
  <2>5. Delivered \cup Listed \subseteq Joined .. dec.expected - 1
        /\ (EveryGapListed => Joined .. dec.expected - 1 \subseteq Delivered \cup Listed)
    BY <2>1, <2>2 DEF AccountInv, RangeOf, EveryGapListed
  <2>6. Delivered \cap Listed = {} /\ Cardinality(Delivered) = dec.messages
        /\ dec.gaps_total >= Len(dec.gaps) /\ Len(dec.gaps) <= kMaxGaps
    BY <2>1, <2>2, <2>3 DEF AccountInv
  <2> QED
    BY <2>4, <2>5, <2>6 DEF NoSilentLoss
<1> QED
  BY <1>1, FeedInvariance, PTL

\* main.cc:191-192: a packet dropped on purpose leaves the gap that a loss would.
THEOREM LooksLikeLoss == FeedSpec => []DropsLookLikeLoss
<1>1. FeedInv => DropsLookLikeLoss
  <2> SUFFICES ASSUME FeedInv, EveryGapListed,
                      NEW n \in (Dropped \cap (Joined .. dec.expected - 1)) \ Retransmitted
               PROVE  n \in Listed
    BY DEF DropsLookLikeLoss
  <2>1. AccountInv(dec, sunk) /\ Agree(dec, sunk, tx) /\ TxInv(tx)
    BY DEF FeedInv, DecInv
  <2>2. n \in SeqsOf(sunk) \cup GapsOf(dec)
    BY <2>1 DEF AccountInv, RangeOf, JoinedOf, Joined, EveryGapListed
  <2>3. n \notin SeqsOf(sunk)
    <3> SUFFICES ASSUME n \in SeqsOf(sunk) PROVE FALSE
      OBVIOUS
    <3>1. ~Retransmits(n)
      BY DEF Retransmits, Retransmitted
    <3>2. PICK d \in tx.drops : n \in d.first .. d.first + d.count - 1
      BY DEF Dropped
    <3>3. d.first \in Nat /\ d.count \in Nat
      BY <2>1 DEF TxInv, TxType, GapType
    <3>4. n < d.first \/ d.first + d.count <= n
      BY <2>1, <3>1 DEF Agree
    <3> QED
      BY <3>2, <3>3, <3>4
  <2> QED
    BY <2>2, <2>3 DEF Listed, GapsOf, MissingIn
<1> QED
  BY <1>1, FeedInvariance, PTL

\* The decoder implements an in-order feed: each of its steps is one that joins, that skips
\* and receives, or that a subscriber does not see.
THEOREM Promised == FeedSpec => ImplementsPromise
<1>1. FeedInit => Promise!Init
  BY DEF FeedInit, NewDecoder, Promise!Init
<1>2. FeedInv /\ [FeedNext]_feedVars => [Promise!Next]_(Promise!vars)
  <2> SUFFICES ASSUME FeedInv, [FeedNext]_feedVars PROVE [Promise!Next]_(Promise!vars)
    OBVIOUS
  <2>1. Follows(dec, dec') /\ dec \in DecType /\ dec' \in DecType
        /\ FreshOrJoined(dec, sunk)
    BY FeedStep DEF FeedInv, DecInv
  <2>2. dec.messages \in Nat /\ dec.gap_messages \in Nat /\ dec.expected \in Nat
        /\ dec'.messages \in Nat /\ dec'.gap_messages \in Nat /\ dec'.expected \in Nat
        /\ dec.started \in BOOLEAN /\ dec'.started \in BOOLEAN
    BY <2>1 DEF DecType
  <2>3. CASE /\ dec'.started = dec.started /\ dec'.expected = dec.expected
             /\ dec'.messages = dec.messages /\ dec'.gap_messages = dec.gap_messages
    BY <2>3 DEF Promise!vars
  <2>4. CASE /\ dec.started /\ dec'.started
             /\ dec'.messages >= dec.messages /\ dec'.gap_messages >= dec.gap_messages
             /\ dec'.expected = dec.expected + (dec'.gap_messages - dec.gap_messages)
                                + (dec'.messages - dec.messages)
    <3>1. Promise!Advance(dec'.gap_messages - dec.gap_messages, dec'.messages - dec.messages)
      BY <2>2, <2>4 DEF Promise!Advance
    <3>2. dec'.gap_messages - dec.gap_messages >= 0 /\ dec'.messages - dec.messages >= 0
      BY <2>2, <2>4
    <3> QED
      BY <3>1, <3>2 DEF Promise!Next
  <2>5. CASE /\ ~dec.started /\ dec'.started
             /\ dec'.messages >= dec.messages /\ dec'.gap_messages = dec.gap_messages
    <3>1. dec.messages = 0
      BY <2>1, <2>5 DEF FreshOrJoined
    <3>2. Promise!Join(dec'.expected - (dec'.messages - dec.messages),
                       dec'.messages - dec.messages)
      BY <2>2, <2>5, <3>1 DEF Promise!Join
    <3>3. dec'.gap_messages - dec.gap_messages >= 0 /\ dec'.messages - dec.messages >= 0
      BY <2>2, <2>5
    <3> QED
      BY <3>2, <3>3 DEF Promise!Next
  <2> QED
    BY <2>1, <2>3, <2>4, <2>5 DEF Follows
<1> QED
  BY <1>1, <1>2, FeedInvariance, PTL DEF FeedSpec, ImplementsPromise, Promise!Spec

\* recvfrom_receiver.cc: once stop() was called, at most the datagram that the receiver was
\* waiting for is handed on.
THEOREM Prompt == FeedSpec => []StopsPromptly
<1>1. FeedInit => StopInv
  BY DEF FeedInit, StopInv
<1>2. StopInv /\ [FeedNext]_feedVars => StopInv'
  <2> SUFFICES ASSUME StopInv, [FeedNext]_feedVars PROVE StopInv'
    OBVIOUS
  <2> USE DEF StopInv
  <2>1. CASE UNCHANGED <<rx, late>>
    BY <2>1
  <2>2. ASSUME NEW pkt, Take(pkt) PROVE StopInv'
    BY <2>2 DEF Take
  <2>3. CASE CheckStop
    BY <2>3 DEF CheckStop
  <2>4. CASE Interrupted
    BY <2>4 DEF Interrupted
  <2>5. CASE Stop
    BY <2>5 DEF Stop
  <2> QED
    BY <2>1, <2>2, <2>3, <2>4, <2>5
    DEF FeedNext, Replay, Lose, Receive, ReceiveExtra, feedVars
<1>3. StopInv => StopsPromptly
  BY DEF StopInv, StopsPromptly
<1> QED
  BY <1>1, <1>2, <1>3, PTL DEF FeedSpec

=============================================================================
