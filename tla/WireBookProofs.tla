--------------------------- MODULE WireBookProofs ---------------------------
(***************************************************************************)
(* The books at the end of the wire, for every recording, payload size and *)
(* network: a fold of the packets delivered is the fold of a stretch of    *)
(* the file (FoldsAdd, FoldOfStretch), and the invariant of MoldFeed says  *)
(* which stretch a packet delivered is.                                    *)
(***************************************************************************)
EXTENDS WireBook, MoldFeedProofs

-----------------------------------------------------------------------------
(***************************************************************************)
(* Folds.                                                                  *)
(***************************************************************************)
\* What the fold of the first n blocks comes to, for each n.
Runs(u, r, b, n) ==
  u = [k \in 0 .. n |-> IF k = 0 THEN r ELSE ReplayMessage(u[k - 1], File[b[k]])]

\* There is a run over any blocks: otherwise take the shortest prefix with none.
LEMMA RunsExist ==
  ASSUME NEW r, NEW b, NEW m \in Nat
  PROVE  \E u : Runs(u, r, b, m)
<1> DEFINE Bad == {n \in 0 .. m : ~\E u : Runs(u, r, b, n)}
<1>1. SUFFICES ASSUME Bad # {} PROVE FALSE
  OBVIOUS
<1>2. PICK n \in Bad : \A k \in Bad : n <= k
  <2>1. Bad \in SUBSET Nat
    OBVIOUS
  <2> HIDE DEF Bad
  <2> QED
    BY <1>1, <2>1, LeastNat
<1>3. n # 0
  <2> DEFINE u == [k \in 0 .. 0 |-> r]
  <2>1. Runs(u, r, b, 0)
    BY DEF Runs
  <2> HIDE DEF u
  <2> QED
    BY <2>1
<1>4. n \in 1 .. m /\ n - 1 \in 0 .. m /\ n - 1 \notin Bad
  <2>1. n \in 1 .. m
    BY <1>3
  <2>2. ~(n <= n - 1)
    BY <2>1
  <2>3. n - 1 \notin Bad
    <3> HIDE DEF Bad
    <3> QED
      BY <1>2, <2>2
  <2> QED
    BY <2>1, <2>3
<1>5. PICK h : Runs(h, r, b, n - 1)
  BY <1>4
<1> DEFINE u == [k \in 0 .. n |-> IF k = n THEN ReplayMessage(h[n - 1], File[b[n]]) ELSE h[k]]
<1>6. \A k \in 0 .. n - 1 : h[k] = IF k = 0 THEN r ELSE ReplayMessage(h[k - 1], File[b[k]])
  BY <1>5 DEF Runs
<1>7. ASSUME NEW k \in 0 .. n
      PROVE  u[k] = IF k = 0 THEN r ELSE ReplayMessage(u[k - 1], File[b[k]])
  <2>1. CASE k = n
    BY <1>3, <1>4, <2>1
  <2>2. CASE k # n
    BY <1>4, <1>6, <2>2
  <2> QED
    BY <2>1, <2>2
<1>8. Runs(u, r, b, n)
  BY <1>7 DEF Runs
<1> HIDE DEF u
<1> QED
  BY <1>2, <1>8

\* There is no other.
LEMMA RunsUnique ==
  ASSUME NEW r, NEW b, NEW m \in Nat, NEW u, NEW v, Runs(u, r, b, m), Runs(v, r, b, m)
  PROVE  u[m] = v[m]
<1> DEFINE Bad == {k \in 0 .. m : u[k] # v[k]}
<1>1. SUFFICES ASSUME Bad # {} PROVE FALSE
  OBVIOUS
<1>2. PICK k \in Bad : \A j \in Bad : k <= j
  <2>1. Bad \in SUBSET Nat
    OBVIOUS
  <2> HIDE DEF Bad
  <2> QED
    BY <1>1, <2>1, LeastNat
<1>3. /\ u[k] = IF k = 0 THEN r ELSE ReplayMessage(u[k - 1], File[b[k]])
      /\ v[k] = IF k = 0 THEN r ELSE ReplayMessage(v[k - 1], File[b[k]])
  BY DEF Runs
<1>4. CASE k = 0
  BY <1>3, <1>4
<1>5. CASE k # 0
  <2>1. k - 1 \in 0 .. m /\ k - 1 \notin Bad
    BY <1>2, <1>5
  <2> QED
    BY <1>3, <1>5, <2>1
<1> QED
  BY <1>4, <1>5

\* A fold is what its run comes to.
LEMMA FoldIs ==
  ASSUME NEW r, NEW b, Len(b) \in Nat, NEW u, Runs(u, r, b, Len(b))
  PROVE  FoldBlocks(r, b) = u[Len(b)]
<1> DEFINE s == CHOOSE v : Runs(v, r, b, Len(b))
<1>1. Runs(s, r, b, Len(b))
  BY RunsExist
<1>2. FoldBlocks(r, b) = s[Len(b)]
  BY DEF FoldBlocks, Runs
<1> HIDE DEF s
<1> QED
  BY <1>1, <1>2, RunsUnique

\* Folding one after the other is folding both together.
LEMMA FoldsAdd ==
  ASSUME NEW r, NEW a, NEW b, NEW c, Len(a) \in Nat, Len(b) \in Nat, Len(c) = Len(a) + Len(b),
         \A i \in 1 .. Len(a) : c[i] = a[i], \A i \in 1 .. Len(b) : c[Len(a) + i] = b[i]
  PROVE  FoldBlocks(FoldBlocks(r, a), b) = FoldBlocks(r, c)
<1> DEFINE la == Len(a)
           lb == Len(b)
<1>1. PICK u : Runs(u, r, a, la)
  BY RunsExist
<1>2. PICK v : Runs(v, u[la], b, lb)
  BY RunsExist
<1> DEFINE w == [k \in 0 .. la + lb |-> IF k <= la THEN u[k] ELSE v[k - la]]
<1>3. la \in Nat /\ lb \in Nat /\ Len(c) = la + lb
  OBVIOUS
<1>4. \A k \in 0 .. la : u[k] = IF k = 0 THEN r ELSE ReplayMessage(u[k - 1], File[a[k]])
  BY <1>1 DEF Runs
<1>5. \A k \in 0 .. lb : v[k] = IF k = 0 THEN u[la] ELSE ReplayMessage(v[k - 1], File[b[k]])
  BY <1>2 DEF Runs
<1>6. (\A i \in 1 .. la : c[i] = a[i]) /\ \A i \in 1 .. lb : c[la + i] = b[i]
  OBVIOUS
<1> HIDE DEF la, lb
<1>7. ASSUME NEW k \in 0 .. la + lb
      PROVE  w[k] = IF k = 0 THEN r ELSE ReplayMessage(w[k - 1], File[c[k]])
  <2>1. CASE k <= la
    <3>1. k \in 0 .. la /\ w[k] = u[k] /\ (k # 0 => w[k - 1] = u[k - 1] /\ c[k] = a[k])
      BY <1>3, <1>6, <2>1
    <3> HIDE DEF w
    <3> QED
      BY <1>4, <3>1
  <2>2. CASE k > la
    <3> DEFINE i == k - la
    <3>1. i \in 1 .. lb /\ i \in 0 .. lb /\ k = la + i /\ k # 0 /\ i # 0
      BY <1>3, <2>2
    <3>2. w[k] = v[i]
      <4>1. ~(k <= la)
        BY <1>3, <2>2
      <4> QED
        BY <4>1
    <3>3. c[k] = b[i]
      <4> HIDE DEF i
      <4> QED
        BY <1>6, <3>1
    <3>4. v[i] = ReplayMessage(v[i - 1], File[b[i]])
      BY <1>5, <3>1
    <3>5. w[k - 1] = v[i - 1]
      <4>1. CASE i = 1
        <5>1. k - 1 = la /\ k - 1 \in 0 .. la + lb /\ i - 1 = 0 /\ 0 \in 0 .. lb
          BY <1>3, <3>1, <4>1
        <5>2. w[k - 1] = u[la]
          BY <1>3, <5>1
        <5> HIDE DEF w, i
        <5> QED
          BY <1>5, <5>1, <5>2
      <4>2. CASE i # 1
        <5>1. k - 1 \in 0 .. la + lb /\ ~(k - 1 <= la) /\ (k - 1) - la = i - 1
          BY <1>3, <3>1, <4>2
        <5> QED
          BY <5>1
      <4> QED
        BY <4>1, <4>2
    <3> HIDE DEF w, i
    <3> QED
      BY <3>1, <3>2, <3>3, <3>4, <3>5
  <2> QED
    BY <1>3, <2>1, <2>2
<1>8. Runs(w, r, c, la + lb)
  BY <1>7 DEF Runs
<1>9. w[la + lb] = v[lb]
  <2>1. CASE lb = 0
    <3>1. la + lb = la /\ la \in 0 .. la + lb /\ la <= la
      BY <1>3, <2>1
    <3>2. w[la + lb] = u[la]
      BY <3>1
    <3> HIDE DEF w
    <3> QED
      BY <1>3, <1>5, <2>1, <3>2
  <2>2. CASE lb # 0
    BY <1>3, <2>2
  <2> QED
    BY <2>1, <2>2
<1> HIDE DEF w
<1>10. FoldBlocks(r, a) = u[la]
  BY <1>1, FoldIs DEF la
<1>11. FoldBlocks(u[la], b) = v[lb]
  BY <1>2, FoldIs DEF lb
<1>12. FoldBlocks(r, c) = w[la + lb]
  BY <1>3, <1>8, FoldIs
<1> QED
  BY <1>9, <1>10, <1>11, <1>12

\* The run of the fold of a stretch of the stream.
StretchRuns(v, r, first, last) ==
  v = [n \in first - 1 .. last |->
         IF n < first THEN r ELSE ReplayMessage(v[n - 1], Stream[n])]

\* The fold of a stretch of the stream is that of its messages' places in the file.
LEMMA FoldOfStretch ==
  ASSUME NEW r, NEW b, Len(b) \in Nat, NEW first \in Nat, NEW last \in Int,
         last = first + Len(b) - 1, \A i \in 1 .. Len(b) : Stream[first + i - 1] = File[b[i]]
  PROVE  BooksOfLossyFile!Fold(r, first, last) = FoldBlocks(r, b)
<1> DEFINE l == Len(b)
<1>1. l \in Nat /\ last = first + l - 1 /\ \A i \in 1 .. l : Stream[first + i - 1] = File[b[i]]
  OBVIOUS
<1> HIDE DEF l
<1>2. PICK u : Runs(u, r, b, l)
  BY <1>1, RunsExist
<1>3. \A k \in 0 .. l : u[k] = IF k = 0 THEN r ELSE ReplayMessage(u[k - 1], File[b[k]])
  BY <1>2 DEF Runs
<1> DEFINE v == [n \in first - 1 .. last |-> u[n - first + 1]]
<1>4. ASSUME NEW n \in first - 1 .. last
      PROVE  v[n] = IF n < first THEN r ELSE ReplayMessage(v[n - 1], Stream[n])
  <2> DEFINE k == n - first + 1
  <2>1. k \in 0 .. l /\ v[n] = u[k] /\ (n < first <=> k = 0) /\ n = first + k - 1
    BY SMTT(30), <1>1
  <2>2. CASE k = 0
    BY <1>3, <2>1, <2>2
  <2>3. CASE k # 0
    <3>1. k \in 1 .. l /\ n - 1 \in first - 1 .. last /\ (n - 1) - first + 1 = k - 1
      BY <1>1, <2>1, <2>3
    <3>2. v[n - 1] = u[k - 1]
      BY <3>1
    <3> HIDE DEF v, k
    <3>3. Stream[n] = File[b[k]]
      BY <1>1, <2>1, <3>1
    <3> QED
      BY <1>3, <2>1, <2>3, <3>2, <3>3
  <2> QED
    BY <2>2, <2>3
<1>5. StretchRuns(v, r, first, last)
  BY <1>4 DEF StretchRuns
<1> HIDE DEF v
<1> DEFINE s == CHOOSE x : StretchRuns(x, r, first, last)
<1>6. StretchRuns(s, r, first, last)
  BY <1>5
<1>7. BooksOfLossyFile!Fold(r, first, last) = s[last]
  BY DEF BooksOfLossyFile!Fold, StretchRuns
<1> HIDE DEF s
<1>8. \A n \in first - 1 .. last :
        s[n] = IF n < first THEN r ELSE ReplayMessage(s[n - 1], Stream[n])
  BY <1>6 DEF StretchRuns
<1> DEFINE w == [k \in 0 .. l |-> s[first + k - 1]]
<1>9. ASSUME NEW k \in 0 .. l
      PROVE  w[k] = IF k = 0 THEN r ELSE ReplayMessage(w[k - 1], File[b[k]])
  <2> DEFINE n == first + k - 1
  <2>1. n \in first - 1 .. last /\ w[k] = s[n] /\ (n < first <=> k = 0)
    BY <1>1
  <2>2. CASE k = 0
    BY <1>8, <2>1, <2>2
  <2>3. CASE k # 0
    <3>1. k \in 1 .. l /\ k - 1 \in 0 .. l /\ first + (k - 1) - 1 = n - 1
      BY <1>1, <2>1, <2>3
    <3>2. w[k - 1] = s[n - 1]
      BY <3>1
    <3>3. Stream[n] = File[b[k]]
      BY <1>1, <3>1
    <3> HIDE DEF w, n
    <3> QED
      BY <1>8, <2>1, <2>3, <3>2, <3>3
  <2> QED
    BY <2>2, <2>3
<1>10. Runs(w, r, b, l)
  BY <1>9 DEF Runs
<1>11. w[l] = s[last]
  <2>1. l \in 0 .. l /\ first + l - 1 = last
    BY <1>1
  <2> QED
    BY <2>1
<1> HIDE DEF w
<1>12. FoldBlocks(r, b) = w[l]
  BY <1>1, <1>10, FoldIs DEF l
<1> QED
  BY <1>7, <1>11, <1>12

\* Folding nothing changes nothing.
LEMMA FoldNothing ==
  ASSUME NEW r, NEW b, Len(b) = 0
  PROVE  FoldBlocks(r, b) = r
<1>1. PICK u : Runs(u, r, b, 0)
  BY RunsExist
<1>2. FoldBlocks(r, b) = u[0] /\ u[0] = r
  BY <1>1, FoldIs DEF Runs
<1> QED
  BY <1>2

-----------------------------------------------------------------------------
(***************************************************************************)
(* What a datagram does to the sink.                                       *)
(***************************************************************************)
\* The sink is handed messages of the stream, from the first one on.
Handed(d, f, first, blocks) ==
  /\ first \in Nat \ {0} /\ blocks \in Seq(Nat) /\ blocks # << >> /\ Carries(first, blocks)
  /\ d.started => d.expected <= first
  /\ f.started /\ f.expected = first + Len(blocks) /\ f.messages = d.messages + Len(blocks)

\* It is not; but the packet may be the one that the decoder joins at.
Unhanded(d, f, pkt) ==
  /\ f.messages = d.messages
  /\ ~d.started /\ f.started => f.expected >= pkt.sequence

\* A packet's place in the stream.
LEMMA CarriedAt ==
  ASSUME NEW first \in Nat, NEW blocks \in Seq(Nat), Carries(first, blocks)
  PROVE  \A i \in 1 .. Len(blocks) :
           /\ first + i - 1 \in 1 .. Len(Packed) /\ Packed[first + i - 1] = blocks[i]
           /\ Stream[first + i - 1] = File[blocks[i]]
<1>1. Cardinality(Sendable) \in Nat /\ Len(Packed) = Cardinality(Sendable)
  <2>1. Cardinality(Sendable) \in Nat
    BY SendableFinite, FS_CardinalityType
  <2> QED
    BY <2>1 DEF Packed
<1> SUFFICES ASSUME NEW i \in 1 .. Len(blocks)
             PROVE  /\ first + i - 1 \in 1 .. Len(Packed) /\ Packed[first + i - 1] = blocks[i]
                    /\ Stream[first + i - 1] = File[blocks[i]]
  OBVIOUS
<1>2. blocks[i] \in Sendable /\ Place(blocks[i]) = first + i - 1
  BY DEF Carries
<1>3. first + i - 1 \in 1 .. Len(Packed) /\ Packed[first + i - 1] = blocks[i]
  BY <1>1, <1>2, PackedAtPlace
<1> QED
  BY <1>3 DEF Stream

\* A packet is delivered whole, or leaves the messages delivered as they were.
LEMMA PacketHands ==
  ASSUME NEW d, NEW s, NEW t, TxInv(t), DecInv(d, s),
         NEW pkt, pkt \in Strays \/ Own(pkt, t), NEW r, r = OnPacket(d, pkt)
  PROVE  \/ r.delivered = << >> /\ Unhanded(d, r.decoder, pkt)
         \/ /\ ~pkt.short /\ Valid(pkt) /\ r.delivered = pkt.blocks
            /\ Handed(d, r.decoder, pkt.sequence, pkt.blocks)
<1> DEFINE e == EnterSession(d, pkt)
<1>0. d \in DecType
  BY DEF DecInv
<1>1. CASE pkt.short
  <2>1. r.delivered = << >> /\ r.decoder = [d EXCEPT !.malformed = @ + 1]
    BY <1>1 DEF OnPacket, Ignore
  <2> QED
    BY <1>0, <2>1 DEF DecType, Unhanded
<1>2. CASE ~pkt.short
  <2>1. Heard(pkt)
    BY <1>2, StraysAreHeard
  <2>2. DecInv(e, s) /\ Entered(d, e, pkt)
    BY <2>1, EnterInv
  <2>3. r = CASE pkt.count = kEndOfSession -> Ignore(EndOfSession(e, pkt))
              [] pkt.count = kHeartbeat    -> Ignore([e EXCEPT !.heartbeats = @ + 1])
              [] OTHER ->
            IF Stale(e, pkt)               THEN Ignore([e EXCEPT !.duplicates = @ + 1])
            ELSE IF ~Valid(pkt)            THEN Ignore([e EXCEPT !.malformed = @ + 1])
            ELSE Deliver(e, pkt)
    BY <1>2 DEF OnPacket
  <2>4. e.started /\ e \in DecType /\ e.expected \in Nat /\ e.messages = d.messages
        /\ (~d.started => e.expected = pkt.sequence) /\ (d.started => e = d)
        /\ pkt.sequence \in Nat
    BY <2>1, <2>2 DEF Entered, DecInv, DecType, Heard
  <2> HIDE DEF e
  <2>5. CASE pkt.count = kEndOfSession
    <3> DEFINE f == EndOfSession(e, pkt)
    <3>1. r.decoder = f /\ r.delivered = << >>
      <4>1. pkt.count # kHeartbeat
        BY <2>5, EndMarker DEF kHeartbeat
      <4> QED
        BY <2>3, <2>5, <4>1 DEF Ignore
    <3>2. f.started /\ f.messages = e.messages /\ f.expected >= pkt.sequence
      BY <2>2, <2>4, EndInv
    <3> QED
      BY <2>4, <3>1, <3>2 DEF Unhanded
  <2>6. CASE pkt.count # kEndOfSession
             /\ (pkt.count = kHeartbeat \/ Stale(e, pkt) \/ ~Valid(pkt))
    <3> DEFINE f == r.decoder
    <3>1. r.delivered = << >>
          /\ (\/ f = [e EXCEPT !.malformed = @ + 1]
              \/ f = [e EXCEPT !.heartbeats = @ + 1]
              \/ f = [e EXCEPT !.duplicates = @ + 1])
      BY <2>3, <2>6 DEF Ignore
    <3> HIDE DEF f
    <3>2. f.messages = e.messages /\ f.expected = e.expected
      BY <2>4, <3>1 DEF DecType
    <3> QED
      BY <2>4, <3>1, <3>2 DEF Unhanded, f
  <2>7. CASE pkt.count # kEndOfSession /\ pkt.count # kHeartbeat /\ ~Stale(e, pkt) /\ Valid(pkt)
    <3> DEFINE f == Deliver(e, pkt).decoder
               w == Append(s, [first |-> pkt.sequence, blocks |-> pkt.blocks])
               q == pkt.sequence
               k == pkt.count
    <3>1. q \in Nat /\ k \in Nat /\ pkt.blocks \in Seq(Nat) /\ k > 0
          /\ Len(pkt.blocks) = k /\ Carries(q, pkt.blocks)
      BY <2>1, <2>7 DEF Heard, Valid, kHeartbeat
    <3>2. pkt.blocks # << >>
      BY <3>1
    <3>3. q + k < kSequences
      <4>1. q + k <= Len(Sizes) + 1
        BY <3>1, <3>2, CarriedBound
      <4> QED
        BY <3>1, <4>1, LenSizes, RecordingAssumption, EndMarker
    <3>4. r.decoder = f /\ r.delivered = pkt.blocks
      BY <2>3, <2>7 DEF Deliver
    <3>5. q # 0
      BY <3>1, CarriedAt
    <3>6. f.expected = q + k /\ e.expected <= q /\ f.messages = e.messages + k /\ f.started
      <4>1. ~Stale(e, pkt) /\ Valid(pkt) /\ e.started /\ pkt.count # kEndOfSession
        BY <2>4, <2>7
      <4> HIDE DEF f, w
      <4>2. f = Deliver(e, pkt).decoder
            /\ w = Append(s, [first |-> pkt.sequence, blocks |-> pkt.blocks])
        BY DEF f, w
      <4>3. IsDelivered(e, s, pkt, f, w)
        BY <2>1, <2>2, <3>1, <3>3, <4>1, <4>2, DeliverInv
      <4> QED
        BY <4>3 DEF IsDelivered
    <3> HIDE DEF f, w
    <3> QED
      BY <1>2, <2>4, <2>7, <3>1, <3>2, <3>4, <3>5, <3>6 DEF Handed
  <2> QED
    BY <2>5, <2>6, <2>7
<1> QED
  BY <1>1, <1>2

\* recvfrom returned a datagram that the decoder delivered, and the sink folded it.
Folds(first, blocks) ==
  /\ Handed(dec, dec', first, blocks)
  /\ wired' = FoldBlocks(wired, blocks)

\* Nothing reached the sink; and where the decoder joins, if it does, some packet says.
Waits ==
  /\ wired' = wired /\ dec'.messages = dec.messages
  /\ ~dec.started /\ dec'.started =>
       \E pkt \in wire \cup Strays : ~pkt.short /\ dec'.expected >= pkt.sequence

\* The sink folds what it was handed, and nothing else.
SinkStep ==
  wired' = IF Len(sunk') = Len(sunk) THEN wired ELSE Sink(wired, sunk'[Len(sunk')].blocks)

\* A packet taken is folded whole, at the number it carries, or nothing is.
LEMMA TakeFolds ==
  ASSUME FeedInv, NEW pkt \in wire \cup Strays, Take(pkt), SinkStep
  PROVE  Waits \/ \E first \in Nat, blocks \in Seq(Nat) : Folds(first, blocks)
<1> DEFINE r == OnPacket(dec, pkt)
<1>1. TxInv(tx) /\ DecInv(dec, sunk) /\ (pkt \in Strays \/ Own(pkt, tx))
  BY DEF FeedInv
<1>2. sunk \in Seq(SunkType) /\ Len(sunk) \in Nat
  BY <1>1 DEF DecInv
<1>3. CASE ~(DatagramSize(pkt) <= kBufferSize)
  <2>1. dec' = dec /\ sunk' = sunk
    BY <1>3 DEF Take
  <2> QED
    BY <2>1 DEF SinkStep, Waits
<1>4. CASE DatagramSize(pkt) <= kBufferSize
  <2>1. dec' = r.decoder /\ sunk' = Sunk(sunk, pkt, r.delivered)
    BY <1>4 DEF Take, Sunk
  <2>2. \/ r.delivered = << >> /\ Unhanded(dec, r.decoder, pkt)
        \/ /\ ~pkt.short /\ Valid(pkt) /\ r.delivered = pkt.blocks
           /\ Handed(dec, r.decoder, pkt.sequence, pkt.blocks)
    BY <1>1, PacketHands
  <2>3. pkt.short => r.delivered = << >> /\ r.decoder.started = dec.started
    <3>1. dec \in DecType
      BY <1>1 DEF DecInv
    <3> QED
      BY <3>1 DEF OnPacket, Ignore, DecType
  <2> HIDE DEF r
  <2>4. CASE r.delivered = << >> /\ Unhanded(dec, r.decoder, pkt)
    <3>1. sunk' = sunk
      BY <2>1, <2>4 DEF Sunk
    <3> QED
      BY <2>1, <2>3, <2>4, <3>1 DEF SinkStep, Waits, Unhanded
  <2>5. CASE /\ ~pkt.short /\ Valid(pkt) /\ r.delivered = pkt.blocks
             /\ Handed(dec, r.decoder, pkt.sequence, pkt.blocks)
    <3> DEFINE x == [first |-> pkt.sequence, blocks |-> pkt.blocks]
    <3>1. sunk' = Append(sunk, x) /\ x.blocks = pkt.blocks
      BY <2>1, <2>5 DEF Sunk, Handed
    <3> HIDE DEF x
    <3>2. Len(sunk') = Len(sunk) + 1 /\ sunk'[Len(sunk')] = x
      BY <1>2, <3>1
    <3>3. wired' = FoldBlocks(wired, pkt.blocks)
      BY <1>2, <3>1, <3>2 DEF SinkStep, Sink
    <3>4. Folds(pkt.sequence, pkt.blocks)
      BY <2>1, <2>5, <3>3 DEF Folds
    <3> QED
      BY <2>5, <3>4 DEF Handed
  <2> QED
    BY <2>2, <2>4, <2>5
<1> QED
  BY <1>3, <1>4

\* Every step of the wire waits, or folds a packet.
LEMMA WireStep ==
  ASSUME FeedInv, [WireNext]_wireVars
  PROVE  /\ FeedInv' /\ Follows(dec, dec')
         /\ \/ Waits
            \/ \E first \in Nat, blocks \in Seq(Nat) : Folds(first, blocks)
<1>1. FeedInv' /\ Follows(dec, dec')
  <2>1. [FeedNext]_feedVars
    BY DEF WireNext, wireVars, feedVars
  <2> QED
    BY <2>1, FeedStep
<1>2. CASE UNCHANGED <<dec, sunk, wired>>
  BY <1>1, <1>2 DEF Waits
<1>3. CASE UNCHANGED <<dec, sunk>> /\ SinkStep
  BY <1>1, <1>3 DEF Waits, SinkStep
<1>4. CASE SinkStep /\ \E pkt \in wire \cup Strays : Take(pkt)
  BY <1>1, <1>4, TakeFolds
<1>5. UNCHANGED <<dec, sunk, wired>> \/ (FeedNext /\ SinkStep)
  BY DEF WireNext, wireVars, SinkStep
<1>6. FeedNext => UNCHANGED <<dec, sunk>> \/ (\E pkt \in wire \cup Strays : Take(pkt))
  BY DEF FeedNext, Replay, Lose, Receive, ReceiveExtra, CheckStop, Interrupted, Stop
<1> QED
  BY <1>1, <1>2, <1>3, <1>4, <1>5, <1>6

-----------------------------------------------------------------------------
(***************************************************************************)
(* The books of the file.                                                  *)
(***************************************************************************)
\* While nothing is missing, the sink has folded the first messages of the stream.
FoldsPrefix ==
  dec.gap_messages = 0 /\ Joined = 1 =>
    /\ dec.messages <= Len(Packed)
    /\ wired = FoldBlocks(NewReplay, SubSeq(Packed, 1, dec.messages))

WireInv == FeedInv /\ FoldsPrefix

\* Places in the file, one for each sequence number.
Places == {Packed[s] : s \in DOMAIN Packed}

\* What the replayer packs is a finite sequence of the file's messages.
LEMMA PackedIsSeq ==
  Packed \in Seq(Places) /\ Len(Packed) = Cardinality(Sendable) /\ Len(Packed) \in Nat
<1> DEFINE n == Cardinality(Sendable)
<1>1. n \in Nat
  BY SendableFinite, FS_CardinalityType
<1>2. DOMAIN Packed = 1 .. n
  BY DEF Packed
<1>3. Packed = [s \in 1 .. n |-> Packed[s]] /\ \A s \in 1 .. n : Packed[s] \in Places
  BY <1>2 DEF Packed, Places
<1> HIDE DEF n, Places
<1>4. Packed \in [1 .. n -> Places]
  BY <1>3
<1>5. Packed \in Seq(Places) /\ Len(Packed) = n
  BY <1>1, <1>4
<1> QED
  BY <1>1, <1>5 DEF n

\* Once something is missing, it stays missing, and where the decoder joined does not move.
LEMMA NothingMissingBefore ==
  ASSUME FeedInv, FeedInv', Follows(dec, dec'), dec'.gap_messages = 0, Joined' = 1
  PROVE  dec.gap_messages = 0 /\ Joined = 1
<1>1. dec \in DecType /\ FreshOrJoined(dec, sunk) /\ dec' \in DecType
  BY DEF FeedInv, DecInv
<1>2. /\ dec.expected \in Nat /\ dec.messages \in Nat /\ dec.gap_messages \in Nat
      /\ dec'.expected \in Nat /\ dec'.messages \in Nat /\ dec'.gap_messages \in Nat
  BY <1>1 DEF DecType
<1>3. dec'.expected - dec'.messages - dec'.gap_messages = 1
  BY DEF Joined
<1>4. dec.gap_messages = 0 /\ dec.expected - dec.messages - dec.gap_messages = 1
  BY <1>1, <1>2, <1>3 DEF Follows, FreshOrJoined
<1> QED
  BY <1>4 DEF Joined

\* A packet that comes next makes the prefix longer.
LEMMA PrefixGrows ==
  ASSUME NEW m \in Nat, m <= Len(Packed), NEW blocks \in Seq(Nat), Carries(m + 1, blocks),
         blocks # << >>
  PROVE  /\ m + Len(blocks) <= Len(Packed)
         /\ FoldBlocks(FoldBlocks(NewReplay, SubSeq(Packed, 1, m)), blocks) =
              FoldBlocks(NewReplay, SubSeq(Packed, 1, m + Len(blocks)))
<1> DEFINE l == Len(blocks)
           a == SubSeq(Packed, 1, m)
           c == SubSeq(Packed, 1, m + l)
<1>1. l \in Nat \ {0} /\ l \in 1 .. l
  OBVIOUS
<1>2. \A i \in 1 .. l : (m + 1) + i - 1 \in 1 .. Len(Packed) /\ Packed[(m + 1) + i - 1] = blocks[i]
  BY CarriedAt
<1> HIDE DEF l
<1>3. \A i \in 1 .. l : m + i \in 1 .. Len(Packed) /\ Packed[m + i] = blocks[i]
  <2> SUFFICES ASSUME NEW i \in 1 .. l
               PROVE  m + i \in 1 .. Len(Packed) /\ Packed[m + i] = blocks[i]
    OBVIOUS
  <2>1. (m + 1) + i - 1 = m + i
    OBVIOUS
  <2> QED
    BY <1>2, <2>1
<1>4. m + l <= Len(Packed)
  <2>1. m + l \in 1 .. Len(Packed)
    BY <1>1, <1>3
  <2> QED
    BY <2>1, PackedIsSeq
<1>5. Len(a) = m /\ \A i \in 1 .. m : a[i] = Packed[i]
  BY PackedIsSeq
<1>6. Len(c) = m + l /\ \A i \in 1 .. m + l : c[i] = Packed[i]
  BY <1>1, <1>4, PackedIsSeq
<1> HIDE DEF a, c
<1>7. \A i \in 1 .. m : c[i] = a[i]
  <2>1. \A i \in 1 .. m : i \in 1 .. m + l
    BY <1>1
  <2> QED
    BY <1>5, <1>6, <2>1
<1>8. \A i \in 1 .. l : c[m + i] = blocks[i]
  <2>1. \A i \in 1 .. l : m + i \in 1 .. m + l
    BY <1>1
  <2> QED
    BY <1>3, <1>6, <2>1
<1>9. FoldBlocks(FoldBlocks(NewReplay, a), blocks) = FoldBlocks(NewReplay, c)
  <2>1. Len(a) \in Nat /\ Len(blocks) \in Nat /\ Len(c) = Len(a) + Len(blocks)
    BY <1>1, <1>5, <1>6 DEF l
  <2>2. \A i \in 1 .. Len(a) : c[i] = a[i]
    BY <1>5, <1>7
  <2>3. \A i \in 1 .. Len(blocks) : c[Len(a) + i] = blocks[i]
    BY <1>5, <1>8 DEF l
  <2> QED
    BY <2>1, <2>2, <2>3, FoldsAdd
<1> QED
  BY <1>4, <1>9 DEF a, c, l

\* Joined at the first message and with no gap, the books are the fold of a prefix of what was
\* packed.
LEMMA PrefixStep ==
  ASSUME WireInv, [WireNext]_wireVars
  PROVE  WireInv'
<1>1. FeedInv /\ FeedInv' /\ Follows(dec, dec')
      /\ (Waits \/ \E first \in Nat, blocks \in Seq(Nat) : Folds(first, blocks))
  BY WireStep DEF WireInv
<1>2. SUFFICES ASSUME dec'.gap_messages = 0, Joined' = 1
               PROVE  /\ dec'.messages <= Len(Packed)
                      /\ wired' = FoldBlocks(NewReplay, SubSeq(Packed, 1, dec'.messages))
  <2>1. Packed' = Packed
    BY DEF Packed, Sendable, Place, TooLarge, Block
  <2> QED
    BY <1>1, <2>1 DEF WireInv, FoldsPrefix
<1>3. /\ dec.messages <= Len(Packed)
      /\ wired = FoldBlocks(NewReplay, SubSeq(Packed, 1, dec.messages))
  BY <1>1, <1>2, NothingMissingBefore DEF WireInv, FoldsPrefix
<1>4. CASE Waits
  BY <1>3, <1>4 DEF Waits
<1>5. ASSUME NEW first \in Nat, NEW blocks \in Seq(Nat), Folds(first, blocks)
      PROVE  /\ dec'.messages <= Len(Packed)
             /\ wired' = FoldBlocks(NewReplay, SubSeq(Packed, 1, dec'.messages))
  <2> DEFINE m == dec.messages
             l == Len(blocks)
  <2>1. m \in Nat /\ l \in Nat /\ dec'.expected \in Nat
    BY <1>1 DEF FeedInv, DecInv, DecType
  <2>2. dec'.messages = m + l /\ dec'.expected = first + l
        /\ Carries(first, blocks) /\ blocks # << >> /\ wired' = FoldBlocks(wired, blocks)
    BY <1>5 DEF Folds, Handed
  <2>3. dec'.expected - dec'.messages - dec'.gap_messages = 1
    BY <1>2 DEF Joined
  <2> HIDE DEF m, l
  <2>4. first = m + 1
    BY <1>2, <2>1, <2>2, <2>3
  <2>5. m + Len(blocks) <= Len(Packed)
        /\ FoldBlocks(FoldBlocks(NewReplay, SubSeq(Packed, 1, m)), blocks) =
             FoldBlocks(NewReplay, SubSeq(Packed, 1, m + Len(blocks)))
    <3>1. m <= Len(Packed)
      BY <1>3 DEF m
    <3> QED
      BY <2>1, <2>2, <2>4, <3>1, PrefixGrows
  <2> QED
    BY <1>3, <2>2, <2>5 DEF m, l
<1> QED
  BY <1>1, <1>4, <1>5

\* The invariant of the wire and its books.
LEMMA WireInvariance == WireSpec => []WireInv
<1>1. WireInit => WireInv
  <2> SUFFICES ASSUME WireInit PROVE WireInv
    OBVIOUS
  <2>1. FeedInv /\ dec.messages = 0 /\ wired = NewReplay
    BY FeedStart DEF WireInit, FeedInit, NewDecoder
  <2>2. Len(SubSeq(Packed, 1, 0)) = 0
    BY PackedIsSeq
  <2>3. wired = FoldBlocks(NewReplay, SubSeq(Packed, 1, 0))
    BY <2>1, <2>2, FoldNothing
  <2> QED
    BY <2>1, <2>3, PackedIsSeq DEF WireInv, FoldsPrefix
<1> QED
  BY <1>1, PrefixStep, PTL DEF WireSpec

\* No other sender has messages beyond the end of the session, which a limit on packets may
\* put before the end of the file.
NobodyGoesOn ==
  tx.phase = "done" => \A n \in Nat : Retransmits(n) => n < tx.sequence

\* At the end of the session the decoder has what the replayer packed: what was delivered is
\* everything up to the position, and the replayer or another sender sent it.
LEMMA AllAtTheEnd ==
  ASSUME FeedInv, NobodyGoesOn, dec.gap_messages = 0, Joined = 1, dec.eos
  PROVE  dec.messages = tx.messages_packed
<1> DEFINE m == dec.messages
<1>1. dec \in DecType /\ AccountInv(dec, sunk) /\ Agree(dec, sunk, tx) /\ TxInv(tx)
  BY DEF FeedInv, DecInv
<1>2. m \in Nat /\ dec.expected = m + 1 /\ RangeOf(dec) = 1 .. m
  BY <1>1 DEF DecType, Joined, RangeOf, JoinedOf
<1>3. tx.phase = "done" /\ m + 1 >= tx.sequence
  BY <1>1, <1>2 DEF Agree
<1>4. tx.sequence = 1 + tx.messages_packed /\ tx.messages_packed \in Nat
  <2>1. tx.packet = << >> /\ Len(<< >>) = 0 /\ tx.sequence \in Nat
    BY <1>1, <1>3 DEF TxInv, TxType, PackerInv
  <2> QED
    BY <1>1, <2>1 DEF TxInv, TxType, PackerInv
<1> HIDE DEF m
<1>5. ASSUME m > tx.messages_packed PROVE FALSE
  <2>1. SeqsOf(sunk) \subseteq 1 .. m /\ Cardinality(SeqsOf(sunk)) = m
    BY <1>1, <1>2 DEF AccountInv, m
  <2>2. SeqsOf(sunk) = 1 .. m
    <3>1. IsFiniteSet(1 .. m) /\ Cardinality(1 .. m) = m
      BY <1>2, FS_Interval
    <3> QED
      BY <2>1, <3>1, FS_Subset
  <2>3. m \in SeqsOf(sunk) /\ ~(m < tx.sequence)
    BY <1>2, <1>4, <1>5, <2>2
  <2>4. Retransmits(m)
    BY <1>1, <2>3 DEF Agree
  <2> QED
    BY <1>2, <1>3, <2>3, <2>4 DEF NobodyGoesOn
<1> QED
  BY <1>2, <1>3, <1>4, <1>5 DEF m

\* replay.h:51-54: as long as nothing is missing the books are those of the file, and at the
\* end of the session those of all of it, unless another sender goes on after the replayer's
\* last packet.
THEOREM FilesBooks == WireSpec /\ []NobodyGoesOn => []WireBookIsFileBook
<1>1. WireInv /\ NobodyGoesOn => WireBookIsFileBook
  <2> SUFFICES ASSUME WireInv, NobodyGoesOn, dec.gap_messages = 0, Joined = 1
               PROVE  /\ wired = FoldBlocks(NewReplay, SubSeq(Packed, 1, dec.messages))
                      /\ dec.eos => dec.messages = tx.messages_packed
    BY DEF WireBookIsFileBook
  <2> QED
    BY AllAtTheEnd DEF WireInv, FoldsPrefix
<1> QED
  BY <1>1, WireInvariance, PTL

\* Without a limit, the session ends where the file does.
EndsAtTheEnd ==
  /\ tx.max_packets = 0
  /\ tx.phase # "reading" => tx.next > Len(Sizes)

\* Flushing a packet reads nothing.
LEMMA FinishedReads ==
  ASSUME NEW t \in TxType, NEW outcome \in Outcomes, NEW u, u = Finished(t, outcome)
  PROVE  /\ u \in TxType /\ u.max_packets = t.max_packets /\ u.next = t.next /\ u.phase = t.phase
<1>1. CASE t.packet = << >>
  <2>1. u = t
    BY <1>1 DEF Finished
  <2> QED
    BY <2>1
<1>2. CASE t.packet # << >>
  <2>1. IsFinished(t, outcome, u)
    BY <1>2, FinishedFields
  <2> QED
    BY <2>1 DEF IsFinished
<1> QED
  BY <1>1, <1>2

\* A replayer with no packet limit packs up to the end of the file.
LEMMA LimitStep ==
  ASSUME FeedInv, EndsAtTheEnd, Replay
  PROVE  EndsAtTheEnd'
<1>1. tx \in TxType /\ tx' \in TxType
  <2>1. FeedInv'
    BY ReplayKeeps
  <2> QED
    BY <2>1 DEF FeedInv, TxInv
<1>2. CASE Skip \/ PackNext
  BY <1>1, <1>2 DEF Skip, PackNext, Reading, Consumed, Pack, TxType, EndsAtTheEnd
<1>3. CASE EndOfFile
  BY <1>1, <1>3 DEF EndOfFile, TxType, EndsAtTheEnd
<1>4. ASSUME NEW outcome \in Outcomes, FlushAndPack(outcome) PROVE EndsAtTheEnd'
  <2> DEFINE t == Finished(tx, outcome)
  <2>1. t \in TxType /\ t.max_packets = 0 /\ t.phase = "reading"
    BY <1>1, <1>4, FinishedReads DEF EndsAtTheEnd, FlushAndPack, Reading
  <2>2. tx' = IF Fits(t, tx.next)
              THEN Pack([t EXCEPT !.next = @ + 1, !.messages_read = @ + 1], tx.next)
              ELSE [t EXCEPT !.messages_read = @ + 1, !.phase = "refused"]
    BY <1>4, <2>1 DEF FlushAndPack
  <2> HIDE DEF t
  <2>3. tx'.phase # "refused"
    BY <1>1 DEF TxType
  <2>4. tx' = Pack([t EXCEPT !.next = @ + 1, !.messages_read = @ + 1], tx.next)
    BY <2>1, <2>2, <2>3 DEF TxType
  <2> QED
    BY <2>1, <2>4 DEF Pack, TxType, EndsAtTheEnd
<1>5. ASSUME NEW outcome \in Outcomes, FlushLast(outcome) PROVE EndsAtTheEnd'
  <2>1. tx'.max_packets = tx.max_packets /\ tx'.next = tx.next /\ tx'.phase = tx.phase
    BY <1>1, <1>5, FinishedReads DEF FlushLast
  <2> QED
    BY <2>1 DEF EndsAtTheEnd
<1>6. ASSUME NEW outcome \in {"sent", "failed"}, SendEnd(outcome) PROVE EndsAtTheEnd'
  BY <1>1, <1>6 DEF SendEnd, Counted, TxType, EndsAtTheEnd
<1> QED
  BY <1>2, <1>3, <1>4, <1>5, <1>6 DEF Replay, ReplayerNext

\* With no packet limit a finished replayer has packed every message that fits.
LEMMA LimitInvariance ==
  ASSUME PacketLimits = {0}
  PROVE  WireSpec => []EndsAtTheEnd
<1>1. WireInit => EndsAtTheEnd
  BY DEF WireInit, FeedInit, ReplayerInit, NewReplayer, EndsAtTheEnd
<1>2. WireInv /\ EndsAtTheEnd /\ [WireNext]_wireVars => EndsAtTheEnd'
  <2>1. [WireNext]_wireVars => Replay \/ UNCHANGED tx
    BY DEF WireNext, wireVars, FeedNext, Lose, Receive, ReceiveExtra, Take, CheckStop, Interrupted,
           Stop
  <2> QED
    BY <2>1, LimitStep DEF WireInv, EndsAtTheEnd
<1> QED
  BY <1>1, <1>2, WireInvariance, PTL DEF WireSpec

\* Then nobody can go on: every message that fits a packet is in the session.
LEMMA NothingBeyond ==
  ASSUME FeedInv, EndsAtTheEnd
  PROVE  NobodyGoesOn
<1> SUFFICES ASSUME tx.phase = "done", NEW n \in Nat, Retransmits(n) PROVE n < tx.sequence
  BY DEF NobodyGoesOn
<1>1. TxInv(tx)
  BY DEF FeedInv
<1>2. tx.sequence = 1 + Cardinality(Sendable) /\ Cardinality(Sendable) \in Nat
  <2>1. Cardinality(Sendable) \in Nat
    BY SendableFinite, FS_CardinalityType
  <2>2. tx.packet = << >> /\ Len(<< >>) = 0 /\ tx.sequence \in Nat
        /\ tx.sequence + Len(tx.packet) = 1 + Cardinality(Before(tx.next))
    BY <1>1 DEF TxInv, TxType, PackerInv
  <2>3. Before(tx.next) = Sendable
    <3>1. tx.next \in Nat /\ tx.next > Len(Sizes)
      BY <1>1 DEF TxInv, TxType, EndsAtTheEnd
    <3>2. \A m \in Sendable : m < tx.next
      BY <3>1, SendableFinite, LenSizes DEF Msgs
    <3> QED
      BY <3>2 DEF Before
  <2> QED
    BY <2>1, <2>2, <2>3
<1>3. PICK p \in Strays : ~p.short /\ Valid(p) /\ n \in p.sequence .. p.sequence + p.count - 1
  BY DEF Retransmits
<1>4. p.sequence \in Nat /\ p.blocks \in Seq(Nat) /\ p.count = Len(p.blocks)
      /\ Carries(p.sequence, p.blocks)
  BY <1>3, StrayAssumption DEF Valid
<1> DEFINE i == n - p.sequence + 1
<1>5. i \in 1 .. Len(p.blocks) /\ p.sequence + i - 1 = n
  <2>1. Len(p.blocks) \in Nat /\ n >= p.sequence /\ n <= p.sequence + Len(p.blocks) - 1
    BY <1>3, <1>4
  <2> DEFINE q == p.sequence
             l == Len(p.blocks)
  <2>2. q \in Nat /\ l \in Nat /\ n >= q /\ n <= q + l - 1 /\ i = n - q + 1
    BY <1>4, <2>1
  <2> HIDE DEF i, q, l
  <2>3. i \in 1 .. l /\ q + i - 1 = n
    BY <2>2
  <2> QED
    BY <2>3 DEF q, l
<1> HIDE DEF i
<1>6. n \in 1 .. Len(Packed)
  BY <1>4, <1>5, CarriedAt
<1> QED
  BY <1>2, <1>6, PackedIsSeq

\* replay.h:51-54, for a replayer without --max-packets: whatever other senders send.
THEOREM WholeFilesBooks ==
  ASSUME PacketLimits = {0}
  PROVE  WireSpec => []WireBookIsFileBook
<1>1. WireInv /\ EndsAtTheEnd => NobodyGoesOn
  BY NothingBeyond DEF WireInv
<1> QED
  BY <1>1, WireInvariance, LimitInvariance, FilesBooks, PTL

-----------------------------------------------------------------------------
(***************************************************************************)
(* The books of a lossy file.                                              *)
(***************************************************************************)
\* The mapping: where the decoder stands, and what it has not handed on before that.
Position(d) == IF d.started THEN d.expected ELSE 1
Skipped(d) == d.gap_messages + (IF d.started THEN JoinedOf(d) - 1 ELSE 0)

\* Everything before the position was handed on or left out.
LEMMA SkippedIs ==
  ASSUME NEW d, NEW s, DecInv(d, s)
  PROVE  /\ Position(d) \in Nat /\ d.messages \in Nat
         /\ Skipped(d) = Position(d) - 1 - d.messages
<1>1. d \in DecType /\ FreshOrJoined(d, s)
  BY DEF DecInv
<1>2. d.expected \in Nat /\ d.messages \in Nat /\ d.gap_messages \in Nat
  BY <1>1 DEF DecType
<1>3. CASE d.started
  <2>1. Position(d) = d.expected
    BY <1>3 DEF Position
  <2>2. Skipped(d) = d.gap_messages + (d.expected - d.messages - d.gap_messages - 1)
    BY <1>3 DEF Skipped, JoinedOf
  <2> DEFINE x == d.expected
             m == d.messages
             g == d.gap_messages
  <2>3. x \in Nat /\ m \in Nat /\ g \in Nat
    BY <1>2
  <2>4. Position(d) = x /\ Skipped(d) = g + (x - m - g - 1)
    BY <2>1, <2>2
  <2>5. Position(d) \in Nat /\ m \in Nat /\ Skipped(d) = Position(d) - 1 - m
    <3> HIDE DEF x, m, g
    <3>1. g + (x - m - g - 1) = x - 1 - m
      BY <2>3
    <3> QED
      BY <2>3, <2>4, <3>1
  <2> QED
    BY <2>5
<1>4. CASE ~d.started
  <2>1. d.messages = 0 /\ d.gap_messages = 0
    BY <1>1, <1>4 DEF FreshOrJoined
  <2>2. Position(d) = 1
    BY <1>4 DEF Position
  <2>3. Skipped(d) = d.gap_messages + 0
    BY <1>4 DEF Skipped
  <2>4. Skipped(d) = 0
    BY <2>1, <2>3
  <2> QED
    BY <2>1, <2>2, <2>4
<1> QED
  BY <1>3, <1>4

\* The first packet of the session has a number, 1 or more.
Numbered == \A p \in Strays : ~p.short => p.sequence >= 1

\* A step that hands nothing on leaves out the messages up to the new position.
LEMMA WaitingLeavesOut ==
  ASSUME FeedInv, FeedInv', Follows(dec, dec'), Waits, Numbered
  PROVE  Position(dec') >= Position(dec)
<1>1. dec \in DecType /\ dec' \in DecType /\ TxInv(tx)
  BY DEF FeedInv, DecInv
<1>2. dec.expected \in Nat /\ dec'.expected \in Nat /\ dec.messages \in Nat /\ dec'.messages \in Nat
      /\ dec.gap_messages \in Nat /\ dec'.gap_messages \in Nat
  BY <1>1 DEF DecType
<1>3. CASE ~dec.started /\ dec'.started
  <2>1. PICK pkt \in wire \cup Strays : ~pkt.short /\ dec'.expected >= pkt.sequence
    BY <1>3 DEF Waits
  <2>2. pkt.sequence \in Nat /\ pkt.sequence >= 1
    <3>1. CASE pkt \in Strays
      BY <2>1, <3>1, StrayAssumption DEF Numbered
    <3>2. CASE pkt \in wire
      <4>1. Own(pkt, tx)
        BY <3>2 DEF FeedInv
      <4>2. pkt.sequence \in Nat
        BY <4>1 DEF Own, Datagram
      <4>3. tx.sequence >= 1
        BY <1>1 DEF TxInv, PackerInv
      <4> QED
        BY <4>1, <4>2, <4>3 DEF Own, OwnData, OwnEnd
    <3> QED
      BY <3>1, <3>2
  <2>3. dec'.expected >= 1
    BY <1>2, <2>1, <2>2
  <2> QED
    BY <1>3, <2>3 DEF Position
<1>4. CASE ~(~dec.started /\ dec'.started)
  <2>1. CASE dec.started
    <3>1. dec'.started /\ (dec'.expected = dec.expected \/
            /\ dec'.messages >= dec.messages /\ dec'.gap_messages >= dec.gap_messages
            /\ dec'.expected = dec.expected + (dec'.gap_messages - dec.gap_messages)
                               + (dec'.messages - dec.messages))
      BY <2>1 DEF Follows
    <3>2. dec'.expected >= dec.expected
      BY <1>2, <3>1
    <3> QED
      BY <2>1, <3>1, <3>2 DEF Position
  <2>2. CASE ~dec.started /\ ~dec'.started
    BY <2>2 DEF Position
  <2> QED
    BY <1>4, <2>1, <2>2
<1> QED
  BY <1>3, <1>4

\* Every step folds one stretch after what it leaves out, as an application of a lossy file does.
LEMMA LossyStep ==
  ASSUME FeedInv, [WireNext]_wireVars, Numbered
  PROVE  \E from \in Position(dec) .. Position(dec') :
           /\ Skipped(dec') = Skipped(dec) + (from - Position(dec))
           /\ wired' = BooksOfLossyFile!Fold(wired, from, Position(dec') - 1)
<1> DEFINE p == Position(dec)
           q == Position(dec')
<1>1. FeedInv' /\ Follows(dec, dec')
      /\ (Waits \/ \E first \in Nat, blocks \in Seq(Nat) : Folds(first, blocks))
  BY WireStep
<1>2. p \in Nat /\ dec.messages \in Nat /\ Skipped(dec) = p - 1 - dec.messages
  BY SkippedIs DEF FeedInv
<1>3. q \in Nat /\ dec'.messages \in Nat /\ Skipped(dec') = q - 1 - dec'.messages
  BY <1>1, SkippedIs DEF FeedInv
<1>4. CASE Waits
  <2>1. q >= p
    BY <1>1, <1>4, WaitingLeavesOut
  <2>2. dec'.messages = dec.messages /\ wired' = wired
    BY <1>4 DEF Waits
  <2> HIDE DEF p, q
  <2>3. BooksOfLossyFile!Fold(wired, q, q - 1) = wired
    <3>1. Len(<< >>) = 0 /\ FoldBlocks(wired, << >>) = wired
      BY FoldNothing
    <3>2. q - 1 = q + Len(<< >>) - 1 /\ q - 1 \in Int /\ Len(<< >>) \in Nat
          /\ \A i \in 1 .. Len(<< >>) : Stream[q + i - 1] = File[<< >>[i]]
      BY <1>3
    <3> QED
      BY <1>3, <3>1, <3>2, FoldOfStretch
  <2>4. q \in p .. q /\ Skipped(dec') = Skipped(dec) + (q - p)
    BY <1>2, <1>3, <2>1, <2>2
  <2> QED
    BY <2>2, <2>3, <2>4 DEF p, q
<1>5. ASSUME NEW first \in Nat, NEW blocks \in Seq(Nat), Folds(first, blocks)
      PROVE  \E from \in p .. q :
               /\ Skipped(dec') = Skipped(dec) + (from - p)
               /\ wired' = BooksOfLossyFile!Fold(wired, from, q - 1)
  <2> DEFINE l == Len(blocks)
  <2>1. l \in Nat
    OBVIOUS
  <2>2. first # 0 /\ Carries(first, blocks) /\ (dec.started => dec.expected <= first)
        /\ q = first + l /\ dec'.messages = dec.messages + l
        /\ wired' = FoldBlocks(wired, blocks)
    BY <1>5 DEF Folds, Handed, Position
  <2>3. p <= first
    <3>1. CASE dec.started
      BY <2>2, <3>1 DEF Position
    <3>2. CASE ~dec.started
      BY <2>2, <3>2 DEF Position
    <3> QED
      BY <3>1, <3>2
  <2>4. \A i \in 1 .. l : Stream[first + i - 1] = File[blocks[i]]
    BY <2>2, CarriedAt
  <2> HIDE DEF p, q
  <2>5. first \in p .. q /\ Skipped(dec') = Skipped(dec) + (first - p)
        /\ q - 1 = first + l - 1 /\ q - 1 \in Int
    <3> DEFINE m == dec.messages
               n == dec'.messages
               s == Skipped(dec)
               t == Skipped(dec')
    <3>1. m \in Nat /\ n \in Nat /\ p \in Nat /\ q \in Nat /\ first \in Nat /\ l \in Nat
      BY <1>2, <1>3, <2>1
    <3>2. s = p - 1 - m /\ t = q - 1 - n /\ q = first + l /\ n = m + l /\ p <= first
      BY <1>2, <1>3, <2>2, <2>3
    <3>3. first \in p .. q /\ t = s + (first - p) /\ q - 1 = first + l - 1 /\ q - 1 \in Int
      <4> HIDE DEF m, n, s, t, l
      <4>1. first \in p .. q
        BY <3>1, <3>2
      <4>2. t = s + (first - p)
        BY <3>1, <3>2
      <4>3. q - 1 = first + l - 1 /\ q - 1 \in Int
        BY <3>1, <3>2
      <4> QED
        BY <4>1, <4>2, <4>3
    <3> QED
      BY <3>3
  <2>6. BooksOfLossyFile!Fold(wired, first, q - 1) = FoldBlocks(wired, blocks)
    BY <2>1, <2>4, <2>5, FoldOfStretch DEF l
  <2> QED
    BY <2>2, <2>5, <2>6
<1> QED
  BY <1>1, <1>4, <1>5

\* The sink of the wire is an application of a lossy file: packets are folded whole, in order
\* and once, and what is left out is what the decoder counts.
THEOREM LossyBooks ==
  ASSUME Numbered
  PROVE  WireSpec => ImplementsLossyFile
<1>1. WireInit => BooksOfLossyFile!Init
  BY DEF WireInit, FeedInit, NewDecoder, BooksOfLossyFile!Init
<1>2. FeedInv /\ [WireNext]_wireVars => BooksOfLossyFile!Next
  <2> SUFFICES ASSUME FeedInv, [WireNext]_wireVars PROVE BooksOfLossyFile!Next
    OBVIOUS
  <2>1. \E from \in Position(dec) .. Position(dec') :
           /\ Skipped(dec') = Skipped(dec) + (from - Position(dec))
           /\ wired' = BooksOfLossyFile!Fold(wired, from, Position(dec') - 1)
    BY LossyStep
  <2> QED
    BY <2>1 DEF BooksOfLossyFile!Next, Position, Skipped, Joined, JoinedOf
<1> QED
  BY <1>1, <1>2, WireInvariance, PTL DEF WireSpec, WireInv, ImplementsLossyFile,
     BooksOfLossyFile!Spec
=============================================================================
