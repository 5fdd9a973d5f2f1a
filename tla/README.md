# Verification of the ITCH feed: books, order index, MoldUDP64

This directory holds TLA+ modules that model the market data path of this repository and the
tools around it, TLC configurations that check them on small instances, and TLAPS proofs of what
holds for every instance. Paths below are relative to the repository's root (`src/book/...`, `apps/...`).

Contents:
[The system](#the-system) ·
[Modules](#modules) ·
[Runs](#runs) ·
[Fairness and deadlock](#fairness-and-deadlock) ·
[Proofs](#proofs) ·
[Disagreements found](#disagreements-between-code-and-text) ·
[Not modelled](#not-modelled) ·
[Plan](#plan)

To run: `tlc -config MCOrderBook.cfg MCOrderBook`, `tlapm OrderBookProofs.tla`. Each `.cfg`
names its module by its prefix: `MCOrderBookLoop.cfg` goes with `MCOrderBook.tla`,
`FramedDecodeShort.cfg` with `FramedDecode.tla`.
`PROJECT.json` lists runs, properties, the map from definitions to source lines, the hazards
and the theorems.

## The system

A recorded day of NASDAQ ITCH 5.0 is either folded into order books straight from the file, or
packed by the *replayer* into MoldUDP64 packets, sent by UDP, received, and decoded.

    file ── framer ── ITCH decoder ── feed handler / replay ── BookSet ── OrderBook ─┬─ OrderIndex
      │                                                                              └─ PriceLevels (bids, asks)
      └── replayer ── Packer ── (GapInjector) ── UdpSender ~~~ UDP ~~~ RecvfromReceiver ── MoldDecoder ── sink

The two halves do not meet in a program of this commit: `replay.h:51-54` names the one that is
to join them (`bench/bench_wire.cc`, not there yet) and promises that it calls the same
`apply_message`, so that its books cannot drift from the file's. `WireBook` is that promise. Each
program is single-threaded, except that any thread may call `RecvfromReceiver::stop()`; the
replayer, the receiver and a recorder that still writes the file run beside one another.

| Component | State it keeps | Operations | What makes it correct |
|---|---|---|---|
| `PriceLevels` (`src/book/price_levels.*`): one side of a book | window of one-cent cells `cells_` from `base_cents_`, bitmap `bits_`, `array_count_`, cached `best_cell_`, map `far_` | `add`, `reduce`, `remove`, `reserve`, `rebase`; `best`, `levels`, `check_invariants` | every level is in exactly one place; bitmap, count and cached best agree with the cells; a rebase loses, doubles and changes no level; `best` is the best level wherever it is |
| `OrderBook` (`src/book/order_book.*`) | `OrderIndex`, two `PriceLevels`, `order_shares_`, `level_shares_`, `level_orders_` | `add`, `reduce`, `remove`, `replace`, `reserve`; the checks | levels are what the live orders add up to; refused calls change nothing; totals exact |
| `OrderIndex` (`src/common/flat_hash_map.h`) | `slots_`, `size_`, `grow_at_` | `insert`, `find` (and writes through its pointer), `erase`, `grow`, `backward_shift` | it is a map, whatever collides; probes end |
| `BookSet` (`src/book/book_set.*`) | `books_`, `known_`, `registered_` | `on_stock_directory`, `known`, `book`, sums and checks | a book nobody named stays empty |
| Replay (`src/book/replay.*`), feed handler (`apps/feed_handler/main.cc`) | the book set, counters, the audit of shares | one switch over message types each | what entered the books left them or rests there; the two switches agree; nothing off the wire breaks a book, but that an order of zero shares fails the full check while its level has no others |
| Replayer (`apps/replayer/main.cc`), `Packer`, `GapInjector`, `UdpSender` (`src/mold/`) | read position, packet under construction, sequence, counters, drop log | pack, flush and retry, drop, send, end of session | every message read is accounted for; packets within limits; sequence numbers mean messages |
| `RecvfromReceiver` (`src/receive/`) | stop flag, counters, buffer | `run`, `stop` | nothing truncated is passed on; stops after at most one datagram |
| `MoldDecoder` (`src/mold/decoder.*`) | session, expected sequence, end flag, gap list, counters | `on_packet`, `note_gap` | in order, once, no silent loss |
| Framer (`src/itch/framing.*`) | position in a buffer | `next`, `offset`, `exhausted` | in bounds, whatever the lengths say; reads back what was packed |
| ITCH decoder (`src/itch/decoder.*`, `message_type.h`, `src/common/byte_reader.h`) | none | one decode function per type | the offsets and the table of lengths, written apart, agree; each byte reaches one member whole |
| Order word (`flat_hash_map.h`) | quantity and side in 32 bits | packing and unpacking in each book call | neither leaks into the other |
| File buffer (`src/common/file_buffer.*`) | the buffer | `read_file` | a file being written yields a prefix or an error |
| Rate limiter (`src/mold/rate_limiter.h`) | origin, interval | `wait` | never too fast; a delay is caught up |
| Timing, latency recorder (`src/common/timing.*`, `latency_recorder.h`) | two clocks' readings; samples | `calibrate`, `to_ns`; `record`, `discard_first`, `percentile` | no duration is flattered; a percentile is a rank |
| Sockets (`udp_sender.cc`, `src/receive/socket_setup.cc`, `recvfrom_receiver.cc`) | descriptor | constructors call by call, destructors | a descriptor is closed once |
| Capture tool (`apps/replayer/capture.cc`) | options, output file | receive loop, record writer | each record can be dissected |

What is hard here, and hardly reached by the repository's tests:

- *Long sequences of legal calls.* The two-place storage of levels, with a window that moves on
  some adds and some removals, has states that need four or five prices placed and removed in
  the right order: a cell left behind, a cached best that is stale, a better price in the map.
- *Order inside an operation.* `replace` is a remove and an add whose failure must be known
  before the remove; `insert` grows before it looks for a duplicate.
- *Collisions across the end of the table.* Backward-shift deletion has to decide for each entry
  on a ring whether it may move.
- *The network.* Loss, duplication, reordering, strays, a full gap list, losses before the first
  and after the last packet, the end of session overtaking data.
- *Retry.* A message refused by a full packet is flushed and tried again, or un-counted.
- *Arbitrary references.* Messages may name any order, live or not, and any quantity, zero and
  2^31 included.
- *Agreement of texts written apart*: two switches over the message types, offsets and lengths of
  fields, the books of a file and those of the wire, the drop log and the list of gaps.
- *Time between two lines*: a sender held up between reading the clock and sleeping, a
  calibration interrupted between two readings, a file that grows or is started anew between
  its size and its bytes, `stop()` between the check of the flag and `recvfrom`.
- *One call of several failing* in a constructor that owns a descriptor.

`PROJECT.json` lists each under `hazards`, at its line, with the properties that cover it or a
note where none does.

## Modules

| Module | Models | Correspondence |
|---|---|---|
| `Orders` | vocabulary | order maps, `level.h`'s level, levels and best price of a set of orders, independent of storage. Sums of shares are cardinalities of sets of (reference, position) pairs, which can be proved about. |
| `PriceLevels` | `price_levels.{h,cc}` | a side is a record; one operator per member function (`LevelsAdd`, `LevelsReduce`, `LevelsRemove`, `Rebase`, `EnsureCells`, `Best`, `CheckLevels`) |
| `Book` | `order_book.{h,cc}` | operators from book to book and `ApplyResult` |
| `OrderBook` | one `OrderBook` object and its callers | variables `book`, `result`; actions `Add`, `Reduce`, `Remove`, `Replace`, `Reserve` |
| `LimitOrderBook` | *abstract* | live orders, top of book, verdict; `OrderBook` refines it (`Implements`) |
| `OrderIndex` | `flat_hash_map.h` | probes are one step; the loops of `grow` and `backward_shift` one step per iteration |
| `OrderMap` | *abstract* | a map from references to orders; `OrderIndex` refines it (`ImplementsMap`) |
| `BookSet` | `book_set.*` | operators on the set of books |
| `BookReplay` | `replay.{h,cc}` | `ReplayMessage` is `apply_message`, the dispatch that the file and the wire share; `Clean` is `clean()` |
| `FeedHandler` | `feed_handler/main.cc`, `replay()` | variables `feed`, `replay`: the two programs' locals, both reading the same file, one message per step; `Intervals` has 0 for a release build and `kInvariantInterval` for a debug build, which also samples the full check |
| `MoldDecoder` | `decoder.*` | `OnPacket`, an operator from decoder to decoder and delivered blocks; sequence numbers wrap at `kSequences` |
| `Replayer` | `replayer/main.cc`, `packer.*`, `gap_injector.h`, `udp_sender.*` | variables `tx`, `wire`; one action per way through an iteration of the packing loop |
| `MoldFeed` | replayer, network, `recvfrom_receiver.cc`, decoder | composes the two above with the receiver's `pc`, its stop flag and the network |
| `SequencedFeed` | *abstract* | join, then deliver or count as missing; `MoldFeed` refines it (`ImplementsPromise`) |
| `MoldSessions` | `decoder.*` without a sender | any packets of two sessions, kept beside the decoder as stretches of one session |
| `WireBook` | `MoldFeed` with `apply_message` as the sink | adds the books `wired` at the end of the wire |
| `LossyFile` | *abstract* | the fold of a stream with some stretches left out, whatever is folded (`Start`, `Apply`); `WireBook` refines it (`ImplementsLossyFile`) |
| `Framer` | `framing.{h,cc}`, the packer's block layout | `next()` on bytes and wrapping sizes, and a reader's loop |
| `FileBuffer`, `FileReader` | `file_buffer.cc`, the readers' loop | `read_file` read by read beside a recorder; `FileReader` walks the framer over what it returned |
| `ItchDecoder` | `decoder.cc`, `messages.h`, `message_type.h`, `byte_reader.h` | each decode function as the set of its fields |
| `FramedDecode` | the use of both by `replay.cc` and `feed_handler/main.cc` | which bytes each reads of a message of a size that may not be its type's: the replay asks for the locate first, the feed handler decodes first and reads the header of every known type |
| `OrderWord` | `Slot` in `flat_hash_map.h`, and the book calls that pack it | `Pack`, `qty`, `buy`; actions `add`, `reduce`, `remove`, `replace` |
| `Pacing` | `rate_limiter.h` | `wait` with its sleep and its spin against a clock that moves on anywhere |
| `TscClock` | `timing.*` | `calibrate` reading by reading, `to_ns` |
| `LatencyRecorder` | `latency_recorder.h` | actions `record`, `DiscardFirst`; `percentile`, `max_ticks` |
| `Sockets` | both constructors and destructors, `open_udp_socket` | one step per system call, each of which may fail |
| `Capture` | `capture.cc` | set-up, receive loop and `PacketRecord` with `ip_checksum` |
| `MCParts` | the modules from `Framer` on, side by side | see [Runs](#runs) |
| `MCOrderBook`, `MCOrderIndex`, `MCMoldFeed`, `MCFeedHandler`, `MCWireBook` | instances | symmetry sets and inputs |
| `OrdersProofs`, `BookProofs`, `OrderBookProofs`, `FeedHandlerProofs`, `OrderIndexProofs`, `MoldFeedProofs`, `WireBookProofs`, `PartsProofs` | proofs | see [Proofs](#proofs) |

How data is abstracted:

- *Book over index.* `Book` uses a map where the code has an `OrderIndex`; `ImplementsMap` is what
  entitles it to. `Insertable` keeps the one way in which the index is not a map: it refuses
  reference 0 (`NullRef`).
- *Prices* are integers in units of 1/100 cent; 150 is "not a whole cent" and 200 is, as in the code.
- *The bitmap* is a set of cells, `cells_` a function that is all-empty before `ensure_cells`. The
  flag `alloc` remembers whether the vectors exist, so that an index into an empty vector shows
  (`CellsAllocated`).
- *Quantities* are integers: one the code would wrap below zero is negative, which `TypeOK`
  excludes. `Book` keeps side and quantity apart; what the packed word does to them, and to an
  order of 2^31 shares or more, is `OrderWord`.
- *`rebase`* is written as what the loop leaves behind. `RebaseIsItsLoop` compares it with the loop of
  `place()` calls (`RebaseLoop`) in every reachable state and for every centre.
- *The hash* of the index is an arbitrary function chosen in the initial state.
- *A datagram* is the header, the blocks the framer finds, whether they use up the payload, and
  whether it is too short to have a header. A message is its position in the file and has a
  size; what it says matters only in `WireBook`. That the framer finds in a payload the blocks
  the packer wrote, and stops where none starts, is `ReadsBlocks`, over bytes.
- *Bytes* in `Framer`, `FileBuffer` and `ItchDecoder` have a small radix, and sizes wrap at a small
  `kSizes`, so that a bound by addition, which the code avoids, would wrap in the model as well.
- *Time* counts ticks; every wait and every reading of a clock is a step, between which time may
  pass. The rate limiter's interval is the exact quotient where the code has a double.
- *The network* is a set of datagrams in flight; a duplicate is a datagram received without being
  taken out of it.
- *A message of the wrong length* is decoded all the same by both programs, so its fields are as
  arbitrary as any other's; only the counter tells it apart.

Operators marked "Mutant of ..." next to a definition are that definition with a plausible bug.
They are part of no specification: substituting one for the original must make TLC find the
property violated that `PROJECT.json` pairs it with. Each checked property has one.

## Runs

| Run | Question | Bounds |
|---|---|---|
| `MCOrderBook` | Does a two-sided book stay equal to a rebuild from its orders, keep its totals, change nothing when it refuses, and implement `LimitOrderBook`, orders of zero shares included? | window of 2 cells, prices 200, 300 (both fit) and 150 (sub-penny), 3 references, quantities 0 and 2, cuts of 1 and 3 (partial and clamped; two of 1 kill exactly) |
| `MCOrderBookLoop` | Does the code's full check succeed? Is `Rebase` the loop in the code? Is `levels()` sorted and complete? | window of 3, prices 100 to 400 and 350, 4 references of one share: levels on both sides of the window, in cells and map at once, rebases up on an add and down after a removal, for bids and for asks |
| `MCOrderIndex` | Do probes end, and are chains and size right at every iteration of the loops? | 4 references and the null one, every hash function into 8, tables of 4 growing to 8: rehashes with three entries in the table, every collision and every wrap around the end |
| `MCOrderIndexLiveness` | Is the index a map, and does each started call return? | 3 references and the null one, 2 contents, 4 hashes, no symmetry |
| `MCMoldFeed` | Does the path lose nothing silently, deliver nothing twice, and stay within the limits? | 7 messages, see below |
| `MCWireBook` | Are the books at the end of the wire those of the file but for what the decoder reports? Does the replayer finish? | 7 messages of one symbol that add, execute, replace, cancel and delete; packets of two; one stray retransmission or duplicates, two in all |
| `MCFeedHandler` | Does the audit balance for every file that names no null reference? | files of up to 6 messages, locates 1 and 2 (0 is created, never named), 2 references, 0 and 2 shares, prices 100 and 250, buy side |
| `MCFeedHandlerAnyFile` | Do the two programs agree, and what can make a check fail, for any file at all? | the same with the null reference too, up to 5 messages, in a release build and in a debug build that samples every second message |
| `MCParts` | Nine parts that share no state: file and framer, field decoding, order word, pacing, calibration, recorder, sockets, capture, and the decoder whatever is sent to it | see below |
| `MCOrderBookNullRef`, `MCMoldFeedMalformed`, `FramedDecodeShort` | counterexamples: what the code's text says and the code does not do | the smallest that show it |

Why these bounds are enough to see the interesting cases:

- *Books.* A window of two cells has an edge on either side of each price; with a sub-penny price
  and two whole-cent prices each level can be the best, be in the map or the array, and be left
  alone by the removal of another. `MCOrderBookLoop` gives up the quantities for one more cell and
  two more prices, so that a window has to move over levels that are above, inside and below it.
  Its constraint `OneSided` leaves out books with orders on both sides at once: the two sides
  share no state but the index and the totals, which `MCOrderBook` has on both sides together.
  The proofs then remove the bounds altogether.
- *Index.* Three entries are what a table of four holds before it doubles, so the chains are as
  long as they can be, and 8 hashes tell apart every home slot of the doubled table. What the
  fourth reference adds is a rehash with entries on both sides of a wrap. Mixing up contents
  needs two of them, and no more; `MCOrderIndexLiveness` has them.
- *Feed.* The messages have sizes 2 2 2 2 15 11 2, a payload is at most 16, the count 4 marks the end
  of session and the buffer takes 32 bytes. The first packet is closed by the count limit, the
  next by bytes, where the two bytes of the length prefix decide; message 5 fits no packet; one packet is
  longer than the buffer and is truncated. The packet limit is off or 2, so that the retry meets
  it. The gap list has room for one, so that it is full. Each packet may be dropped, fail, be
  lost, be reordered; two datagrams may be duplicates or strays (a heartbeat, a retransmission
  that overlaps two packets, a wrong count, a block past the end, a runt).
- *Wire.* The file is one where leaving out any message changes the books or a counter, and in
  which one message exceeds a payload by a byte, and only with its prefix. With packets of two messages each message is
  once the first and once the last of what is lost.
- *Sessions*, a part of `MCParts`. The packets are all with 2 sessions, 4 sequence numbers wrapping at 5
  and counts to 2, heartbeats, markers and malformed ones; four are two changes of session with one to spare; the numbers 3 and 4
  with counts of 2 reach over the wrap.
- *Feed handler.* Six messages are a directory message, and five that build, cut, replace and delete two
  orders, or two directory messages and four; since a message may be anything, this contains every
  file of that length. With zero among the quantities, a book has levels with and without shares,
  and one can change into the other; with an interval of 2 a sampled check meets such a level, or
  comes a message too early or too late. `MCFeedHandlerAnyFile` adds the null reference, under
  which a replace loses its original (disagreement 1 below), and leaves out the sixth message; `SharesConserved` is not in it,
  because the lost shares are in no sum. The sell side differs in the books only, which the other runs have.
- *Parts.* `MCParts` runs parts that share no variable with one another: a behaviour is one of
  one part, `part` says which, and the others stay where they start. That is the sum of the
  nine state spaces in place of their product, and no invariant is about two parts, so nothing is
  lost. The parts: a file of every 7 binary digits that a recorder appends to, breaks off or starts anew,
  with sizes that wrap at 8, so that every length of a prefix (0 to 3), every cut and every
  bound near the wrap occurs; one message of each type and of every size up to one more than the longest,
  each byte read by itself and up to 8 bytes behind the end; words of 3 bits with a side bit, 3
  references, two orders that reach the bit; 3 packets per 10 ticks, an interval that is no
  whole number, and a sender held up for up to 16 ticks anywhere; a counter of 3 ticks per
  nanosecond and a calibration of 3 nanoseconds that may be held up to 24 ticks, at every
  phase of the wall clock; 6 calls of a recorder for 4 samples with every discard between;
  a sender and a receiver, each built twice, with every call failing in turn, sharing one
  table of descriptors; captures of 3 datagrams from the empty one to the largest
  there is, with an address for which the checksum carries twice.

What the properties say, beyond types:

- `BookConsistent`: the code's own `check_invariants`, including the comparison with a rebuild,
  always succeeds. `OnlyZeroLevelsFail`: with orders of zero shares it fails on the levels of such
  orders alone, and all the rest of the rebuild still agrees. `RestingSharesExact`: the total that the feed
  handler's conservation check relies on is right. `RefusedChangesNothing`: `UnknownRef` and
  `DuplicateRef` leave the *whole* book as it was. `Implements`: `best_bid`, `best_ask` show the best
  level of the live orders after every call, wherever the window is.
- `ImplementsMap`: entries never get lost, doubled or mixed up, also *during* a shift or rehash.
  `TableSound`: the loops without a bound end, chains are unbroken and the size is exact, also
  while a loop is half way through.
- `WordsTellTheOrders`: every word says what the feed said, as long as no order ever reached the
  side bit; each one that did falsifies the total by exactly the bit, for good.
- `SharesConserved`: added = executed + cancelled + deleted + resting, with the audit as `main.cc`
  computes it. `SwitchesAgree`: as long as no check stops the feed handler, `main.cc`'s switch and
  `replay.cc`'s build the same books with the same verdicts; and the exit status is 0 exactly when
  no check stopped it, the replay of the file is `clean()` and knew every type, and every level of its books has shares.
  `NeverBreaks`: whatever the file, the check per message never fails, the full check
  fails exactly for levels that consist of zero-share orders, only a sampled one stops a (debug)
  feed handler before the end of its file, and a book nobody named stays empty.
- `NoSilentLoss`: from the first sequence number seen, every number below the expected one was
  delivered or lies in a gap, never both, the counters say so also when the list is full, and the
  end of session reveals a hole at the end. `DeliveredOnceInOrder` includes that the number means the
  message it was packed as. `DropsLookLikeLoss`: the drop log and the list of gaps can be
  compared. `ReplayAddsUp`, `PacketsWellFormed`, `StopsPromptly`, `ImplementsPromise`.
- `WireBookIsFileBook`: with no gap and from the first message, the books and all verdicts of the
  wire are the file's. `ImplementsLossyFile`: with gaps, they are those of the file without exactly
  as many messages as are reported, in whole stretches and in order. `ReplayEnds`:
  liveness, see below.
- `OnceInAStretch`, `GapsWithinSessions`: within a stretch of one session nothing comes twice, and
  gaps are never counted across a change of session or a wrap.
- `ReadsBlocks`: the framer stays in bounds and inverts the packer's layout. `ReadsWholeMessages`: a
  file that is read while it is recorded yields exactly the messages that were whole when it
  was opened. `EachByteOnce`: offsets and lengths agree. `CleanReadsItsOwn`: a replay or
  a feed handler that counted no length mismatch has read no byte that is not of its own message.
- `NeverTooFast`, `WaitsOnlyWhenCaughtUp`: the pace never exceeds the rate and a delay is not added to the
  schedule. `NeverFlatters`: a reported duration is not too short, and too long by no more than
  the delay during calibration. `PercentilesAreRanks`, `EachSocketOneOwner`, `RecordsDissect`.

`BookConsistent` needs one precondition, in its run and in the proof: no message adds zero shares.
The code's `check_invariants` rejects a level with zero shares, and an order added with zero shares
is one until a message names it. `MCOrderBookLoop` uses positive quantities;
`MCOrderBook` has zero among them and says what is left of the check then.

## Fairness and deadlock

Most modules state safety only: nothing in the code promises that a message arrives, that a file
has more messages, or that a receiver asked to stop is woken up (`recvfrom` has no timeout). Two
specifications state fairness:

- `OrderIndex` has `WF_vars(Loop)`: `grow` and `backward_shift` are straight-line loops within a
  call, so an iteration that can be taken is taken. No fairness is put on calls. `CallsReturn`
  follows from that alone.
- `LiveWireSpec` has weak fairness of `Replay`, the replayer's loop, which waits for nothing but the
  rate limiter, whose waits end. `ReplayEnds` (the end of session packet is always reached, whatever
  is dropped or refused on the way) follows. There is none on the receiver: `recvfrom` has no
  timeout, a stopped receiver to which nothing comes stays in it, and no liveness is claimed of
  `stop()`. What is checked of it is `StopsPromptly`: at most one datagram is delivered after it.

All configurations but those of the books and the index set `CHECK_DEADLOCK FALSE`: the receiver
returns and the replayer finishes; a file ends; a tool exits; the packets of `MoldSessions` are
used up. The books and the index always accept another call, and are checked for deadlock; in
`OrderIndex` that includes a table in the middle of a loop.

## Proofs

`tlapm` proves the theorems below for every value of the constants: any set of prices, references
and quantities, any window, hash, file, payload, network, rate or clock. Each module states what
the listed property says; a run of the same property shows it on a small instance. What is
assumed is what the table names and the `ASSUME`s of the models, discussed below it.

| Module | Theorem | Property | Assumes besides |
|---|---|---|---|
| `OrderBookProofs` | `Typed`, `RestingShares`, `Allocated`, `ZeroLevels` | `TypeOK`, `RestingSharesExact`, `CellsAllocated`, `OnlyZeroLevelsFail` | |
| | `RebaseLoops`, `LevelsInOrder` | `RebaseIsItsLoop`, `LevelsBestFirst` | |
| | `Consistent` | `BookConsistent` | `0 \notin AddShares` |
| | `RefusalsChangeNothing`, `Refinement` | `RefusedChangesNothing`, `Implements` | `NullRef \notin Refs` |
| `OrderIndexProofs` | `IndexTypes`, `AlwaysSound`, `IsAMap` | `TypeOK`, `TableSound`, `ImplementsMap` | |
| `FeedHandlerProofs` | `Conserved` | `SharesConserved` | `NullRef \notin Refs` |
| | `InStep`, `Unbroken` | `SwitchesAgree`, `NeverBreaks` | |
| `MoldFeedProofs` | `AddsUp`, `WellFormed`, `OnceInOrder`, `NoLoss`, `LooksLikeLoss`, `Prompt` | `ReplayAddsUp`, `PacketsWellFormed`, `DeliveredOnceInOrder`, `NoSilentLoss`, `DropsLookLikeLoss`, `StopsPromptly` | |
| | `Promised` | `ImplementsPromise` | |
| `WireBookProofs` | `FilesBooks` | `WireBookIsFileBook` | `[]NobodyGoesOn` |
| | `WholeFilesBooks` | `WireBookIsFileBook` | `PacketLimits = {0}` |
| | `LossyBooks` | `ImplementsLossyFile` | `Numbered` |
| `PartsProofs` | `NotAhead`, `CatchesUp` | `NeverTooFast`, `WaitsOnlyWhenCaughtUp` | |
| | `FlattersNobody`, `OneOwner`, `WordsTell`, `PacketsDissect`, `CleanReplay` | `NeverFlatters`, `EachSocketOneOwner`, `WordsTellTheOrders`, `RecordsDissect`, `CleanReadsItsOwn` | |
| | `OffsetsAgree` | `EachByteOnce` | |
| | `RecorderHolds`, `NearestRanks` | (what is sorted), `PercentilesAreRanks` | |
| | `SessionsOnce`, `SessionsCounted` | `OnceInAStretch`, `GapsWithinSessions` | |
| | `BlocksRead`, `WholeMessagesRead` | `ReadsBlocks`, `ReadsWholeMessages` | |

`BookProofs` holds the lemmas that `OrderBookProofs` and `FeedHandlerProofs` share, `OrdersProofs` those on best
elements, ranks and sums that `PartsProofs` needs too.

*What is assumed, and why it must be.*

- `0 \notin AddShares`, for `Consistent` alone: `check_invariants` fails on an order of zero shares
  (`OnlyZeroLevelsFail` says exactly how much of it, with no assumption).
- `NullRef \notin Refs`: `MCOrderBookNullRef` is a counterexample without it. `Conserved` needs it since
  the shares of an order that such a replace loses are in no sum of the audit. `InStep` does not: what
  is lost is refused as a duplicate too, which keeps the replay from being clean. `OrderIndexProofs` needs
  no such assumption: `insert` refuses the null reference, and so does `OrderMap`.
- `RecordingAssumption`: the sequence numbers of one session do not wrap. The code's are 64 bits wide
  and count messages of a file in memory; what a decoder does when they wrap is `MoldSessions`.
- `StrayAssumption`: other senders on the session may send runts, heartbeats and malformed packets
  that say anything, but a packet that the decoder takes for messages carries the file's, under
  their numbers, and only the replayer says that the session ends. A sender of other messages under
  the same session id is indistinguishable from the replayer to the code.
- `NobodyGoesOn`: with a limit on packets the replayer ends the session before the file ends; a
  retransmitter that goes on with the rest of the file would then add to the books, and
  "the books of all that the replayer packed" would be false. Without a limit (`PacketLimits = {0}`)
  `EndsAtTheEnd` shows that nobody can.
- `Numbered`: every datagram has a sequence number from 1 up, as MoldUDP64 says. A decoder that joins
  on a heartbeat numbered 0 is *behind* the first message, where no application of a file stands.
- `RecordingsAreBytes`: a recording is shorter than `size_t` can count, as whatever fits in memory is. Nothing
  is assumed of its bytes: they need not be messages.
- `RecorderAssumption`: a percentile is a fraction of no more than one, as `latency_recorder.h` says ("p in
  [0, 1]"). Beyond one the rank is cut off at the last sample and is nobody's nearest.
- `IndexAssumption`, `SpanAssumption`, `SocketsAssumption`, `CaptureAssumption` and the others give
  constants their types: a first table of 4 slots or more, as `flat_hash_map.h` has, finitely many
  objects, payloads that UDP can carry and addresses of two 16-bit words.

*Inductive invariants.* None of the properties is inductive. Each proof has an invariant that is,
with one lemma per action under its induction step, and most of them say what relates two parts of
the state that the code updates apart:

- `BookInv`, one book. `SideInv` for each side: the array's bitmap is the set of cells with orders,
  unoccupied cells hold no shares, an occupied cell's price maps to that cell, the count is the
  bitmap's cardinality, the cached best is the scan's answer, occupied implies allocated
  (`ArrayInv`); the map holds only prices without a cell, each under its own price, finitely many,
  and no whole-cent price before the window has a base (`FarInv`). `Agrees`: at every price, in cell
  or map (`LevelAt`), a side holds the number of orders and the shares that the live orders
  add up to. And the three totals are the sums over the live orders. `TypeOK` alone says that totals
  are naturals, but subtracting an order from a level keeps it so only if the level contains it.
- `IndexInv`, the index at every iteration of its loops: types, `size` and `grow_at` right for the
  capacity, every chain unbroken, and by `pc`: idle, references are unique; in a rehash, the part of
  the old table before the cursor is in the new one, which has room for it and for the insert
  that waits (`Rehashing`); in a shift, every slot from the hole to the cursor is taken by an entry
  whose chain starts behind the hole (`Shifting`, `Crossed`).
- `HandlerInv`, the two programs over one file: while no check has failed (`Handled`), both have equal book
  sets and tallies (`SameAs`), every book satisfies `BookInv` and those nobody named are empty
  (`SetInv`), and the audit balances unless a null reference was named and a call refused as a duplicate
  (`Audited`); once one has (`Stopped`), it was a sampled one, and the books have a level without shares.
- `FeedInv`, the Mold path: the packer's counts are those of the file up to where it was read, and
  the packet it holds carries the last of them (`PackerInv`); the sender's counts and the drop log
  are those of the packets built (`SenderInv`); each datagram in flight is the end of the session or
  messages none of which was dropped (`Own`); the decoder's deliveries and listed gaps
  are disjoint and, while the list is complete, fill the range from the joining point to the expected
  number (`AccountInv`), in order (`OrderInv`); and what reached the sink was sent and not dropped, or
  retransmitted (`Agree`).
- `WireInv`: `FeedInv`, and with no gap and from the first message the books are the fold of as
  many of the packed messages as the decoder counts (`FoldsPrefix`).
- `SessionsInv`, the decoder under any packets: it stands at the end of the last stretch, in its
  session (`AtTheEnd`), every stretch is in order, there is one more of them than changes of session,
  and what is counted as missing and as delivered are the sums over all stretches (`Kept`).
- `ReaderInv`, the file: it is a prefix of the recording, what was read of it is bytes that it had there,
  and the recording's unless it was started anew (`FileInv`); the walk stands behind the last
  view, the bytes before it are the blocks of the views, and a walk over the whole recording is
  these views and then a walk from there (`WalkInv`).
- In the rest of `PartsProofs`: a sleep is as long as was left when the clock was read (`PacingInv`); the
  readings of the two clocks at each stage of `calibrate`, with the delay split in what passed
  before the first and after the second reading of the counter (`TscInv`); the numbers of open
  descriptors, of which `socket()` finds the lowest that is free (`SocketsInv`); each word says
  what was told as long as none reached the side bit, and the total is off by exactly that bit
  for each that did (`WordInv`); every view of a clean replay was cut at its type's length
  (`ReplayInv`); the samples are the durations recorded less those discarded (`RecorderInv`).

*The arguments.* Books: `OrdersProofs` proves how the sums change when one order is added, dropped or cut;
the first half of `BookProofs` proves for each operation of a side that it preserves `SideInv` and
changes `LevelAt` at one price only (`MovesOnly`), and that a rebase changes it nowhere, whatever the
new window; the second half joins the two: the same price and the same amount change on both paths
(`BookAddInv`, `EraseOrderInv`, `ShrinkOrderInv`, and `BookReplaceInv` from the first two). `Refinement`
rests on `BestIsTop`: `best()`, which looks at one cell and at the first entry of the map, is the
best of all levels gathered, hence the top of the live orders. `RebaseLoops`: after any number of `place()`
calls the side is `Placed`, what `Rebase` makes of the levels placed so far (`PlaceStep`; `GatheredInOrder`: the
loop meets every level once). `LevelsInOrder`: of levels with different prices there is exactly one
ranking (`RankedOnce`, `RankedExists`), `InOrder` gives it for the array and for the map (`PartsRanked`), and each
round of the merge puts the best that is left before a ranking of the rest (`MergeStepRanked`). Index: the proof sees the table as
a ring; `Gap`, a difference that wraps once, replaces the modulus (`Ring`, `Step`, `Turn`), and `ShiftStays` and `ShiftMoves` are the two ways through an iteration of
`backward_shift`. Both loops are stuttering steps of the map. Mold path: `PacketKeeps` is `on_packet` case by
case, built from `EnterInv`, `NoteHoleNotes`, `DeliverInv`, `EndInv` and `IgnoredInv`; `Follows` says
what a step may do to the decoder and gives the refinement of `SequencedFeed`. Wire: `FoldsAdd` (the fold of
two stretches is the fold of the second from the first), `FoldOfStretch` and `PackedIsSeq`, then
`WireStep`: a step folds the blocks of one packet at the number it carries, or none.

Sessions: `StretchBegun` and `StretchGrows` are the two things a packet can do to the stretches, and
`NothingRecorded` and `PacketRecorded` what it does to the sums of one; in the sum of the holes the ends of
the packets delivered cancel, so that nothing is asked of where the sequence wraps.

Decoder: `Weight` rises from place to place, so that no value that fits is cut off (`WeightsRise`); the
readers' loop, in a message with one byte that is not zero, gives that byte the weight of its place
(`BeOnly`); and the fields of each type tile the body that the table of lengths gives it (`LayoutsFill`, type by
type). Recorder: sorting is by rank, the number of samples before a sample. Ranks in a finite order are
all different and fill the numbers below its size (`RanksDiffer`, `RanksFill` in `OrdersProofs`, which serve
`InOrder` too), so the sorted copy has a sample at every place (`SortedIsHeld`) and does not fall (`SortedRises`);
`RankIsNear` and `RanksOfRise` are the arithmetic of the rank.

File: `NextIs` is what the bounds by subtraction come to where sizes do not wrap, `BlockRead` and `NoBlock` say that `next()`
inverts the packer's layout, and `NextOfPrefix` that a file cut off in a message loses that message and
those behind it (`WalkEnds`) and no other.

Sums over sequences and folds are recursive *functions*; where a fact about them needs induction on a
number (`RunsExist`, `BodySizeIs`, `RunningSum`, `StackOf`, `WalksExist`, `PlacedOnce`, `MergesRanked`, `LargestExists`), the proof takes the least counterexample, by
`WFMin` of the library, in place of an induction scheme, which takes an operator as a parameter. No module that is proved
about declares a recursive operator, and sums over sets are cardinalities.

*Only model-checked.* Every invariant, and every action property, that a passing run checks is stated by a
theorem. What is left to TLC:

- Liveness under fairness (`CallsReturn`, `ReplayEnds`) and `ENABLED` are beyond the
  prover. The violation runs are counterexamples and have nothing to prove.

## Disagreements between code and text

With a run that shows them:

1. `replace` to reference 0 loses the original (`MCOrderBookNullRef`). `order_book.cc:133` looks the
   new reference up with `find`, which does not refuse 0; `insert` does (`flat_hash_map.h:51`), after the
   remove. The comment at 130-132 says that this cannot happen. The exchange does not send
   reference 0; a message of the wrong length, which is decoded all the same, may contain it.
2. A malformed packet that comes first, or carries another session id, moves the decoder
   (`MCMoldFeedMalformed`), though `decoder.cc:71-74` says that it "is rejected whole".
3. A message shorter than its type is decoded beyond its end (`FramedDecodeShort`): `replay.cc:50`
   counts the mismatch and goes on. `framing.h:23-25` says that the readers may stay unchecked because
   the walker has proved that the bytes are present; it proved as many as the prefix claims.
   The feed handler does the same at `main.cc:121`. `CleanReadsItsOwn` shows what holds all
   the same: such a replay is never `clean()`, and such a feed handler exits with 1.

Smaller ones, seen while modelling:

- A rebase after a removal can leave the best whole-cent price in the map, although
  `price_levels.cc:115-117` says that the best ends up in the array. `best()` is right all the
  same (`Implements`, theorem `Refinement`): it costs time, not correctness.
- A refused insert can double the table; `flat_hash_map.h:36` says that it "changes nothing". The
  contents are the same, pointers are not.
- The feed handler and the replay judge a file alike but for two things, which `SwitchesAgree` names. A
  message of an unknown type leaves a replay clean (`replay.h:31-36`, which explains why it must) and
  makes the feed handler exit with 1 (`main.cc:326`). So does a level that consists of zero-share
  orders when the file ends: a replay has no checks, and `check_invariants` (`main.cc:253`) rejects a
  level without shares (`price_levels.cc:386`).

Worth knowing, and in nobody's text: messages lost before the first packet arrives are not
reported; a heartbeat's sequence number is not compared with the expected one, so a hole at the
end shows only when data or the end of session follows; `capture` exits with 0 when a signal
interrupts it, and looks at no result of a write; `end_of_session_seen()` stays true across a change
of session (nothing asks for it yet, so that no property says what it should mean there).

## Not modelled

- *Text*: the report of the latency recorder, the parse of `/proc/cpuinfo`, options, logs, printing,
  wording of exceptions, symbol names.
- *Statistics* that nothing reads back (`rebases_`, `rehashes_`, bytes sent, the send buffer granted), `prefetch`.
- *The pattern of the gap injector* (every n-th packet): a choice per packet, which includes it.
- *Floating point*: the rate limiter's interval and the percentile's rank are exact.
- *Results of writes* to logs and captures, taken to succeed.
- *Exceptions for want of memory*. One of them matters to a property: `UdpSender` and `open_udp_socket`
  copy the host into a string when the descriptor is open already; if that copy throws, the descriptor
  stays open. `EachSocketOneOwner` is about the failures of system calls.
- *Strategy, risk, OUCH, SoupBinTCP, exchange simulator, benchmarks*: empty directories at this commit.

## Plan

Done, in this order: `Orders`, `PriceLevels`, `Book`, `OrderBook` with `LimitOrderBook` (the core); `OrderIndex`
with `OrderMap`; the Mold path with `SequencedFeed`; the book set and both programs; the proofs about the
book; then the bytes (`Framer`, `FileBuffer`, `ItchDecoder`, `FramedDecode`, `OrderWord`), sessions and wrapping
sequence numbers (`MoldSessions`), the wire joined to the books (`WireBook` with `LossyFile`), time (`Pacing`,
`TscClock`, `LatencyRecorder`), descriptors (`Sockets`) and the capture tool.

Next of the model: `BookSet` over `OrderIndex`, the book with the table in place of the map, so that the
pointer that `find` returns lives across a call of the book.

Done of the proofs, besides the book: the index with its refinement, the feed handler, the Mold path with
its refinement, the wire's books, the decoder under any packets, the file with its framer, and the other
parts of `MCParts`.

Next of the proofs: that the book over the table refines the book over the map, once it is modelled
(`IsAMap` is the half of it about the table).
