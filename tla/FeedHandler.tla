---------------------------- MODULE FeedHandler ----------------------------
(***************************************************************************)
(* The two programs' loops that fold a stream of ITCH messages into books: *)
(* the feed handler (apps/feed_handler/main.cc), which audits the stream   *)
(* as it goes, and the replay (BookReplay), which only counts.             *)
(* Each has its own switch over the message types; here both are fed the   *)
(* same file.                                                              *)
(*                                                                         *)
(* Any message may come next, the locate and the references included.      *)
(* Type "A" stands for 'A' and 'F', "E" for 'E' and 'C', "other" for the    *)
(* known types that move no book, "unknown" for every other type byte.  A  *)
(* message of the wrong length is decoded all the same, from whatever      *)
(* bytes follow: its fields are as arbitrary as any other's.               *)
(***************************************************************************)
EXTENDS BookReplay

CONSTANTS
  Locates,      \* stock locates that messages name
  Refs, AddSides, Prices, AddShares, CutShares,    \* as in OrderBook
  Intervals,    \* messages between two sampled checks of a debug build; 0, a release build
  MaxMessages   \* length of the file

ASSUME FileAssumption ==
  /\ Locates \subseteq Nat /\ Intervals \subseteq Nat /\ MaxMessages \in Nat
  /\ AddSides \subseteq Sides /\ Prices \subseteq Nat
  /\ AddShares \subseteq Nat /\ CutShares \subseteq Nat

VARIABLES
  feed,         \* the feed handler's locals
  replay        \* the replay's book set and ReplayStats

feedVars == <<feed, replay>>

-----------------------------------------------------------------------------
Messages ==
       [type : {"unknown", "other", "R"}, length_ok : BOOLEAN, locate : Locates]
  \cup [type : {"A"}, length_ok : BOOLEAN, locate : Locates, order_ref : Refs,
        side : AddSides, shares : AddShares, price : Prices]
  \cup [type : {"E", "X"}, length_ok : BOOLEAN, locate : Locates, order_ref : Refs,
        shares : CutShares]
  \cup [type : {"D"}, length_ok : BOOLEAN, locate : Locates, order_ref : Refs]
  \cup [type : {"U"}, length_ok : BOOLEAN, locate : Locates, order_ref : Refs,
        new_order_ref : Refs, shares : AddShares, price : Prices]

SharesOf(b, ref) == IF Live(b, ref) THEN b.orders[ref].qty ELSE 0

-----------------------------------------------------------------------------
(***************************************************************************)
(* The feed handler.                                                       *)
(***************************************************************************)
NewFeed(interval) ==
  [interval |-> interval, set |-> NewBookSet, messages |-> 0, unknown_type |-> 0,
   length_mismatch |-> 0, unknown_locate |-> 0, invariants_ok |-> TRUE, tally |-> NoTally,
   added |-> 0, executed |-> 0, cancelled |-> 0, deleted |-> 0]

\* The switch: the call each type makes on the book, and what it adds to the audit.  What
\* left the book is measured on the book, not taken from the message.
Entry(d, added, executed, cancelled, deleted) ==
  [done |-> d, added |-> added, executed |-> executed, cancelled |-> cancelled,
   deleted |-> deleted]

\* Mutant of FeedApply: the audit believes the message, not the book.
FeedApplyBelievesMessage(b, m) ==
  LET add == BookAdd(b, m.order_ref, m.side, m.shares, m.price)
      cut == BookReduce(b, m.order_ref, m.shares)
      replaced == BookReplace(b, m.order_ref, m.new_order_ref, m.shares, m.price)
      held == SharesOf(b, m.order_ref)
      applied(d, n) == IF d.result \in {"Applied", "ClampedReduce"} THEN n ELSE 0
  IN  CASE m.type = "A" -> Entry(add, applied(add, m.shares), 0, 0, 0)
        [] m.type = "E" -> Entry(cut, 0, applied(cut, m.shares), 0, 0)
        [] m.type = "X" -> Entry(cut, 0, 0, applied(cut, m.shares), 0)
        [] m.type = "D" -> Entry(BookRemove(b, m.order_ref), 0, 0, 0, held)
        [] m.type = "U" -> Entry(replaced, applied(replaced, m.shares), 0, 0,
                                 applied(replaced, held))

FeedApply(b, m) ==
  LET held == SharesOf(b, m.order_ref)
      left(d) == held - SharesOf(d.book, m.order_ref)
      applied(d, n) == IF d.result = "Applied" THEN n ELSE 0
      add == BookAdd(b, m.order_ref, m.side, m.shares, m.price)
      cut == BookReduce(b, m.order_ref, m.shares)
      replaced == BookReplace(b, m.order_ref, m.new_order_ref, m.shares, m.price)
  IN  CASE m.type = "A" -> Entry(add, applied(add, m.shares), 0, 0, 0)
        [] m.type = "E" -> Entry(cut, 0, left(cut), 0, 0)
        [] m.type = "X" -> Entry(cut, 0, 0, left(cut), 0)
        [] m.type = "D" -> Entry(BookRemove(b, m.order_ref), 0, 0, 0, held)
        [] m.type = "U" -> Entry(replaced, applied(replaced, m.shares), 0, 0,
                                 applied(replaced, held))

\* After each message that reached the switch, the book it names is checked by its counters.
TouchedIsSound(h, m) == Known(h.set, m.locate) => CheckBookFast(h.set.books[m.locate])

\* A debug build rebuilds all books as well, once in kInvariantInterval messages.
SampleIsSound(h) ==
  h.interval # 0 /\ h.messages % h.interval = 0 => CheckBookSet(h.set)

CheckAfter(h, m) ==
  IF TouchedIsSound(h, m) /\ SampleIsSound(h) THEN h ELSE [h EXCEPT !.invariants_ok = FALSE]

FeedOrder(h, m) ==
  IF ~Known(h.set, m.locate) THEN [h EXCEPT !.unknown_locate = @ + 1]
  ELSE LET e == FeedApply(h.set.books[m.locate], m)
       IN  [h EXCEPT !.set = SetBook(@, m.locate, e.done.book),
                     !.tally[e.done.result] = @ + 1,
                     !.added = @ + e.added, !.executed = @ + e.executed,
                     !.cancelled = @ + e.cancelled, !.deleted = @ + e.deleted]

FeedMessage(before, m) ==
  LET h == [before EXCEPT !.messages = @ + 1,
                          !.length_mismatch = IF m.type # "unknown" /\ ~m.length_ok
                                              THEN @ + 1 ELSE @]
  IN  CASE m.type = "unknown" -> [h EXCEPT !.unknown_type = @ + 1]
        [] m.type = "R" -> [h EXCEPT !.set = OnStockDirectory(@, m.locate)]
        [] m.type = "other" -> CheckAfter(h, m)
        [] MovesBook(m) -> CheckAfter(FeedOrder(h, m), m)

ExpectedResting == feed.added - feed.executed - feed.cancelled - feed.deleted

\* The exit status is 0.
ExitsClean ==
  /\ feed.invariants_ok /\ CheckBookSet(feed.set)
  /\ RestingShares(feed.set) = ExpectedResting
  /\ feed.unknown_type = 0 /\ feed.length_mismatch = 0 /\ feed.unknown_locate = 0
  /\ \A r \in ApplyResults \ {"Applied"} : feed.tally[r] = 0

-----------------------------------------------------------------------------
Init == feed \in {NewFeed(interval) : interval \in Intervals} /\ replay = NewReplay

\* Both read the next message of the file; the feed handler stops at a broken invariant.
NextMessage(m) ==
  /\ replay.messages < MaxMessages
  /\ replay' = ReplayMessage(replay, m)
  /\ feed' = IF feed.invariants_ok THEN FeedMessage(feed, m) ELSE feed

Next == \E m \in Messages : NextMessage(m)

Spec == Init /\ [][Next]_feedVars

-----------------------------------------------------------------------------
\* main.cc:276-279: every share that entered through an add or a replace has left through
\* an execution, a cancel or a delete, or is still resting.
SharesConserved == RestingShares(feed.set) = ExpectedResting

\* Every book that was named has shares in every level.
EveryLevelFull(s) == \A l \in s.known : FullLevels(s.books[l])

\* replay.h:53-56: the feed handler's switch and the replay's build the same books from
\* the same file and give each message the same verdict, as long as no check stops the feed
\* handler.  They judge the file alike but for two things: a message of an unknown type does
\* not make a replay dirty (replay.h:31-36), and a replay has no checks, which a level of
\* zero-share orders fails.  Either makes the feed handler exit with 1; nothing else does
\* that a clean replay does not show.
SwitchesAgree ==
  /\ feed.invariants_ok =>
       /\ feed.set = replay.set /\ feed.tally = replay.tally
       /\ feed.unknown_type = replay.unknown_type
       /\ feed.unknown_locate = replay.unknown_locate
       /\ feed.length_mismatch = replay.length_mismatch
  /\ ExitsClean <=>
       /\ feed.invariants_ok /\ Clean(replay)
       /\ replay.unknown_type = 0 /\ EveryLevelFull(replay.set)

\* check_invariants looks at known books only, resting_shares() sums all of them: the
\* books that a resize created on the way to a higher locate must stay empty.
UnnamedBooksStayEmpty ==
  /\ \A l \in DOMAIN feed.set.books : l \notin feed.set.known => feed.set.books[l] = NewBook
  /\ feed.set.known \subseteq DOMAIN feed.set.books
  /\ feed.set.registered = Cardinality(feed.set.known)

\* Whatever comes off the wire, null references and zero shares included: the check per
\* message never stops the feed handler half way; the full check fails for the levels of
\* zero-share orders and for nothing else, so that only these can stop a debug build; and no
\* book that was not named holds an order.
NeverBreaks ==
  /\ feed.invariants_ok \/ (feed.interval # 0 /\ ~EveryLevelFull(feed.set))
  /\ CheckBookSet(feed.set) <=> EveryLevelFull(feed.set)
  /\ UnnamedBooksStayEmpty
=============================================================================
