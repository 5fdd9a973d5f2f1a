-------------------------- MODULE FeedHandlerProofs --------------------------
(***************************************************************************)
(* The feed handler's audit and the agreement of the two switches, for     *)
(* every set of locates, references, sides, prices and quantities, every   *)
(* window size and every file.  The invariant says of each book what       *)
(* BookProofs proves of one, of the table that the books no directory      *)
(* message named are untouched, of the audit that what came in less what   *)
(* left is what rests as long as no replace was refused for the null       *)
(* reference, and of the replay that it holds the same books and the same  *)
(* verdicts as long as no check stopped the feed handler.                  *)
(***************************************************************************)
EXTENDS FeedHandler, BookProofs

-----------------------------------------------------------------------------
(***************************************************************************)
(* The table of books.                                                     *)
(***************************************************************************)
SetInv(s) ==
  /\ s = [books |-> s.books, known |-> s.known, registered |-> s.registered]
  /\ IsFiniteSet(DOMAIN s.books)
  /\ \A l \in DOMAIN s.books : BookInv(s.books[l])
  /\ \A l \in DOMAIN s.books : l \notin s.known => s.books[l] = NewBook
  /\ s.known \subseteq DOMAIN s.books
  /\ s.registered = Cardinality(s.known)

\* The table seen as an order map with one order per book, so that the facts about
\* totals of OrdersProofs apply to it.
Purse(s) ==
  [l \in DOMAIN s.books |-> [side |-> "Buy", price |-> 0, qty |-> s.books[l].order_shares]]

\* resting_shares() is the total of that map.
LEMMA RestingIsTotal ==
  ASSUME NEW s, SetInv(s)
  PROVE  IsOrderMap(Purse(s)) /\ RestingShares(s) = SumAll(Purse(s))
<1>1. \A l \in DOMAIN s.books : s.books[l].order_shares \in Nat
  <2> TAKE l \in DOMAIN s.books
  <2>1. IsBook(s.books[l])
    BY BookInvIsBook DEF SetInv
  <2> QED
    BY <2>1 DEF IsBook
<1>2. Purse(s) \in [DOMAIN s.books -> OrderType]
  BY <1>1 DEF Purse, OrderType, Sides
<1>3. IsOrderMap(Purse(s))
  BY <1>2 DEF IsOrderMap, SetInv
<1>4. DOMAIN Purse(s) = DOMAIN s.books
      /\ \A l \in DOMAIN s.books : Purse(s)[l].qty = s.books[l].order_shares
  BY DEF Purse
<1>5. SharesHeld(Purse(s), DOMAIN Purse(s))
        = UNION {{l} \X (1 .. s.books[l].order_shares) : l \in DOMAIN s.books}
  BY <1>4 DEF SharesHeld
<1> QED
  BY <1>3, <1>5 DEF SumAll, Total, RestingShares

\* A changed book moves the total by its own change.
LEMMA SetBookMoves ==
  ASSUME NEW s, SetInv(s), NEW l \in s.known, NEW b, BookInv(b),
         NEW t, t = SetBook(s, l, b)
  PROVE  /\ SetInv(t) /\ t.known = s.known /\ t.registered = s.registered
         /\ s.books[l].order_shares \in Nat /\ b.order_shares \in Nat
         /\ RestingShares(s) \in Nat /\ RestingShares(t) \in Nat
         /\ RestingShares(t) = RestingShares(s) - s.books[l].order_shares + b.order_shares
<1>1. l \in DOMAIN s.books
  BY DEF SetInv
<1> DEFINE f == [s.books EXCEPT ![l] = b]
<1>2. t = [books |-> f, known |-> s.known, registered |-> s.registered]
  BY DEF SetBook, SetInv
<1>3. DOMAIN f = DOMAIN s.books /\ f[l] = b /\ \A k \in DOMAIN f : k # l => f[k] = s.books[k]
  BY <1>1
<1> HIDE DEF f
<1>4. t.books = f /\ t.known = s.known /\ t.registered = s.registered
  BY <1>2
<1>5. SetInv(t)
  <2>1. t = [books |-> t.books, known |-> t.known, registered |-> t.registered]
    BY <1>2, <1>4
  <2>2. \A k \in DOMAIN f : BookInv(f[k]) /\ (k \notin s.known => f[k] = NewBook)
    BY <1>3 DEF SetInv
  <2> QED
    BY <1>3, <1>4, <2>1, <2>2 DEF SetInv
<1>6. IsOrderMap(Purse(s)) /\ IsOrderMap(Purse(t)) /\ DifferAt(Purse(s), Purse(t), l)
  BY <1>3, <1>4, <1>5, RestingIsTotal DEF DifferAt, Purse
<1>7. QtyOf(Purse(s), l) = s.books[l].order_shares /\ QtyOf(Purse(t), l) = b.order_shares
  BY <1>1, <1>3, <1>4 DEF QtyOf, Purse
<1>8. /\ SumAll(Purse(s)) \in Nat /\ SumAll(Purse(t)) \in Nat
      /\ SumAll(Purse(t)) = SumAll(Purse(s)) - s.books[l].order_shares + b.order_shares
  BY <1>6, <1>7, SumsChangeAll
<1>9. /\ RestingShares(s) \in Nat /\ RestingShares(t) \in Nat
      /\ RestingShares(t) = RestingShares(s) - s.books[l].order_shares + b.order_shares
  BY <1>5, <1>8, RestingIsTotal
<1>10. s.books[l].order_shares \in Nat /\ b.order_shares \in Nat
  BY <1>1, BookInvIsBook DEF SetInv, IsBook
<1> QED
  BY <1>4, <1>5, <1>9, <1>10

\* A stock directory message adds empty books only: nothing more rests than before.
LEMMA DirectoryMoves ==
  ASSUME NEW s, SetInv(s), NEW locate \in Nat, NEW t, t = OnStockDirectory(s, locate)
  PROVE  SetInv(t) /\ RestingShares(t) = RestingShares(s)
<1> DEFINE D == DOMAIN s.books \cup 0 .. locate
           f == [l \in D |-> IF l \in DOMAIN s.books THEN s.books[l] ELSE NewBook]
           known == s.known \cup {locate}
           n == IF locate \in s.known THEN s.registered ELSE s.registered + 1
<1>1. t = [books |-> f, known |-> known, registered |-> n]
  BY DEF OnStockDirectory
<1>2. /\ DOMAIN f = D /\ locate \in D
      /\ \A l \in DOMAIN s.books : l \in D /\ f[l] = s.books[l]
      /\ \A l \in D : l \notin DOMAIN s.books => f[l] = NewBook
  OBVIOUS
<1>3. IsFiniteSet(D)
  <2>1. IsFiniteSet(0 .. locate)
    BY FS_Interval
  <2> QED
    BY <2>1, FS_Union DEF SetInv
<1>4. n = Cardinality(known)
  <2>1. IsFiniteSet(s.known)
    BY FS_Subset DEF SetInv
  <2>2. Cardinality(known) = IF locate \in s.known THEN Cardinality(s.known)
                             ELSE Cardinality(s.known) + 1
    BY <2>1, FS_AddElement
  <2> QED
    BY <2>2 DEF SetInv
<1> HIDE DEF f, n, D
<1>5. t.books = f /\ t.known = known /\ t.registered = n
  BY <1>1
<1>6. SetInv(t)
  <2>1. t = [books |-> t.books, known |-> t.known, registered |-> t.registered]
    BY <1>1, <1>5
  <2>2. \A l \in D : BookInv(f[l])
    BY <1>2, NewBookInv DEF SetInv
  <2>3. \A l \in D : l \notin known => f[l] = NewBook
    BY <1>2 DEF SetInv
  <2>4. known \subseteq D
    BY <1>2 DEF SetInv
  <2> HIDE DEF known
  <2> QED
    BY <1>2, <1>3, <1>4, <1>5, <2>1, <2>2, <2>3, <2>4 DEF SetInv
<1>7. RestingShares(t) = RestingShares(s)
  <2> DEFINE X(l) == {l} \X (1 .. s.books[l].order_shares)
             Y(l) == {l} \X (1 .. f[l].order_shares)
  <2>1. \A l \in DOMAIN s.books : Y(l) = X(l)
    BY <1>2
  <2>2. ASSUME NEW l \in D, l \notin DOMAIN s.books PROVE Y(l) = {}
    <3>1. f[l].order_shares = 0
      BY <1>2, <2>2 DEF NewBook
    <3>2. 1 .. f[l].order_shares = {}
      BY <3>1
    <3> QED
      BY <3>2
  <2>3. DOMAIN s.books \subseteq D
    BY <1>2
  <2> HIDE DEF X, Y
  <2>4. UNION {Y(l) : l \in D} = UNION {X(l) : l \in DOMAIN s.books}
    BY <2>1, <2>2, <2>3
  <2> QED
    BY <1>2, <1>5, <2>4 DEF RestingShares, X, Y
<1> QED
  BY <1>6, <1>7

\* A new table.
LEMMA NewBookSetInv ==
  SetInv(NewBookSet) /\ RestingShares(NewBookSet) = 0
<1>1. DOMAIN NewBookSet.books = {} /\ NewBookSet.known = {} /\ NewBookSet.registered = 0
  BY DEF NewBookSet
<1>2. NewBookSet = [books |-> NewBookSet.books, known |-> NewBookSet.known,
                    registered |-> NewBookSet.registered]
  BY DEF NewBookSet
<1>3. IsFiniteSet({}) /\ Cardinality({}) = 0
  BY FS_EmptySet
<1>4. UNION {{l} \X (1 .. NewBookSet.books[l].order_shares) : l \in DOMAIN NewBookSet.books} = {}
  BY <1>1
<1> QED
  BY <1>1, <1>2, <1>3, <1>4 DEF SetInv, RestingShares

-----------------------------------------------------------------------------
(***************************************************************************)
(* One message on one book.                                                *)
(***************************************************************************)
\* A verdict under which a book may have lost an order: that of a replace to the null
\* reference (run MCOrderBookNullRef).
MayLose(result) == NullRef \in Refs /\ result = "DuplicateRef"

\* What an entry of the audit says of the book before and after it.
Accounts(b, e) ==
  /\ BookInv(e.done.book) /\ e.done.result \in ApplyResults
  /\ {e.added, e.executed, e.cancelled, e.deleted} \subseteq Int
  /\ b.order_shares \in Nat
  /\ MayLose(e.done.result) \/ e.done.book.order_shares
       = b.order_shares + e.added - e.executed - e.cancelled - e.deleted

\* A replace to the null reference is refused, and changes nothing if there is no original.
LEMMA NullReplaceMoves ==
  ASSUME NEW b, BookInv(b), NEW ref, NEW n \in Nat, NEW price \in Nat,
         NEW r, r = BookReplace(b, ref, NullRef, n, price)
  PROVE  /\ BookInv(r.book) /\ r.result \in ApplyResults
         /\ r.result = "DuplicateRef" \/ (r.result = "UnknownRef" /\ r.book = b)
<1>1. BookInv(r.book) /\ r.result \in ApplyResults
  BY BookReplaceInv
<1>2. r.result = "DuplicateRef" \/ (r.result = "UnknownRef" /\ r.book = b)
  BY DEF BookReplace, BookAdd, Insertable, Done
<1> QED
  BY <1>1, <1>2

\* The two switches make the same call on the book, and what the feed handler's adds to
\* the audit is what the book gained and lost.
LEMMA ApplyAccounts ==
  ASSUME NEW b, BookInv(b), NEW m \in Messages, MovesBook(m), NEW e, e = FeedApply(b, m)
  PROVE  e.done = ReplayApply(b, m) /\ Accounts(b, e)
<1> DEFINE held == SharesOf(b, m.order_ref)
<1>1. b.order_shares \in Nat /\ QtyOf(b.orders, m.order_ref) \in Nat
      /\ held = QtyOf(b.orders, m.order_ref)
  <2>1. DifferAt(b.orders, b.orders, m.order_ref)
    BY DEF DifferAt
  <2>2. held = QtyOf(b.orders, m.order_ref)
    BY DEF SharesOf, Live, QtyOf
  <2> QED
    BY <2>1, <2>2, OneOrderMoved
<1>2. CASE m.type = "A"
  <2> DEFINE d == BookAdd(b, m.order_ref, m.side, m.shares, m.price)
             n == IF d.result = "Applied" THEN m.shares ELSE 0
  <2>1. m.side \in Sides /\ m.shares \in Nat /\ m.price \in Nat
    BY <1>2, FileAssumption DEF Messages
  <2>2. e = Entry(d, n, 0, 0, 0) /\ d = ReplayApply(b, m)
    BY <1>2 DEF FeedApply, ReplayApply
  <2>3. /\ BookInv(d.book) /\ d.result \in ApplyResults
        /\ d.result = "Applied" => d.book.order_shares = b.order_shares + m.shares
        /\ d.result # "Applied" => d.book = b
    <3>1. d = BookAdd(b, m.order_ref, m.side, m.shares, m.price)
      OBVIOUS
    <3> HIDE DEF d
    <3>2. IsAdded(b, m.order_ref, m.shares, d)
      BY <2>1, <3>1, AddMoves
    <3> QED
      BY <3>2 DEF IsAdded
  <2>4. n \in Int /\ d.book.order_shares = b.order_shares + n
    BY <1>1, <2>1, <2>3
  <2>5. e.done = d /\ e.added = n /\ e.executed = 0 /\ e.cancelled = 0 /\ e.deleted = 0
    BY <2>2 DEF Entry
  <2> HIDE DEF d, n
  <2> QED
    BY <1>1, <2>2, <2>3, <2>4, <2>5 DEF Accounts
<1>3. CASE m.type \in {"E", "X"}
  <2> DEFINE d == BookReduce(b, m.order_ref, m.shares)
             n == held - SharesOf(d.book, m.order_ref)
  <2>1. m.shares \in Nat
    BY <1>3, FileAssumption DEF Messages
  <2>2. e \in {Entry(d, 0, n, 0, 0), Entry(d, 0, 0, n, 0)} /\ d = ReplayApply(b, m)
    BY <1>3 DEF FeedApply, ReplayApply
  <2>3. /\ BookInv(d.book) /\ d.result \in ApplyResults
        /\ DifferAt(b.orders, d.book.orders, m.order_ref)
    BY <2>1, ReduceMoves
  <2>4. SharesOf(d.book, m.order_ref) = QtyOf(d.book.orders, m.order_ref)
    BY DEF SharesOf, Live, QtyOf
  <2> HIDE DEF d
  <2>5. /\ QtyOf(d.book.orders, m.order_ref) \in Nat
        /\ d.book.order_shares = b.order_shares - QtyOf(b.orders, m.order_ref)
                                   + QtyOf(d.book.orders, m.order_ref)
    BY <2>3, OneOrderMoved
  <2>6. n \in Int /\ d.book.order_shares = b.order_shares - n
    BY <1>1, <2>4, <2>5
  <2> HIDE DEF n
  <2>7. /\ e.done = d /\ e.added = 0 /\ e.deleted = 0
        /\ (e.executed = n /\ e.cancelled = 0) \/ (e.executed = 0 /\ e.cancelled = n)
    BY <2>2 DEF Entry
  <2> QED
    BY <1>1, <2>2, <2>3, <2>6, <2>7 DEF Accounts
<1>4. CASE m.type = "D"
  <2> DEFINE d == BookRemove(b, m.order_ref)
  <2>1. e = Entry(d, 0, 0, 0, held) /\ d = ReplayApply(b, m)
    BY <1>4 DEF FeedApply, ReplayApply
  <2>2. /\ BookInv(d.book) /\ d.result \in ApplyResults
        /\ d.book.order_shares = b.order_shares - QtyOf(b.orders, m.order_ref)
    BY RemoveMoves
  <2>3. e.done = d /\ e.added = 0 /\ e.executed = 0 /\ e.cancelled = 0 /\ e.deleted = held
    BY <2>1 DEF Entry
  <2> HIDE DEF d, held
  <2> QED
    BY <1>1, <2>1, <2>2, <2>3 DEF Accounts
<1>5. CASE m.type = "U"
  <2> DEFINE d == BookReplace(b, m.order_ref, m.new_order_ref, m.shares, m.price)
             n == IF d.result = "Applied" THEN m.shares ELSE 0
             k == IF d.result = "Applied" THEN held ELSE 0
  <2>1. m.shares \in Nat /\ m.price \in Nat /\ m.new_order_ref \in Refs
    BY <1>5, FileAssumption DEF Messages
  <2>2. e = Entry(d, n, 0, 0, k) /\ d = ReplayApply(b, m)
    BY <1>5 DEF FeedApply, ReplayApply
  <2>3. /\ BookInv(d.book) /\ d.result \in ApplyResults
        /\ \/ MayLose(d.result)
           \/ /\ d.result = "Applied" => d.book.order_shares
                   = b.order_shares - QtyOf(b.orders, m.order_ref) + m.shares
              /\ d.result # "Applied" => d.book = b
    <3>1. CASE m.new_order_ref # NullRef
      BY <2>1, <3>1, ReplaceMoves
    <3>2. CASE m.new_order_ref = NullRef
      <4>1. d = BookReplace(b, m.order_ref, NullRef, m.shares, m.price)
        BY <3>2
      <4> HIDE DEF d
      <4>2. /\ BookInv(d.book) /\ d.result \in ApplyResults
            /\ d.result = "DuplicateRef" \/ (d.result = "UnknownRef" /\ d.book = b)
        BY <2>1, <4>1, NullReplaceMoves
      <4> QED
        BY <2>1, <3>2, <4>2 DEF MayLose
    <3> QED
      BY <3>1, <3>2
  <2> HIDE DEF held
  <2>4. /\ n \in Int /\ k \in Int
        /\ MayLose(d.result) \/ d.book.order_shares = b.order_shares + n - k
    BY <1>1, <2>1, <2>3
  <2>5. e.done = d /\ e.added = n /\ e.executed = 0 /\ e.cancelled = 0 /\ e.deleted = k
    BY <2>2 DEF Entry
  <2> HIDE DEF d, n, k
  <2> QED
    BY <1>1, <2>2, <2>3, <2>4, <2>5 DEF Accounts
<1> QED
  BY <1>2, <1>3, <1>4, <1>5 DEF MovesBook

-----------------------------------------------------------------------------
(***************************************************************************)
(* One message on the feed handler and on the replay.                      *)
(***************************************************************************)
FeedShape(h) ==
  h = [interval |-> h.interval, set |-> h.set, messages |-> h.messages,
       unknown_type |-> h.unknown_type, length_mismatch |-> h.length_mismatch,
       unknown_locate |-> h.unknown_locate, invariants_ok |-> h.invariants_ok,
       tally |-> h.tally, added |-> h.added, executed |-> h.executed,
       cancelled |-> h.cancelled, deleted |-> h.deleted]

ReplayShape(r) ==
  r = [set |-> r.set, messages |-> r.messages, unknown_type |-> r.unknown_type,
       length_mismatch |-> r.length_mismatch, unknown_locate |-> r.unknown_locate,
       tally |-> r.tally]

\* The audit balances.
Balances(h) == RestingShares(h.set) = h.added - h.executed - h.cancelled - h.deleted

\* The audit's sums are numbers, and they balance unless an order may have been lost.
Audited(h) ==
  /\ {h.added, h.executed, h.cancelled, h.deleted} \subseteq Int
  /\ h.tally \in [ApplyResults -> Nat]
  /\ NullRef \notin Refs \/ h.tally["DuplicateRef"] = 0 => Balances(h)

\* The replay shows what the feed handler shows.
SameAs(h, r) ==
  /\ h.set = r.set /\ h.tally = r.tally
  /\ h.unknown_type = r.unknown_type /\ h.unknown_locate = r.unknown_locate
  /\ h.length_mismatch = r.length_mismatch

\* What holds while no check has stopped the feed handler.
Handled(h, r) ==
  /\ FeedShape(h) /\ ReplayShape(r)
  /\ SetInv(h.set) /\ h.invariants_ok = TRUE
  /\ Audited(h) /\ SameAs(h, r)

\* What holds once one has: it was a sampled one, and it found a level without shares.
Stopped(h) ==
  /\ FeedShape(h)
  /\ SetInv(h.set) /\ h.invariants_ok = FALSE
  /\ Audited(h) /\ h.interval # 0 /\ ~EveryLevelFull(h.set)

\* With the invariant, levels without shares are all that the full check can find wrong.
LEMMA SetChecks ==
  ASSUME NEW s, SetInv(s)
  PROVE  CheckBookSet(s) <=> EveryLevelFull(s)
BY BookInvChecks DEF SetInv, CheckBookSet, EveryLevelFull

\* The check per message finds nothing: what it compares is right in every book.
LEMMA TouchedHolds ==
  ASSUME NEW h, SetInv(h.set), NEW m
  PROVE  TouchedIsSound(h, m)
<1>1. ASSUME Known(h.set, m.locate) PROVE CheckBookFast(h.set.books[m.locate])
  <2>1. BookInv(h.set.books[m.locate])
    BY <1>1 DEF Known, SetInv
  <2> QED
    BY <2>1 DEF BookInv, CheckBookFast, NumAll
<1> QED
  BY <1>1 DEF TouchedIsSound

\* The checks after a message let the feed handler go on or stop it.
LEMMA Checked ==
  ASSUME NEW h, NEW r, Handled(h, r), NEW m, NEW g, g = CheckAfter(h, m)
  PROVE  Handled(g, r) \/ Stopped(g)
<1>1. TouchedIsSound(h, m)
  BY TouchedHolds DEF Handled
<1>2. CASE SampleIsSound(h)
  BY <1>1, <1>2 DEF CheckAfter
<1>3. CASE ~SampleIsSound(h)
  <2>1. h.interval # 0 /\ ~EveryLevelFull(h.set)
    BY <1>3, SetChecks DEF SampleIsSound, Handled
  <2>2. g = [h EXCEPT !.invariants_ok = FALSE]
    BY <1>3 DEF CheckAfter
  <2>3. /\ FeedShape(g) /\ g.set = h.set /\ g.invariants_ok = FALSE /\ g.interval = h.interval
        /\ g.tally = h.tally /\ g.added = h.added
        /\ g.executed = h.executed /\ g.cancelled = h.cancelled /\ g.deleted = h.deleted
    BY <2>2 DEF FeedShape, Handled
  <2> QED
    BY <2>1, <2>3 DEF Handled, Stopped, Audited, Balances
<1> QED
  BY <1>2, <1>3

\* A message that moves a book.
LEMMA OrderHandled ==
  ASSUME NEW h, NEW r, Handled(h, r), NEW m \in Messages, MovesBook(m),
         NEW g, g = FeedOrder(h, m), NEW q, q = ReplayOrder(r, m)
  PROVE  Handled(g, q)
<1>0. /\ FeedShape(h) /\ ReplayShape(r) /\ SetInv(h.set) /\ h.invariants_ok = TRUE
      /\ Audited(h) /\ SameAs(h, r)
  BY DEF Handled
<1>1. CASE ~Known(h.set, m.locate)
  <2> DEFINE k == h.unknown_locate + 1
  <2>1. g = [h EXCEPT !.unknown_locate = k] /\ q = [r EXCEPT !.unknown_locate = k]
    BY <1>0, <1>1 DEF FeedOrder, ReplayOrder, SameAs
  <2> HIDE DEF k
  <2>2. /\ FeedShape(g) /\ g.set = h.set /\ g.invariants_ok = h.invariants_ok
        /\ g.tally = h.tally /\ g.unknown_type = h.unknown_type /\ g.unknown_locate = k
        /\ g.length_mismatch = h.length_mismatch /\ g.added = h.added
        /\ g.executed = h.executed /\ g.cancelled = h.cancelled /\ g.deleted = h.deleted
    BY <1>0, <2>1 DEF FeedShape
  <2>3. /\ ReplayShape(q) /\ q.set = r.set /\ q.tally = r.tally
        /\ q.unknown_type = r.unknown_type /\ q.unknown_locate = k
        /\ q.length_mismatch = r.length_mismatch
    BY <1>0, <2>1 DEF ReplayShape
  <2> QED
    BY <1>0, <2>2, <2>3 DEF Handled, Audited, Balances, SameAs
<1>2. CASE Known(h.set, m.locate)
  <2> DEFINE b == h.set.books[m.locate]
             e == FeedApply(b, m)
             d == ReplayApply(b, m)
             s == SetBook(h.set, m.locate, d.book)
             tally == [h.tally EXCEPT ![d.result] = @ + 1]
             w == h.added + e.added
             x == h.executed + e.executed
             y == h.cancelled + e.cancelled
             z == h.deleted + e.deleted
  <2>1. m.locate \in h.set.known /\ m.locate \in DOMAIN h.set.books /\ BookInv(b)
    BY <1>0, <1>2 DEF Known, SetInv
  <2>2. e.done = d /\ Accounts(b, e)
    BY <2>1, ApplyAccounts
  <2>3. g = [h EXCEPT !.set = s, !.tally = tally, !.added = w, !.executed = x,
                      !.cancelled = y, !.deleted = z]
    <3>1. g = [h EXCEPT !.set = SetBook(@, m.locate, e.done.book),
                        !.tally[e.done.result] = @ + 1,
                        !.added = @ + e.added, !.executed = @ + e.executed,
                        !.cancelled = @ + e.cancelled, !.deleted = @ + e.deleted]
      BY <1>2 DEF FeedOrder
    <3> HIDE DEF e, d
    <3>2. g = [h EXCEPT !.set = SetBook(@, m.locate, d.book),
                        !.tally[d.result] = @ + 1,
                        !.added = @ + e.added, !.executed = @ + e.executed,
                        !.cancelled = @ + e.cancelled, !.deleted = @ + e.deleted]
      BY <2>2, <3>1, Zenon
    <3> QED
      BY <1>0, <3>2 DEF FeedShape
  <2>4. q = [r EXCEPT !.set = s, !.tally = tally]
    <3>1. q = [r EXCEPT !.set = SetBook(@, m.locate, d.book), !.tally[d.result] = @ + 1]
      BY <1>0, <1>2 DEF ReplayOrder, SameAs
    <3> HIDE DEF d
    <3> QED
      BY <1>0, <3>1 DEF SameAs, ReplayShape
  <2>5. BookInv(d.book)
    BY <2>2 DEF Accounts
  <2>6. /\ SetInv(s) /\ b.order_shares \in Nat /\ d.book.order_shares \in Nat
        /\ RestingShares(h.set) \in Nat
        /\ RestingShares(s) = RestingShares(h.set) - b.order_shares + d.book.order_shares
    <3> HIDE DEF d
    <3> QED
      BY <1>0, <2>1, <2>5, SetBookMoves
  <2>7. /\ tally \in [ApplyResults -> Nat]
        /\ tally["DuplicateRef"] = 0 => h.tally["DuplicateRef"] = 0 /\ d.result # "DuplicateRef"
    <3>1. h.tally \in [ApplyResults -> Nat] /\ d.result \in ApplyResults
      BY <1>0, <2>2 DEF Audited, Accounts
    <3>2. "DuplicateRef" \in ApplyResults
      BY DEF ApplyResults
    <3> HIDE DEF d
    <3> QED
      BY <3>1, <3>2
  <2> HIDE DEF s, d, e, b, tally
  <2>8. /\ {w, x, y, z} \subseteq Int
        /\ NullRef \notin Refs \/ tally["DuplicateRef"] = 0 => RestingShares(s) = w - x - y - z
    <3>1. /\ e.added \in Int /\ e.executed \in Int /\ e.cancelled \in Int /\ e.deleted \in Int
          /\ h.added \in Int /\ h.executed \in Int /\ h.cancelled \in Int /\ h.deleted \in Int
      BY <1>0, <2>2 DEF Accounts, Audited
    <3>2. ASSUME NullRef \notin Refs \/ tally["DuplicateRef"] = 0
          PROVE  RestingShares(s) = w - x - y - z
      <4>1. d.book.order_shares
                = b.order_shares + e.added - e.executed - e.cancelled - e.deleted
        BY <2>2, <2>7, <3>2 DEF Accounts, MayLose
      <4>2. RestingShares(h.set) = h.added - h.executed - h.cancelled - h.deleted
        BY <1>0, <2>7, <3>2 DEF Audited, Balances
      <4> QED
        BY <2>6, <3>1, <4>1, <4>2
    <3>3. w \in Int /\ x \in Int /\ y \in Int /\ z \in Int
      BY <3>1
    <3> QED
      BY <3>2, <3>3
  <2> HIDE DEF w, x, y, z
  <2>9. /\ FeedShape(g) /\ g.set = s /\ g.invariants_ok = h.invariants_ok
        /\ g.tally = tally /\ g.unknown_type = h.unknown_type
        /\ g.unknown_locate = h.unknown_locate
        /\ g.length_mismatch = h.length_mismatch /\ g.added = w
        /\ g.executed = x /\ g.cancelled = y /\ g.deleted = z
    BY <1>0, <2>3 DEF FeedShape
  <2>10. /\ ReplayShape(q) /\ q.set = s /\ q.tally = tally
         /\ q.unknown_type = r.unknown_type /\ q.unknown_locate = r.unknown_locate
         /\ q.length_mismatch = r.length_mismatch
    BY <1>0, <2>4 DEF ReplayShape
  <2>11. Audited(g)
    BY <2>7, <2>8, <2>9 DEF Audited, Balances
  <2> QED
    BY <1>0, <2>6, <2>9, <2>10, <2>11 DEF Handled, SameAs
<1> QED
  BY <1>1, <1>2

\* Any message leaves the audit balanced and the two switches in step, or its check fails.
LEMMA MessageHandled ==
  ASSUME NEW h, NEW r, Handled(h, r), NEW m \in Messages,
         NEW g, g = FeedMessage(h, m), NEW q, q = ReplayMessage(r, m)
  PROVE  Handled(g, q) \/ Stopped(g)
<1>0. /\ FeedShape(h) /\ ReplayShape(r) /\ SetInv(h.set) /\ h.invariants_ok = TRUE
      /\ Audited(h) /\ SameAs(h, r)
  BY DEF Handled
<1> DEFINE wrong == IF m.type # "unknown" /\ ~m.length_ok
                    THEN h.length_mismatch + 1 ELSE h.length_mismatch
           k == h.messages + 1
           j == r.messages + 1
           h0 == [h EXCEPT !.messages = k, !.length_mismatch = wrong]
           r0 == [r EXCEPT !.messages = j, !.length_mismatch = wrong]
<1>1. /\ h0 = [h EXCEPT !.messages = @ + 1,
                        !.length_mismatch = IF m.type # "unknown" /\ ~m.length_ok
                                            THEN @ + 1 ELSE @]
      /\ r0 = [r EXCEPT !.messages = @ + 1,
                        !.length_mismatch = IF m.type # "unknown" /\ ~m.length_ok
                                            THEN @ + 1 ELSE @]
  BY <1>0 DEF SameAs
<1>2. g = CASE m.type = "unknown" -> [h0 EXCEPT !.unknown_type = @ + 1]
            [] m.type = "R" -> [h0 EXCEPT !.set = OnStockDirectory(@, m.locate)]
            [] m.type = "other" -> CheckAfter(h0, m)
            [] MovesBook(m) -> CheckAfter(FeedOrder(h0, m), m)
  <2> HIDE DEF h0
  <2> QED
    BY <1>1 DEF FeedMessage
<1>3. q = CASE m.type = "unknown" -> [r0 EXCEPT !.unknown_type = @ + 1]
            [] m.type = "R" -> [r0 EXCEPT !.set = OnStockDirectory(@, m.locate)]
            [] m.type = "other" -> r0
            [] MovesBook(m) -> ReplayOrder(r0, m)
  <2> HIDE DEF r0
  <2> QED
    BY <1>1 DEF ReplayMessage
<1> HIDE DEF wrong, k, j
<1>a. /\ h0 = [h EXCEPT !.messages = k, !.length_mismatch = wrong]
      /\ r0 = [r EXCEPT !.messages = j, !.length_mismatch = wrong]
  OBVIOUS
<1> HIDE DEF h0, r0
<1>4. /\ FeedShape(h0) /\ h0.set = h.set /\ h0.invariants_ok = TRUE
      /\ h0.tally = h.tally /\ h0.unknown_type = h.unknown_type
      /\ h0.unknown_locate = h.unknown_locate /\ h0.length_mismatch = wrong
      /\ h0.added = h.added /\ h0.executed = h.executed
      /\ h0.cancelled = h.cancelled /\ h0.deleted = h.deleted
  BY <1>0, <1>a DEF FeedShape
<1>5. /\ ReplayShape(r0) /\ r0.set = r.set /\ r0.tally = r.tally
      /\ r0.unknown_type = r.unknown_type
      /\ r0.unknown_locate = r.unknown_locate /\ r0.length_mismatch = wrong
  BY <1>0, <1>a DEF ReplayShape
<1>6. Handled(h0, r0)
  BY <1>0, <1>4, <1>5 DEF Handled, Audited, Balances, SameAs
<1>7. CASE m.type = "unknown"
  <2> DEFINE n == h0.unknown_type + 1
  <2>1. g = [h0 EXCEPT !.unknown_type = n] /\ q = [r0 EXCEPT !.unknown_type = n]
    BY <1>0, <1>2, <1>3, <1>4, <1>5, <1>7 DEF SameAs, MovesBook
  <2> HIDE DEF n
  <2>2. /\ FeedShape(g) /\ g.set = h0.set /\ g.invariants_ok = h0.invariants_ok
        /\ g.tally = h0.tally /\ g.unknown_type = n /\ g.unknown_locate = h0.unknown_locate
        /\ g.length_mismatch = h0.length_mismatch /\ g.added = h0.added
        /\ g.executed = h0.executed /\ g.cancelled = h0.cancelled /\ g.deleted = h0.deleted
    BY <1>4, <2>1 DEF FeedShape
  <2>3. /\ ReplayShape(q) /\ q.set = r0.set /\ q.tally = r0.tally
        /\ q.unknown_type = n /\ q.unknown_locate = r0.unknown_locate
        /\ q.length_mismatch = r0.length_mismatch
    BY <1>5, <2>1 DEF ReplayShape
  <2> QED
    BY <1>4, <1>6, <2>2, <2>3 DEF Handled, Audited, Balances, SameAs
<1>8. CASE m.type = "R"
  <2> DEFINE s == OnStockDirectory(h.set, m.locate)
  <2>1. m.locate \in Nat
    BY <1>8, FileAssumption DEF Messages
  <2>2. SetInv(s) /\ RestingShares(s) = RestingShares(h.set)
    BY <1>0, <2>1, DirectoryMoves
  <2>3. g = [h0 EXCEPT !.set = s] /\ q = [r0 EXCEPT !.set = s]
    BY <1>0, <1>2, <1>3, <1>4, <1>5, <1>8 DEF SameAs, MovesBook
  <2> HIDE DEF s
  <2>4. /\ FeedShape(g) /\ g.set = s /\ g.invariants_ok = h0.invariants_ok
        /\ g.tally = h0.tally /\ g.unknown_type = h0.unknown_type
        /\ g.unknown_locate = h0.unknown_locate
        /\ g.length_mismatch = h0.length_mismatch /\ g.added = h0.added
        /\ g.executed = h0.executed /\ g.cancelled = h0.cancelled /\ g.deleted = h0.deleted
    BY <1>4, <2>3 DEF FeedShape
  <2>5. /\ ReplayShape(q) /\ q.set = s /\ q.tally = r0.tally
        /\ q.unknown_type = r0.unknown_type /\ q.unknown_locate = r0.unknown_locate
        /\ q.length_mismatch = r0.length_mismatch
    BY <1>5, <2>3 DEF ReplayShape
  <2>6. Audited(g)
    BY <1>4, <1>6, <2>2, <2>4 DEF Handled, Audited, Balances
  <2> QED
    BY <1>4, <1>6, <2>2, <2>4, <2>5, <2>6 DEF Handled, SameAs
<1>9. CASE m.type = "other"
  <2>1. g = CheckAfter(h0, m) /\ q = r0
    BY <1>2, <1>3, <1>9 DEF MovesBook
  <2> QED
    BY <1>6, <2>1, Checked
<1>10. CASE MovesBook(m)
  <2> DEFINE a == FeedOrder(h0, m)
  <2>1. q = ReplayOrder(r0, m) /\ g = CheckAfter(a, m)
    BY <1>2, <1>3, <1>10 DEF MovesBook
  <2>2. Handled(a, q)
    BY <1>6, <1>10, <2>1, OrderHandled
  <2> HIDE DEF a
  <2> QED
    BY <2>1, <2>2, Checked
<1> QED
  BY <1>7, <1>8, <1>9, <1>10 DEF Messages, MovesBook

-----------------------------------------------------------------------------
(***************************************************************************)
(* The theorems.  They hold for every file, but for one: a replace that    *)
(* names the reference which marks an empty slot of the index loses the    *)
(* original's shares (run MCOrderBookNullRef), so that what was added and  *)
(* what left balance only while no message names it.                       *)
(***************************************************************************)
HandlerInv == Handled(feed, replay) \/ Stopped(feed)

\* Before the first message.
LEMMA InitHandled == Init => HandlerInv
<1> SUFFICES ASSUME Init PROVE HandlerInv
  OBVIOUS
<1>1. PICK interval \in Intervals : feed = NewFeed(interval) /\ replay = NewReplay
  BY DEF Init
<1>2. SetInv(NewBookSet) /\ RestingShares(NewBookSet) = 0
  BY NewBookSetInv
<1>3. /\ FeedShape(feed) /\ feed.set = NewBookSet /\ feed.invariants_ok = TRUE
      /\ feed.tally = NoTally /\ feed.unknown_type = 0 /\ feed.unknown_locate = 0
      /\ feed.length_mismatch = 0 /\ feed.added = 0 /\ feed.executed = 0
      /\ feed.cancelled = 0 /\ feed.deleted = 0
  BY <1>1 DEF NewFeed, FeedShape
<1>4. /\ ReplayShape(replay) /\ replay.set = NewBookSet /\ replay.tally = NoTally
      /\ replay.unknown_type = 0 /\ replay.unknown_locate = 0 /\ replay.length_mismatch = 0
  BY <1>1 DEF NewReplay, ReplayShape
<1>5. NoTally \in [ApplyResults -> Nat]
  BY DEF NoTally
<1> QED
  BY <1>2, <1>3, <1>4, <1>5 DEF HandlerInv, Handled, Audited, Balances, SameAs

\* Every message preserves the invariant.
LEMMA NextHandled == HandlerInv /\ [Next]_feedVars => HandlerInv'
<1> SUFFICES ASSUME HandlerInv, [Next]_feedVars PROVE HandlerInv'
  OBVIOUS
<1>1. ASSUME NEW m \in Messages, NextMessage(m) PROVE HandlerInv'
  <2>1. CASE Handled(feed, replay)
    <3>1. feed' = FeedMessage(feed, m) /\ replay' = ReplayMessage(replay, m)
      BY <1>1, <2>1 DEF NextMessage, Handled
    <3>2. Handled(feed', replay') \/ Stopped(feed')
      BY <2>1, <3>1, MessageHandled
    <3> QED
      BY <3>2 DEF HandlerInv
  <2>2. CASE Stopped(feed)
    <3>1. feed' = feed
      BY <1>1, <2>2 DEF NextMessage, Stopped
    <3> QED
      BY <2>2, <3>1 DEF HandlerInv
  <2> QED
    BY <2>1, <2>2 DEF HandlerInv
<1>2. CASE UNCHANGED feedVars
  BY <1>2 DEF feedVars, HandlerInv
<1> QED
  BY <1>1, <1>2 DEF Next

\* The invariant of the feed handler and the replay, for every file and every build.
THEOREM HandlerInvariance == Spec => []HandlerInv
<1>1. Init => HandlerInv
  BY InitHandled
<1>2. HandlerInv /\ [Next]_feedVars => HandlerInv'
  BY NextHandled
<1> QED
  BY <1>1, <1>2, PTL DEF Spec

\* main.cc:276-279: every share that entered has left or rests, after every message,
\* whatever was clamped, refused, of zero shares or addressed to a book that is not there.
THEOREM Conserved ==
  ASSUME NullRef \notin Refs
  PROVE  Spec => []SharesConserved
<1>1. HandlerInv => SharesConserved
  BY DEF HandlerInv, Handled, Stopped, Audited, Balances, SharesConserved, ExpectedResting
<1>2. Spec => []HandlerInv
  BY HandlerInvariance
<1> QED
  BY <1>1, <1>2, PTL

\* replay.h:53-56: as long as no check stops the feed handler, both programs build the same
\* books with the same verdicts; and it exits with 0 exactly when no check stopped it, the
\* replay of the file is clean and knew every type, and no level is left without shares.
\* No assumption on the file: a reference that a replace loses is one that it refused, and
\* neither program overlooks a refusal.
THEOREM InStep == Spec => []SwitchesAgree
<1>1. ASSUME Handled(feed, replay) PROVE SwitchesAgree
  <2>1. SetInv(feed.set) /\ feed.invariants_ok = TRUE /\ Audited(feed) /\ SameAs(feed, replay)
    BY <1>1 DEF Handled
  <2>2. CheckBookSet(feed.set) <=> EveryLevelFull(replay.set)
    BY <2>1, SetChecks DEF SameAs
  <2>3. "DuplicateRef" \in ApplyResults \ {"Applied"}
    BY DEF ApplyResults
  <2>4. feed.tally["DuplicateRef"] = 0 => RestingShares(feed.set) = ExpectedResting
    BY <2>1 DEF Audited, Balances, ExpectedResting
  <2>5. ExitsClean <=>
          feed.invariants_ok /\ Clean(replay) /\ replay.unknown_type = 0
            /\ EveryLevelFull(replay.set)
    BY <2>1, <2>2, <2>3, <2>4 DEF ExitsClean, Clean, SameAs
  <2> QED
    BY <2>1, <2>5 DEF SwitchesAgree, SameAs
<1>2. ASSUME Stopped(feed) PROVE SwitchesAgree
  BY <1>2 DEF Stopped, SwitchesAgree, ExitsClean
<1>3. HandlerInv => SwitchesAgree
  BY <1>1, <1>2 DEF HandlerInv
<1>4. Spec => []HandlerInv
  BY HandlerInvariance
<1> QED
  BY <1>3, <1>4, PTL

\* Levels without shares are all that a check ever finds, only a sampled check of a debug
\* build stops the feed handler for them, and no book holds anything that no directory
\* message named.  No assumption on the file.
THEOREM Unbroken == Spec => []NeverBreaks
<1>1. HandlerInv => NeverBreaks
  BY SetChecks DEF HandlerInv, Handled, Stopped, SetInv, NeverBreaks, UnnamedBooksStayEmpty
<1>2. Spec => []HandlerInv
  BY HandlerInvariance
<1> QED
  BY <1>1, <1>2, PTL
=============================================================================
