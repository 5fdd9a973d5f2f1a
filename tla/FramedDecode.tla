---------------------------- MODULE FramedDecode ----------------------------
(***************************************************************************)
(* Where the framer's promise meets the decoder's reads: apply_message     *)
(* (src/book/replay.cc) and the loop of the feed handler                   *)
(* (apps/feed_handler/main.cc) take a view that the framer handed out,     *)
(* compare its size with the table, count a mismatch, and decode the       *)
(* message all the same; the readers of fields look at no length.          *)
(*                                                                         *)
(* A file is a sequence of messages, of which only the type and the size   *)
(* are kept; of each the bytes that one of the two read are remembered.    *)
(***************************************************************************)
EXTENDS ItchDecoder, Sequences

CONSTANT MaxMessages      \* messages in the file

VARIABLES
  framed,          \* [type, size] of the views so far
  reads,           \* the offsets read in each
  length_mismatch

replayVars == <<framed, reads, length_mismatch>>

MaxSize == 45      \* one more than the longest message in the table

kBehind == 8       \* how far behind the end of a message a read is looked for

-----------------------------------------------------------------------------
MovesBook(t) == t \in {"A", "F", "E", "C", "X", "D", "U"}

BytesOf(f) == f.at .. f.at + f.width - 1

\* The replay decodes the directory and, when the locate in their header is known, the types
\* that move a book; of the others it looks at nothing but the type.
FieldsReplayed(t, known) ==
  CASE t = "R" -> Fields(t)
    [] MovesBook(t) -> IF known THEN Fields(t) ELSE HeaderFields
    [] OTHER -> {}

\* The feed handler decodes all of these before it asks whether the locate is known, and
\* routes every other known type by its header.
FieldsHandled(t) == IF t = "R" \/ MovesBook(t) THEN Fields(t) ELSE HeaderFields

ReadsOf(fields) == {0} \cup UNION {BytesOf(f) : f \in fields}

ReplayInit == framed = << >> /\ reads = << >> /\ length_mismatch = 0

\* A message of a known type.  The framer hands out no empty view.
ReadMessage(t, size, fields) ==
  /\ Len(framed) < MaxMessages
  /\ framed' = Append(framed, [type |-> t, size |-> size])
  /\ length_mismatch' = IF expected_length[t] # size THEN length_mismatch + 1
                        ELSE length_mismatch
  /\ reads' = Append(reads, ReadsOf(fields))

ReplayNext ==
  \E t \in DOMAIN expected_length, size \in 1 .. MaxSize :
    \/ \E known \in BOOLEAN : ReadMessage(t, size, FieldsReplayed(t, known))
    \/ ReadMessage(t, size, FieldsHandled(t))

ReplaySpec == ReplayInit /\ [][ReplayNext]_replayVars

-----------------------------------------------------------------------------
ReadWithinView == \A k \in DOMAIN framed : reads[k] \subseteq 0 .. framed[k].size - 1

\* A file without a length mismatch (which clean() and exit status 0 require) is read within
\* the messages that were handed out: the books are the file's and not the neighbours'.
CleanReadsItsOwn == length_mismatch = 0 => ReadWithinView

\* framing.h:23-25: "Because the walker has proved that size bytes are present before handing
\* out a view, the byte readers stay noexcept and unchecked."
ReadsWhatWasFramed == ReadWithinView

\* The offsets of the decoder and the table of lengths, written in two files, agree: each
\* byte of a message of its expected length, but for those deliberately not read, reaches
\* exactly one member, with the weight of its place there and not cut off; and none of the
\* kBehind bytes behind the end reaches any, so that a length that was checked makes the
\* unchecked reads safe.
EachByteOnce ==
  \A k \in DOMAIN framed : framed[k].type \in Decoded =>
    LET t == framed[k].type
        body == 1 .. expected_length[t] - 1 \ Unread(t)
        bytes == 0 .. expected_length[t] + kBehind
        Only(p) == [i \in bytes |-> IF i = p THEN 1 ELSE 0]
        Seen(p) == {f \in Fields(t) : Value(f, Only(p)) # 0}
    IN  \A p \in bytes :
          IF p \in body
          THEN \E f \in Fields(t) :
                 /\ Seen(p) = {f}
                 /\ Value(f, Only(p)) = Weight[Cardinality({q \in body : q > p /\ f \in Seen(q)})]
          ELSE Seen(p) = {}
=============================================================================
