----------------------------- MODULE FileReader -----------------------------
(***************************************************************************)
(* How a program gets at the messages of a recorded file, perhaps while it *)
(* is still being recorded: it reads the file into a buffer (FileBuffer),  *)
(* and walks over the buffer (Framer) until next() returns false.          *)
(***************************************************************************)
EXTENDS FileBuffer, Framer

ASSUME RecordingsAreBytes ==
  \A r \in Recordings \cup Restarts :
    r \in Seq(0 .. kByte - 1) /\ Len(r) < kSizes

readerVars == <<fileVars, walkVars>>

ReaderInit == FileInit /\ WalkInit

\* while (framer.next(mv)) over what read_file returned.
WalkNext == call.pc = "returned" /\ (NextMessage(call.buffer) \/ End(call.buffer))

ReaderNext ==
  \/ FileNext /\ UNCHANGED walkVars
  \/ WalkNext /\ UNCHANGED fileVars

ReaderSpec == ReaderInit /\ [][ReaderNext]_readerVars

-----------------------------------------------------------------------------
Contents(v) == Bytes(call.buffer, v.data, v.size)

\* framing.h:26-31: "the walker has proved that size bytes are present before handing out
\* a view"; pos_ <= size_ is what makes the bounds by subtraction safe.
ViewsInBuffer ==
  /\ 0 <= pos /\ pos <= Len(call.buffer)
  /\ \A k \in DOMAIN views :
       views[k].size > 0 /\ views[k].data + views[k].size <= Len(call.buffer)

\* The walk stays inside the buffer and reads back what was packed: the bytes it has
\* consumed are the blocks of the messages it has handed out, and it stops only where no
\* block starts.
ReadsBlocks ==
  /\ ViewsInBuffer
  /\ Bytes(call.buffer, 0, pos) = Blocks([k \in DOMAIN views |-> Contents(views[k])])
  /\ done => \A n \in 1 .. Len(call.buffer) - pos - 2 :
               Bytes(call.buffer, pos, n + 2) # Block(Bytes(call.buffer, pos + 2, n))

\* A file that is read while it is recorded, or that broke off, yields exactly the messages
\* of the recording that were whole when it was opened, and its framing looks exact only if
\* it stood between two messages then.  Whatever happens to the file meanwhile, no byte is
\* made up.
ReadsWholeMessages ==
  /\ ReadsAPrefix /\ NoMadeUpBytes
  /\ done /\ ~shrunk =>
       LET all == Walk(recording)
           last(k) == all[k].data + all[k].size
           n == Len(call.buffer)
           whole == {k \in DOMAIN all : last(k) <= n}
       IN  /\ views = [k \in whole |-> all[k]]
           /\ Exhausted(call.buffer, pos) <=> (n = 0 \/ \E k \in whole : last(k) = n)
=============================================================================
