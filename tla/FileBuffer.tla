----------------------------- MODULE FileBuffer -----------------------------
(***************************************************************************)
(* read_file (src/common/file_buffer.cc), which both programs get their    *)
(* recorded file from: the size is taken when the file is opened, and the  *)
(* bytes are read after that, by as many reads as the stream library       *)
(* likes.  Meanwhile a recorder may still append to the file, or start it  *)
(* anew.                                                                   *)
(***************************************************************************)
EXTENDS Integers, Sequences, SequencesExt

CONSTANTS
  Recordings,  \* what recorders write, as sequences of bytes
  Restarts     \* the recordings that a file is started anew with, at most once

VARIABLES
  file,        \* the bytes of the file, now
  recording,   \* the recording that is being written: the file is a prefix of it
  shrunk,      \* the file was started anew since it was opened
  held,        \* each position's bytes, ever
  call         \* read_file: where it stands, the buffer, how much of it was read

fileVars == <<file, recording, shrunk, held, call>>

Longest(S) == CHOOSE n \in {Len(r) : r \in S} : \A r \in S : Len(r) <= n

\* A byte of a new vector, before anything is read into it.
Zero == 0

FileInit ==
  /\ recording \in Recordings
  /\ \E n \in 0 .. Len(recording) : file = SubSeq(recording, 1, n)
  /\ shrunk = FALSE
  /\ held = [i \in 1 .. Longest(Recordings \cup Restarts) |->
               IF i <= Len(file) THEN {file[i]} ELSE {}]
  /\ call = [pc |-> "open", buffer |-> << >>, read |-> 0]

-----------------------------------------------------------------------------
(***************************************************************************)
(* The recorder, until the file has been read.                             *)
(***************************************************************************)
Followed == call.pc \in {"open", "reading"}

Grow ==
  /\ Followed /\ Len(file) < Len(recording)
  /\ LET next == Len(file) + 1
     IN  /\ file' = Append(file, recording[next])
         /\ held' = [held EXCEPT ![next] = @ \cup {recording[next]}]
  /\ UNCHANGED <<recording, shrunk, call>>

StartAnew ==
  /\ Followed /\ recording \notin Restarts
  /\ recording' \in Restarts /\ file' = << >> /\ shrunk' = TRUE
  /\ UNCHANGED <<held, call>>

-----------------------------------------------------------------------------
Goto(pc) == call' = [call EXCEPT !.pc = pc]

\* The size and the buffer.  A file that cannot be opened, or has no size, is an error.
OpenFile ==
  /\ call.pc = "open"
  /\ \/ Goto("throw")
     \/ call' = [call EXCEPT !.pc = "reading", !.buffer = [i \in 1 .. Len(file) |-> Zero]]
  /\ shrunk' = FALSE
  /\ UNCHANGED <<file, recording, held>>

\* What is left to read, when the file still has bytes there.
Available == Len(file) - call.read

Read ==
  /\ call.pc = "reading" /\ call.read < Len(call.buffer)
  /\ \E n \in 1 .. Len(call.buffer) - call.read :
       /\ n <= Available
       /\ call' = [call EXCEPT
                     !.read = @ + n,
                     !.buffer = [i \in DOMAIN @ |->
                                   IF i \in call.read + 1 .. call.read + n THEN file[i] ELSE @[i]]]
  /\ UNCHANGED <<file, recording, shrunk, held>>

\* Mutant of Short: the result of the read is not looked at.
ShortIgnored == /\ call.pc = "reading" /\ call.read < Len(call.buffer) /\ Available <= 0
                /\ Goto("returned") /\ UNCHANGED <<file, recording, shrunk, held>>

\* The end of the file came before the size it had, or the read failed.
Short ==
  /\ call.pc = "reading" /\ call.read < Len(call.buffer)
  /\ Goto("throw") /\ UNCHANGED <<file, recording, shrunk, held>>

Whole ==
  /\ call.pc = "reading" /\ call.read = Len(call.buffer)
  /\ Goto("returned") /\ UNCHANGED <<file, recording, shrunk, held>>

FileNext == Grow \/ StartAnew \/ OpenFile \/ Read \/ Short \/ Whole

-----------------------------------------------------------------------------
\* A file that is only appended to is read as it stood when it was opened, a prefix of it.
ReadsAPrefix == call.pc = "returned" /\ ~shrunk => IsPrefix(call.buffer, recording)

\* No byte of a returned buffer is one that the file never had at that place: a file cut
\* short while it is read is an error, not a tail of zeros, at which the framer would stop
\* as at the end of a file.
NoMadeUpBytes ==
  call.pc = "returned" => \A i \in DOMAIN call.buffer : call.buffer[i] \in held[i]
=============================================================================
