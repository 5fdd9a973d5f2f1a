------------------------------ MODULE WireBook ------------------------------
(***************************************************************************)
(* The books at the end of the wire: the replayer sends a file, the        *)
(* network loses, duplicates and reorders, the receiver feeds the decoder, *)
(* and the decoder's sink folds each message it is handed into the books   *)
(* by the same dispatch that the offline walk of the file uses             *)
(* (src/book/replay.h:48-55, replay.cc).                                   *)
(***************************************************************************)
EXTENDS MoldFeed, BookReplay

CONSTANT File       \* the messages of the file; Sizes has their lengths

ASSUME FileAssumption == Len(File) = Len(Sizes)

VARIABLE wired      \* the books of the sink and its ReplayStats

wireVars == <<tx, wire, rx, dec, sunk, extra, late, wired>>

-----------------------------------------------------------------------------
\* The messages that got a sequence number, in its order.
Stream == [n \in 1 .. Len(Packed) |-> File[Packed[n]]]

\* The fold of a sequence of messages of the file, given by their places in it.
FoldBlocks(r, blocks) ==
  LET upto[k \in 0 .. Len(blocks)] ==
        IF k = 0 THEN r ELSE ReplayMessage(upto[k - 1], File[blocks[k]])
  IN  upto[Len(blocks)]

\* The sink, called for each block of a packet that the decoder delivers.
Sink(r, blocks) == FoldBlocks(r, blocks)

WireInit == FeedInit /\ wired = NewReplay

WireNext ==
  /\ FeedNext
  /\ wired' = IF Len(sunk') = Len(sunk) THEN wired ELSE Sink(wired, sunk'[Len(sunk')].blocks)

WireSpec == WireInit /\ [][WireNext]_wireVars

\* The replayer's loop waits for nothing but the rate limiter, whose waits end.  Nothing is
\* asked of the receiver: its recvfrom has no timeout, and may never return.
LiveWireSpec == WireSpec /\ WF_feedVars(Replay)

-----------------------------------------------------------------------------
\* replay.h:51-54, a book built from a file and one built from a socket cannot drift
\* apart: as long as the decoder joined at the first message and counts no message as
\* missing, the books are those of the file up to there, verdicts included; and if the end
\* of session was seen too, they are those of all the replayer read and could pack.
WireBookIsFileBook ==
  dec.gap_messages = 0 /\ Joined = 1 =>
    /\ wired = FoldBlocks(NewReplay, SubSeq(Packed, 1, dec.messages))
    /\ dec.eos => dec.messages = tx.messages_packed

\* Whatever the network does, the books are those of the file with the messages left out
\* that the decoder counts as missing or that preceded the first packet it saw: a packet is
\* folded in whole, in order, and once.
BooksOfLossyFile == INSTANCE LossyFile WITH
  Start <- NewReplay, Apply <- ReplayMessage,
  position <- IF dec.started THEN dec.expected ELSE 1,
  skipped <- dec.gap_messages + (IF dec.started THEN Joined - 1 ELSE 0),
  folded <- wired

ImplementsLossyFile == BooksOfLossyFile!Spec
=============================================================================
