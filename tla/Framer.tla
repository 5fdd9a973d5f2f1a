------------------------------- MODULE Framer -------------------------------
(***************************************************************************)
(* The walk over length-prefixed messages (src/itch/framing.h, framing.cc) *)
(* that every reader of a file and the MoldUDP64 decoder share, and the    *)
(* layout of a block as the packer writes it.                              *)
(*                                                                         *)
(* Bytes are numbers below kByte (256 in the code) and sizes are numbers   *)
(* modulo kSizes (2^64), so that a bound that relies on an addition or a   *)
(* subtraction that wraps shows.  Offsets count from 0, as in the code.    *)
(***************************************************************************)
EXTENDS Integers, Sequences

CONSTANTS
  kByte,      \* values of a byte
  kSizes      \* values of size_t

ASSUME FramerAssumption == kByte \in Nat \ {0, 1} /\ kSizes \in Nat \ {0}

Minus(a, b) == (a - b) % kSizes

be16(buf, pos) == buf[pos + 1] * kByte + buf[pos + 2]

\* The n bytes from offset pos on.
Bytes(buf, pos, n) == SubSeq(buf, pos + 1, pos + n)

-----------------------------------------------------------------------------
Remaining(buf, pos) == Minus(Len(buf), pos)

\* Mutant of BlockFits: the bound as an addition, which wraps.
BlockFitsAdding(buf, pos) == (pos + 2 + be16(buf, pos)) % kSizes <= Len(buf)

BlockFits(buf, pos) == Minus(Remaining(buf, pos), 2) >= be16(buf, pos)

\* next() returns true: a whole, non-empty message follows.
HasNext(buf, pos) ==
  /\ Remaining(buf, pos) >= 2
  /\ be16(buf, pos) # 0
  /\ BlockFits(buf, pos)

\* The view that next() hands out, and where it leaves the walk.
View(buf, pos) == [data |-> pos + 2, size |-> be16(buf, pos)]

After(buf, pos) == (pos + 2 + be16(buf, pos)) % kSizes

Exhausted(buf, pos) == pos = Len(buf)

\* What a whole walk hands out: `while (framer.next(mv))' as one operator.
Walk(buf) ==
  LET from[p \in 0 .. Len(buf)] ==
        IF HasNext(buf, p) THEN <<View(buf, p)>> \o from[After(buf, p)] ELSE << >>
  IN  from[0]

-----------------------------------------------------------------------------
(***************************************************************************)
(* A reader's loop over one buffer.                                        *)
(***************************************************************************)
VARIABLES
  pos,                \* pos_
  views,              \* the views handed out so far
  done                \* next() has returned false

walkVars == <<pos, views, done>>

WalkInit == pos = 0 /\ views = << >> /\ done = FALSE

NextMessage(buf) ==
  /\ ~done /\ HasNext(buf, pos)
  /\ views' = Append(views, View(buf, pos))
  /\ pos' = After(buf, pos)
  /\ UNCHANGED done

End(buf) ==
  /\ ~done /\ ~HasNext(buf, pos)
  /\ done' = TRUE
  /\ UNCHANGED <<pos, views>>

-----------------------------------------------------------------------------
(***************************************************************************)
(* The reference: a buffer is a concatenation of blocks, each the length   *)
(* of a message in two bytes, high byte first, and the message             *)
(* (Packer::try_add), up to where no block starts.                         *)
(***************************************************************************)
Block(msg) == <<Len(msg) \div kByte, Len(msg) % kByte>> \o msg

Blocks(msgs) ==
  LET upto[k \in 0 .. Len(msgs)] == IF k = 0 THEN << >> ELSE upto[k - 1] \o Block(msgs[k])
  IN  upto[Len(msgs)]
=============================================================================
