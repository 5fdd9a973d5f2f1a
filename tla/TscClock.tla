------------------------------ MODULE TscClock ------------------------------
(***************************************************************************)
(* The calibration of the measurement clock (src/common/timing.cc): two    *)
(* readings of the wall clock around two readings of the time stamp        *)
(* counter around a sleep.  The system may hold up the caller between any  *)
(* two of them.                                                            *)
(*                                                                         *)
(* Time is in ticks of an invariant counter, kTicks of which are a         *)
(* nanosecond; the wall clock shows whole nanoseconds.                     *)
(***************************************************************************)
EXTENDS Integers, Sequences

CONSTANTS
  kTicks,       \* ticks in a nanosecond
  Window,       \* nanoseconds that the calibration sleeps
  MaxTime       \* bound on the time

ASSUME TscAssumption == kTicks \in Nat \ {0} /\ Window \in Nat /\ MaxTime \in Nat

VARIABLES
  time,         \* the counter
  wall,         \* wall_start and wall_end, once they are read
  tsc,          \* tsc_start and tsc_end, once they are read
  resume,       \* when the sleep may end, once it has begun
  delay          \* ticks that passed between a reading of one clock and its neighbour

tscVars == <<time, wall, tsc, resume, delay>>

-----------------------------------------------------------------------------
TscInit == time \in 0 .. kTicks - 1 /\ wall = << >> /\ tsc = << >> /\ resume = -1 /\ delay = 0

\* Mutant of Order: the wall clock is read inside the readings of the counter.
OrderInside == <<"tsc", "wall", "sleep", "wall", "tsc">>

\* The calls of calibrate(), in the order of the text.
Order == <<"wall", "tsc", "sleep", "tsc", "wall">>

\* How many of the calls have been made.
CallsMade == Len(wall) + Len(tsc) + (IF resume >= 0 THEN 1 ELSE 0)

May(call) == CallsMade < 5 /\ Order[CallsMade + 1] = call

ReadWall ==
  /\ May("wall") /\ time >= resume
  /\ wall' = Append(wall, time \div kTicks)
  /\ UNCHANGED <<time, tsc, resume, delay>>

ReadTsc ==
  /\ May("tsc") /\ time >= resume
  /\ tsc' = Append(tsc, time)
  /\ UNCHANGED <<time, wall, resume, delay>>

Sleep ==
  /\ May("sleep")
  /\ resume' = time + Window * kTicks
  /\ UNCHANGED <<time, wall, tsc, delay>>

Tick ==
  /\ time < MaxTime /\ time' = time + 1
  /\ delay' = IF Len(wall) # Len(tsc) THEN delay + 1 ELSE delay
  /\ UNCHANGED <<wall, tsc, resume>>

TscNext == ReadWall \/ ReadTsc \/ Sleep \/ Tick

TscSpec == TscInit /\ [][TscNext]_tscVars

-----------------------------------------------------------------------------
Calibrated == Len(wall) = 2 /\ Len(tsc) = 2

ElapsedNs == wall[2] - wall[1]
ElapsedTicks == tsc[2] - tsc[1]

\* A clock that could not be calibrated converts everything to 0.
Usable == ElapsedTicks # 0 /\ ElapsedNs > 0

to_ns(ticks) == IF Usable THEN (ticks * ElapsedNs) \div ElapsedTicks ELSE 0

-----------------------------------------------------------------------------
\* timing.cc:50-54: the elapsed wall time is never smaller than the ticks it is divided
\* into (but for the fraction of a nanosecond that the wall clock does not show), so that
\* no duration within the window is reported shorter than it was; and it is too long by no
\* more than what passed between the neighbouring readings.
NeverFlatters ==
  Calibrated /\ Usable =>
    /\ \A ticks \in 0 .. ElapsedTicks : to_ns(ticks) + 1 >= ticks \div kTicks
    /\ ElapsedNs * kTicks < ElapsedTicks + delay + kTicks
=============================================================================
