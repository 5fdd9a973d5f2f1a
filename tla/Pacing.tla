------------------------------- MODULE Pacing -------------------------------
(***************************************************************************)
(* The replayer's rate limiter (src/mold/rate_limiter.h): packet i is due  *)
(* at origin + i * interval, and wait(i) sleeps until shortly before that  *)
(* and spins for the rest.  Time passes between any two steps: the system  *)
(* may take the processor away from the sender anywhere, and a sleep may   *)
(* last longer than it was asked to.                                       *)
(*                                                                         *)
(* Time counts ticks (nanoseconds) from the origin.  The interval is the   *)
(* exact quotient kSecond / Rate; the code has it as a double.             *)
(***************************************************************************)
EXTENDS Integers

CONSTANTS
  kSecond,          \* ticks in a second
  Rate,             \* packets per second
  kSleepThreshold,  \* the last part of a wait, which is not slept
  MaxPackets,       \* packets that are sent
  MaxClock          \* time during which the sender may be held up

ASSUME PacingAssumption ==
  /\ kSecond \in Nat \ {0} /\ Rate \in Nat \ {0}
  /\ kSleepThreshold \in Nat /\ MaxPackets \in Nat /\ MaxClock \in Nat

VARIABLES
  clock,            \* the steady clock
  pc,               \* where the sender is
  index,            \* the packet it will send next: as many have been sent
  now,              \* its last reading of the clock
  wake              \* when its sleep may end

pacingVars == <<clock, pc, index, now, wake>>

-----------------------------------------------------------------------------
\* Mutants of Due: from now on instead of from the origin; a rounded interval.
DueFromNow(i) == IF i = 0 THEN 0 ELSE now + kSecond \div Rate
DueRounded(i) == i * (kSecond \div Rate)

Due(i) == (i * kSecond) \div Rate

PacingInit == clock = 0 /\ pc = "building" /\ index = 0 /\ now = 0 /\ wake = 0

\* Time passes, up to MaxClock or to the end of a sleep.
Pass ==
  /\ clock < MaxClock \/ (pc = "asleep" /\ clock < wake)
  /\ clock' = clock + 1
  /\ UNCHANGED <<pc, index, now, wake>>

\* wait(): reads the clock and decides whether to sleep.
CallWait ==
  /\ pc = "building" /\ index < MaxPackets
  /\ now' = clock
  /\ pc' = IF Due(index) - clock > kSleepThreshold THEN "falling asleep" ELSE "spinning"
  /\ UNCHANGED <<clock, index, wake>>

\* sleep_for(), for as long as was to be slept when the clock was read.
FallAsleep ==
  /\ pc = "falling asleep" /\ pc' = "asleep"
  /\ wake' = clock + (Due(index) - now - kSleepThreshold)
  /\ UNCHANGED <<clock, index, now>>

WakeUp ==
  /\ pc = "asleep" /\ clock >= wake /\ pc' = "spinning"
  /\ UNCHANGED <<clock, index, now, wake>>

\* The spin ends with a reading of the clock that is not before the due time; the packet
\* is sent, or dropped on purpose.
Return ==
  /\ pc = "spinning" /\ clock >= Due(index) /\ pc' = "building"
  /\ now' = clock /\ index' = index + 1
  /\ UNCHANGED <<clock, wake>>

PacingNext == Pass \/ CallWait \/ FallAsleep \/ WakeUp \/ Return

PacingSpec == PacingInit /\ [][PacingNext]_pacingVars

-----------------------------------------------------------------------------
\* The stream is never faster than its rate, counted from the origin: the packets sent
\* after the first have each used up an interval (but for a fraction of a tick).
NeverTooFast == (index - 1) * kSecond < (clock + 1) * Rate

\* rate_limiter.h:12-16: from a fixed origin an overshoot is caught up on the next packet.
\* Whenever the sender is made to wait, nothing that was due before now is outstanding, so
\* however late earlier packets were sent, the delay is not added to the schedule.  And the
\* sleep ends before the packet is due by the part that is spun (line 49), but for what the
\* sender was held up between reading the clock and falling asleep.
WaitsOnlyWhenCaughtUp ==
  /\ pc = "spinning" /\ clock < Due(index) => index * kSecond > clock * Rate
  /\ pc = "asleep" => wake + kSleepThreshold - Due(index) \in 0 .. clock - now
=============================================================================
