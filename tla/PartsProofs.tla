----------------------------- MODULE PartsProofs -----------------------------
(***************************************************************************)
(* The parts that stand alone, each for every value of its constants: the  *)
(* rate limiter, the calibration of the clock, the sockets, the capture    *)
(* tool, the decoder behind the framer, the words of the order index, the  *)
(* latency recorder, the MoldUDP64 decoder under any packets, and the      *)
(* file with its framer.                                                   *)
(***************************************************************************)
EXTENDS FileReader, FramedDecode, OrderWord, Pacing, TscClock, LatencyRecorder, Sockets, Capture,
        MoldSessions, OrdersProofs, SequenceTheorems, WellFoundedInduction

-----------------------------------------------------------------------------
(***************************************************************************)
(* The rate limiter.                                                       *)
(***************************************************************************)
\* A quotient, times what was divided by, is the number but for a remainder.
LEMMA Quotient ==
  ASSUME NEW a \in Nat, NEW n \in Nat \ {0}
  PROVE  a \div n \in Nat /\ (a \div n) * n <= a /\ a < (a \div n) * n + n
<1> DEFINE q == a \div n
<1>1. q \in Int /\ q * n <= a /\ a < q * n + n
  OBVIOUS
<1> HIDE DEF q
<1>2. ASSUME q < 0 PROVE FALSE
  <2>1. q + 1 <= 0
    BY <1>1, <1>2
  <2>2. (q + 1) * n <= 0
    BY <1>1, <2>1
  <2> QED
    BY <1>1, <2>2
<1> QED
  BY <1>1, <1>2 DEF q

\* What is not larger is not larger times a number.
LEMMA Times ==
  ASSUME NEW a \in Int, NEW b \in Int, a <= b, NEW n \in Nat
  PROVE  a * n <= b * n
OBVIOUS

PacingType ==
  /\ clock \in Nat /\ index \in Nat /\ now \in Nat /\ wake \in Int
  /\ pc \in {"building", "falling asleep", "asleep", "spinning"}

\* A sleep is as long as was left when the clock was read.
SleepsRight ==
  /\ pc = "falling asleep" => now <= clock
  /\ pc = "asleep" => wake + kSleepThreshold - Due(index) \in 0 .. clock - now

PacingInv == PacingType /\ NeverTooFast /\ SleepsRight

\* When a packet is due, the packets before it have used up their intervals, and until then
\* they have not.
LEMMA DueIs ==
  ASSUME NEW i \in Nat
  PROVE  /\ Due(i) \in Nat
         /\ \A c \in Nat : c >= Due(i) => i * kSecond < (c + 1) * Rate
         /\ \A c \in Nat : c < Due(i) => i * kSecond > c * Rate
<1> DEFINE a == i * kSecond
<1>1. a \in Nat /\ Rate \in Nat \ {0} /\ Due(i) = a \div Rate
  BY PacingAssumption DEF Due
<1> HIDE DEF a
<1> DEFINE q == a \div Rate
<1>2. q \in Nat /\ q * Rate <= a /\ a < q * Rate + Rate
  BY <1>1, Quotient
<1> HIDE DEF q
<1>3. ASSUME NEW c \in Nat, c >= q PROVE a < (c + 1) * Rate
  <2>1. q * Rate <= c * Rate
    BY <1>1, <1>2, <1>3, Times
  <2>2. (c + 1) * Rate = c * Rate + Rate
    BY <1>1
  <2> QED
    BY <1>1, <1>2, <2>1, <2>2
<1>4. ASSUME NEW c \in Nat, c < q PROVE a > c * Rate
  <2>1. (c + 1) * Rate <= q * Rate
    BY <1>1, <1>2, <1>4, Times
  <2>2. (c + 1) * Rate = c * Rate + Rate
    BY <1>1
  <2> QED
    BY <1>1, <1>2, <2>1, <2>2
<1> QED
  BY <1>1, <1>2, <1>3, <1>4 DEF q, a

\* A step of the limiter keeps its invariant: the clock only moves forward, and a packet is sent
\* only once it was found due.
LEMMA PacingStep ==
  ASSUME PacingInv, [PacingNext]_pacingVars
  PROVE  PacingInv'
<1>1. clock \in Nat /\ index \in Nat /\ now \in Nat /\ wake \in Int
  BY DEF PacingInv, PacingType
<1>2. NeverTooFast /\ SleepsRight /\ PacingType
  BY DEF PacingInv
<1>3. /\ kSecond \in Nat \ {0} /\ Rate \in Nat \ {0} /\ kSleepThreshold \in Nat
      /\ Due(index) \in Nat
  BY <1>1, DueIs, PacingAssumption
<1>4. ASSUME clock' = clock, index' = index PROVE NeverTooFast' /\ Due(index') = Due(index)
  BY <1>2, <1>4 DEF NeverTooFast
<1>5. CASE Pass
  <2>1. clock' = clock + 1 /\ UNCHANGED <<pc, index, now, wake>>
    BY <1>5 DEF Pass
  <2>2. clock + 1 <= clock' + 1 /\ clock + 1 \in Int /\ clock' + 1 \in Int
    BY <1>1, <2>1
  <2>3. (clock + 1) * Rate <= (clock' + 1) * Rate
    BY <1>3, <2>2, Times
  <2> DEFINE x == (index - 1) * kSecond
             y == (clock + 1) * Rate
             z == (clock' + 1) * Rate
  <2>4. index - 1 \in Int
    BY <1>1
  <2>5. x \in Int /\ y \in Int /\ z \in Int
    BY <1>3, <2>2, <2>4
  <2>6. x < y
    BY <1>2 DEF NeverTooFast
  <2>7. x < z
    <3>1. y <= z
      BY <2>3
    <3> HIDE DEF x, y, z
    <3> QED
      BY <2>5, <2>6, <3>1
  <2>8. NeverTooFast'
    BY <2>1, <2>7 DEF NeverTooFast
  <2>9. PacingType'
    <3>1. clock' \in Nat
      BY <1>1, <2>1
    <3> QED
      BY <1>2, <2>1, <3>1 DEF PacingType
  <2>10. SleepsRight'
    <3> DEFINE d == Due(index)
    <3>1. Due(index') = d
      BY <2>1
    <3>2. d \in Nat
      BY <1>3
    <3>3. pc = "asleep" => wake + kSleepThreshold - d \in 0 .. clock - now
      BY <1>2 DEF SleepsRight
    <3> HIDE DEF d
    <3>4. wake + kSleepThreshold - d \in 0 .. clock - now
            => wake + kSleepThreshold - d \in 0 .. clock' - now
      BY <1>1, <1>3, <2>1, <3>2
    <3>5. now <= clock => now <= clock'
      BY <1>1, <2>1
    <3>6. pc = "falling asleep" => now <= clock
      BY <1>2 DEF SleepsRight
    <3> QED
      BY <2>1, <3>1, <3>3, <3>4, <3>5, <3>6 DEF SleepsRight
  <2> QED
    BY <2>8, <2>9, <2>10 DEF PacingInv
<1>6. CASE CallWait
  <2>1. /\ now' = clock /\ UNCHANGED <<clock, index, wake>>
        /\ pc' \in {"falling asleep", "spinning"}
    BY <1>6 DEF CallWait
  <2>2. NeverTooFast'
    BY <1>4, <2>1
  <2>3. PacingType'
    BY <1>1, <2>1 DEF PacingType
  <2>4. now' <= clock'
    <3>1. now' = clock /\ clock' = clock
      BY <2>1
    <3> QED
      BY <1>1, <3>1
  <2>5. SleepsRight'
    BY <2>1, <2>4 DEF SleepsRight
  <2> QED
    BY <2>2, <2>3, <2>5 DEF PacingInv
<1>7. CASE FallAsleep
  <2>1. /\ pc = "falling asleep" /\ pc' = "asleep"
        /\ wake' = clock + (Due(index) - now - kSleepThreshold)
        /\ UNCHANGED <<clock, index, now>>
    BY <1>7 DEF FallAsleep
  <2>2. NeverTooFast' /\ Due(index') = Due(index)
    BY <1>4, <2>1
  <2> DEFINE d == Due(index)
  <2>3. d \in Nat /\ wake' = clock + (d - now - kSleepThreshold) /\ now <= clock
    BY <1>2, <1>3, <2>1 DEF SleepsRight
  <2>4. wake' \in Int /\ wake' + kSleepThreshold - d \in 0 .. clock - now
    <3> HIDE DEF d
    <3> QED
      BY <1>1, <1>3, <2>3
  <2>5. PacingType'
    BY <1>1, <2>1, <2>4 DEF PacingType
  <2>6. SleepsRight'
    BY <2>1, <2>2, <2>4 DEF SleepsRight
  <2> QED
    BY <2>2, <2>5, <2>6 DEF PacingInv
<1>8. CASE WakeUp
  <2>1. pc' = "spinning" /\ UNCHANGED <<clock, index, now, wake>>
    BY <1>8 DEF WakeUp
  <2>2. NeverTooFast' /\ PacingType'
    BY <1>1, <1>4, <2>1 DEF PacingType
  <2>3. SleepsRight'
    BY <2>1 DEF SleepsRight
  <2> QED
    BY <2>2, <2>3 DEF PacingInv
<1>9. CASE Return
  <2>1. /\ clock >= Due(index) /\ pc' = "building"
        /\ now' = clock /\ index' = index + 1 /\ UNCHANGED <<clock, wake>>
    BY <1>9 DEF Return
  <2>2. index * kSecond < (clock + 1) * Rate
    BY <1>1, <2>1, DueIs
  <2>3. index' - 1 = index /\ index' \in Nat
    BY <1>1, <2>1
  <2>4. NeverTooFast'
    BY <2>1, <2>2, <2>3 DEF NeverTooFast
  <2>5. PacingType'
    BY <1>1, <2>1, <2>3 DEF PacingType
  <2>6. SleepsRight'
    BY <2>1 DEF SleepsRight
  <2> QED
    BY <2>4, <2>5, <2>6 DEF PacingInv
<1>10. CASE UNCHANGED pacingVars
  <2>1. UNCHANGED <<clock, pc, index, now, wake>>
    BY <1>10 DEF pacingVars
  <2>2. NeverTooFast' /\ Due(index') = Due(index)
    BY <1>4, <2>1
  <2>3. PacingType' /\ SleepsRight'
    BY <1>2, <2>1, <2>2 DEF PacingType, SleepsRight
  <2> QED
    BY <2>2, <2>3 DEF PacingInv
<1> QED
  BY <1>5, <1>6, <1>7, <1>8, <1>9, <1>10 DEF PacingNext

\* Every behaviour of the limiter stays within its invariant.
LEMMA PacingInvariance == PacingSpec => []PacingInv
<1>1. PacingInit => PacingInv
  BY PacingAssumption DEF PacingInit, PacingInv, PacingType, SleepsRight, NeverTooFast
<1>2. PacingInv /\ [PacingNext]_pacingVars => PacingInv'
  BY PacingStep
<1> QED
  BY <1>1, <1>2, PTL DEF PacingSpec

\* rate_limiter.h: however the sender is held up, the stream is never ahead of its rate.
THEOREM NotAhead == PacingSpec => []NeverTooFast
<1>1. PacingInv => NeverTooFast
  BY DEF PacingInv
<1> QED
  BY <1>1, PacingInvariance, PTL

\* rate_limiter.h:12-16: the sender waits only when it has caught up with the schedule, and
\* a sleep ends as long before the packet is due as is to be spun.
THEOREM CatchesUp == PacingSpec => []WaitsOnlyWhenCaughtUp
<1>1. PacingInv => WaitsOnlyWhenCaughtUp
  <2> SUFFICES ASSUME PacingInv PROVE WaitsOnlyWhenCaughtUp
    OBVIOUS
  <2>1. clock < Due(index) => index * kSecond > clock * Rate
    BY DueIs DEF PacingInv, PacingType
  <2> QED
    BY <2>1 DEF PacingInv, SleepsRight, WaitsOnlyWhenCaughtUp
<1> QED
  BY <1>1, PacingInvariance, PTL

-----------------------------------------------------------------------------
(***************************************************************************)
(* The calibration of the clock.                                           *)
(***************************************************************************)
\* The wall clock shows w at the time t.
Shows(w, t) == t \in Nat /\ w = t \div kTicks

\* How far calibrate() is, and what its readings have to do with each other: the first d
\* ticks of the delay passed before the first reading of the counter, the rest after the
\* second.
NotBegun == wall = << >> /\ tsc = << >> /\ resume < 0 /\ delay = 0

WallRead == Len(wall) = 1 /\ Len(tsc) = 0 /\ resume < 0 /\ Shows(wall[1], time - delay)

Opened == Len(wall) = 1 /\ Len(tsc) = 1 /\ Shows(wall[1], tsc[1] - delay) /\ tsc[1] <= time

Closing ==
  /\ Len(wall) = 1 /\ Len(tsc) = 2 /\ resume >= 0 /\ tsc[1] <= tsc[2]
  /\ \E d \in 0 .. delay : Shows(wall[1], tsc[1] - d) /\ tsc[2] + (delay - d) = time

Finished ==
  /\ Len(wall) = 2 /\ Len(tsc) = 2 /\ resume >= 0 /\ tsc[1] <= tsc[2]
  /\ \E d \in 0 .. delay :
       Shows(wall[1], tsc[1] - d) /\ Shows(wall[2], tsc[2] + (delay - d))

TscType ==
  /\ time \in Nat /\ delay \in Nat /\ resume \in Int
  /\ wall \in Seq(Nat) /\ tsc \in Seq(Nat)

TscInv == TscType /\ (NotBegun \/ WallRead \/ Opened \/ Closing \/ Finished)

\* Two readings are numbers.
LEMMA TwoReadings ==
  ASSUME NEW s \in Seq(Nat), Len(s) = 2
  PROVE  s[1] \in Nat /\ s[2] \in Nat
<1>1. 1 \in 1 .. Len(s) /\ 2 \in 1 .. Len(s)
  OBVIOUS
<1> QED
  BY <1>1, ElementOfSeq

\* The order of the calls says which one is next.
LEMMA NextCall ==
  ASSUME TscInv
  PROVE  /\ May("wall") => NotBegun \/ Closing
         /\ May("tsc") => WallRead \/ (Opened /\ resume >= 0)
         /\ May("sleep") => Opened /\ resume < 0
<1>1. resume \in Int /\ Order = <<"wall", "tsc", "sleep", "tsc", "wall">>
  BY DEF TscInv, TscType, Order
<1>2. CASE NotBegun
  <2>1. CallsMade = 0
    BY <1>1, <1>2 DEF NotBegun, CallsMade
  <2> QED
    BY <1>1, <1>2, <2>1 DEF May
<1>3. CASE WallRead
  <2>1. CallsMade = 1
    BY <1>1, <1>3 DEF WallRead, CallsMade
  <2> QED
    BY <1>1, <1>3, <2>1 DEF May
<1>4. CASE Opened
  <2>1. CallsMade = IF resume >= 0 THEN 3 ELSE 2
    BY <1>1, <1>4 DEF Opened, CallsMade
  <2>2. CASE resume >= 0
    BY <1>1, <1>4, <2>1, <2>2 DEF May
  <2>3. CASE resume < 0
    <3>1. CallsMade = 2
      BY <1>1, <2>1, <2>3
    <3> QED
      BY <1>1, <1>4, <2>3, <3>1 DEF May
  <2> QED
    BY <1>1, <2>2, <2>3
<1>5. CASE Closing
  <2>1. CallsMade = 4
    BY <1>1, <1>5 DEF Closing, CallsMade
  <2> QED
    BY <1>1, <1>5, <2>1 DEF May
<1>6. CASE Finished
  <2>1. CallsMade = 5
    BY <1>1, <1>6 DEF Finished, CallsMade
  <2> QED
    BY <1>1, <2>1 DEF May
<1> QED
  BY <1>2, <1>3, <1>4, <1>5, <1>6 DEF TscInv

\* One reading more.
LEMMA OneMore ==
  ASSUME NEW s \in Seq(Nat), NEW x \in Nat
  PROVE  /\ Append(s, x) \in Seq(Nat) /\ Len(Append(s, x)) = Len(s) + 1
         /\ Append(s, x)[Len(s) + 1] = x
         /\ \A i \in 1 .. Len(s) : Append(s, x)[i] = s[i]
OBVIOUS

\* A step of the calibration, of the clock or of the code that is timed keeps the invariant:
\* readings are taken in order, each after its turn.
LEMMA TscStep ==
  ASSUME TscInv, [TscNext]_tscVars
  PROVE  TscInv'
<1>1. time \in Nat /\ delay \in Nat /\ resume \in Int
  BY DEF TscInv, TscType
<1>2. wall \in Seq(Nat) /\ tsc \in Seq(Nat) /\ Len(wall) \in Nat /\ Len(tsc) \in Nat
  BY DEF TscInv, TscType
<1>3. kTicks \in Nat \ {0} /\ Window \in Nat
  BY TscAssumption
<1>4. CASE ReadWall
  <2> DEFINE w == time \div kTicks
  <2>1. w \in Nat /\ Shows(w, time)
    BY <1>1, <1>3, Quotient DEF Shows
  <2>2. May("wall") /\ wall' = Append(wall, w) /\ UNCHANGED <<time, tsc, resume, delay>>
    BY <1>4 DEF ReadWall
  <2> HIDE DEF w
  <2>3. /\ wall' \in Seq(Nat) /\ Len(wall') = Len(wall) + 1
        /\ wall'[Len(wall) + 1] = w /\ \A i \in 1 .. Len(wall) : wall'[i] = wall[i]
    BY <1>2, <2>1, <2>2, OneMore
  <2>4. TscType'
    BY <1>1, <1>2, <2>2, <2>3 DEF TscType
  <2>5. CASE NotBegun
    <3>1. Len(wall) = 0 /\ Len(tsc) = 0 /\ resume < 0 /\ delay = 0
      BY <2>5 DEF NotBegun
    <3>2. Len(wall') = 1 /\ wall'[1] = w /\ time - delay = time
      BY <1>1, <2>3, <3>1
    <3>3. WallRead'
      BY <2>1, <2>2, <3>1, <3>2 DEF WallRead
    <3> QED
      BY <2>4, <3>3 DEF TscInv
  <2>6. CASE Closing
    <3>1. Len(wall) = 1 /\ Len(tsc) = 2 /\ resume >= 0 /\ tsc[1] <= tsc[2]
      BY <2>6 DEF Closing
    <3>2. PICK d \in 0 .. delay : Shows(wall[1], tsc[1] - d) /\ tsc[2] + (delay - d) = time
      BY <2>6 DEF Closing
    <3>3. Len(wall') = 2 /\ wall'[2] = w /\ wall'[1] = wall[1]
      BY <2>3, <3>1
    <3>4. Shows(wall'[1], tsc[1] - d) /\ Shows(wall'[2], tsc[2] + (delay - d))
      BY <2>1, <3>2, <3>3
    <3>5. Finished'
      BY <2>2, <3>1, <3>3, <3>4 DEF Finished
    <3> QED
      BY <2>4, <3>5 DEF TscInv
  <2> QED
    BY <2>2, <2>5, <2>6, NextCall
<1>5. CASE ReadTsc
  <2>1. May("tsc") /\ tsc' = Append(tsc, time) /\ UNCHANGED <<time, wall, resume, delay>>
    BY <1>5 DEF ReadTsc
  <2>2. /\ tsc' \in Seq(Nat) /\ Len(tsc') = Len(tsc) + 1
        /\ tsc'[Len(tsc) + 1] = time /\ \A i \in 1 .. Len(tsc) : tsc'[i] = tsc[i]
    BY <1>1, <1>2, <2>1, OneMore
  <2>3. TscType'
    BY <1>1, <1>2, <2>1, <2>2 DEF TscType
  <2>4. CASE WallRead
    <3>1. Len(wall) = 1 /\ Len(tsc) = 0 /\ Shows(wall[1], time - delay)
      BY <2>4 DEF WallRead
    <3>2. Len(tsc') = 1 /\ tsc'[1] = time
      BY <2>2, <3>1
    <3>3. Opened'
      BY <1>1, <2>1, <3>1, <3>2 DEF Opened
    <3> QED
      BY <2>3, <3>3 DEF TscInv
  <2>5. CASE Opened /\ resume >= 0
    <3>1. Len(wall) = 1 /\ Len(tsc) = 1 /\ Shows(wall[1], tsc[1] - delay) /\ tsc[1] <= time
      BY <2>5 DEF Opened
    <3>2. Len(tsc') = 2 /\ tsc'[1] = tsc[1] /\ tsc'[2] = time
      BY <2>2, <3>1
    <3>3. delay \in 0 .. delay /\ tsc'[2] + (delay - delay) = time
      BY <1>1, <3>2
    <3>4. Shows(wall[1], tsc'[1] - delay) /\ tsc'[1] <= tsc'[2]
      BY <3>1, <3>2
    <3>5. Closing'
      BY <2>1, <2>5, <3>1, <3>2, <3>3, <3>4 DEF Closing
    <3> QED
      BY <2>3, <3>5 DEF TscInv
  <2> QED
    BY <2>1, <2>4, <2>5, NextCall
<1>6. CASE Sleep
  <2>1. May("sleep") /\ resume' = time + Window * kTicks /\ UNCHANGED <<time, wall, tsc, delay>>
    BY <1>6 DEF Sleep
  <2>2. resume' \in Int
    <3>1. Window * kTicks \in Int
      BY <1>3
    <3> QED
      BY <1>1, <2>1, <3>1
  <2>3. Opened
    BY <2>1, NextCall
  <2>4. Opened'
    BY <2>1, <2>3 DEF Opened
  <2>5. TscType'
    BY <1>1, <1>2, <2>1, <2>2 DEF TscType
  <2> QED
    BY <2>4, <2>5 DEF TscInv
<1>7. CASE Tick
  <2>1. /\ time' = time + 1 /\ delay' = (IF Len(wall) # Len(tsc) THEN delay + 1 ELSE delay)
        /\ UNCHANGED <<wall, tsc, resume>>
    BY <1>7 DEF Tick
  <2>2. TscType'
    BY <1>1, <1>2, <2>1 DEF TscType
  <2>3. CASE NotBegun
    <3>1. delay' = delay
      BY <2>1, <2>3 DEF NotBegun
    <3>2. NotBegun'
      BY <2>1, <2>3, <3>1 DEF NotBegun
    <3> QED
      BY <2>2, <3>2 DEF TscInv
  <2>4. CASE WallRead
    <3>1. Len(wall) = 1 /\ Len(tsc) = 0
      BY <2>4 DEF WallRead
    <3>2. delay' = delay + 1
      BY <2>1, <3>1
    <3>3. time' - delay' = time - delay
      BY <1>1, <2>1, <3>2
    <3>4. WallRead'
      BY <2>1, <2>4, <3>3 DEF WallRead
    <3> QED
      BY <2>2, <3>4 DEF TscInv
  <2>5. CASE Opened
    <3>1. Len(wall) = 1 /\ Len(tsc) = 1 /\ tsc[1] <= time /\ tsc[1] \in Nat
      BY SMTT(30), <1>2, <2>5 DEF Opened
    <3>2. delay' = delay /\ tsc[1] <= time'
      BY <1>1, <2>1, <3>1
    <3>3. Opened'
      BY <2>1, <2>5, <3>2 DEF Opened
    <3> QED
      BY <2>2, <3>3 DEF TscInv
  <2>6. CASE Closing
    <3>1. Len(wall) = 1 /\ Len(tsc) = 2 /\ resume >= 0 /\ tsc[1] <= tsc[2] /\ tsc[2] \in Nat
      <4>1. Len(wall) = 1 /\ Len(tsc) = 2 /\ resume >= 0 /\ tsc[1] <= tsc[2]
        BY <2>6 DEF Closing
      <4>2. tsc \in Seq(Nat)
        BY <1>2
      <4>3. tsc[2] \in Nat
        BY <4>1, <4>2, TwoReadings
      <4> QED
        BY <4>1, <4>3
    <3>2. PICK d \in 0 .. delay : Shows(wall[1], tsc[1] - d) /\ tsc[2] + (delay - d) = time
      BY <2>6 DEF Closing
    <3>3. delay' = delay + 1
      BY <2>1, <3>1
    <3>4. d \in 0 .. delay' /\ tsc[2] + (delay' - d) = time'
      BY <1>1, <2>1, <3>1, <3>2, <3>3
    <3>5. Closing'
      BY <2>1, <3>1, <3>2, <3>4 DEF Closing
    <3> QED
      BY <2>2, <3>5 DEF TscInv
  <2>7. CASE Finished
    <3>1. delay' = delay
      BY <2>1, <2>7 DEF Finished
    <3>2. Finished'
      BY <2>1, <2>7, <3>1 DEF Finished
    <3> QED
      BY <2>2, <3>2 DEF TscInv
  <2> QED
    BY <2>3, <2>4, <2>5, <2>6, <2>7 DEF TscInv
<1>8. CASE UNCHANGED tscVars
  BY <1>8 DEF tscVars, TscInv, TscType, NotBegun, WallRead, Opened, Closing, Finished
<1> QED
  BY <1>4, <1>5, <1>6, <1>7, <1>8 DEF TscNext

\* What the readings of both clocks make of the elapsed time.
LEMMA Elapsed ==
  ASSUME NEW a \in Nat, NEW b \in Nat
  PROVE  LET e == b \div kTicks - a \div kTicks
         IN  e \in Int /\ b - a - kTicks < e * kTicks /\ e * kTicks < b - a + kTicks
<1> DEFINE v == a \div kTicks
           w == b \div kTicks
<1>1. /\ v \in Nat /\ v * kTicks <= a /\ a < v * kTicks + kTicks
      /\ w \in Nat /\ w * kTicks <= b /\ b < w * kTicks + kTicks
  BY TscAssumption, Quotient
<1> HIDE DEF v, w
<1>2. (w - v) * kTicks = w * kTicks - v * kTicks /\ v * kTicks \in Int /\ w * kTicks \in Int
  BY <1>1, TscAssumption
<1> DEFINE p == v * kTicks
           q == w * kTicks
           r == (w - v) * kTicks
<1>3. p \in Int /\ q \in Int /\ r = q - p /\ p <= a /\ a < p + kTicks /\ q <= b /\ b < q + kTicks
  BY <1>1, <1>2
<1>4. b - a - kTicks < r /\ r < b - a + kTicks
  <2> HIDE DEF p, q, r
  <2> QED
    BY <1>3, TscAssumption
<1>5. w - v \in Int
  BY <1>1
<1> QED
  BY <1>4, <1>5 DEF v, w

\* A wall time that is less than a nanosecond too short makes a duration at most one too
\* short.
LEMMA NotShorter ==
  ASSUME NEW k \in Nat \ {0}, NEW t \in Nat \ {0}, NEW e \in Nat, t - k < e * k,
         NEW x \in 0 .. t
  PROVE  (x * e) \div t + 1 >= x \div k
<1> DEFINE q == (x * e) \div t
           m == x \div k
<1>1. x * e \in Nat
  OBVIOUS
<1>2. /\ q \in Nat /\ x * e < q * t + t
      /\ m \in Nat /\ m * k <= x
  BY <1>1, Quotient
<1> HIDE DEF q, m
<1> SUFFICES ASSUME m >= q + 2 PROVE FALSE
  BY <1>2 DEF q, m
<1>3. (q + 2) * k <= m * k
  BY <1>2, Times
<1>4. (q + 1) * k <= x - k
  <2>1. (q + 2) * k = (q + 1) * k + k
    BY <1>2
  <2>2. (q + 2) * k \in Int /\ m * k \in Int /\ (q + 1) * k \in Int
    BY <1>2
  <2> QED
    BY <1>2, <1>3, <2>1, <2>2
<1>5. ((q + 1) * k) * t <= (x - k) * t
  <2>1. (q + 1) * k \in Int
    BY <1>2
  <2> QED
    BY <1>4, <2>1, Times
<1>6. (t - k + 1) * x <= (e * k) * x
  <2>1. e * k \in Int
    OBVIOUS
  <2>2. t - k + 1 <= e * k
    BY <2>1
  <2> QED
    BY <2>1, <2>2, Times
<1>7. (x * e) * k < ((q + 1) * k) * t
  <2>1. x * e + 1 <= (q + 1) * t
    <3>1. (q + 1) * t = q * t + t /\ q * t \in Int
      BY <1>2
    <3> QED
      BY <1>1, <1>2, <3>1
  <2>2. (x * e + 1) * k <= ((q + 1) * t) * k
    <3>1. (q + 1) * t \in Int
      BY <1>2
    <3> QED
      BY <1>1, <2>1, <3>1, Times
  <2>3. (x * e + 1) * k = (x * e) * k + k
    BY <1>1
  <2>4. ((q + 1) * t) * k = ((q + 1) * k) * t
    BY <1>2
  <2> QED
    BY <1>1, <1>2, <2>2, <2>3, <2>4
<1>8. (e * k) * x = (x * e) * k
  OBVIOUS
<1>9. (k - 1) * x <= (k - 1) * t
  <2>1. x * (k - 1) <= t * (k - 1)
    BY Times
  <2> QED
    BY <2>1
<1>10. (t - k + 1) * x = t * x - (k - 1) * x
  OBVIOUS
<1>11. (x - k) * t = t * x - k * t
  OBVIOUS
<1>12. (k - 1) * t = k * t - t
  OBVIOUS
<1> DEFINE tx == t * x
           kt == k * t
           kx == (k - 1) * x
           a1 == ((q + 1) * k) * t
           a2 == (x * e) * k
<1>13. tx \in Int /\ kt \in Int /\ kx \in Int /\ a1 \in Int /\ a2 \in Int
  BY <1>1, <1>2
<1>14. a1 <= tx - kt /\ tx - kx <= a2 /\ a2 < a1 /\ kx <= kt - t
  BY <1>5, <1>6, <1>7, <1>8, <1>9, <1>10, <1>11, <1>12
<1> HIDE DEF tx, kt, kx, a1, a2
<1> QED
  BY <1>13, <1>14

\* Every behaviour of the clock stays within its invariant.
LEMMA TscInvariance == TscSpec => []TscInv
<1>1. TscInit => TscInv
  <2> SUFFICES ASSUME TscInit PROVE TscInv
    OBVIOUS
  <2>1. time \in Nat /\ wall = << >> /\ tsc = << >> /\ resume = -1 /\ delay = 0
    BY TscAssumption DEF TscInit
  <2> QED
    BY <2>1 DEF TscInv, TscType, NotBegun
<1>2. TscInv /\ [TscNext]_tscVars => TscInv'
  BY TscStep
<1> QED
  BY <1>1, <1>2, PTL DEF TscSpec

\* timing.cc:50-54: wherever the caller of calibrate() is held up, no duration is reported
\* shorter than it was, and the clock errs by no more than the delay.
THEOREM FlattersNobody == TscSpec => []NeverFlatters
<1>1. TscInv => NeverFlatters
  <2> SUFFICES ASSUME TscInv, Calibrated, Usable
               PROVE  /\ \A ticks \in 0 .. ElapsedTicks : to_ns(ticks) + 1 >= ticks \div kTicks
                      /\ ElapsedNs * kTicks < ElapsedTicks + delay + kTicks
    BY DEF NeverFlatters
  <2> DEFINE t == tsc[2] - tsc[1]
             e == wall[2] - wall[1]
             k == kTicks
  <2>1. Finished /\ delay \in Nat /\ tsc \in Seq(Nat)
    BY DEF TscInv, TscType, Calibrated, NotBegun, WallRead, Opened, Closing
  <2>2. PICK d \in 0 .. delay :
          Shows(wall[1], tsc[1] - d) /\ Shows(wall[2], tsc[2] + (delay - d))
    BY <2>1 DEF Finished
  <2>3. tsc[1] \in Nat /\ tsc[2] \in Nat /\ tsc[1] <= tsc[2] /\ k \in Nat \ {0}
    <3>1. Len(tsc) = 2 /\ tsc[1] <= tsc[2]
      BY <2>1 DEF Finished
    <3>2. tsc[1] \in Nat /\ tsc[2] \in Nat
      BY <2>1, <3>1, TwoReadings
    <3> QED
      BY <3>1, <3>2, TscAssumption
  <2> DEFINE a == tsc[1] - d
             b == tsc[2] + (delay - d)
  <2>4. a \in Nat /\ b \in Nat /\ wall[1] = a \div k /\ wall[2] = b \div k
    BY <2>2 DEF Shows
  <2>5. b - a = t + delay /\ t \in Nat
    BY SMTT(30), <2>1, <2>3
  <2>6. t # 0 /\ e > 0
    BY DEF Usable, ElapsedTicks, ElapsedNs
  <2> HIDE DEF a, b
  <2>7. e \in Int /\ b - a - k < e * k /\ e * k < b - a + k
    BY <2>4, Elapsed
  <2>8. t - k < e * k /\ e * k < t + delay + k
    <3> DEFINE p == e * k
    <3>1. p \in Int
      BY <2>3, <2>7
    <3> HIDE DEF p, e, t
    <3>2. b - a - k < p /\ p < b - a + k
      BY <2>7 DEF p
    <3>3. t - k < p /\ p < t + delay + k
      BY <2>1, <2>3, <2>4, <2>5, <3>1, <3>2
    <3> QED
      BY <3>3 DEF p
  <2> HIDE DEF t, e
  <2>9. \A ticks \in 0 .. t : (ticks * e) \div t + 1 >= ticks \div k
    BY <2>3, <2>5, <2>6, <2>7, <2>8, NotShorter
  <2>10. ElapsedTicks = t /\ ElapsedNs = e /\ \A ticks : to_ns(ticks) = (ticks * e) \div t
    BY DEF ElapsedTicks, ElapsedNs, to_ns, t, e
  <2> QED
    BY <2>8, <2>9, <2>10
<1> QED
  BY <1>1, TscInvariance, PTL

-----------------------------------------------------------------------------
(***************************************************************************)
(* The sockets.                                                            *)
(***************************************************************************)
\* A finite set of numbers leaves a number out, and there is a lowest that it leaves out.
LEMMA LowestFree ==
  ASSUME NEW T, IsFiniteSet(T), NEW n \in Nat, Cardinality(T) <= n
  PROVE  \E fd \in 0 .. n : fd \notin T /\ \A lower \in 0 .. fd - 1 : lower \in T
<1> DEFINE Free == {fd \in 0 .. n : fd \notin T}
<1>1. Free # {}
  <2> SUFFICES ASSUME 0 .. n \subseteq T PROVE FALSE
    OBVIOUS
  <2>1. IsFiniteSet(0 .. n) /\ Cardinality(0 .. n) = n + 1
    BY FS_Interval
  <2>2. Cardinality(0 .. n) <= Cardinality(T)
    BY FS_Subset
  <2>3. Cardinality(T) \in Nat
    BY FS_CardinalityType
  <2> QED
    BY <2>1, <2>2, <2>3
<1>2. PICK fd \in Free : \A other \in Free : <<other, fd>> \notin OpToRel(<, Nat)
  <2> HIDE DEF Free
  <2>1. Free \subseteq Nat
    BY DEF Free
  <2> QED
    BY <1>1, <2>1, NatLessThanWellFounded, WFMin
<1>3. ASSUME NEW lower \in 0 .. fd - 1 PROVE lower \in T
  <2>1. fd \in 0 .. n
    BY <1>2
  <2>2. lower \in 0 .. n /\ lower \in Nat /\ fd \in Nat /\ lower < fd
    BY <1>3, <2>1
  <2>3. <<lower, fd>> \in OpToRel(<, Nat)
    BY <2>2 DEF OpToRel
  <2> QED
    BY <1>2, <2>2, <2>3
<1> QED
  BY <1>2, <1>3

\* An object is where it is in its life, and the table names objects only.
SocketsInv ==
  /\ DOMAIN object = Objects
  /\ \A x \in Objects : DOMAIN object[x] = {"state", "fd", "step", "built", "options"}
  /\ \A fd \in DOMAIN table : fd \in Nat /\ table[fd] \in Objects
  /\ EachSocketOneOwner

\* Each open descriptor belongs to another object, so there are no more than objects, and
\* socket() finds a number that is free.
LEMMA LowestIsFree ==
  ASSUME SocketsInv
  PROVE  Lowest \in Nat /\ Lowest \notin DOMAIN table
<1>1. IsFiniteSet(Objects)
  BY SocketsAssumption, FS_Union DEF Objects
<1> DEFINE f == [fd \in DOMAIN table |-> table[fd]]
<1>2. f \in Injection(DOMAIN table, Objects)
  <2>1. f \in [DOMAIN table -> Objects]
    BY DEF SocketsInv
  <2>2. \A a, b \in DOMAIN table : f[a] = f[b] => a = b
    BY DEF SocketsInv, EachSocketOneOwner
  <2> QED
    BY <2>1, <2>2 DEF Injection, IsInjective
<1>3. IsFiniteSet(DOMAIN table) /\ Cardinality(DOMAIN table) <= Cardinality(Objects)
  BY <1>1, <1>2, FS_Injection
<1>4. Cardinality(Objects) \in Nat
  BY <1>1, FS_CardinalityType
<1>5. \E fd \in 0 .. Cardinality(Objects) :
        fd \notin DOMAIN table /\ \A lower \in 0 .. fd - 1 : lower \in DOMAIN table
  BY <1>3, <1>4, LowestFree
<1> QED
  BY <1>5, <1>4 DEF Lowest

\* What an object becomes keeps the rest; only the owner of a descriptor enters or leaves
\* the table.
LEMMA SocketsStep ==
  ASSUME SocketsInv, [SocketsNext]_socketVars
  PROVE  SocketsInv'
<1>1. CASE UNCHANGED socketVars
  BY <1>1 DEF socketVars, SocketsInv, EachSocketOneOwner, In
<1>2. ASSUME NEW x \in Objects, Open(x) PROVE SocketsInv'
  <2>1. Lowest \in Nat /\ Lowest \notin DOMAIN table
    BY LowestIsFree
  <2> DEFINE new == Lowest
  <2>2. PICK options \in Options :
          object' = [object EXCEPT ![x].state = "configuring", ![x].fd = new, ![x].step = 0,
                                   ![x].built = @ + 1, ![x].options = options]
    BY <1>2 DEF Open
  <2>3. table' = [fd \in DOMAIN table \cup {new} |-> IF fd = new THEN x ELSE table[fd]]
    BY <1>2 DEF Open
  <2> HIDE DEF new
  <2>4. /\ DOMAIN object' = Objects
        /\ \A y \in Objects : DOMAIN object'[y] = {"state", "fd", "step", "built", "options"}
        /\ object'[x].state = "configuring" /\ object'[x].fd = new
        /\ \A y \in Objects : y # x => object'[y] = object[y]
    BY <2>2 DEF SocketsInv
  <2>5. /\ DOMAIN table' = DOMAIN table \cup {new} /\ table'[new] = x
        /\ \A fd \in DOMAIN table : table'[fd] = table[fd] \/ fd = new
    BY <2>3
  <2>6. object[x].state = "absent" /\ new \in Nat /\ new \notin DOMAIN table
    BY <1>2, <2>1 DEF Open, In, new
  <2> QED
    BY <2>4, <2>5, <2>6 DEF SocketsInv, EachSocketOneOwner, In
<1>3. ASSUME NEW x \in Objects, OpenFails(x) \/ Configure(x) \/ ConfigureFails(x)
      PROVE  SocketsInv'
  <2>1. /\ DOMAIN object' = Objects
        /\ \A y \in Objects : DOMAIN object'[y] = {"state", "fd", "step", "built", "options"}
        /\ \A y \in Objects : y # x => object'[y] = object[y]
        /\ object'[x].fd = object[x].fd
        /\ object'[x].state = "absent" <=> object[x].state = "absent"
    BY <1>3 DEF OpenFails, Configure, ConfigureFails, In, SocketsInv
  <2>2. table' = table
    BY <1>3 DEF OpenFails, Configure, ConfigureFails
  <2> QED
    BY <2>1, <2>2 DEF SocketsInv, EachSocketOneOwner, In
<1>4. ASSUME NEW x \in Objects, Throw(x) \/ Destroy(x) PROVE SocketsInv'
  <2>1. /\ DOMAIN object' = Objects
        /\ \A y \in Objects : DOMAIN object'[y] = {"state", "fd", "step", "built", "options"}
        /\ \A y \in Objects : y # x => object'[y] = object[y]
        /\ object'[x].state = "absent" /\ object[x].state # "absent"
    BY <1>4 DEF Throw, Destroy, In, SocketsInv
  <2>2. table' = [fd \in DOMAIN table \ {object[x].fd} |-> table[fd]]
    BY <1>4 DEF Throw, Destroy, Close
  <2>3. object[x].fd \in DOMAIN table /\ table[object[x].fd] = x
    BY <2>1 DEF SocketsInv, EachSocketOneOwner, In
  <2>4. \A fd \in DOMAIN table' : fd \in DOMAIN table /\ table'[fd] = table[fd] /\ fd # object[x].fd
    BY <2>2
  <2>5. \A fd \in DOMAIN table' : table'[fd] # x
    BY <2>4 DEF SocketsInv, EachSocketOneOwner
  <2>6. \A y \in Objects : y # x /\ ~In(y, {"absent"}) => object[y].fd # object[x].fd
    BY <2>3 DEF SocketsInv, EachSocketOneOwner
  <2>7. \A y \in Objects : y # x /\ ~In(y, {"absent"}) =>
          object[y].fd \in DOMAIN table' /\ table'[object[y].fd] = y
    BY <2>2, <2>6 DEF SocketsInv, EachSocketOneOwner
  <2> QED
    BY <2>1, <2>4, <2>5, <2>7 DEF SocketsInv, EachSocketOneOwner, In
<1> QED
  BY <1>1, <1>2, <1>3, <1>4 DEF SocketsNext

\* udp_sender.cc, socket_setup.cc, recvfrom_receiver.cc: however many objects there are, and
\* whichever calls of their constructors fail, no descriptor is leaked or closed for another.
THEOREM OneOwner == SocketsSpec => []EachSocketOneOwner
<1>1. SocketsInit => SocketsInv
  BY DEF SocketsInit, SocketsInv, EachSocketOneOwner, In
<1>2. SocketsInv => EachSocketOneOwner
  BY DEF SocketsInv
<1> QED
  BY <1>1, <1>2, SocketsStep, PTL DEF SocketsSpec

-----------------------------------------------------------------------------
(***************************************************************************)
(* The decoder behind the framer.                                          *)
(***************************************************************************)
\* A member that lies within the first n bytes of a message.
Within(f, n) == f.at \in Nat /\ f.width \in Nat /\ f.at + f.width <= n

\* The header is within a message of any type, and so are the fields of its type: the two
\* tables, in decoder.cc and message_type.h, agree.
LEMMA HeaderWithin ==
  \A n \in Nat : n >= 12 => \A f \in HeaderFields : Within(f, n)
BY DEF HeaderFields, Field, Member, Within

\* The fields decoder.cc reads of a message lie within the length message_type.h gives its type.
LEMMA FieldsWithin ==
  ASSUME NEW t \in DOMAIN expected_length
  PROVE  /\ expected_length[t] \in Nat /\ expected_length[t] >= 12
         /\ t = "R" \/ MovesBook(t) => \A f \in Fields(t) : Within(f, expected_length[t])
<1>1. t \in {"S", "R", "H", "Y", "L", "A", "F", "E", "C", "X", "D", "U", "P", "Q", "B"}
  BY DEF expected_length
<1>2. expected_length[t] \in Nat /\ expected_length[t] >= 12
  BY <1>1 DEF expected_length
<1>3. \A f \in HeaderFields : Within(f, expected_length[t])
  BY <1>2, HeaderWithin
<1>4. CASE t = "R"
  <2>1. expected_length[t] = 39
    BY <1>4 DEF expected_length
  <2>2. Fields(t) = HeaderFields \cup {Field("stock", 11, 8), Field("market_category", 19, 1),
                                       Field("round_lot_size", 21, 4)}
    BY <1>4 DEF Fields
  <2> QED
    BY <1>2, <1>3, <2>1, <2>2 DEF Field, Member, Within
<1>5. CASE t = "A" \/ t = "F"
  <2>1. expected_length[t] >= 36
    BY <1>5 DEF expected_length
  <2>2. Fields(t) = HeaderFields \cup AddOrderFields
    BY <1>5 DEF Fields
  <2>3. \A f \in AddOrderFields : Within(f, 36)
    BY DEF AddOrderFields, Field, Member, Within
  <2> QED
    BY <1>2, <1>3, <2>1, <2>2, <2>3 DEF Within
<1>6. CASE t = "E"
  <2>1. expected_length[t] = 31
    BY <1>6 DEF expected_length
  <2>2. Fields(t) = HeaderFields \cup OrderExecutedFields("E")
    BY <1>6 DEF Fields
  <2>3. \A f \in OrderExecutedFields("E") : Within(f, 31)
    BY DEF OrderExecutedFields, Field, Member, Within
  <2> QED
    BY <1>2, <1>3, <2>1, <2>2, <2>3
<1>7. CASE t = "C"
  <2>1. expected_length[t] = 36
    BY <1>7 DEF expected_length
  <2>2. Fields(t) = HeaderFields \cup OrderExecutedFields("C")
    BY <1>7 DEF Fields
  <2>3. \A f \in OrderExecutedFields("C") : Within(f, 36)
    BY DEF OrderExecutedFields, Field, Member, Within
  <2> QED
    BY <1>2, <1>3, <2>1, <2>2, <2>3
<1>8. CASE t = "X"
  <2>1. expected_length[t] = 23
    BY <1>8 DEF expected_length
  <2>2. Fields(t) = HeaderFields \cup {Field("order_ref", 11, 8), Field("cancelled_shares", 19, 4)}
    BY <1>8 DEF Fields
  <2> QED
    BY <1>2, <1>3, <2>1, <2>2 DEF Field, Member, Within
<1>9. CASE t = "D"
  <2>1. expected_length[t] = 19
    BY <1>9 DEF expected_length
  <2>2. Fields(t) = HeaderFields \cup {Field("order_ref", 11, 8)}
    BY <1>9 DEF Fields
  <2> QED
    BY <1>2, <1>3, <2>1, <2>2 DEF Field, Member, Within
<1>10. CASE t = "U"
  <2>1. expected_length[t] = 35
    BY <1>10 DEF expected_length
  <2>2. Fields(t) = HeaderFields \cup {Field("original_order_ref", 11, 8),
                      Field("new_order_ref", 19, 8), Field("shares", 27, 4), Field("price", 31, 4)}
    BY <1>10 DEF Fields
  <2> QED
    BY <1>2, <1>3, <2>1, <2>2 DEF Field, Member, Within
<1> QED
  BY <1>2, <1>4, <1>5, <1>6, <1>7, <1>8, <1>9, <1>10 DEF MovesBook

\* What either program decodes of a message of this type.
FieldsRead(t) == {FieldsReplayed(t, known) : known \in BOOLEAN} \cup {FieldsHandled(t)}

\* What is read of a message lies within the length that its type should have.
LEMMA ReadsInside ==
  ASSUME NEW t \in DOMAIN expected_length, NEW fields \in FieldsRead(t)
  PROVE  ReadsOf(fields) \subseteq 0 .. expected_length[t] - 1
<1> DEFINE n == expected_length[t]
<1>1. n \in Nat /\ n >= 12
  BY FieldsWithin
<1>2. \A f \in HeaderFields : Within(f, n)
  BY <1>1, HeaderWithin
<1>3. t = "R" \/ MovesBook(t) => \A f \in Fields(t) : Within(f, n)
  BY FieldsWithin
<1>4. \/ fields \in {{}, HeaderFields}
      \/ (t = "R" \/ MovesBook(t)) /\ fields = Fields(t)
  <2>1. CASE fields = FieldsHandled(t)
    BY <2>1 DEF FieldsHandled
  <2>2. ASSUME NEW known \in BOOLEAN, fields = FieldsReplayed(t, known)
        PROVE  \/ fields \in {{}, HeaderFields}
               \/ (t = "R" \/ MovesBook(t)) /\ fields = Fields(t)
    <3>1. t = "R" => ~MovesBook(t)
      BY DEF MovesBook
    <3>2. CASE t = "R"
      BY <2>2, <3>1, <3>2 DEF FieldsReplayed
    <3>3. CASE t # "R" /\ MovesBook(t)
      BY <2>2, <3>3 DEF FieldsReplayed
    <3>4. CASE t # "R" /\ ~MovesBook(t)
      BY <2>2, <3>4 DEF FieldsReplayed
    <3> QED
      BY <3>2, <3>3, <3>4
  <2> QED
    BY <2>1, <2>2 DEF FieldsRead
<1> HIDE DEF n
<1>5. \A f \in fields : Within(f, n)
  BY <1>2, <1>3, <1>4
<1>6. ASSUME NEW f, Within(f, n) PROVE BytesOf(f) \subseteq 0 .. n - 1
  BY <1>1, <1>6 DEF Within, BytesOf
<1>7. {0} \subseteq 0 .. n - 1
  BY <1>1
<1> QED
  BY <1>5, <1>6, <1>7 DEF n, ReadsOf

\* The k-th view has the length of its type and was read within.
ReadAsExpected(t, size, read) ==
  /\ t \in DOMAIN expected_length /\ size = expected_length[t]
  /\ read \subseteq 0 .. size - 1

ReplayInv ==
  /\ framed \in Seq([type : DOMAIN expected_length, size : Nat])
  /\ reads \in Seq(SUBSET Int) /\ Len(reads) = Len(framed) /\ length_mismatch \in Nat
  /\ length_mismatch = 0 =>
       \A k \in 1 .. Len(framed) : ReadAsExpected(framed[k].type, framed[k].size, reads[k])

\* A step of the framer, or of the decoder behind it, keeps the invariant: a decoded message was
\* cut at a length of its type, so that its fields lie inside it.
LEMMA ReplayStep ==
  ASSUME ReplayInv, [ReplayNext]_replayVars
  PROVE  ReplayInv'
<1>1. CASE UNCHANGED replayVars
  BY <1>1 DEF replayVars, ReplayInv
<1>2. ASSUME NEW t \in DOMAIN expected_length, NEW size \in 1 .. MaxSize,
             NEW fields \in FieldsRead(t), ReadMessage(t, size, fields)
      PROVE  ReplayInv'
  <2> DEFINE m == [type |-> t, size |-> size]
             r == ReadsOf(fields)
  <2>1. framed' = Append(framed, m) /\ reads' = Append(reads, r)
    BY <1>2 DEF ReadMessage
  <2>2. m \in [type : DOMAIN expected_length, size : Nat] /\ m.type = t /\ m.size = size
    BY DEF MaxSize
  <2>3. expected_length[t] \in Nat /\ r \subseteq 0 .. expected_length[t] - 1
    BY FieldsWithin, ReadsInside
  <2>4. r \in SUBSET Int
    BY <2>3
  <2> HIDE DEF m, r
  <2>5. /\ framed' \in Seq([type : DOMAIN expected_length, size : Nat])
        /\ Len(framed') = Len(framed) + 1 /\ framed'[Len(framed) + 1] = m
        /\ \A k \in 1 .. Len(framed) : framed'[k] = framed[k]
    BY <2>1, <2>2, AppendProperties DEF ReplayInv
  <2>6. /\ reads' \in Seq(SUBSET Int)
        /\ Len(reads') = Len(reads) + 1 /\ reads'[Len(reads) + 1] = r
        /\ \A k \in 1 .. Len(reads) : reads'[k] = reads[k]
    BY <2>1, <2>4, AppendProperties DEF ReplayInv
  <2>7. /\ length_mismatch' \in Nat
        /\ length_mismatch' = 0 => length_mismatch = 0 /\ size = expected_length[t]
    BY <1>2 DEF ReadMessage, ReplayInv
  <2>8. Len(framed) \in Nat /\ Len(reads) = Len(framed)
    BY DEF ReplayInv
  <2>9. ASSUME length_mismatch' = 0, NEW k \in 1 .. Len(framed')
        PROVE  ReadAsExpected(framed'[k].type, framed'[k].size, reads'[k])
    <3>1. CASE k = Len(framed) + 1
      BY <2>2, <2>3, <2>5, <2>6, <2>7, <2>8, <2>9, <3>1 DEF ReadAsExpected
    <3>2. CASE k \in 1 .. Len(framed)
      BY <2>5, <2>6, <2>7, <2>8, <2>9, <3>2 DEF ReplayInv
    <3> QED
      BY <2>5, <2>8, <3>1, <3>2
  <2> QED
    BY <2>5, <2>6, <2>7, <2>8, <2>9 DEF ReplayInv
<1>3. CASE ReplayNext
  <2>1. PICK t \in DOMAIN expected_length, size \in 1 .. MaxSize :
          \/ \E known \in BOOLEAN : ReadMessage(t, size, FieldsReplayed(t, known))
          \/ ReadMessage(t, size, FieldsHandled(t))
    BY <1>3 DEF ReplayNext
  <2>2. PICK fields \in FieldsRead(t) : ReadMessage(t, size, fields)
    BY <2>1 DEF FieldsRead
  <2> QED
    BY <1>2, <2>2
<1> QED
  BY <1>1, <1>3

\* decoder.cc, replay.cc and feed_handler/main.cc: a program that counted no length mismatch
\* has read bytes of the messages that it was handed and no others, whatever the file holds.
THEOREM CleanReplay == ReplaySpec => []CleanReadsItsOwn
<1>1. ReplayInit => ReplayInv
  BY DEF ReplayInit, ReplayInv
<1>2. ReplayInv => CleanReadsItsOwn
  BY DEF ReplayInv, CleanReadsItsOwn, ReadWithinView, ReadAsExpected
<1> QED
  BY <1>1, <1>2, ReplayStep, PTL DEF ReplaySpec

\* A number times the radix is larger.
LEMMA TimesRadix ==
  ASSUME NEW x \in Nat \ {0}
  PROVE  x * kRadix \in Nat \ {0} /\ x < x * kRadix
<1> DEFINE k == kRadix
<1>1. k \in Nat /\ 2 <= k
  BY DecodingAssumption
<1> HIDE DEF k
<1>2. 2 * x <= k * x
  BY <1>1, Times
<1>3. k * x = x * k /\ x * k \in Nat
  BY <1>1
<1> USE DEF k
<1> QED
  BY <1>1, <1>2, <1>3

\* The weights of the places of a number: each is the radix times the one behind it.
LEMMA WeightsRise ==
  /\ Weight[0] = 1 /\ \A n \in 1 .. 8 : Weight[n] = Weight[n - 1] * kRadix
  /\ \A n \in 0 .. 8 : Weight[n] \in Nat \ {0}
  /\ \A m, n \in 0 .. 8 : m < n => Weight[m] < Weight[n]
<1> DEFINE k == kRadix
           w == [n \in 0 .. 8 |->
                   IF n = 0 THEN 1 ELSE IF n = 1 THEN 1 * k ELSE IF n = 2 THEN (1 * k) * k
                   ELSE IF n = 3 THEN ((1 * k) * k) * k ELSE IF n = 4 THEN (((1 * k) * k) * k) * k
                   ELSE IF n = 5 THEN ((((1 * k) * k) * k) * k) * k
                   ELSE IF n = 6 THEN (((((1 * k) * k) * k) * k) * k) * k
                   ELSE IF n = 7 THEN ((((((1 * k) * k) * k) * k) * k) * k) * k
                   ELSE (((((((1 * k) * k) * k) * k) * k) * k) * k) * k]
           Next1(u, n) == IF n = 0 THEN 1 ELSE u[n - 1] * k
           IsTable(u) == u = [n \in 0 .. 8 |-> Next1(u, n)]
<1>1. k \in Nat
  BY DecodingAssumption
<1>2. Weight = CHOOSE u : IsTable(u)
  BY DEF Weight, kWidest
<1> HIDE DEF k
<1>3. \A n \in 0 .. 8 : w[n] = Next1(w, n)
  <2>1. /\ w[0] = 1 /\ w[1] = w[0] * k /\ w[2] = w[1] * k /\ w[3] = w[2] * k /\ w[4] = w[3] * k
        /\ w[5] = w[4] * k /\ w[6] = w[5] * k /\ w[7] = w[6] * k /\ w[8] = w[7] * k
    OBVIOUS
  <2> HIDE DEF w
  <2>2. ASSUME NEW n \in 1 .. 8 PROVE w[n] = w[n - 1] * k
    <3>1. n \in {1, 2, 3, 4, 5, 6, 7, 8}
      OBVIOUS
    <3> QED
      BY <2>1, <3>1
  <2> QED
    BY <2>1, <2>2
<1>4. w = [n \in 0 .. 8 |-> w[n]]
  OBVIOUS
<1> HIDE DEF w
<1>5. IsTable(w)
  <2> HIDE DEF Next1
  <2> QED
    BY <1>3, <1>4
<1>6. IsTable(Weight)
  <2> HIDE DEF IsTable
  <2> QED
    BY <1>2, <1>5
<1>7. \A n \in 0 .. 8 : Weight[n] = Next1(Weight, n)
  <2> HIDE DEF Next1
  <2> QED
    BY <1>6
<1>8. Weight[0] = 1 /\ \A n \in 1 .. 8 : Weight[n] = Weight[n - 1] * k
  BY <1>7
<1> DEFINE Up(m, n) == Weight[n] \in Nat \ {0} /\ Weight[m] < Weight[n]
<1>9. ASSUME NEW n \in 1 .. 8, Weight[n - 1] \in Nat \ {0} PROVE Up(n - 1, n)
  <2>1. Weight[n] = Weight[n - 1] * kRadix
    BY <1>8 DEF k
  <2> QED
    BY <1>9, <2>1, TimesRadix
<1>10. /\ Weight[0] \in Nat \ {0} /\ Up(0, 1) /\ Up(1, 2) /\ Up(2, 3) /\ Up(3, 4) /\ Up(4, 5)
       /\ Up(5, 6) /\ Up(6, 7) /\ Up(7, 8)
  <2>0. Weight[0] \in Nat \ {0}
    BY <1>8
  <2>1. Up(0, 1)
    BY <1>9, <2>0
  <2>2. Up(1, 2)
    BY <1>9, <2>1
  <2>3. Up(2, 3)
    BY <1>9, <2>2
  <2>4. Up(3, 4)
    BY <1>9, <2>3
  <2>5. Up(4, 5)
    BY <1>9, <2>4
  <2>6. Up(5, 6)
    BY <1>9, <2>5
  <2>7. Up(6, 7)
    BY <1>9, <2>6
  <2>8. Up(7, 8)
    BY <1>9, <2>7
  <2> QED
    BY <2>0, <2>1, <2>2, <2>3, <2>4, <2>5, <2>6, <2>7, <2>8
<1>11. 0 .. 8 = {0, 1, 2, 3, 4, 5, 6, 7, 8}
  OBVIOUS
<1>12. \A n \in 0 .. 8 : Weight[n] \in Nat \ {0}
  BY <1>10, <1>11
<1>13. \A m, n \in 0 .. 8 : m < n => Weight[m] < Weight[n]
  BY <1>10, <1>11
<1> QED
  BY <1>8, <1>12, <1>13 DEF k

\* A message of which only byte p is not zero.
OnlyAt(bytes, p) == [i \in bytes |-> IF i = p THEN 1 ELSE 0]

\* A reader that gets as far as i bytes has byte p, if it was among them, at its weight.
HasRead(at, i, p) == IF p \in at .. at + i - 1 THEN Weight[at + i - 1 - p] ELSE 0

ReadsOn(bytes, at, width, res) ==
  res = [i \in 0 .. width |-> IF i = 0 THEN 0 ELSE res[i - 1] * kRadix + bytes[at + i - 1]]

\* The readers give each byte the weight of its place.
LEMMA BeOnly ==
  ASSUME NEW D \in SUBSET Nat, NEW p \in D, NEW at \in Nat, NEW width \in 1 .. 8,
         at .. at + width - 1 \subseteq D
  PROVE  be(OnlyAt(D, p), at, width) = HasRead(at, width, p)
<1> DEFINE b == OnlyAt(D, p)
           g == [i \in 0 .. width |-> HasRead(at, i, p)]
           Next1(u, i) == IF i = 0 THEN 0 ELSE u[i - 1] * kRadix + b[at + i - 1]
           res == CHOOSE u : ReadsOn(b, at, width, u)
<1>1. be(b, at, width) = res[width]
  BY DEF be, ReadsOn
<1>2. kRadix \in Nat
  BY DecodingAssumption
<1>3. ASSUME NEW i \in 0 .. width PROVE g[i] = Next1(g, i)
  <2>1. CASE i = 0
    BY <2>1 DEF HasRead
  <2>2. CASE i # 0
    <3> DEFINE j == i - 1
               c == at + i - 1
    <3>1. i \in 1 .. width /\ j \in 0 .. width /\ c \in D /\ c = at + j /\ c \in Nat
      BY <2>2
    <3>2. g[i] = HasRead(at, i, p) /\ g[j] = HasRead(at, j, p)
      BY <3>1
    <3>3. b[c] = IF c = p THEN 1 ELSE 0
      BY <3>1 DEF OnlyAt
    <3> HIDE DEF g, b
    <3>4. HasRead(at, i, p) = HasRead(at, j, p) * kRadix + b[c]
      <4>1. CASE p = c
        <5>1. p \in at .. at + i - 1 /\ at + i - 1 - p = 0
          BY <3>1, <4>1
        <5>2. p \notin at .. at + j - 1
          BY <3>1, <4>1
        <5>3. HasRead(at, i, p) = 1 /\ HasRead(at, j, p) = 0 /\ b[c] = 1
          BY <3>3, <4>1, <5>1, <5>2, WeightsRise DEF HasRead
        <5> QED
          BY <1>2, <5>3
      <4>2. CASE p \in at .. at + j - 1
        <5> DEFINE m == at + i - 1 - p
        <5>1. p \in at .. at + i - 1 /\ p # c /\ m \in 1 .. 8 /\ at + j - 1 - p = m - 1
          BY <3>1, <4>2
        <5> HIDE DEF m
        <5>2. Weight[m] = Weight[m - 1] * kRadix /\ Weight[m] \in Nat
          BY <5>1, WeightsRise
        <5>3. HasRead(at, i, p) = Weight[m] /\ HasRead(at, j, p) = Weight[m - 1] /\ b[c] = 0
          BY <3>3, <4>2, <5>1 DEF HasRead, m
        <5> QED
          BY <5>2, <5>3
      <4>3. CASE p # c /\ p \notin at .. at + j - 1
        <5>1. p \notin at .. at + i - 1
          BY <3>1, <4>3
        <5>2. HasRead(at, i, p) = 0 /\ HasRead(at, j, p) = 0 /\ b[c] = 0
          BY <3>3, <4>3, <5>1 DEF HasRead
        <5> QED
          BY <1>2, <5>2
      <4> QED
        BY <4>1, <4>2, <4>3
    <3> QED
      BY <2>2, <3>2, <3>4
  <2> QED
    BY <2>1, <2>2
<1>4. g = [i \in 0 .. width |-> g[i]]
  OBVIOUS
<1>5. g[width] = HasRead(at, width, p)
  OBVIOUS
<1> HIDE DEF g, b
<1>6. g = [i \in 0 .. width |-> Next1(g, i)]
  <2> HIDE DEF Next1
  <2> QED
    BY <1>3, <1>4
<1>7. ReadsOn(b, at, width, g)
  BY <1>6, Zenon DEF ReadsOn
<1>8. ReadsOn(b, at, width, res)
  BY <1>7
<1> HIDE DEF res
<1>9. \A i \in 0 .. width : res[i] = Next1(res, i)
  <2>1. res = [i \in 0 .. width |-> Next1(res, i)]
    BY <1>8, Zenon DEF ReadsOn
  <2> HIDE DEF Next1
  <2> QED
    BY <2>1
<1>10. \A i \in 0 .. width : res[i] = g[i]
  <2> DEFINE Bad == {i \in 0 .. width : res[i] # g[i]}
  <2>1. ASSUME Bad # {} PROVE FALSE
    <3>1. Bad \in SUBSET Nat
      OBVIOUS
    <3>2. PICK i \in Bad : \A j \in Bad : i <= j
      <4> HIDE DEF Bad
      <4> QED
        BY <2>1, <3>1, LeastOf
    <3>3. i \in 0 .. width /\ res[i] # g[i]
      OBVIOUS
    <3>4. res[i] = Next1(res, i) /\ g[i] = Next1(g, i)
      BY <1>3, <1>9, <3>3
    <3>5. i # 0
      BY <3>3, <3>4
    <3>6. i - 1 \in 0 .. width /\ i - 1 < i
      BY <3>3, <3>5
    <3>7. res[i - 1] = g[i - 1]
      BY <3>2, <3>6
    <3> QED
      BY <3>3, <3>4, <3>7
  <2> QED
    BY <2>1
<1> QED
  BY <1>1, <1>5, <1>10 DEF b

\* The fields of a message: within its body, no two on a byte, none left out, none cut off.
FieldOf(f, body) ==
  /\ f.at \in Nat /\ f.width \in 1 .. 8 /\ f.holds \in f.width .. 8
  /\ \A p \in Int : f.at <= p /\ p < f.at + f.width => p \in body

ReadsAll(fields, body) ==
  /\ \A f \in fields : FieldOf(f, body)
  /\ \A p \in body : \E f \in fields : f.at <= p /\ p < f.at + f.width
  /\ \A f, g \in fields : f = g \/ f.at + f.width <= g.at \/ g.at + g.width <= f.at

BodyOf(t) == 1 .. expected_length[t] - 1 \ Unread(t)

\* Fields of two parts that have no byte in common.
LEMMA ReadsBoth ==
  ASSUME NEW F, NEW A \in SUBSET Nat, ReadsAll(F, A), NEW G, NEW B \in SUBSET Nat, ReadsAll(G, B),
         A \cap B = {}
  PROVE  ReadsAll(F \cup G, A \cup B)
<1>1. ASSUME NEW f \in F, NEW g \in G
      PROVE  f.at + f.width <= g.at \/ g.at + g.width <= f.at
  <2>1. FieldOf(f, A) /\ FieldOf(g, B)
    BY DEF ReadsAll
  <2> DEFINE p == IF f.at <= g.at THEN g.at ELSE f.at
  <2>2. p \notin A \/ p \notin B
    OBVIOUS
  <2> QED
    BY <2>1, <2>2 DEF FieldOf
<1>2. \A f \in F \cup G : FieldOf(f, A \cup B)
  BY DEF ReadsAll, FieldOf
<1>3. \A p \in A \cup B : \E f \in F \cup G : f.at <= p /\ p < f.at + f.width
  BY DEF ReadsAll
<1>4. \A f, g \in F \cup G : f = g \/ f.at + f.width <= g.at \/ g.at + g.width <= f.at
  BY <1>1 DEF ReadsAll
<1> QED
  BY <1>2, <1>3, <1>4 DEF ReadsAll

\* The layouts of decoder.cc fill the bodies of the lengths in message_type.h.
LEMMA LayoutsFill ==
  ASSUME NEW t \in Decoded
  PROVE  /\ expected_length[t] \in Nat /\ BodyOf(t) \subseteq 1 .. expected_length[t] - 1
         /\ ReadsAll(Fields(t), BodyOf(t))
<1> DEFINE Filled(n, skip, rest) ==
             /\ expected_length[t] = n /\ n \in Nat /\ n >= 12
             /\ Unread(t) = skip /\ (\A p \in 1 .. 10 : p \notin skip)
             /\ Fields(t) = HeaderFields \cup rest
             /\ ReadsAll(rest, 11 .. n - 1 \ skip)
<1>1. t \in {"S", "R", "A", "F", "E", "C", "X", "D", "U", "P", "Q"}
  BY DEF Decoded, expected_length
<1>2. ReadsAll(HeaderFields, 1 .. 10)
  BY DEF ReadsAll, FieldOf, HeaderFields, Field, Member
<1>3. ASSUME NEW n, NEW skip, NEW rest, Filled(n, skip, rest)
      PROVE  /\ expected_length[t] \in Nat /\ BodyOf(t) \subseteq 1 .. expected_length[t] - 1
             /\ ReadsAll(Fields(t), BodyOf(t))
  <2> DEFINE B == 11 .. n - 1 \ skip
  <2>1. BodyOf(t) = (1 .. 10) \cup B
    BY <1>3 DEF BodyOf
  <2>2. (1 .. 10) \cap B = {} /\ (1 .. 10) \in SUBSET Nat /\ B \in SUBSET Nat
    OBVIOUS
  <2>3. ReadsAll(rest, B) /\ Fields(t) = HeaderFields \cup rest
    BY <1>3
  <2> HIDE DEF B
  <2>4. ReadsAll(HeaderFields \cup rest, (1 .. 10) \cup B)
    BY <1>2, <2>2, <2>3, ReadsBoth
  <2>5. expected_length[t] \in Nat /\ BodyOf(t) \subseteq 1 .. expected_length[t] - 1
    BY <1>3 DEF BodyOf
  <2> QED
    BY <2>1, <2>3, <2>4, <2>5
<1>4. CASE t = "S"
  <2> DEFINE rest == {Field("event_code", 11, 1)}
  <2>1. expected_length[t] = 12 /\ Unread(t) = {} /\ Fields(t) = HeaderFields \cup rest
    BY <1>4 DEF expected_length, Unread, Fields
  <2>2. ReadsAll(rest, 11 .. 12 - 1 \ {})
    BY DEF ReadsAll, FieldOf, Field, Member, AddOrderFields, OrderExecutedFields, TradeFields
  <2> HIDE DEF rest
  <2>3. Filled(12, {}, rest)
    BY <2>1, <2>2
  <2> HIDE DEF Filled
  <2> QED
    BY <1>3, <2>3
<1>5. CASE t = "R"
  <2> DEFINE rest == {Field("stock", 11, 8), Field("market_category", 19, 1),
                      Field("round_lot_size", 21, 4)}
  <2>1. expected_length[t] = 39 /\ Unread(t) = {20} \cup 25 .. 38 /\ Fields(t) = HeaderFields \cup rest
    BY <1>5 DEF expected_length, Unread, Fields
  <2>2. ReadsAll(rest, 11 .. 39 - 1 \ ({20} \cup 25 .. 38))
    BY DEF ReadsAll, FieldOf, Field, Member, AddOrderFields, OrderExecutedFields, TradeFields
  <2> HIDE DEF rest
  <2>3. Filled(39, {20} \cup 25 .. 38, rest)
    BY <2>1, <2>2
  <2> HIDE DEF Filled
  <2> QED
    BY <1>3, <2>3
<1>6. CASE t = "A"
  <2> DEFINE rest == AddOrderFields
  <2>1. expected_length[t] = 36 /\ Unread(t) = {} /\ Fields(t) = HeaderFields \cup rest
    BY <1>6 DEF expected_length, Unread, Fields
  <2>2. ReadsAll(rest, 11 .. 36 - 1 \ {})
    BY DEF ReadsAll, FieldOf, Field, Member, AddOrderFields, OrderExecutedFields, TradeFields
  <2> HIDE DEF rest
  <2>3. Filled(36, {}, rest)
    BY <2>1, <2>2
  <2> HIDE DEF Filled
  <2> QED
    BY <1>3, <2>3
<1>7. CASE t = "F"
  <2> DEFINE rest == AddOrderFields
  <2>1. expected_length[t] = 40 /\ Unread(t) = 36 .. 39 /\ Fields(t) = HeaderFields \cup rest
    BY <1>7 DEF expected_length, Unread, Fields
  <2>2. ReadsAll(rest, 11 .. 40 - 1 \ (36 .. 39))
    BY DEF ReadsAll, FieldOf, Field, Member, AddOrderFields, OrderExecutedFields, TradeFields
  <2> HIDE DEF rest
  <2>3. Filled(40, 36 .. 39, rest)
    BY <2>1, <2>2
  <2> HIDE DEF Filled
  <2> QED
    BY <1>3, <2>3
<1>8. CASE t = "E"
  <2> DEFINE rest == OrderExecutedFields("E")
  <2>1. expected_length[t] = 31 /\ Unread(t) = {} /\ Fields(t) = HeaderFields \cup rest
    BY <1>8 DEF expected_length, Unread, Fields
  <2>2. ReadsAll(rest, 11 .. 31 - 1 \ {})
    BY DEF ReadsAll, FieldOf, Field, Member, AddOrderFields, OrderExecutedFields, TradeFields
  <2> HIDE DEF rest
  <2>3. Filled(31, {}, rest)
    BY <2>1, <2>2
  <2> HIDE DEF Filled
  <2> QED
    BY <1>3, <2>3
<1>9. CASE t = "C"
  <2> DEFINE rest == OrderExecutedFields("C")
  <2>1. expected_length[t] = 36 /\ Unread(t) = {} /\ Fields(t) = HeaderFields \cup rest
    BY <1>9 DEF expected_length, Unread, Fields
  <2>2. ReadsAll(rest, 11 .. 36 - 1 \ {})
    BY DEF ReadsAll, FieldOf, Field, Member, AddOrderFields, OrderExecutedFields, TradeFields
  <2> HIDE DEF rest
  <2>3. Filled(36, {}, rest)
    BY <2>1, <2>2
  <2> HIDE DEF Filled
  <2> QED
    BY <1>3, <2>3
<1>10. CASE t = "X"
  <2> DEFINE rest == {Field("order_ref", 11, 8), Field("cancelled_shares", 19, 4)}
  <2>1. expected_length[t] = 23 /\ Unread(t) = {} /\ Fields(t) = HeaderFields \cup rest
    BY <1>10 DEF expected_length, Unread, Fields
  <2>2. ReadsAll(rest, 11 .. 23 - 1 \ {})
    BY DEF ReadsAll, FieldOf, Field, Member, AddOrderFields, OrderExecutedFields, TradeFields
  <2> HIDE DEF rest
  <2>3. Filled(23, {}, rest)
    BY <2>1, <2>2
  <2> HIDE DEF Filled
  <2> QED
    BY <1>3, <2>3
<1>11. CASE t = "D"
  <2> DEFINE rest == {Field("order_ref", 11, 8)}
  <2>1. expected_length[t] = 19 /\ Unread(t) = {} /\ Fields(t) = HeaderFields \cup rest
    BY <1>11 DEF expected_length, Unread, Fields
  <2>2. ReadsAll(rest, 11 .. 19 - 1 \ {})
    BY DEF ReadsAll, FieldOf, Field, Member, AddOrderFields, OrderExecutedFields, TradeFields
  <2> HIDE DEF rest
  <2>3. Filled(19, {}, rest)
    BY <2>1, <2>2
  <2> HIDE DEF Filled
  <2> QED
    BY <1>3, <2>3
<1>12. CASE t = "U"
  <2> DEFINE rest == {Field("original_order_ref", 11, 8), Field("new_order_ref", 19, 8),
                      Field("shares", 27, 4), Field("price", 31, 4)}
  <2>1. expected_length[t] = 35 /\ Unread(t) = {} /\ Fields(t) = HeaderFields \cup rest
    BY <1>12 DEF expected_length, Unread, Fields
  <2>2. ReadsAll(rest, 11 .. 35 - 1 \ {})
    BY DEF ReadsAll, FieldOf, Field, Member, AddOrderFields, OrderExecutedFields, TradeFields
  <2> HIDE DEF rest
  <2>3. Filled(35, {}, rest)
    BY <2>1, <2>2
  <2> HIDE DEF Filled
  <2> QED
    BY <1>3, <2>3
<1>13. CASE t = "P"
  <2> DEFINE rest == TradeFields("P")
  <2>1. expected_length[t] = 44 /\ Unread(t) = {} /\ Fields(t) = HeaderFields \cup rest
    BY <1>13 DEF expected_length, Unread, Fields
  <2>2. ReadsAll(rest, 11 .. 44 - 1 \ {})
    <3>1. rest = {Field("order_ref", 11, 8), Field("side", 19, 1), Member("shares", 20, 4, 8),
                  Field("stock", 24, 8), Field("price", 32, 4), Field("match_number", 36, 8)}
      BY DEF TradeFields, AddOrderFields, Field, Member
    <3> HIDE DEF rest
    <3> QED
      BY <3>1 DEF ReadsAll, FieldOf, Field, Member
  <2> HIDE DEF rest
  <2>3. Filled(44, {}, rest)
    BY <2>1, <2>2
  <2> HIDE DEF Filled
  <2> QED
    BY <1>3, <2>3
<1>14. CASE t = "Q"
  <2> DEFINE rest == TradeFields("Q")
  <2>1. expected_length[t] = 40 /\ Unread(t) = {39} /\ Fields(t) = HeaderFields \cup rest
    BY <1>14 DEF expected_length, Unread, Fields
  <2>2. ReadsAll(rest, 11 .. 40 - 1 \ {39})
    BY DEF ReadsAll, FieldOf, Field, Member, AddOrderFields, OrderExecutedFields, TradeFields
  <2> HIDE DEF rest
  <2>3. Filled(40, {39}, rest)
    BY <2>1, <2>2
  <2> HIDE DEF Filled
  <2> QED
    BY <1>3, <2>3
<1> QED
  BY <1>1, <1>4, <1>5, <1>6, <1>7, <1>8, <1>9, <1>10, <1>11, <1>12, <1>13, <1>14

\* A field of a message in which only byte p is not zero gets the weight of its place in
\* the field, and nothing when it is not in the field.
LEMMA ValueOnly ==
  ASSUME NEW D \in SUBSET Nat, NEW p \in D, NEW f, FieldOf(f, D)
  PROVE  /\ f.at <= p /\ p < f.at + f.width =>
              /\ f.at + f.width - 1 - p \in 0 .. 7
              /\ Value(f, OnlyAt(D, p)) = Weight[f.at + f.width - 1 - p]
              /\ Value(f, OnlyAt(D, p)) # 0
         /\ ~(f.at <= p /\ p < f.at + f.width) => Value(f, OnlyAt(D, p)) = 0
<1> DEFINE at == f.at
           w == f.width
           h == f.holds
           v == be(OnlyAt(D, p), at, w)
           m == Weight[h]
<1>1. at \in Nat /\ w \in 1 .. 8 /\ h \in w .. 8 /\ p \in Nat
  BY DEF FieldOf
<1>2. at .. at + w - 1 \subseteq D
  BY <1>1 DEF FieldOf
<1> HIDE DEF at, w, h
<1>3. v = HasRead(at, w, p)
  BY <1>1, <1>2, BeOnly
<1>4. Value(f, OnlyAt(D, p)) = v % m
  BY DEF Value, at, w, h
<1>5. m \in Nat \ {0}
  BY <1>1, WeightsRise
<1> HIDE DEF v, m
<1>6. CASE at <= p /\ p < at + w
  <2> DEFINE k == at + w - 1 - p
  <2>1. k \in 0 .. 7 /\ k < h /\ p \in at .. at + w - 1
    BY <1>1, <1>6
  <2>2. v = Weight[k]
    BY <1>3, <2>1 DEF HasRead
  <2> HIDE DEF k
  <2>3. Weight[k] \in Nat \ {0} /\ Weight[k] < m
    BY <1>1, <2>1, WeightsRise DEF m
  <2>4. v % m = v
    BY <1>5, <2>2, <2>3
  <2> QED
    BY <1>4, <1>6, <2>1, <2>2, <2>3, <2>4 DEF k, at, w
<1>7. CASE ~(at <= p /\ p < at + w)
  <2>1. v = 0
    BY <1>1, <1>3, <1>7 DEF HasRead
  <2> QED
    BY <1>4, <1>5, <1>7, <2>1 DEF at, w
<1> QED
  BY <1>6, <1>7 DEF at, w

\* Each byte of a message reaches one field, at its place.
LEMMA BytesReach ==
  ASSUME NEW t \in Decoded
  PROVE  LET body == 1 .. expected_length[t] - 1 \ Unread(t)
             bytes == 0 .. expected_length[t] + kBehind
             Only(p) == [i \in bytes |-> IF i = p THEN 1 ELSE 0]
             Seen(p) == {f \in Fields(t) : Value(f, Only(p)) # 0}
         IN  \A p \in bytes :
               IF p \in body
               THEN \E f \in Fields(t) :
                      /\ Seen(p) = {f}
                      /\ Value(f, Only(p)) = Weight[Cardinality({q \in body : q > p /\ f \in Seen(q)})]
               ELSE Seen(p) = {}
<1> DEFINE n == expected_length[t]
           body == 1 .. n - 1 \ Unread(t)
           bytes == 0 .. n + kBehind
           Only(p) == [i \in bytes |-> IF i = p THEN 1 ELSE 0]
           Seen(p) == {f \in Fields(t) : Value(f, Only(p)) # 0}
           Covers(p, f) == f.at <= p /\ p < f.at + f.width
<1>1. n \in Nat /\ body \subseteq 1 .. n - 1 /\ ReadsAll(Fields(t), body)
  BY LayoutsFill DEF BodyOf
<1>2. body \subseteq bytes /\ bytes \in SUBSET Nat
  BY <1>1 DEF kBehind
<1>3. \A p : Only(p) = OnlyAt(bytes, p)
  BY DEF OnlyAt
<1> HIDE DEF body, bytes, Only
<1>4. \A f \in Fields(t) : FieldOf(f, body) /\ FieldOf(f, bytes)
  BY <1>1, <1>2 DEF ReadsAll, FieldOf
<1>5. ASSUME NEW p \in bytes, NEW f \in Fields(t)
      PROVE  /\ f \in Seen(p) <=> Covers(p, f)
             /\ Covers(p, f) => Value(f, Only(p)) = Weight[f.at + f.width - 1 - p]
  <2>1. FieldOf(f, bytes)
    BY <1>4
  <2>2. /\ Covers(p, f) => /\ Value(f, OnlyAt(bytes, p)) = Weight[f.at + f.width - 1 - p]
                       /\ Value(f, OnlyAt(bytes, p)) # 0
        /\ ~Covers(p, f) => Value(f, OnlyAt(bytes, p)) = 0
    BY <1>2, <2>1, ValueOnly
  <2> QED
    BY <1>3, <2>2
<1>6. \A p : Seen(p) \subseteq Fields(t)
  OBVIOUS
<1> HIDE DEF Seen
<1>7. ASSUME NEW p \in bytes, p \notin body PROVE Seen(p) = {}
  <2>1. ASSUME NEW f \in Fields(t) PROVE ~Covers(p, f)
    BY <1>2, <1>4, <1>7 DEF FieldOf
  <2> QED
    BY <1>5, <1>6, <2>1
<1>8. ASSUME NEW p \in body
      PROVE  \E f \in Fields(t) :
               /\ Seen(p) = {f}
               /\ Value(f, Only(p)) = Weight[Cardinality({q \in body : q > p /\ f \in Seen(q)})]
  <2>1. PICK f \in Fields(t) : Covers(p, f)
    BY <1>1 DEF ReadsAll
  <2>2. p \in bytes /\ p \in Nat
    BY <1>2
  <2>3. f.at \in Nat /\ f.width \in 1 .. 8 /\ \A q \in Int : Covers(q, f) => q \in body
    BY <1>4 DEF FieldOf
  <2>4. \A g \in Fields(t) : Covers(p, g) => g = f
    <3>1. \A g \in Fields(t) : g = f \/ g.at + g.width <= f.at \/ f.at + f.width <= g.at
      BY <1>1 DEF ReadsAll
    <3>2. \A g \in Fields(t) : g.at \in Nat /\ g.width \in 1 .. 8
      BY <1>4 DEF FieldOf
    <3> QED
      BY <2>1, <2>2, <2>3, <3>1, <3>2
  <2>5. Seen(p) = {f}
    BY <1>5, <1>6, <2>1, <2>2, <2>4
  <2> DEFINE last == f.at + f.width - 1
  <2>6. {q \in body : q > p /\ f \in Seen(q)} = p + 1 .. last
    <3>1. \A q \in body : f \in Seen(q) <=> Covers(q, f)
      BY <1>2, <1>5
    <3>2. \A q \in body : q \in Nat
      BY <1>2
    <3>3. ASSUME NEW q \in body, q > p, f \in Seen(q) PROVE q \in p + 1 .. last
      BY <2>2, <2>3, <3>1, <3>2, <3>3
    <3>4. ASSUME NEW q \in p + 1 .. last PROVE q \in body /\ q > p /\ f \in Seen(q)
      <4>1. q \in Int /\ Covers(q, f) /\ q > p
        BY <2>1, <2>2, <2>3
      <4> QED
        BY <2>3, <3>1, <4>1
    <3> QED
      BY <3>3, <3>4
  <2>7. Cardinality(p + 1 .. last) = last - p
    <3>1. last \in Int /\ p + 1 \in Int /\ p <= last
      BY <2>1, <2>2, <2>3
    <3>2. Cardinality(p + 1 .. last) = IF p + 1 > last THEN 0 ELSE last - (p + 1) + 1
      <4> HIDE DEF last
      <4> QED
        BY <3>1, FS_Interval
    <3> HIDE DEF last
    <3> QED
      BY <2>2, <3>1, <3>2
  <2>8. Covers(p, f) => Value(f, Only(p)) = Weight[f.at + f.width - 1 - p]
    BY <1>5, <2>2, Zenon
  <2>9. Value(f, Only(p)) = Weight[f.at + f.width - 1 - p]
    BY <2>1, <2>8
  <2>10. last - p = f.at + f.width - 1 - p
    BY <2>2, <2>3
  <2> HIDE DEF last
  <2> QED
    BY <2>5, <2>6, <2>7, <2>9, <2>10
<1>9. \A p \in bytes :
        IF p \in body
        THEN \E f \in Fields(t) :
               /\ Seen(p) = {f}
               /\ Value(f, Only(p)) = Weight[Cardinality({q \in body : q > p /\ f \in Seen(q)})]
        ELSE Seen(p) = {}
  BY <1>7, <1>8
<1> QED
  BY <1>9, Zenon DEF n, body, bytes, Only, Seen

\* decoder.cc and message_type.h: every byte of a message that is read reaches one field, at
\* its place, for bytes of any radix.
THEOREM OffsetsAgree == ReplaySpec => []EachByteOnce
<1>1. EachByteOnce
  BY BytesReach, Zenon DEF EachByteOnce
<1> QED
  BY <1>1, PTL

-----------------------------------------------------------------------------
(***************************************************************************)
(* The words of the order index.                                           *)
(***************************************************************************)
\* What is left of a number below twice the side bit.
LEMMA BelowTwice ==
  ASSUME NEW n \in Nat, n < 2 * kSideBit
  PROVE  n % kSideBit = IF n < kSideBit THEN n ELSE n - kSideBit
<1> DEFINE k == kSideBit
           q == n \div k
           m == n % k
<1>1. k \in Nat \ {0}
  BY WordAssumption
<1>2. q \in Int /\ m \in 0 .. k - 1 /\ n = k * q + m
  BY <1>1
<1>3. n < k + k
  BY <1>1
<1> HIDE DEF k, q, m
<1>4. q < 2
  <2> SUFFICES ASSUME q >= 2 PROVE FALSE
    BY <1>2
  <2>1. k * q >= k * 2
    BY <1>1, <1>2
  <2> QED
    BY <1>1, <1>2, <1>3, <2>1
<1>5. q >= 0
  <2> SUFFICES ASSUME q <= -1 PROVE FALSE
    BY <1>2
  <2>1. k * q <= k * (-1)
    BY <1>1, <1>2
  <2> QED
    BY <1>1, <1>2, <2>1
<1>6. CASE q = 0
  <2>1. n = m
    BY <1>1, <1>2, <1>6
  <2> QED
    BY <1>1, <1>2, <2>1 DEF k, m
<1>7. CASE q = 1
  <2>1. n = k + m
    BY <1>1, <1>2, <1>7
  <2> QED
    BY <1>1, <1>2, <2>1 DEF k, m
<1> QED
  BY <1>2, <1>4, <1>5, <1>6, <1>7

\* What a word says.
OrderOf(word) == [side |-> SideOf(word), price |-> 0, qty |-> qty(word)]

\* A word of a quantity below the side bit gives back its side and its shares.
LEMMA WordSays ==
  ASSUME NEW word \in Quantities
  PROVE  /\ OrderOf(word) \in OrderType
         /\ qty(word) \in Nat /\ qty(word) < kSideBit /\ SideOf(word) \in Sides
<1>1. kSideBit \in Nat \ {0} /\ word \in Nat /\ word < 2 * kSideBit
  BY WordAssumption DEF Quantities
<1>2. qty(word) \in Nat /\ qty(word) < kSideBit
  BY <1>1, BelowTwice DEF qty
<1>3. SideOf(word) \in Sides
  BY DEF SideOf, Sides
<1> QED
  BY <1>2, <1>3 DEF OrderOf, OrderType

\* A quantity that does not reach the side bit is packed so that the word says it; one that
\* does reach it loses just as much.
LEMMA PackSays ==
  ASSUME NEW side \in Sides, NEW n \in Quantities
  PROVE  /\ Pack(side, n) \in Quantities
         /\ Narrow(n) => qty(Pack(side, n)) = n /\ SideOf(Pack(side, n)) = side
         /\ ~Narrow(n) => qty(Pack(side, n)) = n - kSideBit
<1>1. kSideBit \in Nat \ {0} /\ n \in Nat /\ n < 2 * kSideBit
  BY WordAssumption DEF Quantities
<1>2. CASE Narrow(n) /\ side = "Buy"
  <2>1. n < kSideBit /\ Pack(side, n) = n + kSideBit
    BY <1>2 DEF Pack, Narrow
  <2>2. n + kSideBit \in Nat /\ n + kSideBit < 2 * kSideBit /\ ~(n + kSideBit < kSideBit)
    BY <1>1, <2>1
  <2>3. qty(n + kSideBit) = n
    BY <1>1, <2>2, BelowTwice DEF qty
  <2> QED
    BY <1>1, <1>2, <2>1, <2>2, <2>3 DEF SideOf, buy, Quantities
<1>3. CASE Narrow(n) /\ side # "Buy"
  <2>1. n < kSideBit /\ Pack(side, n) = n /\ side = "Sell"
    BY <1>3 DEF Pack, Narrow, Sides
  <2>2. qty(n) = n
    BY <1>1, <2>1, BelowTwice DEF qty
  <2> QED
    BY <1>1, <1>3, <2>1, <2>2 DEF SideOf, buy, Quantities
<1>4. CASE ~Narrow(n)
  <2>1. ~(n < kSideBit) /\ Pack(side, n) = n
    BY <1>4 DEF Pack, Narrow
  <2>2. qty(n) = n - kSideBit
    BY <1>1, <2>1, BelowTwice DEF qty
  <2> QED
    BY <1>1, <1>4, <2>1, <2>2
<1> QED
  BY <1>2, <1>3, <1>4

-----------------------------------------------------------------------------
\* The order map that words stand for.
WordMap(w) == [r \in DOMAIN w |-> OrderOf(w[r])]

IsWords(w) == w \in [DOMAIN w -> Quantities] /\ IsFiniteSet(DOMAIN w)

\* Words of quantities stand for an order map.
LEMMA WordsAreMap ==
  ASSUME NEW w, IsWords(w)
  PROVE  IsOrderMap(WordMap(w))
<1>1. DOMAIN WordMap(w) = DOMAIN w
  BY DEF WordMap
<1>2. \A r \in DOMAIN w : OrderOf(w[r]) \in OrderType
  BY WordSays DEF IsWords
<1> QED
  BY <1>1, <1>2 DEF IsOrderMap, IsWords, WordMap

\* The shares of the words, when one is put in the place of none.
LEMMA WordPut ==
  ASSUME NEW w, IsWords(w), NEW ref, ref \notin DOMAIN w, NEW word \in Quantities,
         NEW v, v = Put(w, ref, word)
  PROVE  /\ IsWords(v) /\ SumAll(WordMap(w)) \in Nat /\ SumAll(WordMap(v)) \in Nat
         /\ SumAll(WordMap(v)) = SumAll(WordMap(w)) + qty(word)
<1>1. /\ DOMAIN v = DOMAIN w \cup {ref} /\ v[ref] = word
      /\ \A r \in DOMAIN w : v[r] = w[r]
  BY DEF Put
<1>2. IsFiniteSet(DOMAIN v)
  BY <1>1, FS_AddElement DEF IsWords
<1>3. v = [r \in DOMAIN v |-> v[r]]
  BY DEF Put
<1>4. IsWords(v)
  BY <1>1, <1>2, <1>3 DEF IsWords
<1>5. DifferAt(WordMap(w), WordMap(v), ref)
  BY <1>1 DEF DifferAt, WordMap
<1>6. QtyOf(WordMap(w), ref) = 0 /\ QtyOf(WordMap(v), ref) = qty(word)
  BY <1>1 DEF QtyOf, WordMap, OrderOf
<1>7. IsOrderMap(WordMap(w)) /\ IsOrderMap(WordMap(v))
  BY <1>4, WordsAreMap
<1>8. /\ SumAll(WordMap(w)) \in Nat /\ SumAll(WordMap(v)) \in Nat
      /\ SumAll(WordMap(v)) = SumAll(WordMap(w)) - QtyOf(WordMap(w), ref) + QtyOf(WordMap(v), ref)
  BY <1>5, <1>7, SumsChangeAll
<1> QED
  BY <1>4, <1>6, <1>8, WordSays

\* When one goes.
LEMMA WordDrop ==
  ASSUME NEW w, IsWords(w), NEW ref \in DOMAIN w, NEW v, v = Drop(w, ref)
  PROVE  /\ IsWords(v) /\ SumAll(WordMap(w)) \in Nat /\ SumAll(WordMap(v)) \in Nat
         /\ SumAll(WordMap(v)) = SumAll(WordMap(w)) - qty(w[ref])
         /\ DOMAIN v = DOMAIN w \ {ref} /\ \A r \in DOMAIN v : v[r] = w[r]
<1>1. DOMAIN v = DOMAIN w \ {ref} /\ \A r \in DOMAIN v : v[r] = w[r]
  BY DEF Drop, Restrict
<1>2. IsFiniteSet(DOMAIN v)
  BY <1>1, FS_RemoveElement DEF IsWords
<1>3. v = [r \in DOMAIN v |-> v[r]]
  BY DEF Drop, Restrict
<1>4. IsWords(v)
  BY <1>1, <1>2, <1>3 DEF IsWords
<1>5. DifferAt(WordMap(w), WordMap(v), ref)
  BY <1>1 DEF DifferAt, WordMap
<1>6. QtyOf(WordMap(w), ref) = qty(w[ref]) /\ QtyOf(WordMap(v), ref) = 0
  BY <1>1 DEF QtyOf, WordMap, OrderOf
<1>7. IsOrderMap(WordMap(w)) /\ IsOrderMap(WordMap(v))
  BY <1>4, WordsAreMap
<1>8. /\ SumAll(WordMap(w)) \in Nat /\ SumAll(WordMap(v)) \in Nat
      /\ SumAll(WordMap(v)) = SumAll(WordMap(w)) - QtyOf(WordMap(w), ref) + QtyOf(WordMap(v), ref)
  BY <1>5, <1>7, SumsChangeAll
<1>9. qty(w[ref]) \in Nat
  BY WordSays DEF IsWords
<1> QED
  BY <1>1, <1>4, <1>6, <1>8, <1>9

\* When one is written anew.
IsWritten(w, v, ref, word) ==
  /\ IsWords(v) /\ SumAll(WordMap(w)) \in Nat /\ SumAll(WordMap(v)) \in Nat
  /\ SumAll(WordMap(v)) = SumAll(WordMap(w)) - qty(w[ref]) + qty(word)
  /\ DOMAIN v = DOMAIN w /\ v[ref] = word
  /\ \A r \in DOMAIN w : r # ref => v[r] = w[r]

\* A word packed for a side and a quantity is written: the map it stands for changes at its
\* reference alone, by that quantity.
LEMMA WordWritten ==
  ASSUME NEW w, IsWords(w), NEW ref \in DOMAIN w, NEW word \in Quantities,
         NEW v, v = [w EXCEPT ![ref] = word]
  PROVE  IsWritten(w, v, ref, word)
<1>1. /\ DOMAIN v = DOMAIN w /\ v[ref] = word
      /\ \A r \in DOMAIN w : r # ref => v[r] = w[r]
  OBVIOUS
<1>2. IsWords(v)
  BY DEF IsWords
<1>3. DifferAt(WordMap(w), WordMap(v), ref)
  BY <1>1 DEF DifferAt, WordMap
<1>4. QtyOf(WordMap(w), ref) = qty(w[ref]) /\ QtyOf(WordMap(v), ref) = qty(word)
  BY <1>1 DEF QtyOf, WordMap, OrderOf
<1>5. IsOrderMap(WordMap(w)) /\ IsOrderMap(WordMap(v))
  BY <1>2, WordsAreMap
<1>6. /\ SumAll(WordMap(w)) \in Nat /\ SumAll(WordMap(v)) \in Nat
      /\ SumAll(WordMap(v)) = SumAll(WordMap(w)) - QtyOf(WordMap(w), ref) + QtyOf(WordMap(v), ref)
  BY <1>3, <1>5, SumsChangeAll
<1> QED
  BY <1>1, <1>2, <1>4, <1>6 DEF IsWritten

-----------------------------------------------------------------------------
TellRight(w, t) == \A r \in DOMAIN w : SideOf(w[r]) = t[r].side /\ qty(w[r]) = t[r].qty

IsTold(w, t) == t \in [DOMAIN w -> [side : Sides, price : Int, qty : Int]]

WordInv ==
  /\ IsWords(words) /\ IsTold(words, told) /\ wide \in Nat
  /\ order_shares = SumAll(WordMap(words)) + wide * kSideBit
  /\ wide = 0 => TellRight(words, told)

\* An order entered, in place of none or of the one it replaces, keeps the invariant.
LEMMA InsertStep ==
  ASSUME WordInv, NEW gone, gone = {} \/ \E g \in DOMAIN words : gone = {g},
         NEW ref, ref \notin DOMAIN words \ gone, NEW side \in Sides, NEW n \in Quantities,
         NEW toldSide \in Sides, wide = 0 => side = toldSide,
         Insert(gone, ref, side, n, toldSide)
  PROVE  WordInv'
<1> DEFINE before == IF gone = {} THEN 0 ELSE qty(words[CHOOSE r \in gone : TRUE])
           base == Restrict(words, DOMAIN words \ gone)
           toldBase == Restrict(told, DOMAIN told \ gone)
           word == Pack(side, n)
           x == [side |-> toldSide, price |-> 0, qty |-> n]
<1>1. /\ wide' = IF Narrow(n) THEN wide ELSE wide + 1
      /\ words' = Put(base, ref, word) /\ told' = Put(toldBase, ref, x)
      /\ order_shares' = order_shares - before + n
  BY DEF Insert
<1>2. kSideBit \in Nat /\ n \in Nat /\ wide \in Nat
  BY WordAssumption DEF WordInv, Quantities
<1>3. /\ IsWords(base) /\ before \in Nat /\ SumAll(WordMap(base)) \in Nat
      /\ SumAll(WordMap(words)) = SumAll(WordMap(base)) + before
  <2> DEFINE Kept == /\ IsWords(base) /\ before \in Nat /\ SumAll(WordMap(base)) \in Nat
                     /\ SumAll(WordMap(words)) = SumAll(WordMap(base)) + before
  <2>1. CASE gone = {}
    <3>1. base = words /\ before = 0
      BY <2>1 DEF Restrict, WordInv, IsWords
    <3>2. SumAll(WordMap(words)) \in Nat
      BY WordsAreMap, SharesHeldFinite DEF WordInv, SumAll
    <3> QED
      BY <3>1, <3>2 DEF WordInv
  <2>2. ASSUME NEW g \in DOMAIN words, gone = {g}
        PROVE  Kept
    <3>1. base = Drop(words, g) /\ before = qty(words[g])
      BY <2>2 DEF Drop
    <3>2. qty(words[g]) \in Nat
      BY WordSays DEF WordInv, IsWords
    <3> HIDE DEF base, before
    <3>3. /\ IsWords(base) /\ SumAll(WordMap(words)) \in Nat /\ SumAll(WordMap(base)) \in Nat
          /\ SumAll(WordMap(base)) = SumAll(WordMap(words)) - qty(words[g])
      BY <3>1, WordDrop DEF WordInv
    <3> QED
      BY <3>1, <3>2, <3>3
  <2> QED
    BY <2>1, <2>2
<1>4. /\ DOMAIN base = DOMAIN words \ gone /\ \A r \in DOMAIN base : base[r] = words[r]
      /\ DOMAIN toldBase = DOMAIN base /\ \A r \in DOMAIN base : toldBase[r] = told[r]
  BY DEF Restrict, WordInv, IsTold
<1>5. /\ word \in Quantities
      /\ Narrow(n) => qty(word) = n /\ SideOf(word) = side
      /\ ~Narrow(n) => qty(word) = n - kSideBit
  BY PackSays
<1>6. x \in [side : Sides, price : Int, qty : Int] /\ x.side = toldSide /\ x.qty = n
  BY <1>2
<1> HIDE DEF before, base, toldBase, word, x
<1>7. /\ IsWords(words') /\ SumAll(WordMap(words')) \in Nat
      /\ SumAll(WordMap(words')) = SumAll(WordMap(base)) + qty(word)
  BY <1>1, <1>3, <1>4, <1>5, WordPut
<1>8. /\ DOMAIN words' = DOMAIN base \cup {ref} /\ words'[ref] = word
      /\ \A r \in DOMAIN base : words'[r] = base[r]
  BY <1>1, <1>4 DEF Put
<1>9. /\ DOMAIN told' = DOMAIN base \cup {ref} /\ told'[ref] = x
      /\ \A r \in DOMAIN base : r # ref => told'[r] = toldBase[r]
      /\ told' = [r \in DOMAIN told' |-> told'[r]]
  BY <1>1, <1>4 DEF Put
<1>10. IsTold(words', told')
  <2>1. \A r \in DOMAIN told' : told'[r] \in [side : Sides, price : Int, qty : Int]
    BY <1>4, <1>6, <1>9 DEF WordInv, IsTold
  <2> QED
    BY <1>8, <1>9, <2>1 DEF IsTold
<1>11. order_shares' = SumAll(WordMap(words')) + wide' * kSideBit
  <2> DEFINE s == SumAll(WordMap(base))
             t == SumAll(WordMap(words'))
             p == wide * kSideBit
  <2>1. p \in Int /\ (wide + 1) * kSideBit = p + kSideBit
    BY <1>2
  <2>2. order_shares = s + before + p /\ s \in Nat /\ t = s + qty(word)
    BY <1>3, <1>7, <2>1 DEF WordInv
  <2> HIDE DEF p, s, t
  <2>3. CASE Narrow(n)
    <3>1. wide' * kSideBit = p
      BY <1>1, <2>3 DEF p
    <3>2. order_shares' = t + p
      BY <1>1, <1>2, <1>3, <1>5, <2>1, <2>2, <2>3
    <3> QED
      BY <3>1, <3>2 DEF t
  <2>4. CASE ~Narrow(n)
    <3>1. wide' * kSideBit = p + kSideBit
      BY <1>1, <2>1, <2>4
    <3>2. order_shares' = t + (p + kSideBit)
      BY <1>1, <1>2, <1>3, <1>5, <2>1, <2>2, <2>4
    <3> QED
      BY <3>1, <3>2 DEF t
  <2> QED
    BY <2>3, <2>4
<1>12. ASSUME wide' = 0 PROVE TellRight(words', told')
  <2>1. wide = 0 /\ Narrow(n)
    BY <1>1, <1>2, <1>12
  <2>2. side = toldSide /\ TellRight(words, told)
    BY <2>1 DEF WordInv
  <2>3. SideOf(words'[ref]) = told'[ref].side /\ qty(words'[ref]) = told'[ref].qty
    BY <1>5, <1>6, <1>8, <1>9, <2>1, <2>2
  <2>4. ASSUME NEW r \in DOMAIN base, r # ref
        PROVE  SideOf(words'[r]) = told'[r].side /\ qty(words'[r]) = told'[r].qty
    <3>1. words'[r] = words[r] /\ told'[r] = told[r] /\ r \in DOMAIN words
      BY <1>4, <1>8, <1>9, <2>4
    <3> QED
      BY <2>2, <3>1 DEF TellRight
  <2> QED
    BY <1>8, <2>3, <2>4 DEF TellRight
<1>13. wide' \in Nat
  BY <1>1, <1>2
<1> QED
  BY <1>7, <1>10, <1>11, <1>12, <1>13 DEF WordInv

\* Reductions and removals.
LEMMA CutStep ==
  ASSUME WordInv, NEW ref \in Refs, NEW n \in Quantities, reduce(ref, n) \/ remove(ref)
  PROVE  WordInv'
<1> DEFINE rests == qty(words[ref])
           m == ReduceBy(words[ref], n)
           s == SumAll(WordMap(words))
           p == wide * kSideBit
<1>1. ref \in DOMAIN words /\ wide' = wide
  BY DEF reduce, remove
<1>2. kSideBit \in Nat \ {0} /\ n \in Nat /\ wide \in Nat /\ p \in Int
  BY WordAssumption DEF WordInv, Quantities
<1>3. words[ref] \in Quantities /\ rests \in Nat /\ rests < kSideBit /\ SideOf(words[ref]) \in Sides
  BY <1>1, WordSays DEF WordInv, IsWords
<1>4. order_shares = s + p
  BY DEF WordInv
<1>5. wide' * kSideBit = p /\ wide' \in Nat
  BY <1>1, <1>2
<1>6. /\ told \in [DOMAIN words -> [side : Sides, price : Int, qty : Int]]
      /\ IsWords(words)
  BY DEF WordInv, IsTold
<1>7. CASE order_shares' = order_shares - rests /\ words' = Drop(words, ref) /\ told' = Drop(told, ref)
  <2>1. /\ IsWords(words') /\ s \in Nat /\ SumAll(WordMap(words')) \in Nat
        /\ SumAll(WordMap(words')) = s - rests
        /\ DOMAIN words' = DOMAIN words \ {ref} /\ \A r \in DOMAIN words' : words'[r] = words[r]
    <3>1. words' = Drop(words, ref) /\ IsWords(words) /\ ref \in DOMAIN words
      BY <1>1, <1>6, <1>7
    <3> HIDE DEF rests, s
    <3>2. IsWords(words')
      BY ONLY <3>1, WordDrop
    <3>3. SumAll(WordMap(words)) \in Nat /\ SumAll(WordMap(words')) \in Nat
      BY ONLY <3>1, WordDrop
    <3>4. SumAll(WordMap(words')) = SumAll(WordMap(words)) - qty(words[ref])
      BY ONLY <3>1, WordDrop
    <3>5. DOMAIN words' = DOMAIN words \ {ref} /\ \A r \in DOMAIN words' : words'[r] = words[r]
      BY ONLY <3>1, WordDrop
    <3> QED
      BY <3>2, <3>3, <3>4, <3>5 DEF rests, s
  <2>2. /\ DOMAIN told' = DOMAIN words' /\ \A r \in DOMAIN words' : told'[r] = told[r]
        /\ told' = [r \in DOMAIN told' |-> told'[r]]
    BY <1>6, <1>7, <2>1 DEF Drop, Restrict
  <2>3. IsTold(words', told')
    BY <1>6, <2>1, <2>2 DEF IsTold
  <2> HIDE DEF s, p, rests
  <2>4. order_shares' = SumAll(WordMap(words')) + p
    BY <1>2, <1>3, <1>4, <1>7, <2>1
  <2>5. wide' = 0 => TellRight(words', told')
    BY <1>1, <2>1, <2>2 DEF WordInv, TellRight
  <2> QED
    BY <1>5, <2>1, <2>3, <2>4, <2>5 DEF WordInv
<1>8. CASE /\ m # rests /\ order_shares' = order_shares - m
           /\ words' = [words EXCEPT ![ref] = Reduced(@, m)]
           /\ told' = [told EXCEPT ![ref].qty = @ - m]
  <2> DEFINE word == Reduced(words[ref], m)
  <2>1. m \in Nat /\ m < rests
    BY <1>2, <1>3, <1>8 DEF ReduceBy
  <2> HIDE DEF m
  <2>2. rests - m \in Quantities /\ Narrow(rests - m)
    BY <1>2, <1>3, <2>1 DEF Quantities, Narrow
  <2>3. word \in Quantities /\ qty(word) = rests - m /\ SideOf(word) = SideOf(words[ref])
    BY <1>3, <2>2, PackSays DEF Reduced
  <2>4. words' = [words EXCEPT ![ref] = word]
    BY <1>8
  <2> HIDE DEF word
  <2>5. /\ IsWords(words') /\ s \in Nat /\ SumAll(WordMap(words')) \in Nat
        /\ SumAll(WordMap(words')) = s - rests + qty(word)
        /\ DOMAIN words' = DOMAIN words /\ words'[ref] = word
        /\ \A r \in DOMAIN words : r # ref => words'[r] = words[r]
    <3>1. IsWords(words) /\ ref \in DOMAIN words /\ word \in Quantities
      BY <1>1, <1>6, <2>3
    <3>2. IsWritten(words, words', ref, word)
      BY ONLY <2>4, <3>1, WordWritten
    <3> QED
      BY <3>2 DEF IsWritten
  <2>6. /\ told' \in [DOMAIN words -> [side : Sides, price : Int, qty : Int]]
        /\ told'[ref].side = told[ref].side /\ told'[ref].qty = told[ref].qty - m
        /\ \A r \in DOMAIN words : r # ref => told'[r] = told[r]
    BY <1>1, <1>6, <1>8, <2>1
  <2> HIDE DEF s, p, rests
  <2>7. order_shares' = SumAll(WordMap(words')) + p
    BY <1>2, <1>3, <1>4, <1>8, <2>1, <2>3, <2>5
  <2>8. ASSUME wide' = 0, NEW r \in DOMAIN words
        PROVE  SideOf(words'[r]) = told'[r].side /\ qty(words'[r]) = told'[r].qty
    <3>1. SideOf(words[r]) = told[r].side /\ qty(words[r]) = told[r].qty
      BY <1>1, <2>8 DEF WordInv, TellRight
    <3>2. CASE r = ref
      BY <2>3, <2>5, <2>6, <3>1, <3>2 DEF rests
    <3> QED
      BY <2>5, <2>6, <3>1, <3>2
  <2> QED
    BY <1>5, <2>5, <2>6, <2>7, <2>8 DEF WordInv, IsTold, TellRight
<1>9. \/ order_shares' = order_shares - rests /\ words' = Drop(words, ref) /\ told' = Drop(told, ref)
      \/ /\ m # rests /\ order_shares' = order_shares - m
         /\ words' = [words EXCEPT ![ref] = Reduced(@, m)]
         /\ told' = [told EXCEPT ![ref].qty = @ - m]
  BY DEF reduce, remove
<1> QED
  BY <1>7, <1>8, <1>9

\* Any call of the order index keeps the invariant.
LEMMA WordStep ==
  ASSUME WordInv, [WordNext]_wordVars
  PROVE  WordInv'
<1>1. CASE UNCHANGED wordVars
  BY <1>1 DEF wordVars, WordInv, TellRight, IsTold, IsWords, WordMap
<1>2. ASSUME NEW ref \in Refs, NEW n \in Quantities, NEW side \in Sides, add(ref, side, n)
      PROVE  WordInv'
  <2>1. ref \notin DOMAIN words \ {} /\ Insert({}, ref, side, n, side)
    BY <1>2 DEF add
  <2> QED
    BY <2>1, InsertStep
<1>3. ASSUME NEW ref \in Refs, NEW n \in Quantities, NEW new \in Refs, replace(ref, new, n)
      PROVE  WordInv'
  <2> DEFINE side == SideOf(words[ref])
             toldSide == told[ref].side
  <2>1. /\ ref \in DOMAIN words /\ new \notin DOMAIN words \ {ref}
        /\ Insert({ref}, new, side, n, toldSide)
    BY <1>3 DEF replace
  <2>2. side \in Sides /\ toldSide \in Sides
    BY <2>1, WordSays DEF WordInv, IsWords, IsTold
  <2>3. wide = 0 => side = toldSide
    BY <2>1 DEF WordInv, TellRight
  <2> HIDE DEF side, toldSide
  <2> QED
    BY <2>1, <2>2, <2>3, InsertStep
<1> QED
  BY <1>1, <1>2, <1>3, CutStep DEF WordNext

\* flat_hash_map.h: however orders are added, reduced and replaced, a word says what the
\* feed said until an order reaches the side bit, and from then on resting_shares() is
\* off by the side bit for each one that did.
THEOREM WordsTell == WordSpec => []WordsTellTheOrders
<1>1. WordInit => WordInv
  <2> SUFFICES ASSUME WordInit PROVE WordInv
    OBVIOUS
  <2>1. DOMAIN words = {} /\ words = [r \in DOMAIN words |-> words[r]] /\ wide = 0
    BY DEF WordInit
  <2>2. IsWords(words)
    BY <2>1, FS_EmptySet DEF IsWords
  <2>3. SumAll(WordMap(words)) = 0
    <3>1. SharesHeld(WordMap(words), DOMAIN WordMap(words)) = {}
      BY <2>1 DEF SharesHeld, WordMap
    <3> QED
      BY <3>1, FS_EmptySet DEF SumAll, Total
  <2>4. IsTold(words, told)
    BY <2>1 DEF WordInit, NoOrders, IsTold
  <2>5. order_shares = SumAll(WordMap(words)) + wide * kSideBit
    BY <2>1, <2>3, WordAssumption DEF WordInit
  <2> QED
    BY <2>1, <2>2, <2>4, <2>5 DEF WordInv, TellRight
<1>2. WordInv => WordsTellTheOrders
  <2> SUFFICES ASSUME WordInv PROVE WordsTellTheOrders
    OBVIOUS
  <2> DEFINE rests == UNION {{r} \X (1 .. qty(words[r])) : r \in DOMAIN words}
  <2>1. SharesHeld(WordMap(words), DOMAIN WordMap(words)) = rests
    BY DEF SharesHeld, WordMap, OrderOf
  <2>2. SumAll(WordMap(words)) = Cardinality(rests)
    BY <2>1 DEF SumAll, Total
  <2>3. DOMAIN told = DOMAIN words
    BY DEF WordInv, IsTold
  <2> QED
    BY <2>2, <2>3 DEF WordInv, WordsTellTheOrders, TellRight
<1> QED
  BY <1>1, <1>2, WordStep, PTL DEF WordSpec

-----------------------------------------------------------------------------
(***************************************************************************)
(* The capture tool.                                                       *)
(***************************************************************************)
\* Ten words are numbers.
LEMMA WordsOfTen ==
  ASSUME NEW w \in Seq(Nat), Len(w) = 10
  PROVE  \A i \in 1 .. 10 : w[i] \in Nat
<1>1. \A i \in 1 .. Len(w) : w[i] \in Nat
  BY ElementOfSeq
<1> QED
  BY <1>1

\* The words of a header add up as the loop of ip_checksum adds them.
LEMMA SumOfTen ==
  ASSUME NEW w \in Seq(Nat), Len(w) = 10
  PROVE  SumOfWords(w) = w[1] + w[2] + w[3] + w[4] + w[5] + w[6] + w[7] + w[8] + w[9] + w[10]
<1> DEFINE IsSum(f) == f = [i \in 0 .. Len(w) |-> IF i = 0 THEN 0 ELSE f[i - 1] + w[i]]
           upto == CHOOSE f : IsSum(f)
           s2 == w[1] + w[2]  s3 == s2 + w[3]  s4 == s3 + w[4]  s5 == s4 + w[5]
           s6 == s5 + w[6]    s7 == s6 + w[7]  s8 == s7 + w[8]  s9 == s8 + w[9]
           g == [i \in 0 .. 10 |->
                   IF i = 0 THEN 0 ELSE IF i = 1 THEN w[1] ELSE IF i = 2 THEN s2
                   ELSE IF i = 3 THEN s3 ELSE IF i = 4 THEN s4 ELSE IF i = 5 THEN s5
                   ELSE IF i = 6 THEN s6 ELSE IF i = 7 THEN s7 ELSE IF i = 8 THEN s8
                   ELSE IF i = 9 THEN s9 ELSE s9 + w[10]]
<1>1. \A i \in 1 .. 10 : w[i] \in Nat
  BY WordsOfTen
<1>2. /\ s3 = s2 + w[3] /\ s4 = s3 + w[4] /\ s5 = s4 + w[5] /\ s6 = s5 + w[6]
      /\ s7 = s6 + w[7] /\ s8 = s7 + w[8] /\ s9 = s8 + w[9] /\ w[1] = 0 + w[1]
  BY <1>1
<1>3. s2 = w[1] + w[2]
  OBVIOUS
<1> HIDE DEF s2, s3, s4, s5, s6, s7, s8, s9
<1>4. \A i \in 1 .. 10 : g[i] = g[i - 1] + w[i]
  <2> SUFFICES ASSUME NEW i \in 1 .. 10 PROVE g[i] = g[i - 1] + w[i]
    OBVIOUS
  <2>1. \/ i = 1 \/ i = 2 \/ i = 3 \/ i = 4 \/ i = 5 \/ i = 6 \/ i = 7 \/ i = 8 \/ i = 9 \/ i = 10
    OBVIOUS
  <2> QED
    BY SMTT(30), <1>2, <1>3, <2>1
<1>5. g[0] = 0 /\ g = [i \in 0 .. 10 |-> g[i]]
  OBVIOUS
<1> HIDE DEF g
<1>6. g = [i \in 0 .. 10 |-> IF i = 0 THEN 0 ELSE g[i - 1] + w[i]]
  <2>1. \A i \in 0 .. 10 : g[i] = IF i = 0 THEN 0 ELSE g[i - 1] + w[i]
    BY <1>4, <1>5
  <2> QED
    BY <1>5, <2>1
<1>7. IsSum(g)
  BY <1>6
<1>8. IsSum(upto)
  BY <1>7
<1>9. SumOfWords(w) = upto[10]
  BY DEF SumOfWords
<1> HIDE DEF upto
<1>10. upto[0] = 0 /\ \A i \in 1 .. 10 : upto[i] = upto[i - 1] + w[i]
  BY <1>8
<1>11. /\ upto[1] = upto[0] + w[1] /\ upto[2] = upto[1] + w[2] /\ upto[3] = upto[2] + w[3]
       /\ upto[4] = upto[3] + w[4] /\ upto[5] = upto[4] + w[5] /\ upto[6] = upto[5] + w[6]
       /\ upto[7] = upto[6] + w[7] /\ upto[8] = upto[7] + w[8] /\ upto[9] = upto[8] + w[9]
       /\ upto[10] = upto[9] + w[10]
  BY <1>10
<1> QED
  BY <1>1, <1>9, <1>10, <1>11

\* Two rounds fold a sum of ten words into one, not zero, with the same remainder; so what
\* the complement adds makes the sum a multiple of 65535.
LEMMA ChecksumCompletes ==
  ASSUME NEW s \in Nat, s > 0, s <= 655350
  PROVE  LET c == Word(-1 - Folded(s)) IN c \in Words /\ s + c > 0 /\ (s + c) % 65535 = 0
<1> DEFINE q == s \div 65536
           a == (s % 65536) + q
           f == (a % 65536) + (a \div 65536)
           c == Word(-1 - f)
<1>1. /\ q \in Nat /\ q < 10 /\ a \in Nat /\ a > 0 /\ a <= 65545 /\ s = 65535 * q + a
  BY SMT
<1>2. Folded(s) = f
  BY SMT DEF Folded
<1> HIDE DEF q, a
<1>3. \/ a <= 65535 /\ f = a
      \/ a > 65535 /\ f = a - 65535
  BY <1>1, SMT
<1>4. f \in Nat /\ f > 0 /\ f <= 65535
  BY <1>1, <1>3, SMT
<1> HIDE DEF f
<1>5. c = 65535 - f
  BY <1>4, SMT DEF Word
<1> HIDE DEF c
<1>6. s + c = 65535 * (q + 1) \/ s + c = 65535 * (q + 2)
  BY <1>1, <1>3, <1>5, SMT
<1>7. (s + c) % 65535 = 0 /\ s + c > 0
  BY <1>1, <1>6, SMT
<1>8. c \in Words
  <2>1. c \in Int /\ kMaxWord \in Int /\ 0 <= c /\ c <= kMaxWord
    BY <1>4, <1>5, SMT DEF kMaxWord
  <2> QED
    BY <2>1, SMT DEF Words
<1> QED
  BY <1>2, <1>7, <1>8, SMT DEF c

\* The largest word, in decimal.
LEMMA LargestWord == kMaxWord \in Nat /\ kMaxWord = 65535
BY SMT DEF kMaxWord

\* Words are the numbers up to the largest one.
LEMMA WordsAreNumbers == \A x : x \in Words <=> x \in Nat /\ x <= kMaxWord
<1>1. kMaxWord \in Nat
  BY LargestWord
<1> QED
  BY <1>1, SMT DEF Words

\* The constant words of a header.
LEMMA SomeWords == 17664 \in Words /\ 0 \in Words /\ 16401 \in Words
BY LargestWord, WordsAreNumbers, SMT

\* A header is ten words.
IsHeader(h, total, c, src, dst) ==
  /\ h \in Seq(Nat) /\ Len(h) = 10 /\ DOMAIN h = 1 .. 10 /\ h[2] = total
  /\ \A i \in 1 .. 10 : h[i] \in Words
  /\ SumOfWords(h) = 34065 + total + c + src[1] + src[2] + dst[1] + dst[2]

\* A header of words is ten words, and what they sum to.
LEMMA HeaderWords ==
  ASSUME NEW total \in Words, NEW c \in Words, NEW src \in Words \X Words,
         NEW dst \in Words \X Words
  PROVE  IsHeader(Header(total, c, src, dst), total, c, src, dst)
<1> DEFINE h == Header(total, c, src, dst)
<1>1. src[1] \in Words /\ src[2] \in Words /\ dst[1] \in Words /\ dst[2] \in Words
  OBVIOUS
<1>2. h = <<17664, total, 0, 0, 16401, c, src[1], src[2], dst[1], dst[2]>>
  BY DEF Header
<1>3. /\ h[1] = 17664 /\ h[2] = total /\ h[3] = 0 /\ h[4] = 0 /\ h[5] = 16401 /\ h[6] = c
      /\ h[7] = src[1] /\ h[8] = src[2] /\ h[9] = dst[1] /\ h[10] = dst[2] /\ Len(h) = 10
      /\ DOMAIN h = 1 .. 10 /\ h = [i \in 1 .. 10 |-> h[i]]
  BY <1>2, SMT
<1>4. \A x \in Words : x \in Nat
  BY WordsAreNumbers
<1> HIDE DEF h
<1>5. \A i \in 1 .. 10 : h[i] \in Words
  <2> SUFFICES ASSUME NEW i \in 1 .. 10 PROVE h[i] \in Words
    OBVIOUS
  <2>1. \/ i = 1 \/ i = 2 \/ i = 3 \/ i = 4 \/ i = 5 \/ i = 6 \/ i = 7 \/ i = 8 \/ i = 9 \/ i = 10
    OBVIOUS
  <2> QED
    BY <1>1, <1>3, <2>1, SomeWords, SMT
<1>6. h \in Seq(Nat)
  <2>1. \A i \in 1 .. 10 : h[i] \in Nat
    BY <1>4, <1>5
  <2>2. h = [i \in 1 .. 10 |-> h[i]]
    BY <1>3
  <2> QED
    BY <2>1, <2>2
<1>7. SumOfWords(h) = h[1] + h[2] + h[3] + h[4] + h[5] + h[6] + h[7] + h[8] + h[9] + h[10]
  <2>1. Len(h) = 10
    BY <1>3
  <2> QED
    BY ONLY <1>6, <2>1, SumOfTen, Zenon
<1>8. SumOfWords(h) = 34065 + total + c + src[1] + src[2] + dst[1] + dst[2]
  <2>1. /\ total \in Nat /\ c \in Nat /\ src[1] \in Nat /\ src[2] \in Nat
        /\ dst[1] \in Nat /\ dst[2] \in Nat
    BY <1>1, <1>4
  <2> QED
    BY <1>3, <1>7, <2>1, SMT
<1>9. IsHeader(h, total, c, src, dst)
  BY <1>3, <1>5, <1>6, <1>8, SMT DEF IsHeader
<1> QED
  BY <1>9 DEF h

Captured == [size : Payloads, from : Addresses, id : Nat]

\* What the tool writes of a datagram dissects: its three lengths agree with the payload, and the
\* header, its checksum included, sums to a multiple of all ones.
LEMMA RecordDissects ==
  ASSUME NEW d \in Captured, group \in Groups
  PROVE  Dissects(PacketRecord(d), d)
<1> DEFINE r == PacketRecord(d)
           payload == Word(d.size)
           total == Word(20 + 8 + payload)
           dst == IF group = NoGroup THEN d.from ELSE group
           blank == Header(total, 0, d.from, dst)
           s == SumOfWords(blank)
           c == ip_checksum(blank)
           h == Header(total, c, d.from, dst)
<1>1. d.size \in Nat /\ d.size <= 65507 /\ d.from \in Words \X Words /\ dst \in Words \X Words
  <2>1. kMaxWord - 28 = 65507
    BY DEF kMaxWord
  <2>2. d.size \in 0 .. kMaxWord - 28 /\ d.from \in Words \X Words
    BY CaptureAssumption DEF Captured
  <2>3. dst \in Words \X Words
    BY <2>2, CaptureAssumption
  <2> HIDE DEF dst
  <2>4. kMaxWord \in Int
    BY LargestWord
  <2>5. d.size \in Nat /\ d.size <= kMaxWord - 28
    BY <2>2, <2>4
  <2> QED
    BY <2>1, <2>2, <2>3, <2>5
<1>2. d.from \in Words \X Words /\ dst \in Words \X Words
  BY <1>1
<1>3. payload = d.size /\ Word(8 + payload) = 8 + d.size /\ total = 28 + d.size
  <2>1. payload = d.size
    BY <1>1 DEF Word
  <2> QED
    BY <1>1, <2>1 DEF Word
<1>4. /\ r.incl_len = 28 + payload /\ r.orig_len = 28 + payload /\ r.header = h
      /\ r.udp_len = Word(8 + payload) /\ r.body = payload /\ r.id = d.id
  BY DEF PacketRecord
<1> HIDE DEF payload, r, dst
<1>5. total \in Words /\ 0 \in Words
  BY <1>1, <1>3, LargestWord, WordsAreNumbers, SomeWords, SMT
<1> HIDE DEF total
<1>6. s = 34065 + total + 0 + d.from[1] + d.from[2] + dst[1] + dst[2]
  <2>1. IsHeader(blank, total, 0, d.from, dst)
    BY <1>2, <1>5, HeaderWords, Zenon
  <2> QED
    BY <2>1, SMT DEF IsHeader
<1>7. d.from[1] \in Words /\ d.from[2] \in Words /\ dst[1] \in Words /\ dst[2] \in Words
  BY <1>1
<1>8. s \in Nat /\ s > 0 /\ s <= 655350
  BY <1>5, <1>6, <1>7, LargestWord, WordsAreNumbers, SMT
<1>9. c = Word(-1 - Folded(s))
  BY DEF ip_checksum
<1> HIDE DEF s, c
<1>10. c \in Words /\ s + c > 0 /\ (s + c) % 65535 = 0
  BY <1>8, <1>9, ChecksumCompletes
<1>11. /\ DOMAIN h = 1 .. 10 /\ h[2] = total /\ \A i \in 1 .. 10 : h[i] \in Words
       /\ SumOfWords(h) = 34065 + total + c + d.from[1] + d.from[2] + dst[1] + dst[2]
  <2>1. IsHeader(h, total, c, d.from, dst)
    <3>1. c \in Words
      BY <1>10
    <3> QED
      BY <1>2, <1>5, <3>1, HeaderWords, Zenon
  <2> QED
    BY <2>1, SMT DEF IsHeader
<1> HIDE DEF h
<1>12. SumOfWords(h) = s + c
  BY <1>5, <1>6, <1>7, <1>10, <1>11, WordsAreNumbers, SMT
<1>13. /\ r.incl_len = 28 + r.body /\ r.orig_len = r.incl_len /\ r.incl_len <= kSnaplen
       /\ r.header[2] = r.incl_len /\ r.udp_len = r.header[2] - 20
       /\ r.body = d.size /\ r.id = d.id
  BY <1>1, <1>3, <1>4, <1>11 DEF kSnaplen
<1>14. /\ \A i \in DOMAIN r.header : r.header[i] \in Words
       /\ SumOfWords(r.header) > 0 /\ SumOfWords(r.header) % 65535 = 0
  BY <1>4, <1>10, <1>11, <1>12
<1> QED
  BY <1>13, <1>14 DEF Dissects, r

-----------------------------------------------------------------------------
CaptureInv ==
  /\ group \in Groups /\ Len(pcap) = Len(received)
  /\ pcap \in Seq({PacketRecord(d) : d \in Captured}) /\ received \in Seq(Captured)
  /\ \A n \in 1 .. Len(pcap) : Dissects(pcap[n], received[n])

\* A datagram received is written as its record, and the records before it stay as they are.
LEMMA CaptureStep ==
  ASSUME CaptureInv, [CaptureNext]_captureVars
  PROVE  CaptureInv'
<1>1. CASE UNCHANGED <<group, pcap, received>>
  <2>1. {PacketRecord(d) : d \in Captured}' = {PacketRecord(d) : d \in Captured}
    BY <1>1 DEF PacketRecord
  <2> QED
    BY <1>1, <2>1 DEF CaptureInv
<1>2. CASE Receive
  <2>1. PICK size \in Payloads, from \in Addresses :
          LET d == [size |-> size, from |-> from, id |-> Len(received) + 1]
          IN  received' = Append(received, d) /\ pcap' = Append(pcap, PacketRecord(d))
    BY <1>2 DEF Receive
  <2> DEFINE d == [size |-> size, from |-> from, id |-> Len(received) + 1]
             r == PacketRecord(d)
             Records == {PacketRecord(e) : e \in Captured}
  <2>2. received' = Append(received, d) /\ pcap' = Append(pcap, r) /\ group' = group
    BY <1>2, <2>1 DEF Receive
  <2>3. d \in Captured
    BY DEF Captured, CaptureInv
  <2>4. Dissects(r, d) /\ r \in Records
    BY <2>3, RecordDissects DEF CaptureInv
  <2>5. Records' = Records
    BY <2>2 DEF PacketRecord
  <2> HIDE DEF d, r, Records
  <2>6. pcap \in Seq(Records) /\ received \in Seq(Captured) /\ Len(pcap) = Len(received)
    BY DEF CaptureInv, Records
  <2>7. /\ pcap' \in Seq(Records) /\ Len(pcap') = Len(pcap) + 1 /\ pcap'[Len(pcap) + 1] = r
        /\ \A n \in 1 .. Len(pcap) : pcap'[n] = pcap[n]
    BY <2>2, <2>4, <2>6, AppendProperties
  <2>8. /\ received' \in Seq(Captured) /\ Len(received') = Len(received) + 1
        /\ received'[Len(received) + 1] = d
        /\ \A n \in 1 .. Len(received) : received'[n] = received[n]
    BY <2>2, <2>3, <2>6, AppendProperties
  <2>9. Len(pcap) \in Nat
    BY <2>6
  <2>10. ASSUME NEW n \in 1 .. Len(pcap') PROVE Dissects(pcap'[n], received'[n])
    <3>1. CASE n = Len(pcap) + 1
      BY <2>4, <2>6, <2>7, <2>8, <3>1
    <3>2. CASE n \in 1 .. Len(pcap)
      <4>1. pcap'[n] = pcap[n] /\ received'[n] = received[n]
        BY <2>6, <2>7, <2>8, <3>2
      <4> QED
        BY <3>2, <4>1 DEF CaptureInv
    <3> QED
      BY <2>7, <2>9, <3>1, <3>2
  <2>11. pcap' \in Seq(Records')
    BY <2>5, <2>7
  <2> QED
    BY <2>2, <2>6, <2>7, <2>8, <2>10, <2>11 DEF CaptureInv, Records
<1> QED
  BY <1>1, <1>2 DEF CaptureNext, captureVars, SetUp, ReceiveFails, Finish

\* capture.cc: whatever datagrams arrive, and wherever the capture fails, the file holds each
\* in a packet whose lengths agree and whose checksum a dissector accepts.
THEOREM PacketsDissect == CaptureSpec => []RecordsDissect
<1>1. CaptureInit => CaptureInv
  BY DEF CaptureInit, CaptureInv
<1>2. CaptureInv => RecordsDissect
  BY DEF CaptureInv, RecordsDissect
<1> QED
  BY <1>1, <1>2, CaptureStep, PTL DEF CaptureSpec

-----------------------------------------------------------------------------
(***************************************************************************)
(* The latency recorder.                                                   *)
(***************************************************************************)
RecorderType ==
  /\ samples \in [0 .. Capacity - 1 -> Nat] /\ recorded \in Seq(Nat)
  /\ count_ \in Nat /\ forgotten \in Nat

\* The used part of the array is what was recorded and not discarded.
RecorderInv ==
  /\ RecorderType
  /\ count_ <= Capacity /\ Len(recorded) = forgotten + count_
  /\ \A i \in 0 .. count_ - 1 : samples[i] = recorded[forgotten + i + 1]

\* A sample recorded, or a clear, keeps the used part of the array what was recorded.
LEMMA RecorderStep ==
  ASSUME RecorderInv, [RecorderNext]_recorderVars
  PROVE  RecorderInv'
<1>1. Capacity \in Nat /\ Ticks \subseteq Nat
  BY RecorderAssumption
<1>2. CASE UNCHANGED recorderVars
  BY <1>2 DEF recorderVars, RecorderInv, RecorderType
<1>3. ASSUME NEW t \in Ticks, record(t) PROVE RecorderInv'
  <2>1. CASE UNCHANGED <<samples, count_, recorded, forgotten>>
    BY <2>1 DEF RecorderInv, RecorderType
  <2>2. CASE /\ count_ < Capacity
             /\ samples' = [samples EXCEPT ![count_] = t] /\ count_' = count_ + 1
             /\ recorded' = Append(recorded, t) /\ forgotten' = forgotten
    <3>1. t \in Nat /\ count_ \in 0 .. Capacity - 1
      BY <1>1, <2>2 DEF RecorderInv, RecorderType
    <3>2. /\ recorded' \in Seq(Nat) /\ Len(recorded') = Len(recorded) + 1
          /\ recorded'[Len(recorded) + 1] = t
          /\ \A k \in 1 .. Len(recorded) : recorded'[k] = recorded[k]
      BY <2>2, <3>1, AppendProperties DEF RecorderInv, RecorderType
    <3>3. /\ samples' \in [0 .. Capacity - 1 -> Nat] /\ samples'[count_] = t
          /\ \A i \in 0 .. Capacity - 1 : i # count_ => samples'[i] = samples[i]
      BY <2>2, <3>1 DEF RecorderInv, RecorderType
    <3>4. /\ count_ \in Nat /\ forgotten \in Nat /\ count_ <= Capacity
          /\ Len(recorded) = forgotten + count_
      BY DEF RecorderInv, RecorderType
    <3>5. ASSUME NEW i \in 0 .. count_' - 1
          PROVE  samples'[i] = recorded'[forgotten' + i + 1]
      <4>1. CASE i = count_
        BY <2>2, <3>2, <3>3, <3>4, <4>1
      <4>2. CASE i # count_
        <5>1. i \in 0 .. count_ - 1 /\ i \in 0 .. Capacity - 1
          BY <1>1, <2>2, <3>4, <4>2
        <5>2. forgotten + i + 1 \in 1 .. Len(recorded)
          BY <3>4, <5>1
        <5>3. samples[i] = recorded[forgotten + i + 1]
          BY <5>1 DEF RecorderInv
        <5> QED
          BY <2>2, <3>2, <3>3, <4>2, <5>1, <5>2, <5>3
      <4> QED
        BY <4>1, <4>2
    <3>6. count_' \in Nat /\ count_' <= Capacity /\ Len(recorded') = forgotten' + count_'
      BY <1>1, <2>2, <3>2, <3>4
    <3> QED
      BY <2>2, <3>2, <3>3, <3>4, <3>5, <3>6 DEF RecorderInv, RecorderType
  <2> QED
    BY <1>3, <2>1, <2>2 DEF record
<1>4. ASSUME NEW n \in 1 .. Capacity + 1, DiscardFirst(n) PROVE RecorderInv'
  <2>1. /\ count_ \in Nat /\ forgotten \in Nat /\ count_ <= Capacity
        /\ Len(recorded) = forgotten + count_ /\ recorded' = recorded
        /\ forgotten' = forgotten + (count_ - count_')
    BY <1>4 DEF RecorderInv, RecorderType, DiscardFirst
  <2>2. CASE count_' = 0 /\ samples' = samples
    <3>1. forgotten' \in Nat /\ Len(recorded') = forgotten' + count_' /\ count_' \in Nat
      BY <2>1, <2>2
    <3>2. count_' <= Capacity /\ 0 .. count_' - 1 = {}
      BY <1>1, <2>2
    <3> QED
      BY <2>1, <2>2, <3>1, <3>2 DEF RecorderInv, RecorderType
  <2>3. CASE n < count_ /\ samples' = Moved(n) /\ count_' = count_ - n
    <3>1. /\ n \in Nat /\ forgotten' = forgotten + n /\ forgotten' \in Nat /\ count_' \in Nat
          /\ count_' <= Capacity /\ Len(recorded') = forgotten' + count_'
      BY <1>1, <2>1, <2>3
    <3>2. /\ samples' = [i \in 0 .. Capacity - 1 |-> IF i + n < count_ THEN samples[i + n] ELSE samples[i]]
          /\ samples \in [0 .. Capacity - 1 -> Nat]
      BY <2>3 DEF Moved, RecorderInv, RecorderType
    <3>3. \A i \in 0 .. Capacity - 1 : i + n < count_ => i + n \in 0 .. Capacity - 1
      BY <1>1, <2>1, <3>1
    <3>4. samples' \in [0 .. Capacity - 1 -> Nat]
      BY <3>2, <3>3
    <3>5. ASSUME NEW i \in 0 .. count_' - 1
          PROVE  samples'[i] = recorded'[forgotten' + i + 1]
      <4>1. i \in 0 .. Capacity - 1 /\ i + n < count_ /\ i + n \in 0 .. count_ - 1
        BY <1>1, <2>1, <2>3, <3>1
      <4>2. samples'[i] = samples[i + n]
        BY <3>2, <4>1
      <4>3. samples[i + n] = recorded[forgotten + (i + n) + 1]
        BY <4>1 DEF RecorderInv
      <4>4. forgotten + (i + n) + 1 = forgotten' + i + 1
        <5>1. i \in Int
          BY <1>1, <4>1
        <5>2. n \in Int /\ forgotten \in Int
          BY <2>1, <3>1
        <5>3. forgotten' = forgotten + n
          BY <3>1
        <5> QED
          BY <5>1, <5>2, <5>3
      <4> QED
        BY <2>1, <4>2, <4>3, <4>4
    <3> QED
      BY <2>1, <3>1, <3>4, <3>5 DEF RecorderInv, RecorderType
  <2> QED
    BY <1>4, <2>2, <2>3 DEF DiscardFirst
<1> QED
  BY <1>2, <1>3, <1>4 DEF RecorderNext

\* So it is what should be held.
LEMMA HeldIsRecorded ==
  ASSUME RecorderInv
  PROVE  HoldsWhatWasRecorded
<1> DEFINE rest == SubSeq(recorded, forgotten + 1, Len(recorded))
<1>1. /\ count_ \in Nat /\ forgotten \in Nat /\ recorded \in Seq(Nat)
      /\ Len(recorded) = forgotten + count_ /\ count_ <= Capacity
  BY DEF RecorderInv, RecorderType
<1>2. rest = [i \in 1 .. count_ |-> recorded[forgotten + i]]
  BY <1>1
<1>3. ASSUME NEW i \in 1 .. count_ PROVE samples[i - 1] = recorded[forgotten + i]
  <2>1. i - 1 \in 0 .. count_ - 1 /\ forgotten + (i - 1) + 1 = forgotten + i
    BY <1>1
  <2> QED
    BY <2>1 DEF RecorderInv
<1> QED
  BY <1>1, <1>2, <1>3 DEF HoldsWhatWasRecorded, Held

\* Whatever is recorded and discarded.
LEMMA RecorderInvariance == RecorderSpec => []RecorderInv
<1>1. RecorderInit => RecorderInv
  BY RecorderAssumption DEF RecorderInit, RecorderInv, RecorderType
<1> QED
  BY <1>1, RecorderStep, PTL DEF RecorderSpec

\* latency_recorder.h: whatever is recorded and discarded, the array holds what was recorded
\* and not discarded, in order; percentile() and max_ticks() read nothing else.
THEOREM RecorderHolds == RecorderSpec => []HoldsWhatWasRecorded
BY RecorderInvariance, HeldIsRecorded, PTL

\* The samples that are held, by rank: each has its own, and every rank is one's.
LEMMA SamplesRanked ==
  ASSUME RecorderInv
  PROVE  /\ count_ \in Nat /\ Held \in [1 .. count_ -> Nat] /\ IsFiniteSet(1 .. count_)
         /\ Cardinality(1 .. count_) = count_
         /\ Ranking(1 .. count_, [i \in 1 .. count_ |-> Before(i)])
<1> DEFINE n == count_
           below == [i \in 1 .. n |-> Before(i)]
<1>1. n \in Nat /\ n <= Capacity /\ samples \in [0 .. Capacity - 1 -> Nat] /\ Capacity \in Nat
  BY RecorderAssumption DEF RecorderInv, RecorderType
<1>2. \A i \in 1 .. n : i - 1 \in 0 .. Capacity - 1
  BY <1>1
<1>3. Held \in [1 .. n -> Nat] /\ \A i \in 1 .. n : Held[i] \in Nat
  BY <1>1, <1>2 DEF Held
<1>4. \A i \in 1 .. n : below[i] = {j \in 1 .. n : Held[j] < Held[i] \/ (Held[j] = Held[i] /\ j < i)}
  BY DEF Before
<1>5. below \in [1 .. n -> SUBSET (1 .. n)]
  BY DEF Before
<1> HIDE DEF n, below
<1>6. \A x \in 1 .. n : x \notin below[x]
  BY <1>1, <1>3, <1>4
<1>7. ASSUME NEW x \in 1 .. n, NEW y \in 1 .. n, x \in below[y] PROVE below[x] \subseteq below[y]
  <2>1. Held[x] < Held[y] \/ (Held[x] = Held[y] /\ x < y)
    BY <1>4, <1>7
  <2>2. ASSUME NEW z \in below[x] PROVE z \in below[y]
    <3>1. z \in 1 .. n /\ (Held[z] < Held[x] \/ (Held[z] = Held[x] /\ z < x))
      BY <1>4, <2>2
    <3>2. /\ Held[x] \in Nat /\ Held[y] \in Nat /\ Held[z] \in Nat
          /\ x \in Int /\ y \in Int /\ z \in Int
      BY <1>1, <1>3, <3>1
    <3>3. Held[z] < Held[y] \/ (Held[z] = Held[y] /\ z < y)
      BY <2>1, <3>1, <3>2
    <3> QED
      BY <1>4, <3>1, <3>3
  <2> QED
    BY <2>2
<1>8. ASSUME NEW x \in 1 .. n, NEW y \in 1 .. n
      PROVE  x = y \/ x \in below[y] \/ y \in below[x]
  <2>1. Held[x] \in Nat /\ Held[y] \in Nat /\ x \in Int /\ y \in Int
    BY <1>1, <1>3
  <2> QED
    BY <1>4, <2>1
<1>9. Ranking(1 .. n, below)
  BY <1>5, <1>6, <1>7, <1>8 DEF Ranking
<1>10. IsFiniteSet(1 .. n) /\ Cardinality(1 .. n) = n
  BY <1>1, FS_Interval
<1> QED
  BY <1>1, <1>3, <1>9, <1>10 DEF n, below

\* Sample i is the k-th of the sorted copy.
SortedAt(i, k) == i \in 1 .. count_ /\ Cardinality(Before(i)) = k - 1 /\ Sorted[k] = Held[i]

\* Every place of the sorted copy has a sample.
LEMMA SortedIsHeld ==
  ASSUME RecorderInv, NEW k \in 1 .. count_
  PROVE  \E i : SortedAt(i, k)
<1> DEFINE n == count_
           below == [i \in 1 .. n |-> Before(i)]
<1>1. Cardinality(1 .. n) = n /\ IsFiniteSet(1 .. n) /\ Ranking(1 .. n, below)
  BY SamplesRanked
<1>2. \A i \in 1 .. n : below[i] = Before(i)
  OBVIOUS
<1> HIDE DEF below, n
<1>3. \E i \in 1 .. n : Cardinality(below[i]) = k - 1
  <2> DEFINE S == 1 .. n
  <2>1. IsFiniteSet(S) /\ Ranking(S, below) /\ k \in 1 .. Cardinality(S)
    BY <1>1 DEF n
  <2> HIDE DEF S
  <2>2. \E i \in S : Cardinality(below[i]) = k - 1
    BY <2>1, RanksFill
  <2> QED
    BY <2>2 DEF S
<1>4. \E i \in 1 .. n : Cardinality(Before(i)) = k - 1
  BY <1>2, <1>3
<1> USE DEF n
<1> DEFINE c == CHOOSE i \in 1 .. n : Cardinality(Before(i)) = k - 1
<1>5. c \in 1 .. n /\ Cardinality(Before(c)) = k - 1
  BY <1>4
<1>6. Sorted[k] = Held[c]
  BY DEF Sorted
<1> HIDE DEF c
<1> QED
  BY <1>5, <1>6 DEF SortedAt

\* The sorted copy does not fall.
LEMMA SortedRises ==
  ASSUME RecorderInv, NEW j \in 1 .. count_, NEW k \in 1 .. count_, j <= k
  PROVE  Sorted[j] \in Nat /\ Sorted[k] \in Nat /\ Sorted[j] <= Sorted[k]
<1> DEFINE n == count_
           below == [i \in 1 .. n |-> Before(i)]
<1>1. /\ n \in Nat /\ IsFiniteSet(1 .. n) /\ Ranking(1 .. n, below)
      /\ \A i \in 1 .. n : Held[i] \in Nat
  BY SamplesRanked
<1>2. \A i \in 1 .. n : below[i] = Before(i)
  OBVIOUS
<1>3. PICK x : SortedAt(x, j)
  BY SortedIsHeld
<1>4. PICK y : SortedAt(y, k)
  BY SortedIsHeld
<1>5. /\ x \in 1 .. n /\ y \in 1 .. n /\ Sorted[j] = Held[x] /\ Sorted[k] = Held[y]
      /\ Cardinality(below[x]) = j - 1 /\ Cardinality(below[y]) = k - 1
  BY <1>2, <1>3, <1>4 DEF SortedAt
<1> HIDE DEF below
<1>6. x = y \/ x \in below[y]
  <2>1. y \in below[x] => Cardinality(below[y]) < Cardinality(below[x])
    BY <1>1, <1>5, RanksRise
  <2>2. y \notin below[x]
    BY <1>1, <1>5, <2>1
  <2> QED
    BY <1>1, <1>5, <2>2 DEF Ranking
<1>7. x \in below[y] => Held[x] <= Held[y]
  <2>1. below[y] = {h \in 1 .. n : Held[h] < Held[y] \/ (Held[h] = Held[y] /\ h < y)}
    BY <1>2, <1>5 DEF Before
  <2> QED
    BY <1>1, <1>5, <2>1
<1> QED
  BY <1>1, <1>5, <1>6, <1>7

\* No sample is larger than the last of the sorted copy.
LEMMA LastIsLargest ==
  ASSUME RecorderInv, count_ > 0
  PROVE  \A i \in 1 .. count_ : Held[i] <= Sorted[count_]
<1> DEFINE n == count_
           below == [i \in 1 .. n |-> Before(i)]
<1>1. /\ n \in Nat /\ IsFiniteSet(1 .. n) /\ Ranking(1 .. n, below) /\ Cardinality(1 .. n) = n
      /\ \A i \in 1 .. n : Held[i] \in Nat
  BY SamplesRanked
<1>2. \A i \in 1 .. n : below[i] = Before(i)
  OBVIOUS
<1>3. PICK y : SortedAt(y, n)
  BY <1>1, SortedIsHeld
<1>4. y \in 1 .. n /\ Sorted[n] = Held[y] /\ Cardinality(below[y]) = n - 1
  BY <1>2, <1>3 DEF SortedAt
<1>5. below[y] = {h \in 1 .. n : Held[h] < Held[y] \/ (Held[h] = Held[y] /\ h < y)}
  BY <1>2, <1>4 DEF Before
<1> HIDE DEF below, n
<1>6. ASSUME NEW i \in 1 .. n PROVE Held[i] <= Held[y]
  <2>1. y \in below[i] => Cardinality(below[y]) < Cardinality(below[i])
    BY <1>1, <1>4, RanksRise
  <2>2. Cardinality(below[i]) \in 0 .. n - 1
    BY <1>1, RanksRise
  <2>3. y \notin below[i]
    BY <1>1, <1>4, <2>1, <2>2
  <2>4. i = y \/ i \in below[y]
    BY <1>1, <1>4, <2>3 DEF Ranking
  <2> QED
    BY <1>1, <1>4, <1>5, <2>4
<1> QED
  BY <1>4, <1>6 DEF n

\* What percentile() adds to the first place: the rank, cut off at the last sample.
PlaceOf(p) == IF RankOf(p) >= count_ THEN count_ - 1 ELSE RankOf(p)

\* A fraction of no more than one.
IsFraction(p) == p[1] \in Nat /\ p[2] \in Nat \ {0} /\ p[1] <= p[2]

\* The rank is within half a sample of p * (count_ - 1).
LEMMA RankIsNear ==
  ASSUME RecorderInv, count_ > 0, NEW p, IsFraction(p)
  PROVE  /\ RankOf(p) \in Nat /\ PlaceOf(p) \in 0 .. count_ - 1
         /\ 2 * PlaceOf(p) * p[2] <= 2 * p[1] * (count_ - 1) + p[2]
         /\ 2 * PlaceOf(p) * p[2] >= 2 * p[1] * (count_ - 1) - p[2]
<1> DEFINE a == p[1]
           b == p[2]
           m == count_ - 1
           x == 2 * a * m + b
           r == RankOf(p)
<1>1. a \in Nat /\ b \in Nat \ {0} /\ a <= b /\ m \in Nat /\ count_ = m + 1
  BY DEF RecorderInv, RecorderType, IsFraction
<1>2. r = x \div (2 * b)
  BY DEF RankOf
<1> HIDE DEF a, b, m, r
<1>3. a * m \in Nat /\ b * m \in Nat /\ a * m <= b * m
  <2>1. a * m \in Nat /\ b * m \in Nat
    BY <1>1
  <2> QED
    BY <1>1, <2>1, Times
<1>4. 2 * a * m = 2 * (a * m) /\ x = 2 * (a * m) + b
  BY <1>1
<1>5. x \in Nat /\ 2 * b \in Nat \ {0}
  BY <1>1, <1>3, <1>4
<1> HIDE DEF x
<1>6. r \in Nat /\ r * (2 * b) <= x /\ x < r * (2 * b) + 2 * b
  BY <1>2, <1>5, Quotient
<1>7. r * (2 * b) = 2 * (r * b) /\ r * b \in Nat
  BY <1>1, <1>6
<1>8. CASE r >= count_
  <2>1. PlaceOf(p) = m
    BY <1>8 DEF PlaceOf, m, r
  <2>2. (m + 1) * b <= r * b
    BY <1>1, <1>6, <1>8, Times
  <2>3. (m + 1) * b = b * m + b
    BY <1>1
  <2>4. 2 * m * b = 2 * (b * m)
    BY <1>1
  <2>5. 2 * (b * m) <= 2 * (a * m) + b /\ 2 * (b * m) >= 2 * (a * m) - b
    BY <1>1, <1>3, <1>4, <1>6, <1>7, <2>2, <2>3
  <2>6. 2 * m * b <= 2 * a * m + b /\ 2 * m * b >= 2 * a * m - b
    BY <1>4, <2>4, <2>5
  <2>7. m \in 0 .. count_ - 1
    BY <1>1
  <2> QED
    BY <1>6, <2>1, <2>6, <2>7 DEF a, b, m, r
<1>9. CASE ~(r >= count_)
  <2>1. PlaceOf(p) = r
    BY <1>9 DEF PlaceOf, r
  <2>2. 2 * r * b = 2 * (r * b)
    BY <1>1, <1>6
  <2>3. 2 * (r * b) <= 2 * (a * m) + b /\ 2 * (r * b) >= 2 * (a * m) - b
    BY <1>1, <1>3, <1>4, <1>6, <1>7
  <2>4. 2 * r * b <= 2 * a * m + b /\ 2 * r * b >= 2 * a * m - b
    BY <1>4, <2>2, <2>3
  <2>5. r \in 0 .. count_ - 1
    BY <1>1, <1>6, <1>9
  <2> QED
    BY <1>6, <2>1, <2>4, <2>5 DEF a, b, m, r
<1> QED
  BY <1>8, <1>9

\* A larger fraction has no smaller rank.
LEMMA RanksOfRise ==
  ASSUME RecorderInv, count_ > 0, NEW p, IsFraction(p), NEW q, IsFraction(q),
         p[1] * q[2] <= q[1] * p[2]
  PROVE  PlaceOf(p) <= PlaceOf(q)
<1> DEFINE a == p[1]
           b == p[2]
           c == q[1]
           d == q[2]
           m == count_ - 1
           x == 2 * a * m + b
           y == 2 * c * m + d
           r == RankOf(p)
           s == RankOf(q)
<1>1. /\ a \in Nat /\ b \in Nat \ {0} /\ c \in Nat /\ d \in Nat \ {0} /\ m \in Nat
      /\ count_ = m + 1 /\ a * d <= c * b
  BY DEF RecorderInv, RecorderType, IsFraction
<1>2. r = x \div (2 * b) /\ s = y \div (2 * d)
  BY DEF RankOf
<1>3. r \in Nat /\ s \in Nat
  BY RankIsNear
<1> HIDE DEF a, b, c, d, m, r, s
<1>4. a * m \in Nat /\ c * m \in Nat /\ x = 2 * (a * m) + b /\ y = 2 * (c * m) + d
  BY <1>1
<1>5. x \in Nat /\ y \in Nat /\ 2 * b \in Nat \ {0} /\ 2 * d \in Nat \ {0}
  BY <1>1, <1>4
<1> HIDE DEF x, y
<1>6. r * (2 * b) <= x /\ y < s * (2 * d) + 2 * d
  BY <1>2, <1>5, Quotient
<1>7. ASSUME r > s PROVE FALSE
  <2> DEFINE rb == r * (2 * b)
             rd == r * (2 * d)
  <2>1. (s + 1) * (2 * d) <= rd
    <3>1. s + 1 \in Int /\ s + 1 <= r /\ 2 * d \in Nat /\ r \in Int
      BY <1>3, <1>5, <1>7
    <3> QED
      BY <3>1, Times
  <2>2. (s + 1) * (2 * d) = s * (2 * d) + 2 * d
    BY <1>1, <1>3
  <2>3. rb \in Int /\ rd \in Int /\ s * (2 * d) \in Int
    BY <1>1, <1>3
  <2> HIDE DEF rb, rd
  <2>4. rb <= x /\ y + 1 <= rd
    BY <1>5, <1>6, <2>1, <2>2, <2>3 DEF rb
  <2>5. rb * d <= x * d /\ (y + 1) * b <= rd * b
    <3>1. y + 1 \in Int /\ x \in Int /\ d \in Nat /\ b \in Nat
      BY <1>1, <1>5
    <3> QED
      BY <2>3, <2>4, <3>1, Times
  <2>6. rb * d = rd * b
    <3>1. (r * (2 * b)) * d = 2 * (r * (b * d))
      BY <1>1, <1>3
    <3>2. (r * (2 * d)) * b = 2 * (r * (b * d))
      BY <1>1, <1>3
    <3> QED
      BY <3>1, <3>2 DEF rb, rd
  <2>7. x * d = 2 * ((a * d) * m) + b * d
    <3>1. (2 * (a * m) + b) * d = 2 * ((a * d) * m) + b * d
      BY <1>1
    <3> QED
      BY <1>4, <3>1
  <2>8. (y + 1) * b = 2 * ((c * b) * m) + b * d + b
    <3>1. (2 * (c * m) + d + 1) * b = 2 * ((c * b) * m) + b * d + b
      BY <1>1
    <3> QED
      BY <1>4, <3>1
  <2>9. (a * d) * m <= (c * b) * m
    <3>1. a * d \in Int /\ c * b \in Int
      BY <1>1
    <3> QED
      BY <1>1, <3>1, Times
  <2>10. (a * d) * m \in Int /\ (c * b) * m \in Int /\ b * d \in Int
    BY <1>1
  <2> DEFINE u == (a * d) * m
             v == (c * b) * m
             w == b * d
             z == rd * b
  <2>11. z \in Int
    BY <1>1, <2>3
  <2> HIDE DEF u, v, w, z
  <2>12. z <= 2 * u + w /\ 2 * v + w + b <= z
    BY <2>5, <2>6, <2>7, <2>8 DEF u, v, w, z
  <2>13. u <= v /\ u \in Int /\ v \in Int /\ w \in Int
    BY <2>9, <2>10 DEF u, v, w
  <2> QED
    BY <1>1, <2>11, <2>12, <2>13
<1>8. /\ PlaceOf(p) = IF r >= count_ THEN count_ - 1 ELSE r
      /\ PlaceOf(q) = IF s >= count_ THEN count_ - 1 ELSE s
  BY DEF PlaceOf, r, s
<1> QED
  BY <1>1, <1>3, <1>7, <1>8

\* x is the largest of zero and the first k samples.
IsLargest(x, k) ==
  /\ x \in Nat /\ \A i \in 1 .. k : Held[i] <= x
  /\ x = 0 \/ \E i \in 1 .. k : Held[i] = x

\* One sample more.
LEMMA LargestStep ==
  ASSUME RecorderInv, NEW k \in 1 .. count_, NEW x, IsLargest(x, k - 1)
  PROVE  IsLargest(IF samples[k - 1] > x THEN samples[k - 1] ELSE x, k)
<1>1. count_ \in Nat /\ Held \in [1 .. count_ -> Nat]
  BY SamplesRanked
<1>2. Held[k] = samples[k - 1] /\ Held[k] \in Nat /\ \A i \in 1 .. k : Held[i] \in Nat
  BY <1>1 DEF Held
<1>3. 1 .. k = (1 .. k - 1) \cup {k}
  BY <1>1
<1>4. /\ x \in Nat /\ \A i \in 1 .. k - 1 : Held[i] <= x
      /\ x = 0 \/ \E i \in 1 .. k - 1 : Held[i] = x
  BY DEF IsLargest
<1>5. CASE samples[k - 1] > x
  <2>1. \A i \in 1 .. k : Held[i] <= Held[k]
    BY <1>2, <1>3, <1>4, <1>5
  <2> QED
    BY <1>2, <1>3, <1>5, <2>1 DEF IsLargest
<1>6. CASE ~(samples[k - 1] > x)
  <2>1. \A i \in 1 .. k : Held[i] <= x
    BY <1>2, <1>3, <1>4, <1>6
  <2> QED
    BY <1>2, <1>3, <1>4, <1>6, <2>1 DEF IsLargest
<1> QED
  BY <1>5, <1>6

\* Only one number is.
LEMMA LargestOnce ==
  ASSUME RecorderInv, NEW k \in 0 .. count_, NEW x, IsLargest(x, k), NEW y, IsLargest(y, k)
  PROVE  x = y
<1>1. \A i \in 1 .. k : Held[i] \in Nat
  <2>1. count_ \in Nat /\ Held \in [1 .. count_ -> Nat]
    BY SamplesRanked
  <2> QED
    BY <2>1
<1>2. x \in Nat /\ y \in Nat
  BY DEF IsLargest
<1>3. x <= y /\ y <= x
  BY <1>1, <1>2 DEF IsLargest
<1> QED
  BY <1>2, <1>3

\* And there is one.
LEMMA LargestExists ==
  ASSUME RecorderInv, NEW k \in 0 .. count_
  PROVE  \E x : IsLargest(x, k)
<1> DEFINE Bad == {j \in 0 .. count_ : ~\E x : IsLargest(x, j)}
<1>1. count_ \in Nat
  BY SamplesRanked
<1>2. ASSUME Bad # {} PROVE FALSE
  <2>1. Bad \in SUBSET Nat
    OBVIOUS
  <2>2. PICK j \in Bad : \A i \in Bad : j <= i
    <3> HIDE DEF Bad
    <3> QED
      BY <1>2, <2>1, LeastOf
  <2>3. j \in 0 .. count_ /\ ~\E x : IsLargest(x, j)
    OBVIOUS
  <2>4. j # 0
    <3>1. 1 .. 0 = {}
      OBVIOUS
    <3>2. IsLargest(0, 0)
      BY <3>1 DEF IsLargest
    <3> QED
      BY <2>3, <3>2
  <2>5. j - 1 \in 0 .. count_ /\ j \in 1 .. count_ /\ j - 1 < j
    BY <1>1, <2>3, <2>4
  <2>6. PICK x : IsLargest(x, j - 1)
    BY <2>2, <2>5
  <2>7. \E y : IsLargest(y, j)
    BY <2>5, <2>6, LargestStep
  <2> QED
    BY <2>3, <2>7
<1> QED
  BY <1>2

\* The running largest of max_ticks().
Running(u) ==
  u = [i \in 0 .. count_ |->
         IF i = 0 THEN 0 ELSE IF samples[i - 1] > u[i - 1] THEN samples[i - 1] ELSE u[i - 1]]

\* max_ticks() is the largest sample.
LEMMA MaxIsLargest ==
  ASSUME RecorderInv
  PROVE  IsLargest(max_ticks, count_)
<1> DEFINE n == count_
           Most(k) == CHOOSE x : IsLargest(x, k)
           g == [i \in 0 .. n |-> Most(i)]
           Next1(u, i) == IF i = 0 THEN 0
                          ELSE IF samples[i - 1] > u[i - 1] THEN samples[i - 1] ELSE u[i - 1]
           u == CHOOSE h : Running(h)
<1>1. n \in Nat
  BY SamplesRanked
<1>2. \A k \in 0 .. n : IsLargest(Most(k), k)
  BY LargestExists
<1>3. IsLargest(0, 0)
  <2>1. 1 .. 0 = {}
    OBVIOUS
  <2> QED
    BY <2>1 DEF IsLargest
<1> HIDE DEF Most
<1>4. ASSUME NEW i \in 0 .. n PROVE g[i] = Next1(g, i)
  <2>1. g[i] = Most(i)
    OBVIOUS
  <2>2. CASE i = 0
    BY <1>2, <1>3, <2>1, <2>2, LargestOnce
  <2>3. CASE i # 0
    <3>1. i \in 1 .. n /\ i - 1 \in 0 .. n
      BY <1>1, <2>3
    <3>2. g[i - 1] = Most(i - 1)
      BY <3>1
    <3> HIDE DEF g
    <3>3. IsLargest(g[i - 1], i - 1) /\ IsLargest(g[i], i)
      BY <1>2, <2>1, <3>1, <3>2
    <3>4. IsLargest(IF samples[i - 1] > g[i - 1] THEN samples[i - 1] ELSE g[i - 1], i)
      BY <3>1, <3>3, LargestStep
    <3> QED
      BY <2>3, <3>3, <3>4, LargestOnce
  <2> QED
    BY <2>2, <2>3
<1>5. g = [i \in 0 .. n |-> g[i]]
  OBVIOUS
<1> HIDE DEF g
<1>6. g = [i \in 0 .. n |-> Next1(g, i)]
  <2> HIDE DEF Next1
  <2> QED
    BY <1>4, <1>5
<1>7. Running(g)
  BY <1>6, Zenon DEF Running
<1>8. Running(u)
  BY <1>7
<1>9. max_ticks = u[n]
  BY DEF max_ticks, Running
<1> HIDE DEF u, n
<1>10. \A i \in 0 .. n : u[i] = Next1(u, i)
  <2>1. u = [i \in 0 .. n |-> Next1(u, i)]
    BY <1>8, Zenon DEF Running, n
  <2> HIDE DEF Next1
  <2> QED
    BY <2>1
<1>11. \A k \in 0 .. n : u[k] = g[k]
  <2> DEFINE Bad == {k \in 0 .. n : u[k] # g[k]}
  <2>1. ASSUME Bad # {} PROVE FALSE
    <3>1. Bad \in SUBSET Nat
      OBVIOUS
    <3>2. PICK k \in Bad : \A i \in Bad : k <= i
      <4> HIDE DEF Bad
      <4> QED
        BY <2>1, <3>1, LeastOf
    <3>3. k \in 0 .. n /\ u[k] # g[k]
      OBVIOUS
    <3>4. u[k] = Next1(u, k) /\ g[k] = Next1(g, k)
      BY <1>4, <1>10, <3>3
    <3>5. k # 0
      BY <3>3, <3>4
    <3>6. k - 1 \in 0 .. n /\ k - 1 < k
      BY <1>1, <3>3, <3>5
    <3>7. u[k - 1] = g[k - 1]
      BY <3>2, <3>6
    <3> QED
      BY <3>3, <3>4, <3>7
  <2> QED
    BY <2>1
<1>12. IsLargest(g[n], n)
  BY <1>1, <1>2 DEF g
<1> QED
  BY <1>1, <1>9, <1>11, <1>12 DEF n

\* A percentile is the sample of its rank: so many are below it at most, and more up to it.
LEMMA PercentileIsHeld ==
  ASSUME RecorderInv, count_ > 0, NEW p, IsFraction(p)
  PROVE  LET below == Cardinality({i \in 1 .. count_ : Held[i] < percentile(p)})
             upto == Cardinality({i \in 1 .. count_ : Held[i] <= percentile(p)})
         IN  below \in Nat /\ upto \in Nat /\ below <= PlaceOf(p) /\ PlaceOf(p) < upto
<1> DEFINE n == count_
           r == PlaceOf(p)
           v == percentile(p)
           Below == {i \in 1 .. n : Held[i] < v}
           Upto == {i \in 1 .. n : Held[i] <= v}
<1>1. n \in Nat /\ IsFiniteSet(1 .. n) /\ \A i \in 1 .. n : Held[i] \in Nat
  BY SamplesRanked
<1>2. r \in 0 .. n - 1 /\ r + 1 \in 1 .. n /\ v = Sorted[1 + r]
  <2>1. r \in 0 .. n - 1
    BY RankIsNear
  <2>2. r + 1 \in 1 .. n
    BY <1>1, <2>1
  <2>3. n # 0
    OBVIOUS
  <2> QED
    BY <2>1, <2>2, <2>3 DEF percentile, PlaceOf
<1>3. PICK y : SortedAt(y, r + 1)
  <2> HIDE DEF r
  <2> QED
    BY <1>2, SortedIsHeld
<1> HIDE DEF r, v
<1>4. y \in 1 .. n /\ v = Held[y] /\ Cardinality(Before(y)) = r
  <2>1. 1 + r = r + 1 /\ (r + 1) - 1 = r
    BY <1>1, <1>2
  <2> QED
    BY <1>2, <1>3, <2>1 DEF SortedAt
<1>5. Before(y) = {j \in 1 .. n : Held[j] < Held[y] \/ (Held[j] = Held[y] /\ j < y)}
  BY DEF Before
<1> HIDE DEF n
<1>6. Below \in SUBSET Before(y) /\ Before(y) \in SUBSET (1 .. n) /\ y \notin Before(y)
  BY <1>1, <1>4, <1>5
<1>7. Before(y) \cup {y} \in SUBSET Upto
  BY <1>1, <1>4, <1>5
<1>8. IsFiniteSet(Before(y)) /\ IsFiniteSet(Upto) /\ IsFiniteSet(Below)
  <2>1. Upto \in SUBSET (1 .. n) /\ Below \in SUBSET (1 .. n)
    OBVIOUS
  <2> QED
    BY <1>1, <1>6, <2>1, FS_Subset
<1> HIDE DEF Below, Upto
<1>9. Cardinality(Below) <= r /\ Cardinality(Below) \in Nat /\ Cardinality(Upto) \in Nat
  BY <1>4, <1>6, <1>8, FS_Subset, FS_CardinalityType
<1>10. Cardinality(Before(y) \cup {y}) = r + 1
  BY <1>4, <1>6, <1>8, FS_AddElement
<1>11. r + 1 <= Cardinality(Upto)
  BY <1>7, <1>8, <1>10, FS_Subset
<1> QED
  BY <1>1, <1>2, <1>9, <1>11 DEF Below, Upto, r, v, n

\* latency_recorder.h: percentile() is the sample of the nearest rank among those recorded
\* and not discarded, the largest at one, and none smaller for a larger p.
THEOREM NearestRanks == RecorderSpec => []PercentilesAreRanks
<1>1. ASSUME RecorderInv, count_ > 0, NEW p \in Percentiles PROVE IsFraction(p)
  BY RecorderAssumption DEF IsFraction
<1>2. ASSUME RecorderInv, count_ > 0, NEW p \in Percentiles
      PROVE  LET below == Cardinality({i \in 1 .. count_ : Held[i] < percentile(p)})
                 upto == Cardinality({i \in 1 .. count_ : Held[i] <= percentile(p)})
             IN  \E rank \in below .. upto - 1 :
                   /\ 2 * rank * p[2] <= 2 * p[1] * (count_ - 1) + p[2]
                   /\ 2 * rank * p[2] >= 2 * p[1] * (count_ - 1) - p[2]
  <2> DEFINE below == Cardinality({i \in 1 .. count_ : Held[i] < percentile(p)})
             upto == Cardinality({i \in 1 .. count_ : Held[i] <= percentile(p)})
             r == PlaceOf(p)
  <2>1. IsFraction(p)
    BY <1>1, <1>2
  <2>2. below \in Nat /\ upto \in Nat /\ below <= r /\ r < upto
    BY <1>2, <2>1, PercentileIsHeld
  <2>3. /\ r \in 0 .. count_ - 1 /\ count_ \in Nat
        /\ 2 * r * p[2] <= 2 * p[1] * (count_ - 1) + p[2]
        /\ 2 * r * p[2] >= 2 * p[1] * (count_ - 1) - p[2]
    BY <1>2, <2>1, RankIsNear, SamplesRanked
  <2> HIDE DEF below, upto, r
  <2>4. r \in below .. upto - 1
    BY <2>2, <2>3
  <2>5. \E rank \in below .. upto - 1 :
          /\ 2 * rank * p[2] <= 2 * p[1] * (count_ - 1) + p[2]
          /\ 2 * rank * p[2] >= 2 * p[1] * (count_ - 1) - p[2]
    BY <2>3, <2>4, Zenon
  <2> QED
    BY <2>5 DEF below, upto
<1>3. ASSUME RecorderInv, count_ > 0 PROVE percentile(<<1, 1>>) = max_ticks
  <2> DEFINE n == count_
  <2>1. n \in Nat /\ n # 0 /\ n \in 1 .. n /\ Held \in [1 .. n -> Nat]
    BY <1>3, SamplesRanked
  <2>2. percentile(<<1, 1>>) = Sorted[n]
    <3>1. RankOf(<<1, 1>>) = n - 1
      <4>1. RankOf(<<1, 1>>) = (2 * 1 * (n - 1) + 1) \div (2 * 1)
        BY DEF RankOf
      <4> HIDE DEF n
      <4> QED
        BY <2>1, <4>1
    <3>2. ~(n - 1 >= n) /\ 1 + (n - 1) = n
      BY <2>1
    <3> QED
      BY <2>1, <3>1, <3>2 DEF percentile
  <2>3. PICK y : SortedAt(y, n)
    BY <1>3, <2>1, SortedIsHeld
  <2>4. y \in 1 .. n /\ Sorted[n] = Held[y] /\ Sorted[n] \in Nat
    BY <2>1, <2>3 DEF SortedAt
  <2>5. \A i \in 1 .. n : Held[i] <= Sorted[n]
    BY <1>3, LastIsLargest
  <2>6. IsLargest(Sorted[n], n)
    BY <2>4, <2>5 DEF IsLargest
  <2>7. IsLargest(max_ticks, n)
    BY <1>3, MaxIsLargest
  <2>8. n \in 0 .. n
    BY <2>1
  <2> QED
    BY <1>3, <2>2, <2>6, <2>7, <2>8, LargestOnce
<1>4. ASSUME RecorderInv, count_ > 0, NEW p \in Percentiles, NEW q \in Percentiles,
             p[1] * q[2] <= q[1] * p[2]
      PROVE  percentile(p) <= percentile(q)
  <2> DEFINE r == PlaceOf(p)
             s == PlaceOf(q)
  <2>1. IsFraction(p) /\ IsFraction(q)
    BY <1>1, <1>4
  <2>2. r \in 0 .. count_ - 1 /\ s \in 0 .. count_ - 1 /\ r <= s /\ count_ \in Nat
    BY <1>4, <2>1, RankIsNear, RanksOfRise, SamplesRanked
  <2>3. percentile(p) = Sorted[1 + r] /\ percentile(q) = Sorted[1 + s]
    BY <1>4, <2>2 DEF percentile, PlaceOf
  <2> HIDE DEF r, s
  <2>4. 1 + r \in 1 .. count_ /\ 1 + s \in 1 .. count_ /\ 1 + r <= 1 + s
    BY <2>2
  <2> QED
    BY <1>4, <2>3, <2>4, SortedRises
<1>5. RecorderInv => PercentilesAreRanks
  <2> SUFFICES ASSUME RecorderInv PROVE PercentilesAreRanks
    OBVIOUS
  <2>1. HoldsWhatWasRecorded
    BY HeldIsRecorded
  <2> QED
    BY <1>2, <1>3, <1>4, <2>1, Zenon DEF PercentilesAreRanks
<1> QED
  BY <1>5, RecorderInvariance, PTL

-----------------------------------------------------------------------------
(***************************************************************************)
(* The decoder under any packets: sums over sequences.                     *)
(***************************************************************************)
\* The running sum of the first n numbers, as SumOf adds it up.
RunsUp(f, n, g) ==
  g = [k \in 0 .. n |-> IF k = 0 THEN 0 ELSE g[k - 1] + f[k]]

\* There is one for any numbers: otherwise take the shortest prefix with none.
LEMMA RunningSum ==
  ASSUME NEW f \in Seq(Int)
  PROVE  \E g \in [0 .. Len(f) -> Int] : RunsUp(f, Len(f), g)
<1> DEFINE Bad == {n \in 0 .. Len(f) : ~\E g \in [0 .. n -> Int] : RunsUp(f, n, g)}
<1>0. Len(f) \in Nat
  OBVIOUS
<1>1. SUFFICES ASSUME Bad # {} PROVE FALSE
  BY <1>0
<1>2. PICK n \in Bad : \A k \in Bad : n <= k
  <2>1. Bad \in SUBSET Nat
    BY <1>0
  <2> HIDE DEF Bad
  <2> QED
    BY <1>1, <2>1, LeastOf
<1>3. n # 0
  <2> DEFINE g == [k \in 0 .. 0 |-> 0]
  <2>1. g \in [0 .. 0 -> Int] /\ RunsUp(f, 0, g)
    BY DEF RunsUp
  <2> QED
    BY <2>1
<1>4. n \in 1 .. Len(f) /\ n - 1 \in 0 .. Len(f) /\ n - 1 \notin Bad
  <2>1. n \in 1 .. Len(f)
    BY <1>0, <1>3
  <2>2. ~(n <= n - 1)
    BY <2>1
  <2>3. n - 1 \notin Bad
    <3> HIDE DEF Bad
    <3> QED
      BY <1>2, <2>2
  <2> QED
    BY <1>0, <2>1, <2>3
<1>5. PICK h \in [0 .. n - 1 -> Int] : RunsUp(f, n - 1, h)
  BY <1>4
<1>6. f[n] \in Int
  BY <1>4
<1> DEFINE g == [k \in 0 .. n |-> IF k = n THEN h[n - 1] + f[n] ELSE h[k]]
<1>7. g \in [0 .. n -> Int]
  BY SMTT(30), <1>4, <1>5, <1>6
<1>8. ASSUME NEW k \in 0 .. n
      PROVE  g[k] = IF k = 0 THEN 0 ELSE g[k - 1] + f[k]
  <2>1. \A j \in 0 .. n - 1 : h[j] = IF j = 0 THEN 0 ELSE h[j - 1] + f[j]
    BY <1>5 DEF RunsUp
  <2>2. n \in Nat /\ n >= 1
    BY <1>4
  <2>3. CASE k = n
    <3>1. k # 0 /\ k - 1 = n - 1 /\ k - 1 # n /\ k - 1 \in 0 .. n
      BY <2>2, <2>3
    <3>2. g[k] = h[n - 1] + f[n] /\ g[k - 1] = h[k - 1]
      BY <2>3, <3>1
    <3> QED
      BY <2>3, <3>1, <3>2
  <2>4. CASE k # n
    <3>1. k \in 0 .. n - 1 /\ (k # 0 => k - 1 # n /\ k - 1 \in 0 .. n)
      BY <2>2, <2>4
    <3>2. g[k] = h[k] /\ (k # 0 => g[k - 1] = h[k - 1])
      BY <2>4, <3>1
    <3> QED
      BY <2>1, <3>1, <3>2
  <2> QED
    BY <2>3, <2>4
<1>9. RunsUp(f, n, g)
  BY <1>7, <1>8 DEF RunsUp
<1> QED
  BY <1>2, <1>7, <1>9

\* Sequences that have their first n numbers in common.
SameTo(f, e, n) == \A k \in 1 .. n : f[k] = e[k]

SharedStart(f, e, n, m, g, h) ==
  RunsUp(f, n, g) /\ RunsUp(e, m, h) /\ n <= m /\ SameTo(f, e, n)

\* Two running sums agree as far as their numbers do.
LEMMA RunningSumsAgree ==
  ASSUME NEW f, NEW e, NEW n \in Nat, NEW m \in Nat, NEW g, NEW h,
         SharedStart(f, e, n, m, g, h)
  PROVE  g[n] = h[n]
<1> DEFINE Bad == {k \in 0 .. n : g[k] # h[k]}
<1>1. SUFFICES ASSUME Bad # {} PROVE FALSE
  OBVIOUS
<1>2. PICK k \in Bad : \A j \in Bad : k <= j
  <2>1. Bad \in SUBSET Nat
    OBVIOUS
  <2> HIDE DEF Bad
  <2> QED
    BY <1>1, <2>1, LeastOf
<1>3. g[k] = IF k = 0 THEN 0 ELSE g[k - 1] + f[k]
  BY DEF SharedStart, RunsUp
<1>4. h[k] = IF k = 0 THEN 0 ELSE h[k - 1] + e[k]
  <2>1. k \in 0 .. m
    BY DEF SharedStart
  <2> QED
    BY <2>1 DEF SharedStart, RunsUp
<1>5. CASE k = 0
  BY <1>3, <1>4, <1>5
<1>6. CASE k # 0
  <2>1. k - 1 \in 0 .. n /\ k - 1 \notin Bad /\ k \in 1 .. n
    BY <1>2, <1>6
  <2> QED
    BY <1>3, <1>4, <1>6, <2>1 DEF SharedStart, SameTo
<1> QED
  BY <1>5, <1>6

\* The sum is the running sum after the last number.
LEMMA SumIs ==
  ASSUME NEW f \in Seq(Int)
  PROVE  \E g \in [0 .. Len(f) -> Int] : RunsUp(f, Len(f), g) /\ SumOf(f) = g[Len(f)]
<1> DEFINE s == CHOOSE g : RunsUp(f, Len(f), g)
<1>1. PICK g \in [0 .. Len(f) -> Int] : RunsUp(f, Len(f), g)
  BY RunningSum
<1>2. RunsUp(f, Len(f), s)
  BY <1>1
<1>3. SumOf(f) = s[Len(f)]
  BY DEF SumOf, RunsUp
<1>4. s[Len(f)] = g[Len(f)]
  <2>1. Len(f) \in Nat /\ SharedStart(f, f, Len(f), Len(f), s, g)
    BY <1>1, <1>2 DEF SharedStart, SameTo
  <2> HIDE DEF s
  <2> QED
    BY <1>1, <1>2, <2>1, RunningSumsAgree
<1> QED
  BY <1>1, <1>3, <1>4

\* No number adds nothing.
LEMMA SumOfNone ==
  ASSUME NEW f \in Seq(Int), Len(f) = 0
  PROVE  SumOf(f) = 0
<1>1. PICK g \in [0 .. Len(f) -> Int] : RunsUp(f, Len(f), g) /\ SumOf(f) = g[Len(f)]
  BY SumIs
<1> QED
  BY <1>1 DEF RunsUp

\* One number more adds itself.
LEMMA SumOfMore ==
  ASSUME NEW f \in Seq(Int), NEW e \in Seq(Int), Len(e) = Len(f) + 1,
         \A k \in 1 .. Len(f) : e[k] = f[k]
  PROVE  SumOf(f) \in Int /\ SumOf(e) = SumOf(f) + e[Len(e)]
<1> DEFINE n == Len(f)
<1>1. n \in Nat /\ n + 1 \in Nat /\ n <= n + 1
  OBVIOUS
<1>2. PICK g \in [0 .. n -> Int] : RunsUp(f, n, g) /\ SumOf(f) = g[n]
  BY SumIs
<1>3. PICK h \in [0 .. n + 1 -> Int] : RunsUp(e, n + 1, h) /\ SumOf(e) = h[n + 1]
  BY SumIs
<1>4. g[n] = h[n]
  <2> DEFINE m == n + 1
  <2>1. SharedStart(f, e, n, m, g, h) /\ n \in Nat /\ m \in Nat
    BY <1>1, <1>2, <1>3 DEF SharedStart, SameTo
  <2> QED
    BY <2>1, RunningSumsAgree DEF n, m
<1>5. h[n + 1] = h[n] + e[n + 1]
  BY <1>1, <1>3 DEF RunsUp
<1> QED
  BY <1>1, <1>2, <1>3, <1>4, <1>5

\* A changed last number moves the sum by its own change.
LEMMA SumOfChanged ==
  ASSUME NEW f \in Seq(Int), NEW e \in Seq(Int), Len(e) = Len(f), Len(f) # 0,
         \A k \in 1 .. Len(f) - 1 : e[k] = f[k]
  PROVE  SumOf(f) \in Int /\ SumOf(e) \in Int
         /\ SumOf(e) = SumOf(f) - f[Len(f)] + e[Len(f)]
<1> DEFINE n == Len(f)
           c == SubSeq(f, 1, n - 1)
<1>1. n \in Nat /\ n # 0
  OBVIOUS
<1>2. c \in Seq(Int) /\ Len(c) = n - 1 /\ \A k \in 1 .. n - 1 : c[k] = f[k]
  BY <1>1
<1> HIDE DEF c
<1>3. Len(f) = Len(c) + 1 /\ Len(e) = Len(c) + 1
      /\ (\A k \in 1 .. Len(c) : f[k] = c[k]) /\ (\A k \in 1 .. Len(c) : e[k] = c[k])
  BY <1>1, <1>2
<1>4. SumOf(c) \in Int /\ SumOf(f) = SumOf(c) + f[n]
  BY <1>2, <1>3, SumOfMore
<1>5. SumOf(e) = SumOf(c) + e[n]
  BY <1>2, <1>3, SumOfMore
<1>6. f[n] \in Int /\ e[n] \in Int
  BY <1>1
<1> QED
  BY <1>4, <1>5, <1>6

-----------------------------------------------------------------------------
(***************************************************************************)
(* The decoder under any packets: its stretches.                           *)
(***************************************************************************)
StretchType ==
  [session : Sessions, from : Nat, upto : Nat, sunk : Seq([first : Nat, count : Nat])]

\* The messages in front of each packet delivered, and in it; of all stretches, the missing and the
\* delivered ones.
Fronts(s) == [k \in 1 .. Len(s.sunk) |-> s.sunk[k].first - Resume(s, k - 1)]
Sizes(s) == [k \in 1 .. Len(s.sunk) |-> s.sunk[k].count]
HolesOf(t) == [i \in 1 .. Len(t) |-> Holes(t[i])]
MessagesOf(t) == [i \in 1 .. Len(t) |-> Messages(t[i])]

\* The packets delivered of a stretch come one behind the other.
InOrder(s) == \A k \in DOMAIN s.sunk : s.sunk[k].first >= Resume(s, k - 1)

DecoderShape(d) ==
  /\ DOMAIN d = DOMAIN NewDecoder /\ d.started \in BOOLEAN
  /\ {d.session_changes, d.expected, d.messages, d.gap_messages} \subseteq Nat

\* The decoder stands at the end of the last stretch.
AtTheEnd(d, s) ==
  d.session = s.session /\ d.expected = s.upto /\ Resume(s, Len(s.sunk)) <= s.upto

\* The decoder d and the stretches t belong together.
Kept(d, t) ==
  /\ DecoderShape(d) /\ t \in Seq(StretchType)
  /\ d.started <=> t # << >>
  /\ d.session_changes = IF t = << >> THEN 0 ELSE Len(t) - 1
  /\ t # << >> => AtTheEnd(d, t[Len(t)])
  /\ \A i \in DOMAIN t : InOrder(t[i])
  /\ d.gap_messages = SumOf(HolesOf(t)) /\ d.messages = SumOf(MessagesOf(t))

\* The inductive invariant: the decoder is what the stretches add up to.
SessionsInv == Kept(dec, stretches)

\* What a packet may say.
Says(pkt) ==
  /\ pkt.short \in BOOLEAN /\ pkt.exhausted \in BOOLEAN /\ pkt.session \in Sessions
  /\ pkt.sequence \in Nat /\ pkt.count \in Nat /\ pkt.blocks \in Seq(Int)

\* A packet of the run is one.
LEMMA PacketsSay ==
  ASSUME NEW pkt \in Packets \cup Malformed
  PROVE  Says(pkt)
<1>1. ASSUME NEW p \in Packets
      PROVE  Says(p) /\ p = Datagram(p.session, p.sequence, p.count, p.blocks)
  <2>1. PICK s \in Sessions, first \in Sequences, n \in MessageCounts :
          p = Datagram(s, first, n, BlocksOf(first, IF n = kEndOfSession THEN 0 ELSE n))
    BY <1>1 DEF Packets
  <2> DEFINE m == IF n = kEndOfSession THEN 0 ELSE n
  <2>2. m \in Nat /\ first \in Nat /\ n \in Nat
    BY SessionsAssumption
  <2>3. BlocksOf(first, m) \in Seq(Int)
    <3> HIDE DEF m
    <3>1. \A k \in 1 .. m : first + k - 1 \in Int
      BY <2>2
    <3> QED
      BY <2>2, <3>1 DEF BlocksOf
  <2> QED
    BY <2>1, <2>2, <2>3 DEF Says, Datagram
<1>2. CASE pkt \in Packets
  BY <1>1, <1>2
<1>3. CASE pkt \in Malformed
  <2>1. PICK p \in Packets :
          \/ p.blocks # << >> /\ pkt = [p EXCEPT !.blocks = Tail(@)]
          \/ pkt = [p EXCEPT !.exhausted = FALSE]
          \/ pkt = [p EXCEPT !.short = TRUE]
    BY <1>3 DEF Malformed
  <2>2. Says(p) /\ p = Datagram(p.session, p.sequence, p.count, p.blocks)
    BY <1>1
  <2>3. p.blocks # << >> => Tail(p.blocks) \in Seq(Int)
    BY <2>2 DEF Says
  <2> QED
    BY <2>1, <2>2, <2>3 DEF Says, Datagram
<1> QED
  BY <1>2, <1>3

\* What is behind a packet is a sequence number.
LEMMA PastType ==
  ASSUME NEW q \in Nat, NEW n \in Nat
  PROVE  (q + n) % kSequences \in Nat
BY DecoderAssumption

\* The sums of a stretch are of numbers.
LEMMA StretchSums ==
  ASSUME NEW s \in StretchType
  PROVE  /\ Fronts(s) \in Seq(Int) /\ Sizes(s) \in Seq(Int)
         /\ Len(Fronts(s)) = Len(s.sunk) /\ Len(Sizes(s)) = Len(s.sunk)
         /\ \A k \in 0 .. Len(s.sunk) : Resume(s, k) \in Nat
         /\ SumOf(Fronts(s)) \in Int /\ Messages(s) \in Int /\ Holes(s) \in Int
<1>1. Len(s.sunk) \in Nat /\ s.upto \in Nat /\ s.from \in Nat
      /\ \A k \in 1 .. Len(s.sunk) : s.sunk[k].first \in Nat /\ s.sunk[k].count \in Nat
  <2>1. s.sunk \in Seq([first : Nat, count : Nat]) /\ s.upto \in Nat /\ s.from \in Nat
    BY DEF StretchType
  <2>2. \A k \in 1 .. Len(s.sunk) : s.sunk[k] \in [first : Nat, count : Nat]
    <3> DEFINE u == s.sunk
               T == [first : Nat, count : Nat]
    <3>1. u \in Seq(T)
      BY <2>1
    <3> HIDE DEF u, T
    <3>2. \A k \in 1 .. Len(u) : u[k] \in T
      BY <3>1
    <3> QED
      BY <3>2 DEF u, T
  <2> QED
    BY <2>1, <2>2
<1>2. ASSUME NEW k \in 0 .. Len(s.sunk) PROVE Resume(s, k) \in Nat
  <2>1. CASE k = 0
    BY <1>1, <2>1 DEF Resume
  <2>2. CASE k # 0
    <3>1. k \in 1 .. Len(s.sunk)
      BY <1>1, <2>2
    <3> QED
      BY <1>1, <2>2, <3>1, PastType DEF Resume, Past
  <2> QED
    BY <2>1, <2>2
<1>3. ASSUME NEW k \in 1 .. Len(s.sunk)
      PROVE  s.sunk[k].first - Resume(s, k - 1) \in Int
  <2>1. k - 1 \in 0 .. Len(s.sunk)
    BY <1>1
  <2>2. Resume(s, k - 1) \in Nat /\ s.sunk[k].first \in Nat
    BY <1>1, <1>2, <2>1
  <2> QED
    BY <2>2
<1>4. Fronts(s) \in Seq(Int) /\ Len(Fronts(s)) = Len(s.sunk)
  BY <1>1, <1>3 DEF Fronts
<1>5. Sizes(s) \in Seq(Int) /\ Len(Sizes(s)) = Len(s.sunk)
  BY <1>1 DEF Sizes
<1>6. ASSUME NEW f \in Seq(Int) PROVE SumOf(f) \in Int
  <2>1. PICK g \in [0 .. Len(f) -> Int] : SumOf(f) = g[Len(f)]
    BY SumIs
  <2> QED
    BY <2>1
<1>7. SumOf(Fronts(s)) \in Int /\ SumOf(Sizes(s)) \in Int
  BY <1>4, <1>5, <1>6
<1>8. Messages(s) = SumOf(Sizes(s))
  BY DEF Messages, Sizes
<1>9. Holes(s) = SumOf(Fronts(s)) + (s.upto - Resume(s, Len(s.sunk)))
  BY DEF Holes, Fronts
<1>10. Resume(s, Len(s.sunk)) \in Nat
  BY <1>1, <1>2
<1> QED
  BY <1>1, <1>2, <1>4, <1>5, <1>7, <1>8, <1>9, <1>10

\* The sums over all stretches are of numbers.
LEMMA KeptSums ==
  ASSUME NEW t \in Seq(StretchType)
  PROVE  /\ HolesOf(t) \in Seq(Int) /\ Len(HolesOf(t)) = Len(t)
         /\ MessagesOf(t) \in Seq(Int) /\ Len(MessagesOf(t)) = Len(t)
         /\ \A i \in 1 .. Len(t) : t[i] \in StretchType /\ HolesOf(t)[i] = Holes(t[i])
                                   /\ MessagesOf(t)[i] = Messages(t[i])
<1>1. Len(t) \in Nat /\ \A i \in 1 .. Len(t) : t[i] \in StretchType
  OBVIOUS
<1>2. \A i \in 1 .. Len(t) : Holes(t[i]) \in Int /\ Messages(t[i]) \in Int
  BY <1>1, StretchSums
<1>3. HolesOf(t) \in Seq(Int) /\ Len(HolesOf(t)) = Len(t)
  BY <1>1, <1>2 DEF HolesOf
<1>4. MessagesOf(t) \in Seq(Int) /\ Len(MessagesOf(t)) = Len(t)
  BY <1>1, <1>2 DEF MessagesOf
<1> QED
  BY <1>1, <1>3, <1>4 DEF HolesOf, MessagesOf

\* A stretch with nothing delivered of it and at its beginning has no messages and no holes.
LEMMA FreshStretch ==
  ASSUME NEW x \in Sessions, NEW q \in Nat, NEW s,
         s = [session |-> x, from |-> q, upto |-> q, sunk |-> << >>]
  PROVE  /\ s \in StretchType /\ Holes(s) = 0 /\ Messages(s) = 0
         /\ InOrder(s) /\ Resume(s, Len(s.sunk)) = q
<1>1. s \in StretchType /\ Len(s.sunk) = 0 /\ s.upto = q /\ s.from = q
  BY DEF StretchType
<1>2. Resume(s, Len(s.sunk)) = q
  BY <1>1 DEF Resume
<1>3. SumOf(Fronts(s)) = 0 /\ SumOf(Sizes(s)) = 0
  BY <1>1, StretchSums, SumOfNone
<1>4. Holes(s) = SumOf(Fronts(s)) + (s.upto - Resume(s, Len(s.sunk)))
  BY DEF Holes, Fronts
<1>5. Messages(s) = SumOf(Sizes(s))
  BY DEF Messages, Sizes
<1>6. InOrder(s)
  BY <1>1 DEF InOrder
<1> QED
  BY <1>1, <1>2, <1>3, <1>4, <1>5, <1>6

\* The decoder e and the stretches u are d and t, entered into session x at q.
Begun(d, t, x, q, e, u) ==
  /\ Kept(d, t) /\ DecoderShape(e) /\ e.started /\ e.session = x /\ e.expected = q
  /\ e.session_changes = Len(t) /\ e.gap_messages = d.gap_messages /\ e.messages = d.messages
  /\ u = Append(t, [session |-> x, from |-> q, upto |-> q, sunk |-> << >>])

\* A packet of another session begins a stretch.
LEMMA StretchBegun ==
  ASSUME NEW d, NEW t, NEW x \in Sessions, NEW q \in Nat, NEW e, NEW u, Begun(d, t, x, q, e, u)
  PROVE  Kept(e, u) /\ u # << >> /\ u[Len(u)].session = x
<1> USE DEF Begun
<1> DEFINE s == [session |-> x, from |-> q, upto |-> q, sunk |-> << >>]
<1>1. s \in StretchType /\ Holes(s) = 0 /\ Messages(s) = 0 /\ InOrder(s)
      /\ Resume(s, Len(s.sunk)) = q /\ s.session = x /\ s.upto = q
  BY FreshStretch
<1>2. t \in Seq(StretchType) /\ Len(t) \in Nat
  BY DEF Kept
<1>3. u = Append(t, s)
  OBVIOUS
<1> HIDE DEF s
<1>4. u \in Seq(StretchType) /\ Len(u) = Len(t) + 1 /\ u[Len(u)] = s /\ u # << >>
      /\ \A i \in 1 .. Len(t) : u[i] = t[i]
  BY <1>1, <1>2, <1>3
<1>5. \A i \in DOMAIN u : InOrder(u[i])
  <2> SUFFICES ASSUME NEW i \in DOMAIN u PROVE InOrder(u[i])
    OBVIOUS
  <2>1. i = Len(u) \/ i \in 1 .. Len(t)
    BY <1>2, <1>4
  <2>2. \A j \in 1 .. Len(t) : InOrder(t[j])
    BY <1>2 DEF Kept
  <2> QED
    BY <1>1, <1>4, <2>1, <2>2
<1>6. SumOf(HolesOf(u)) = SumOf(HolesOf(t)) + Holes(s) /\ SumOf(HolesOf(t)) \in Int
  <2>1. /\ HolesOf(t) \in Seq(Int) /\ HolesOf(u) \in Seq(Int)
        /\ Len(HolesOf(u)) = Len(HolesOf(t)) + 1 /\ Len(HolesOf(t)) = Len(t)
    BY <1>2, <1>4, KeptSums
  <2>2. HolesOf(u)[Len(u)] = Holes(s)
    BY <1>4 DEF HolesOf
  <2>3. \A k \in 1 .. Len(t) : HolesOf(u)[k] = HolesOf(t)[k]
    BY <1>2, <1>4 DEF HolesOf
  <2> QED
    BY <1>4, <2>1, <2>2, <2>3, SumOfMore
<1>7. SumOf(MessagesOf(u)) = SumOf(MessagesOf(t)) + Messages(s) /\ SumOf(MessagesOf(t)) \in Int
  <2>1. /\ MessagesOf(t) \in Seq(Int) /\ MessagesOf(u) \in Seq(Int)
        /\ Len(MessagesOf(u)) = Len(MessagesOf(t)) + 1 /\ Len(MessagesOf(t)) = Len(t)
    BY <1>2, <1>4, KeptSums
  <2>2. MessagesOf(u)[Len(u)] = Messages(s)
    BY <1>4 DEF MessagesOf
  <2>3. \A k \in 1 .. Len(t) : MessagesOf(u)[k] = MessagesOf(t)[k]
    BY <1>2, <1>4 DEF MessagesOf
  <2> QED
    BY <1>4, <2>1, <2>2, <2>3, SumOfMore
<1>8. AtTheEnd(e, s)
  BY <1>1 DEF AtTheEnd
<1>9. e.gap_messages = SumOf(HolesOf(u)) /\ e.messages = SumOf(MessagesOf(u))
  BY <1>1, <1>6, <1>7 DEF Kept
<1>10. e.session_changes = Len(u) - 1
  BY <1>2, <1>4
<1> QED
  BY <1>1, <1>4, <1>5, <1>8, <1>9, <1>10 DEF Kept

\* The last stretch s of t has become r, by gaps missing and n delivered messages.
Grown(d, t, s, r, gaps, n, f, u) ==
  /\ Kept(d, t) /\ t # << >> /\ s = t[Len(t)] /\ r \in StretchType
  /\ gaps \in Int /\ n \in Int
  /\ Holes(r) = Holes(s) + gaps /\ Messages(r) = Messages(s) + n /\ InOrder(r)
  /\ DecoderShape(f) /\ f.started /\ f.session_changes = d.session_changes
  /\ f.gap_messages = d.gap_messages + gaps /\ f.messages = d.messages + n /\ AtTheEnd(f, r)
  /\ u = [t EXCEPT ![Len(t)] = r]

\* What the decoder counts for a packet it counts in the last stretch.
LEMMA StretchGrows ==
  ASSUME NEW d, NEW t, NEW s, NEW r, NEW gaps, NEW n, NEW f, NEW u,
         Grown(d, t, s, r, gaps, n, f, u)
  PROVE  Kept(f, u)
<1>1. /\ Kept(d, t) /\ t # << >> /\ s = t[Len(t)] /\ r \in StretchType
      /\ gaps \in Int /\ n \in Int
      /\ Holes(r) = Holes(s) + gaps /\ Messages(r) = Messages(s) + n /\ InOrder(r)
  BY DEF Grown
<1>2. /\ DecoderShape(f) /\ f.started /\ f.session_changes = d.session_changes
      /\ f.gap_messages = d.gap_messages + gaps /\ f.messages = d.messages + n
      /\ AtTheEnd(f, r) /\ u = [t EXCEPT ![Len(t)] = r]
  BY DEF Grown
<1>3. t \in Seq(StretchType) /\ Len(t) \in Nat /\ Len(t) # 0 /\ Len(t) \in 1 .. Len(t)
  BY <1>1 DEF Kept
<1>4. s \in StretchType
  BY <1>1, <1>3
<1>5. u \in Seq(StretchType) /\ Len(u) = Len(t) /\ u[Len(t)] = r /\ u # << >>
      /\ \A i \in 1 .. Len(t) : i # Len(t) => u[i] = t[i]
  BY <1>1, <1>2, <1>3
<1>6. \A i \in DOMAIN u : InOrder(u[i])
  BY <1>1, <1>3, <1>5 DEF Kept
<1>7. SumOf(HolesOf(u)) = SumOf(HolesOf(t)) + gaps
  <2>1. /\ HolesOf(t) \in Seq(Int) /\ HolesOf(u) \in Seq(Int)
        /\ Len(HolesOf(u)) = Len(HolesOf(t)) /\ Len(HolesOf(t)) = Len(t)
    BY <1>3, <1>5, KeptSums
  <2>2. HolesOf(u)[Len(t)] = Holes(r) /\ HolesOf(t)[Len(t)] = Holes(s)
    BY <1>1, <1>3, <1>5 DEF HolesOf
  <2>3. \A k \in 1 .. Len(t) - 1 : HolesOf(u)[k] = HolesOf(t)[k]
    BY <1>3, <1>5 DEF HolesOf
  <2>4. SumOf(HolesOf(t)) \in Int
        /\ SumOf(HolesOf(u)) = SumOf(HolesOf(t)) - Holes(s) + Holes(r)
    <3> DEFINE g == HolesOf(t)
               h == HolesOf(u)
    <3>1. /\ g \in Seq(Int) /\ h \in Seq(Int) /\ Len(h) = Len(g) /\ Len(g) # 0
          /\ g[Len(g)] = Holes(s) /\ h[Len(g)] = Holes(r)
      BY <1>3, <2>1, <2>2
    <3>2. \A k \in 1 .. Len(g) - 1 : h[k] = g[k]
      BY <2>1, <2>3
    <3> HIDE DEF g, h
    <3>3. SumOf(g) \in Int /\ SumOf(h) = SumOf(g) - g[Len(g)] + h[Len(g)]
      BY <3>1, <3>2, SumOfChanged
    <3> QED
      BY <3>1, <3>3 DEF g, h
  <2>5. Holes(s) \in Int
    BY <1>4, StretchSums
  <2> QED
    BY <1>1, <2>4, <2>5
<1>8. SumOf(MessagesOf(u)) = SumOf(MessagesOf(t)) + n
  <2>1. /\ MessagesOf(t) \in Seq(Int) /\ MessagesOf(u) \in Seq(Int)
        /\ Len(MessagesOf(u)) = Len(MessagesOf(t)) /\ Len(MessagesOf(t)) = Len(t)
    BY <1>3, <1>5, KeptSums
  <2>2. MessagesOf(u)[Len(t)] = Messages(r) /\ MessagesOf(t)[Len(t)] = Messages(s)
    BY <1>1, <1>3, <1>5 DEF MessagesOf
  <2>3. \A k \in 1 .. Len(t) - 1 : MessagesOf(u)[k] = MessagesOf(t)[k]
    BY <1>3, <1>5 DEF MessagesOf
  <2>4. SumOf(MessagesOf(t)) \in Int
        /\ SumOf(MessagesOf(u)) = SumOf(MessagesOf(t)) - Messages(s) + Messages(r)
    <3> DEFINE g == MessagesOf(t)
               h == MessagesOf(u)
    <3>1. /\ g \in Seq(Int) /\ h \in Seq(Int) /\ Len(h) = Len(g) /\ Len(g) # 0
          /\ g[Len(g)] = Messages(s) /\ h[Len(g)] = Messages(r)
      BY <1>3, <2>1, <2>2
    <3>2. \A k \in 1 .. Len(g) - 1 : h[k] = g[k]
      BY <2>1, <2>3
    <3> HIDE DEF g, h
    <3>3. SumOf(g) \in Int /\ SumOf(h) = SumOf(g) - g[Len(g)] + h[Len(g)]
      BY <3>1, <3>2, SumOfChanged
    <3> QED
      BY <3>1, <3>3 DEF g, h
  <2>5. Messages(s) \in Int
    BY <1>4, StretchSums
  <2> QED
    BY <1>1, <2>4, <2>5
<1>9. f.gap_messages = SumOf(HolesOf(u)) /\ f.messages = SumOf(MessagesOf(u))
  BY <1>1, <1>2, <1>7, <1>8 DEF Kept
<1>10. f.session_changes = Len(u) - 1
  BY <1>1, <1>2, <1>5 DEF Kept
<1> QED
  BY <1>2, <1>5, <1>6, <1>9, <1>10 DEF Kept

\* The parts of a stretch's sums.
LEMMA HolesAre ==
  ASSUME NEW s
  PROVE  /\ Holes(s) = SumOf(Fronts(s)) + (s.upto - Resume(s, Len(s.sunk)))
         /\ Messages(s) = SumOf(Sizes(s))
BY DEF Holes, Fronts, Messages, Sizes

\* A packet of which nothing is delivered, recorded: the position may have moved on.
LEMMA NothingRecorded ==
  ASSUME NEW s \in StretchType, InOrder(s), NEW q, NEW v \in Nat, NEW r,
         r = Record(s, q, << >>, v)
  PROVE  /\ r \in StretchType /\ r.session = s.session /\ r.upto = v
         /\ Resume(r, Len(r.sunk)) = Resume(s, Len(s.sunk))
         /\ Holes(r) = Holes(s) + (v - s.upto) /\ Messages(r) = Messages(s) /\ InOrder(r)
<1>1. r = [session |-> s.session, from |-> s.from, upto |-> v, sunk |-> s.sunk]
  BY DEF Record, StretchType
<1>2. r \in StretchType /\ r.session = s.session /\ r.upto = v /\ r.sunk = s.sunk
      /\ r.from = s.from
  BY <1>1 DEF StretchType
<1>3. \A k : Resume(r, k) = Resume(s, k)
  BY <1>2 DEF Resume
<1>4. Fronts(r) = Fronts(s) /\ Sizes(r) = Sizes(s)
  BY <1>2, <1>3 DEF Fronts, Sizes
<1>5. /\ SumOf(Fronts(s)) \in Int /\ Resume(s, Len(s.sunk)) \in Int /\ s.upto \in Int
  <2>1. Len(s.sunk) \in 0 .. Len(s.sunk)
    BY DEF StretchType
  <2>2. s.upto \in Nat
    BY DEF StretchType
  <2> QED
    BY <2>1, <2>2, StretchSums
<1>6. Holes(r) = Holes(s) + (v - s.upto)
  <2> DEFINE a == SumOf(Fronts(s))
             b == Resume(s, Len(s.sunk))
             c == s.upto
  <2>1. Holes(s) = a + (c - b) /\ Holes(r) = a + (v - b)
    BY <1>2, <1>3, <1>4, HolesAre
  <2>2. a \in Int /\ b \in Int /\ c \in Int
    BY <1>5
  <2> HIDE DEF a, b, c
  <2>3. a + (v - b) = (a + (c - b)) + (v - c)
    BY <2>2
  <2> QED
    BY <2>1, <2>3 DEF c
<1>7. Messages(r) = Messages(s)
  BY <1>4, HolesAre
<1>8. InOrder(r)
  BY <1>2, <1>3 DEF InOrder
<1> QED
  BY <1>2, <1>3, <1>6, <1>7, <1>8

\* A packet delivered, recorded: what lies in front of it is a hole, its messages are its own.
LEMMA PacketRecorded ==
  ASSUME NEW s \in StretchType, InOrder(s), Resume(s, Len(s.sunk)) <= s.upto,
         NEW q \in Nat, q >= s.upto, NEW b \in Seq(Int), b # << >>,
         NEW v, v = (q + Len(b)) % kSequences, NEW r, r = Record(s, q, b, v)
  PROVE  /\ r \in StretchType /\ r.session = s.session /\ r.upto = v
         /\ Resume(r, Len(r.sunk)) = v
         /\ Holes(r) = Holes(s) + (q - s.upto) /\ Messages(r) = Messages(s) + Len(b)
         /\ InOrder(r)
<1> DEFINE n == Len(b)
           x == [first |-> q, count |-> n]
           l == Len(s.sunk)
           w == Append(s.sunk, x)
<1>1. n \in Nat /\ v \in Nat
  BY PastType
<1>2. r = [session |-> s.session, from |-> s.from, upto |-> v, sunk |-> w]
  BY DEF Record, StretchType
<1> DEFINE T == [first : Nat, count : Nat]
<1>3. s.sunk \in Seq(T) /\ x \in T
  BY <1>1 DEF StretchType
<1>4. l \in Nat /\ w \in Seq(T) /\ Len(w) = l + 1 /\ w[l + 1] = x
      /\ \A k \in 1 .. l : w[k] = s.sunk[k]
  <2> DEFINE y == s.sunk
  <2>1. y \in Seq(T) /\ x \in T
    BY <1>3
  <2> HIDE DEF T, x, y
  <2>2. Len(y) \in Nat /\ Append(y, x) \in Seq(T) /\ Len(Append(y, x)) = Len(y) + 1
        /\ Append(y, x)[Len(y) + 1] = x /\ \A k \in 1 .. Len(y) : Append(y, x)[k] = y[k]
    BY <2>1, AppendProperties
  <2> QED
    BY <2>2 DEF y
<1>5. r \in StretchType /\ r.session = s.session /\ r.upto = v /\ r.sunk = w /\ r.from = s.from
  <2> HIDE DEF w
  <2>1. s.session \in Sessions /\ s.from \in Nat
    BY DEF StretchType
  <2> QED
    BY <1>1, <1>2, <1>4, <2>1 DEF StretchType
<1>6. x.first = q /\ x.count = n
  OBVIOUS
<1> HIDE DEF w, x, l, T
<1>7. \A k \in 0 .. l : Resume(r, k) = Resume(s, k)
  <2> SUFFICES ASSUME NEW k \in 0 .. l PROVE Resume(r, k) = Resume(s, k)
    OBVIOUS
  <2>1. CASE k = 0
    BY <1>5, <2>1 DEF Resume
  <2>2. CASE k # 0
    <3>1. k \in 1 .. l
      BY <1>4, <2>2
    <3> QED
      BY <1>4, <1>5, <2>2, <3>1 DEF Resume
  <2> QED
    BY <2>1, <2>2
<1>8. Resume(r, l + 1) = v /\ Len(r.sunk) = l + 1
  <2>1. l + 1 # 0 /\ r.sunk[l + 1] = x /\ Len(r.sunk) = l + 1
    BY <1>4, <1>5
  <2>2. Past(x) = v
    BY <1>6 DEF Past
  <2> QED
    BY <2>1, <2>2 DEF Resume
<1>9. /\ Len(Fronts(r)) = l + 1 /\ Len(Fronts(s)) = l
      /\ Fronts(r) \in Seq(Int) /\ Fronts(s) \in Seq(Int)
      /\ Len(Sizes(r)) = l + 1 /\ Len(Sizes(s)) = l
      /\ Sizes(r) \in Seq(Int) /\ Sizes(s) \in Seq(Int)
      /\ Resume(s, l) \in Int /\ SumOf(Fronts(s)) \in Int
  <2>1. l \in 0 .. l
    BY <1>4
  <2>2. Len(s.sunk) = l
    BY DEF l
  <2>3. /\ Fronts(r) \in Seq(Int) /\ Sizes(r) \in Seq(Int)
        /\ Len(Fronts(r)) = l + 1 /\ Len(Sizes(r)) = l + 1
    BY <1>5, <1>8, StretchSums
  <2>4. /\ Fronts(s) \in Seq(Int) /\ Sizes(s) \in Seq(Int) /\ SumOf(Fronts(s)) \in Int
        /\ Len(Fronts(s)) = l /\ Len(Sizes(s)) = l
    BY <2>2, StretchSums
  <2>5. Resume(s, l) \in Nat
    BY <2>1, <2>2, StretchSums
  <2> QED
    BY <2>3, <2>4, <2>5
<1>10. /\ \A k \in 1 .. l : Fronts(r)[k] = Fronts(s)[k]
       /\ Fronts(r)[l + 1] = q - Resume(s, l)
  <2>1. ASSUME NEW k \in 1 .. l PROVE Fronts(r)[k] = Fronts(s)[k]
    <3>1. k \in 1 .. l + 1 /\ k - 1 \in 0 .. l
      BY <1>4
    <3> QED
      BY <1>4, <1>5, <1>7, <1>8, <3>1 DEF Fronts, l
  <2>2. Fronts(r)[l + 1] = q - Resume(s, l)
    <3>1. l + 1 \in 1 .. l + 1 /\ (l + 1) - 1 = l /\ l \in 0 .. l
      BY <1>4
    <3> QED
      BY <1>4, <1>5, <1>6, <1>7, <1>8, <3>1 DEF Fronts
  <2> QED
    BY <2>1, <2>2
<1>11. SumOf(Fronts(r)) = SumOf(Fronts(s)) + (q - Resume(s, l))
  <2> DEFINE g == Fronts(s)
             h == Fronts(r)
  <2>1. g \in Seq(Int) /\ h \in Seq(Int) /\ Len(h) = Len(g) + 1 /\ Len(h) = l + 1
        /\ \A k \in 1 .. Len(g) : h[k] = g[k]
    BY <1>9, <1>10
  <2>2. h[l + 1] = q - Resume(s, l)
    BY <1>10
  <2> HIDE DEF g, h
  <2>3. SumOf(h) = SumOf(g) + h[Len(h)]
    BY <2>1, SumOfMore
  <2> QED
    BY <2>1, <2>2, <2>3 DEF g, h
<1>12. SumOf(Sizes(r)) = SumOf(Sizes(s)) + n
  <2>1. \A k \in 1 .. l : Sizes(r)[k] = Sizes(s)[k]
    <3>1. Len(r.sunk) = l + 1 /\ l \in Nat /\ \A k \in 1 .. l : r.sunk[k] = s.sunk[k]
      BY <1>4, <1>5, <1>8
    <3>2. Len(s.sunk) = l
      BY DEF l
    <3>3. ASSUME NEW k \in 1 .. l PROVE Sizes(r)[k] = Sizes(s)[k]
      <4>1. k \in 1 .. Len(r.sunk) /\ k \in 1 .. Len(s.sunk)
        BY <3>1, <3>2
      <4>2. Sizes(r)[k] = r.sunk[k].count /\ Sizes(s)[k] = s.sunk[k].count
        BY <4>1 DEF Sizes
      <4> QED
        BY <3>1, <4>2
    <3> QED
      BY <3>3
  <2>2. Sizes(r)[l + 1] = n
    BY <1>4, <1>5, <1>6, <1>8 DEF Sizes
  <2> DEFINE g == Sizes(s)
             h == Sizes(r)
  <2>3. g \in Seq(Int) /\ h \in Seq(Int) /\ Len(h) = Len(g) + 1 /\ Len(h) = l + 1
        /\ \A k \in 1 .. Len(g) : h[k] = g[k]
    BY <1>9, <2>1
  <2>4. h[l + 1] = n
    BY <2>2
  <2> HIDE DEF g, h
  <2>5. SumOf(h) = SumOf(g) + h[Len(h)]
    BY <2>3, SumOfMore
  <2> QED
    BY <2>3, <2>4, <2>5 DEF g, h
<1>13. Holes(r) = Holes(s) + (q - s.upto)
  <2> DEFINE a == SumOf(Fronts(s))
             c == Resume(s, l)
             e == s.upto
  <2>1. Holes(s) = a + (e - c)
    BY HolesAre DEF l
  <2>2. Holes(r) = (a + (q - c)) + (v - v)
    BY <1>5, <1>8, <1>11, HolesAre
  <2>3. a \in Int /\ c \in Int /\ e \in Nat
    BY <1>9 DEF StretchType
  <2> HIDE DEF a, c, e
  <2>4. (a + (q - c)) + (v - v) = (a + (e - c)) + (q - e)
    BY <1>1, <2>3
  <2> QED
    BY <2>1, <2>2, <2>4 DEF e
<1>14. Messages(r) = Messages(s) + Len(b)
  BY <1>12, HolesAre
<1>15. InOrder(r)
  <2> SUFFICES ASSUME NEW k \in DOMAIN r.sunk PROVE r.sunk[k].first >= Resume(r, k - 1)
    BY DEF InOrder
  <2>1. k \in 1 .. l + 1
    BY <1>4, <1>5
  <2>2. CASE k = l + 1
    <3>1. r.sunk[k].first = q /\ (l + 1) - 1 = l /\ l \in 0 .. l
      BY <1>4, <1>5, <1>6, <2>2
    <3>2. Resume(r, k - 1) = Resume(s, l)
      BY <1>7, <2>2, <3>1
    <3>3. s.upto \in Nat /\ Resume(s, l) <= s.upto
      BY DEF StretchType, l
    <3>4. Resume(s, l) \in Int
      BY <1>9
    <3>5. q >= Resume(s, l)
      BY <3>3, <3>4
    <3> QED
      BY <3>1, <3>2, <3>5
  <2>3. CASE k # l + 1
    <3>1. k \in 1 .. l /\ k - 1 \in 0 .. l
      BY <1>4, <2>1, <2>3
    <3>2. k \in DOMAIN s.sunk
      BY <1>3, <3>1 DEF l
    <3> QED
      BY <1>4, <1>5, <1>7, <3>1, <3>2 DEF InOrder
  <2> QED
    BY <2>2, <2>3
<1> QED
  BY <1>5, <1>8, <1>13, <1>14, <1>15

\* The decoder e is d with a hole of gaps messages counted.
Counted(d, e, gaps) ==
  /\ DecoderShape(e) /\ e.started = d.started /\ e.session = d.session
  /\ e.expected = d.expected /\ e.messages = d.messages
  /\ e.session_changes = d.session_changes /\ e.gap_messages = d.gap_messages + gaps

\* What a hole in front of a packet does to the decoder.
LEMMA HoleCounted ==
  ASSUME NEW d, DecoderShape(d), NEW q \in Nat, NEW e, e = NoteHole(d, q)
  PROVE  Counted(d, e, IF q > d.expected THEN q - d.expected ELSE 0)
<1>1. d.expected \in Nat /\ d.gap_messages \in Nat
  BY DEF DecoderShape
<1>2. CASE q > d.expected
  <2> DEFINE m == d.gap_messages + (q - d.expected)
  <2>1. m \in Nat
    BY <1>1, <1>2
  <2>2. PICK n, l : e = [d EXCEPT !.gaps_total = n, !.gap_messages = m, !.gaps = l]
    BY <1>2 DEF NoteHole, NoteGap
  <2> HIDE DEF m
  <2>3. DOMAIN e = DOMAIN d /\ e.gap_messages = m /\ e.started = d.started
        /\ e.session = d.session /\ e.expected = d.expected /\ e.messages = d.messages
        /\ e.session_changes = d.session_changes
    BY <2>2 DEF DecoderShape, NewDecoder
  <2> QED
    BY <1>2, <2>1, <2>3 DEF DecoderShape, Counted, m
<1>3. CASE ~(q > d.expected)
  BY <1>1, <1>3 DEF NoteHole, Counted
<1> QED
  BY <1>2, <1>3

\* A packet with a header begins a stretch or belongs to the last.
LEMMA EnteredKept ==
  ASSUME SessionsInv, NEW pkt, Says(pkt), ~pkt.short
  PROVE  /\ Kept(EnterSession(dec, pkt), Reached(pkt)) /\ EnterSession(dec, pkt).started
         /\ Reached(pkt) # << >> /\ Reached(pkt)[Len(Reached(pkt))].session = pkt.session
<1>1. Kept(dec, stretches) /\ DecoderShape(dec) /\ (dec.started <=> stretches # << >>)
  BY DEF SessionsInv, Kept
<1>2. stretches # << >> => dec.session = Current.session
  BY <1>1 DEF Kept, AtTheEnd, Current
<1>3. CASE dec.started /\ pkt.session = dec.session
  <2>1. EnterSession(dec, pkt) = dec
    BY <1>3 DEF EnterSession
  <2>2. Reached(pkt) = stretches
    BY <1>1, <1>2, <1>3 DEF Reached
  <2> QED
    BY <1>1, <1>2, <1>3, <2>1, <2>2 DEF Current
<1>4. CASE ~(dec.started /\ pkt.session = dec.session)
  <2> DEFINE n == IF dec.started THEN dec.session_changes + 1 ELSE dec.session_changes
             e == EnterSession(dec, pkt)
  <2>1. e = [dec EXCEPT !.session = pkt.session, !.expected = pkt.sequence,
                        !.started = TRUE, !.session_changes = n]
    BY <1>4 DEF EnterSession
  <2>2. n = Len(stretches) /\ n \in Nat
    <3>1. stretches \in Seq(StretchType) /\ Len(stretches) \in Nat
      BY <1>1 DEF Kept
    <3>2. dec.session_changes = IF stretches = << >> THEN 0 ELSE Len(stretches) - 1
      BY <1>1 DEF Kept
    <3>3. stretches = << >> => Len(stretches) = 0
      OBVIOUS
    <3> QED
      BY <1>1, <3>1, <3>2, <3>3
  <2>3. pkt.sequence \in Nat /\ pkt.session \in Sessions
    BY DEF Says
  <2> HIDE DEF n, e
  <2>4. DOMAIN e = DOMAIN dec /\ e.started = TRUE /\ e.session = pkt.session
        /\ e.expected = pkt.sequence /\ e.session_changes = n
        /\ e.gap_messages = dec.gap_messages /\ e.messages = dec.messages
    BY <1>1, <2>1 DEF DecoderShape, NewDecoder
  <2>5. DecoderShape(e)
    BY <1>1, <2>2, <2>3, <2>4 DEF DecoderShape
  <2>6. Reached(pkt) = Append(stretches, [session |-> pkt.session, from |-> pkt.sequence,
                                          upto |-> pkt.sequence, sunk |-> << >>])
    BY <1>1, <1>2, <1>4 DEF Reached
  <2>7. Begun(dec, stretches, pkt.session, pkt.sequence, e, Reached(pkt))
    BY <1>1, <2>2, <2>4, <2>5, <2>6 DEF Begun
  <2>8. Kept(e, Reached(pkt)) /\ Reached(pkt) # << >>
        /\ Reached(pkt)[Len(Reached(pkt))].session = pkt.session
    BY <2>3, <2>7, StretchBegun
  <2> QED
    BY <2>4, <2>8 DEF e
<1> QED
  BY <1>3, <1>4

\* What the decoder and its stretches become behind a packet that was entered.
KeptAfter(r, t, q) ==
  Kept(r.decoder, [t EXCEPT ![Len(t)] = Record(@, q, r.delivered, r.decoder.expected)])

\* The last stretch of some that are kept.
LEMMA LastStretch ==
  ASSUME NEW d, NEW t, Kept(d, t), t # << >>
  PROVE  /\ Len(t) \in 1 .. Len(t) /\ t[Len(t)] \in StretchType /\ InOrder(t[Len(t)])
         /\ Resume(t[Len(t)], Len(t[Len(t)].sunk)) <= t[Len(t)].upto
         /\ t[Len(t)].upto = d.expected /\ t[Len(t)].session = d.session
         /\ d.started /\ DecoderShape(d) /\ d.expected \in Nat /\ d.messages \in Nat
         /\ d.gap_messages \in Nat
<1>1. t \in Seq(StretchType) /\ Len(t) \in Nat /\ Len(t) # 0
  BY DEF Kept
<1>2. Len(t) \in 1 .. Len(t) /\ t[Len(t)] \in StretchType /\ Len(t) \in DOMAIN t
  BY <1>1
<1> QED
  BY <1>2 DEF Kept, AtTheEnd, DecoderShape

\* A packet that only counts something leaves the stretches as they are.
LEMMA IgnoredKept ==
  ASSUME NEW d, NEW t, Kept(d, t), t # << >>, NEW q, NEW f,
         DecoderShape(f), f.started = d.started, f.session = d.session,
         f.expected = d.expected, f.messages = d.messages, f.gap_messages = d.gap_messages,
         f.session_changes = d.session_changes
  PROVE  KeptAfter(Ignore(f), t, q)
<1> DEFINE s == t[Len(t)]
           r == Record(s, q, << >>, f.expected)
           u == [t EXCEPT ![Len(t)] = r]
<1>1. /\ s \in StretchType /\ InOrder(s) /\ Resume(s, Len(s.sunk)) <= s.upto
      /\ s.upto = d.expected /\ s.session = d.session /\ d.started /\ d.expected \in Nat
      /\ d.messages \in Nat /\ d.gap_messages \in Nat
  BY LastStretch
<1> HIDE DEF s
<1>2. /\ r \in StretchType /\ r.session = s.session /\ r.upto = f.expected
      /\ Resume(r, Len(r.sunk)) = Resume(s, Len(s.sunk))
      /\ Holes(r) = Holes(s) + (f.expected - s.upto) /\ Messages(r) = Messages(s) /\ InOrder(r)
  BY <1>1, NothingRecorded
<1> HIDE DEF r
<1>3. Holes(s) \in Int /\ Messages(s) \in Int
  BY <1>1, StretchSums
<1>4. Holes(r) = Holes(s) + 0 /\ Messages(r) = Messages(s) + 0
      /\ f.gap_messages = d.gap_messages + 0 /\ f.messages = d.messages + 0
  BY <1>1, <1>2, <1>3
<1>5. AtTheEnd(f, r)
  BY <1>1, <1>2 DEF AtTheEnd
<1>6. Grown(d, t, s, r, 0, 0, f, u)
  BY <1>1, <1>2, <1>4, <1>5 DEF Grown, s
<1>7. Kept(f, u)
  BY <1>6, StretchGrows
<1> QED
  BY <1>7 DEF KeptAfter, Ignore, s, r

\* The end of the session may move the position, over what becomes a hole.
LEMMA EndKept ==
  ASSUME NEW d, NEW t, Kept(d, t), t # << >>, NEW pkt, Says(pkt)
  PROVE  KeptAfter(Ignore(EndOfSession(d, pkt)), t, pkt.sequence)
<1> DEFINE s == t[Len(t)]
           q == pkt.sequence
           e == NoteHole(d, q)
           c == IF q > e.expected THEN q ELSE e.expected
           f == EndOfSession(d, pkt)
           r == Record(s, q, << >>, c)
           u == [t EXCEPT ![Len(t)] = r]
           g == IF q > d.expected THEN q - d.expected ELSE 0
<1>1. /\ s \in StretchType /\ InOrder(s) /\ Resume(s, Len(s.sunk)) <= s.upto
      /\ s.upto = d.expected /\ s.session = d.session /\ d.started /\ DecoderShape(d)
      /\ d.expected \in Nat /\ d.messages \in Nat /\ d.gap_messages \in Nat
  BY LastStretch
<1>2. q \in Nat
  BY DEF Says
<1>3. /\ DecoderShape(e) /\ e.started = d.started /\ e.session = d.session
      /\ e.expected = d.expected /\ e.messages = d.messages
      /\ e.session_changes = d.session_changes /\ e.gap_messages = d.gap_messages + g
  <2>1. Counted(d, e, g)
    BY <1>1, <1>2, HoleCounted
  <2> HIDE DEF e, g
  <2> QED
    BY <2>1 DEF Counted
<1>4. f = [e EXCEPT !.expected = c, !.eos = TRUE, !.last_sequence = q]
  BY DEF EndOfSession
<1> HIDE DEF e, f
<1>5. c \in Nat /\ c >= d.expected /\ c - d.expected = g /\ g \in Nat
  BY <1>1, <1>2, <1>3
<1> HIDE DEF c, s, q, g
<1>6. DOMAIN f = DOMAIN e /\ f.expected = c /\ f.started = e.started /\ f.session = e.session
      /\ f.messages = e.messages /\ f.session_changes = e.session_changes
      /\ f.gap_messages = e.gap_messages
  BY <1>3, <1>4 DEF DecoderShape, NewDecoder
<1>7. DecoderShape(f)
  BY <1>3, <1>5, <1>6 DEF DecoderShape
<1>8. /\ r \in StretchType /\ r.session = s.session /\ r.upto = c
      /\ Resume(r, Len(r.sunk)) = Resume(s, Len(s.sunk))
      /\ Holes(r) = Holes(s) + (c - s.upto) /\ Messages(r) = Messages(s) /\ InOrder(r)
  BY <1>1, <1>5, NothingRecorded
<1> HIDE DEF r
<1>9. Messages(s) \in Int /\ Resume(s, Len(s.sunk)) \in Int
  <2>1. Len(s.sunk) \in 0 .. Len(s.sunk)
    BY <1>1 DEF StretchType
  <2> QED
    BY <1>1, <2>1, StretchSums
<1>10. Holes(r) = Holes(s) + g /\ Messages(r) = Messages(s) + 0
       /\ f.gap_messages = d.gap_messages + g /\ f.messages = d.messages + 0
       /\ g \in Int /\ 0 \in Int
  BY <1>1, <1>3, <1>5, <1>6, <1>8, <1>9
<1>11. AtTheEnd(f, r)
  BY <1>1, <1>3, <1>5, <1>6, <1>8, <1>9 DEF AtTheEnd
<1>12. Grown(d, t, s, r, g, 0, f, u)
  BY <1>1, <1>3, <1>6, <1>7, <1>8, <1>10, <1>11 DEF Grown, s
<1>13. Kept(f, u)
  BY <1>12, StretchGrows
<1> QED
  BY <1>6, <1>13 DEF KeptAfter, Ignore, f, r, s, q

\* A packet delivered.
LEMMA DeliveredKept ==
  ASSUME NEW d, NEW t, Kept(d, t), t # << >>, NEW pkt, Says(pkt),
         ~Stale(d, pkt), Valid(pkt), pkt.count # 0
  PROVE  KeptAfter(Deliver(d, pkt), t, pkt.sequence)
<1> DEFINE s == t[Len(t)]
           q == pkt.sequence
           b == pkt.blocks
           e == NoteHole(d, q)
           v == (q + Len(b)) % kSequences
           m == e.messages + Len(b)
           f == Deliver(d, pkt).decoder
           r == Record(s, q, b, v)
           u == [t EXCEPT ![Len(t)] = r]
<1>1. /\ s \in StretchType /\ InOrder(s) /\ Resume(s, Len(s.sunk)) <= s.upto
      /\ s.upto = d.expected /\ s.session = d.session /\ d.started /\ DecoderShape(d)
      /\ d.expected \in Nat /\ d.messages \in Nat /\ d.gap_messages \in Nat
  BY LastStretch
<1>2. q \in Nat /\ b \in Seq(Int) /\ Len(b) \in Nat /\ Len(b) = pkt.count /\ b # << >>
  <2>1. q \in Nat /\ b \in Seq(Int) /\ Len(b) = pkt.count
    BY DEF Says, Valid
  <2> HIDE DEF b
  <2> QED
    BY <2>1
<1>3. q >= d.expected
  BY <1>1, <1>2 DEF Stale
<1>4. /\ DecoderShape(e) /\ e.started = d.started /\ e.session = d.session
      /\ e.expected = d.expected /\ e.messages = d.messages
      /\ e.session_changes = d.session_changes
      /\ e.gap_messages = d.gap_messages + (q - d.expected)
  <2>1. (IF q > d.expected THEN q - d.expected ELSE 0) = q - d.expected
    BY <1>1, <1>2, <1>3
  <2>2. Counted(d, e, IF q > d.expected THEN q - d.expected ELSE 0)
    BY <1>1, <1>2, HoleCounted
  <2> HIDE DEF e, q
  <2>3. Counted(d, e, q - d.expected)
    BY <2>1, <2>2
  <2> QED
    BY <2>3 DEF Counted
<1>5. v \in Nat /\ m \in Nat
  <2>1. v \in Nat
    BY <1>2, PastType
  <2> HIDE DEF e, v, b
  <2>2. m \in Nat
    BY <1>1, <1>2, <1>4
  <2> QED
    BY <2>1, <2>2
<1>6. PICK a : f = [e EXCEPT !.last_sequence = q, !.messages = m, !.applied = a, !.expected = v]
  <2>1. Len(b) = pkt.count
    BY <1>2
  <2> QED
    BY <2>1 DEF Deliver
<1>7. Deliver(d, pkt).delivered = b
  BY DEF Deliver
<1> HIDE DEF e, f, v, m, s, q, b
<1>8. DOMAIN f = DOMAIN e /\ f.expected = v /\ f.started = e.started /\ f.session = e.session
      /\ f.messages = m /\ f.session_changes = e.session_changes
      /\ f.gap_messages = e.gap_messages
  BY <1>4, <1>6 DEF DecoderShape, NewDecoder
<1>9. DecoderShape(f)
  BY <1>4, <1>5, <1>8 DEF DecoderShape
<1>10. /\ r \in StretchType /\ r.session = s.session /\ r.upto = v
       /\ Resume(r, Len(r.sunk)) = v
       /\ Holes(r) = Holes(s) + (q - s.upto) /\ Messages(r) = Messages(s) + Len(b)
       /\ InOrder(r)
  BY <1>1, <1>2, <1>3, PacketRecorded DEF v
<1> HIDE DEF r
<1>11. AtTheEnd(f, r)
  BY <1>1, <1>4, <1>5, <1>8, <1>10 DEF AtTheEnd
<1>12. q - d.expected \in Int /\ Len(b) \in Int /\ Holes(r) = Holes(s) + (q - d.expected)
       /\ f.messages = d.messages + Len(b)
  BY <1>1, <1>2, <1>4, <1>8, <1>10 DEF m
<1>13. Grown(d, t, s, r, q - d.expected, Len(b), f, u)
  BY <1>1, <1>4, <1>8, <1>9, <1>10, <1>11, <1>12 DEF Grown, s
<1>14. Kept(f, u)
  BY <1>13, StretchGrows
<1> QED
  BY <1>7, <1>8, <1>14 DEF KeptAfter, f, r, s, q

\* A packet keeps the decoder and its stretches together.
LEMMA PacketKept ==
  ASSUME SessionsInv, NEW pkt, Says(pkt), OnAnyPacket(pkt)
  PROVE  SessionsInv'
<1> DEFINE at == Reached(pkt)
           e == EnterSession(dec, pkt)
           d == OnPacket(dec, pkt)
<1>1. /\ dec' = d.decoder
      /\ stretches' = IF at = << >> THEN at ELSE
           [at EXCEPT ![Len(at)] = Record(@, pkt.sequence, d.delivered, d.decoder.expected)]
  BY DEF OnAnyPacket
<1>2. CASE pkt.short
  <2> DEFINE f == [dec EXCEPT !.malformed = @ + 1]
  <2>1. d = Ignore(f) /\ at = stretches
    BY <1>2 DEF OnPacket, Reached
  <2>2. Kept(dec, stretches) /\ DecoderShape(dec)
    BY DEF SessionsInv, Kept
  <2>3. DecoderShape(f) /\ f.started = dec.started /\ f.session = dec.session
        /\ f.expected = dec.expected /\ f.messages = dec.messages
        /\ f.gap_messages = dec.gap_messages /\ f.session_changes = dec.session_changes
    BY <2>2 DEF DecoderShape, NewDecoder
  <2> HIDE DEF f, d, at
  <2>4. CASE stretches = << >>
    <3>1. dec' = f /\ stretches' = stretches
      BY <1>1, <2>1, <2>4 DEF Ignore
    <3>2. Kept(f, stretches)
      BY <2>2, <2>3, <2>4 DEF Kept
    <3> QED
      BY <3>1, <3>2 DEF SessionsInv
  <2>5. CASE stretches # << >>
    <3>1. KeptAfter(Ignore(f), stretches, pkt.sequence)
      BY <2>2, <2>3, <2>5, IgnoredKept
    <3> QED
      BY <1>1, <2>1, <2>5, <3>1 DEF KeptAfter, SessionsInv
  <2> QED
    BY <2>4, <2>5
<1>3. CASE ~pkt.short
  <2>1. Kept(e, at) /\ e.started /\ at # << >> /\ DecoderShape(e)
    BY <1>3, EnteredKept DEF Kept
  <2> HIDE DEF e, at, d
  <2>2. SUFFICES KeptAfter(d, at, pkt.sequence)
    BY <1>1, <2>1, <2>2 DEF KeptAfter, SessionsInv
  <2>3. ASSUME NEW f, DOMAIN f = DOMAIN e, f.started = e.started, f.session = e.session,
               f.expected = e.expected, f.messages = e.messages,
               f.gap_messages = e.gap_messages, f.session_changes = e.session_changes
        PROVE  KeptAfter(Ignore(f), at, pkt.sequence)
    <3>1. DecoderShape(f)
      BY <2>1, <2>3 DEF DecoderShape
    <3> QED
      BY <2>1, <2>3, <3>1, IgnoredKept
  <2>4. CASE pkt.count = kEndOfSession
    <3>1. pkt.count # kHeartbeat
      BY <2>4, DecoderAssumption DEF kHeartbeat
    <3>2. d = Ignore(EndOfSession(e, pkt))
      BY <1>3, <2>4, <3>1 DEF OnPacket, d, e
    <3> QED
      BY <2>1, <3>2, EndKept
  <2>5. CASE pkt.count # kEndOfSession /\ pkt.count = kHeartbeat
    <3> DEFINE f == [e EXCEPT !.heartbeats = @ + 1]
    <3>1. d = Ignore(f)
      BY <1>3, <2>5 DEF OnPacket, d, e
    <3>2. KeptAfter(Ignore(f), at, pkt.sequence)
      BY <2>1, <2>3 DEF DecoderShape, NewDecoder
    <3> QED
      BY <3>1, <3>2
  <2>6. CASE pkt.count # kEndOfSession /\ pkt.count # kHeartbeat /\ Stale(e, pkt)
    <3> DEFINE f == [e EXCEPT !.duplicates = @ + 1]
    <3>1. d = Ignore(f)
      BY <1>3, <2>6 DEF OnPacket, d, e
    <3>2. KeptAfter(Ignore(f), at, pkt.sequence)
      BY <2>1, <2>3 DEF DecoderShape, NewDecoder
    <3> QED
      BY <3>1, <3>2
  <2>7. CASE /\ pkt.count # kEndOfSession /\ pkt.count # kHeartbeat
             /\ ~Stale(e, pkt) /\ ~Valid(pkt)
    <3> DEFINE f == [e EXCEPT !.malformed = @ + 1]
    <3>1. d = Ignore(f)
      BY <1>3, <2>7 DEF OnPacket, d, e
    <3>2. KeptAfter(Ignore(f), at, pkt.sequence)
      BY <2>1, <2>3 DEF DecoderShape, NewDecoder
    <3> QED
      BY <3>1, <3>2
  <2>8. CASE /\ pkt.count # kEndOfSession /\ pkt.count # kHeartbeat
             /\ ~Stale(e, pkt) /\ Valid(pkt)
    <3>1. d = Deliver(e, pkt)
      BY <1>3, <2>8 DEF OnPacket, d, e
    <3>2. pkt.count # 0
      BY <2>8 DEF kHeartbeat
    <3> QED
      BY <2>1, <2>8, <3>1, <3>2, DeliveredKept
  <2> QED
    BY <2>4, <2>5, <2>6, <2>7, <2>8
<1> QED
  BY <1>2, <1>3

\* Every step keeps the invariant.
LEMMA SessionsStep ==
  ASSUME SessionsInv, [SessionsNext]_sessionVars
  PROVE  SessionsInv'
<1>1. CASE SessionsNext
  <2>1. PICK pkt \in Packets \cup Malformed : OnAnyPacket(pkt)
    BY <1>1 DEF SessionsNext
  <2>2. Says(pkt)
    BY PacketsSay
  <2> QED
    BY <2>1, <2>2, PacketKept
<1>2. CASE UNCHANGED sessionVars
  BY <1>2 DEF sessionVars, SessionsInv
<1> QED
  BY <1>1, <1>2

\* The decoder is what the stretches add up to, always.
LEMMA SessionsInvariant == SessionsSpec => []SessionsInv
<1>1. SessionsInit => SessionsInv
  <2> SUFFICES ASSUME SessionsInit PROVE Kept(NewDecoder, << >>)
    BY DEF SessionsInit, SessionsInv
  <2>1. DecoderShape(NewDecoder) /\ NewDecoder.started = FALSE
        /\ NewDecoder.session_changes = 0
        /\ NewDecoder.gap_messages = 0 /\ NewDecoder.messages = 0
    BY DEF DecoderShape, NewDecoder
  <2>2. << >> \in Seq(StretchType) /\ DOMAIN << >> = {}
    OBVIOUS
  <2>3. HolesOf(<< >>) = << >> /\ MessagesOf(<< >>) = << >> /\ SumOf(<< >>) = 0
    <3>1. << >> \in Seq(Int) /\ Len(<< >>) = 0
      OBVIOUS
    <3>2. HolesOf(<< >>) = << >> /\ MessagesOf(<< >>) = << >>
      BY <3>1 DEF HolesOf, MessagesOf
    <3> QED
      BY <3>1, <3>2, SumOfNone
  <2> QED
    BY <2>1, <2>2, <2>3 DEF Kept
<1> QED
  BY <1>1, SessionsStep, PTL DEF SessionsSpec

\* decoder.h:28-30: of one stretch of a session nothing is delivered twice, whatever arrives.
THEOREM SessionsOnce == SessionsSpec => []OnceInAStretch
<1>1. SessionsInv => OnceInAStretch
  BY DEF SessionsInv, Kept, OnceInAStretch, InOrder
<1> QED
  BY <1>1, SessionsInvariant, PTL

\* decoder.cc:31-33: what is counted as missing, delivered and changed is what is missing
\* inside the stretches, what was delivered and what changed, whatever arrives.
THEOREM SessionsCounted == SessionsSpec => []GapsWithinSessions
<1>1. SessionsInv => GapsWithinSessions
  BY DEF SessionsInv, Kept, GapsWithinSessions, HolesOf, MessagesOf
<1> QED
  BY <1>1, SessionsInvariant, PTL

-----------------------------------------------------------------------------
(***************************************************************************)
(* The file: what was packed, read back.                                   *)
(***************************************************************************)
\* A non-empty set of numbers up to n has a greatest one.
LEMMA GreatestOf ==
  ASSUME NEW n \in Nat, NEW T \in SUBSET (0 .. n), T # {}
  PROVE  \E m \in T : \A k \in T : k <= m
<1> DEFINE U == {n - k : k \in T}
<1>1. U \in SUBSET Nat /\ U # {}
  <2>1. \A k \in T : n - k \in Nat
    OBVIOUS
  <2> QED
    BY <2>1
<1>2. PICK u \in U : \A v \in U : u <= v
  <2> HIDE DEF U
  <2> QED
    BY <1>1, LeastOf
<1>3. PICK m \in T : u = n - m
  OBVIOUS
<1>4. ASSUME NEW k \in T PROVE k <= m
  <2>1. n - k \in U
    OBVIOUS
  <2>2. n - m <= n - k
    BY <1>2, <1>3, <2>1
  <2> QED
    BY <2>2
<1> QED
  BY <1>4

\* The blocks of the first n messages, one after another, as Blocks joins them.
Stacks(f, n, g) ==
  g = [k \in 0 .. n |-> IF k = 0 THEN << >> ELSE g[k - 1] \o Block(f[k])]

\* There is such a stack: otherwise take the fewest messages with none.
LEMMA StackOf ==
  ASSUME NEW n \in Nat, NEW f
  PROVE  \E g : Stacks(f, n, g)
<1> DEFINE Bad == {m \in 0 .. n : ~\E g : Stacks(f, m, g)}
<1>1. SUFFICES ASSUME Bad # {} PROVE FALSE
  OBVIOUS
<1>2. PICK m \in Bad : \A k \in Bad : m <= k
  <2>1. Bad \in SUBSET Nat
    OBVIOUS
  <2> HIDE DEF Bad
  <2> QED
    BY <1>1, <2>1, LeastOf
<1>3. m # 0
  <2> DEFINE g == [k \in 0 .. 0 |-> << >>]
  <2>1. Stacks(f, 0, g)
    BY DEF Stacks
  <2> QED
    BY <2>1
<1>4. m \in 1 .. n /\ m - 1 \in 0 .. n /\ m - 1 \notin Bad
  <2>1. m \in 1 .. n /\ ~(m <= m - 1)
    BY <1>3
  <2> HIDE DEF Bad
  <2> QED
    BY <1>2, <2>1
<1>5. PICK h : Stacks(f, m - 1, h)
  BY <1>4
<1> DEFINE g == [k \in 0 .. m |-> IF k = m THEN h[m - 1] \o Block(f[m]) ELSE h[k]]
<1>6. ASSUME NEW k \in 0 .. m
      PROVE  g[k] = IF k = 0 THEN << >> ELSE g[k - 1] \o Block(f[k])
  <2>1. \A j \in 0 .. m - 1 : h[j] = IF j = 0 THEN << >> ELSE h[j - 1] \o Block(f[j])
    BY <1>5 DEF Stacks
  <2>2. m \in Nat /\ m >= 1
    BY <1>4
  <2>3. CASE k = m
    <3>1. k # 0 /\ k - 1 = m - 1 /\ k - 1 # m /\ k - 1 \in 0 .. m
      BY <2>2, <2>3
    <3>2. g[k] = h[m - 1] \o Block(f[m]) /\ g[k - 1] = h[k - 1]
      BY <2>3, <3>1
    <3> QED
      BY <2>3, <3>1, <3>2
  <2>4. CASE k # m
    <3>1. k \in 0 .. m - 1 /\ (k # 0 => k - 1 # m /\ k - 1 \in 0 .. m)
      BY <2>2, <2>4
    <3>2. g[k] = h[k] /\ (k # 0 => g[k - 1] = h[k - 1])
      BY <2>4, <3>1
    <3> QED
      BY <2>1, <3>1, <3>2
  <2> QED
    BY <2>3, <2>4
<1>7. Stacks(f, m, g)
  BY <1>6 DEF Stacks
<1> QED
  BY <1>2, <1>7

\* Stacks of which the first n messages are the same.
SameBottom(f, e, n, m, g, h) ==
  Stacks(f, n, g) /\ Stacks(e, m, h) /\ n <= m /\ \A k \in 1 .. n : f[k] = e[k]

\* Two stacks agree as far as their messages do.
LEMMA StacksAgree ==
  ASSUME NEW n \in Nat, NEW m \in Nat, NEW f, NEW e, NEW g, NEW h,
         SameBottom(f, e, n, m, g, h)
  PROVE  g[n] = h[n]
<1> DEFINE Bad == {k \in 0 .. n : g[k] # h[k]}
<1>1. SUFFICES ASSUME Bad # {} PROVE FALSE
  OBVIOUS
<1>2. PICK k \in Bad : \A j \in Bad : k <= j
  <2>1. Bad \in SUBSET Nat
    OBVIOUS
  <2> HIDE DEF Bad
  <2> QED
    BY <1>1, <2>1, LeastOf
<1>3. g[k] = IF k = 0 THEN << >> ELSE g[k - 1] \o Block(f[k])
  BY DEF Stacks, SameBottom
<1>4. h[k] = IF k = 0 THEN << >> ELSE h[k - 1] \o Block(e[k])
  <2>1. k \in 0 .. m
    BY DEF SameBottom
  <2> QED
    BY <2>1 DEF Stacks, SameBottom
<1>5. CASE k = 0
  BY <1>3, <1>4, <1>5
<1>6. CASE k # 0
  <2>1. k - 1 \in 0 .. n /\ k \in 1 .. n /\ ~(k <= k - 1)
    BY <1>6
  <2>2. g[k - 1] = h[k - 1]
    BY <1>2, <2>1
  <2> QED
    BY <1>3, <1>4, <1>6, <2>1, <2>2 DEF SameBottom
<1> QED
  BY <1>5, <1>6

\* The blocks are the stack of all messages.
LEMMA BlocksAre ==
  ASSUME NEW f, Len(f) \in Nat
  PROVE  \E g : Stacks(f, Len(f), g) /\ Blocks(f) = g[Len(f)]
<1> DEFINE s == CHOOSE g : Stacks(f, Len(f), g)
<1>1. Stacks(f, Len(f), s)
  BY StackOf
<1>2. Blocks(f) = s[Len(f)]
  BY DEF Blocks, Stacks
<1> QED
  BY <1>1, <1>2

\* One message more adds its block behind.
LEMMA BlocksOfMore ==
  ASSUME NEW f, NEW e, Len(f) \in Nat, Len(e) = Len(f) + 1, \A k \in 1 .. Len(f) : f[k] = e[k]
  PROVE  Blocks(e) = Blocks(f) \o Block(e[Len(e)])
<1>1. PICK g : Stacks(f, Len(f), g) /\ Blocks(f) = g[Len(f)]
  BY BlocksAre
<1>2. Len(e) \in Nat
  OBVIOUS
<1>3. PICK h : Stacks(e, Len(e), h) /\ Blocks(e) = h[Len(e)]
  BY <1>2, BlocksAre
<1> DEFINE n == Len(f)
           m == Len(e)
<1>4. n \in Nat /\ m \in Nat /\ n <= m /\ m # 0 /\ m - 1 = n /\ m \in 0 .. m
      /\ \A k \in 1 .. n : f[k] = e[k]
  OBVIOUS
<1>5. g[n] = h[n]
  <2>1. SameBottom(f, e, n, m, g, h)
    BY <1>1, <1>3, <1>4 DEF SameBottom
  <2> HIDE DEF n, m
  <2> QED
    BY <1>4, <2>1, StacksAgree
<1>6. h[m] = h[m - 1] \o Block(e[m])
  <2> HIDE DEF n, m
  <2> QED
    BY <1>3, <1>4 DEF Stacks, m
<1> QED
  BY <1>1, <1>3, <1>4, <1>5, <1>6

\* No message has no blocks.
LEMMA BlocksOfNone ==
  ASSUME NEW f, Len(f) = 0
  PROVE  Blocks(f) = << >>
<1>1. PICK g : Stacks(f, Len(f), g) /\ Blocks(f) = g[Len(f)]
  BY BlocksAre
<1> QED
  BY <1>1 DEF Stacks

\* A number below the modulus is its own remainder.
LEMMA Below ==
  ASSUME NEW a \in Nat, NEW n \in Nat \ {0}, a < n
  PROVE  a % n = a
OBVIOUS

\* A number of two digits has them.
LEMMA TwoDigits ==
  ASSUME NEW n \in Nat \ {0}, NEW x \in Nat, NEW y \in 0 .. n - 1
  PROVE  (x * n + y) \div n = x /\ (x * n + y) % n = y
<1> DEFINE a == x * n + y
           q == a \div n
<1>1. a \in Nat
  OBVIOUS
<1>2. q \in Nat /\ q * n <= a /\ a < q * n + n /\ a % n = a - q * n
  <2> HIDE DEF a
  <2>1. q \in Nat /\ q * n <= a /\ a < q * n + n
    BY <1>1, Quotient
  <2>2. a = n * q + (a % n) /\ a % n \in 0 .. n - 1
    BY <1>1
  <2>3. n * q = q * n /\ q * n \in Int
    BY <2>1
  <2> QED
    BY <2>1, <2>2, <2>3
<1>3. x * n <= a /\ a < x * n + n
  <2>1. x * n \in Int
    OBVIOUS
  <2> QED
    BY <2>1
<1> HIDE DEF a, q
<1>4. ~(q < x)
  <2> SUFFICES ASSUME q < x PROVE FALSE
    OBVIOUS
  <2>1. q + 1 <= x /\ q + 1 \in Int
    BY <1>2
  <2>2. (q + 1) * n <= x * n
    BY <2>1, Times
  <2>3. (q + 1) * n = q * n + n /\ q * n \in Int /\ x * n \in Int
    BY <1>2
  <2> QED
    BY <1>1, <1>2, <1>3, <2>2, <2>3
<1>5. ~(x < q)
  <2> SUFFICES ASSUME x < q PROVE FALSE
    OBVIOUS
  <2>1. x + 1 <= q /\ x + 1 \in Int
    BY <1>2
  <2>2. (x + 1) * n <= q * n
    BY <1>2, <2>1, Times
  <2>3. (x + 1) * n = x * n + n /\ q * n \in Int /\ x * n \in Int
    BY <1>2
  <2> QED
    BY <1>1, <1>2, <1>3, <2>2, <2>3
<1>6. q = x
  BY <1>2, <1>4, <1>5
<1>7. a % n = y
  <2>1. x * n \in Int
    OBVIOUS
  <2> QED
    BY <1>2, <1>6, <2>1 DEF a
<1> QED
  BY <1>6, <1>7 DEF a, q

\* What is in memory: fewer bytes than sizes can count.
IsBuffer(buf) == buf \in Seq(0 .. kByte - 1) /\ Len(buf) < kSizes

\* The bounds by subtraction are the bounds meant, and no sum wraps.
LEMMA NextIs ==
  ASSUME NEW buf, IsBuffer(buf), NEW p \in 0 .. Len(buf)
  PROVE  /\ Len(buf) \in Nat
         /\ Len(buf) - p >= 2 => be16(buf, p) \in Nat
         /\ HasNext(buf, p) <=> /\ Len(buf) - p >= 2 /\ be16(buf, p) # 0
                                /\ be16(buf, p) <= Len(buf) - p - 2
         /\ HasNext(buf, p) => /\ be16(buf, p) \in Nat \ {0}
                               /\ After(buf, p) = p + 2 + be16(buf, p)
                               /\ After(buf, p) \in 0 .. Len(buf)
<1> DEFINE n == Len(buf)
           b == be16(buf, p)
<1>1. n \in Nat /\ n < kSizes /\ p \in Nat /\ p <= n /\ kSizes \in Nat \ {0}
  BY FramerAssumption DEF IsBuffer
<1>2. ASSUME n - p >= 2 PROVE b \in Nat
  <2>1. p + 1 \in 1 .. n /\ p + 2 \in 1 .. n
    BY <1>1, <1>2
  <2>2. buf[p + 1] \in 0 .. kByte - 1 /\ buf[p + 2] \in 0 .. kByte - 1
    BY <2>1, FramerAssumption DEF IsBuffer
  <2>3. kByte \in Nat /\ buf[p + 1] \in Nat /\ buf[p + 2] \in Nat
    BY <2>2, FramerAssumption
  <2> QED
    BY <2>3 DEF be16
<1>3. Remaining(buf, p) = n - p
  <2>1. n - p \in Nat /\ n - p < kSizes
    BY <1>1
  <2>2. (n - p) % kSizes = n - p
    <3> HIDE DEF n
    <3> QED
      BY <1>1, <2>1, Below
  <2> QED
    BY <2>2 DEF Remaining, Minus
<1>4. ASSUME n - p >= 2 PROVE BlockFits(buf, p) <=> b <= n - p - 2
  <2>1. n - p - 2 \in Nat /\ n - p - 2 < kSizes
    BY <1>1, <1>4
  <2>2. (n - p - 2) % kSizes = n - p - 2
    <3> HIDE DEF n
    <3> QED
      BY <1>1, <2>1, Below
  <2>3. BlockFits(buf, p) <=> n - p - 2 >= b
    BY <1>3, <2>2 DEF BlockFits, Minus
  <2> HIDE DEF n, b
  <2> QED
    BY <1>2, <1>4, <2>1, <2>3
<1>5. HasNext(buf, p) <=> n - p >= 2 /\ b # 0 /\ b <= n - p - 2
  BY <1>3, <1>4 DEF HasNext
<1>6. ASSUME HasNext(buf, p)
      PROVE  b \in Nat \ {0} /\ After(buf, p) = p + 2 + b /\ After(buf, p) \in 0 .. n
  <2> HIDE DEF n, b
  <2>1. b \in Nat \ {0} /\ n - p >= 2 /\ b <= n - p - 2
    BY <1>2, <1>5, <1>6
  <2>2. p + 2 + b \in Nat /\ p + 2 + b <= n /\ p + 2 + b < kSizes
    BY <1>1, <2>1
  <2>3. (p + 2 + b) % kSizes = p + 2 + b
    BY <1>1, <2>2, Below
  <2>4. After(buf, p) = p + 2 + b
    BY <2>3 DEF After, b
  <2> QED
    BY <2>1, <2>2, <2>4
<1> QED
  BY <1>1, <1>2, <1>5, <1>6

\* The two bytes of a length that Block writes are those that be16 reads.
LEMMA LengthBytes ==
  ASSUME NEW buf, IsBuffer(buf), NEW p \in 0 .. Len(buf), Len(buf) - p >= 2
  PROVE  /\ buf[p + 1] = be16(buf, p) \div kByte /\ buf[p + 2] = be16(buf, p) % kByte
         /\ \A n \in Nat : buf[p + 1] = n \div kByte /\ buf[p + 2] = n % kByte
                             => n = be16(buf, p)
<1> DEFINE x == buf[p + 1]
           y == buf[p + 2]
<1>1. x \in 0 .. kByte - 1 /\ y \in 0 .. kByte - 1 /\ kByte \in Nat \ {0}
  <2>1. p + 1 \in 1 .. Len(buf) /\ p + 2 \in 1 .. Len(buf)
    BY DEF IsBuffer
  <2> QED
    BY <2>1, FramerAssumption DEF IsBuffer
<1>2. be16(buf, p) = x * kByte + y
  BY DEF be16
<1> HIDE DEF x, y
<1>3. x \in Nat
  BY <1>1
<1>4. (x * kByte + y) \div kByte = x /\ (x * kByte + y) % kByte = y
  BY <1>1, <1>3, TwoDigits
<1>5. ASSUME NEW n \in Nat, x = n \div kByte, y = n % kByte
      PROVE  n = x * kByte + y
  <2>1. n = kByte * (n \div kByte) + (n % kByte)
    BY <1>1
  <2>2. kByte * x = x * kByte
    BY <1>1, <1>3
  <2> QED
    BY <1>5, <2>1, <2>2
<1> QED
  BY <1>2, <1>4, <1>5 DEF x, y

\* Bytes of a sequence, by place.
LEMMA BytesAre ==
  ASSUME NEW S, NEW buf \in Seq(S), NEW p \in Nat, NEW k \in Nat, p + k <= Len(buf)
  PROVE  /\ Bytes(buf, p, k) \in Seq(S) /\ Len(Bytes(buf, p, k)) = k
         /\ \A i \in 1 .. k : Bytes(buf, p, k)[i] = buf[p + i]
<1> DEFINE b == SubSeq(buf, p + 1, p + k)
<1>1. Len(buf) \in Nat
  OBVIOUS
<1>2. \A i \in p + 1 .. p + k : buf[i] \in S
  BY <1>1
<1>3. Len(b) = k
  BY <1>1
<1>4. \A i \in 1 .. k : b[i] = buf[p + i]
  <2> TAKE i \in 1 .. k
  <2>1. b[i] = buf[p + 1 + i - 1]
    BY <1>1
  <2>2. p + 1 + i - 1 = p + i
    OBVIOUS
  <2> QED
    BY <2>1, <2>2
<1>5. b \in Seq(S)
  BY <1>1, <1>2
<1> QED
  BY <1>3, <1>4, <1>5 DEF Bytes

\* A block, by place.
LEMMA BlockIs ==
  ASSUME NEW msg \in Seq(Nat)
  PROVE  /\ Block(msg) \in Seq(Nat) /\ Len(Block(msg)) = Len(msg) + 2
         /\ Block(msg)[1] = Len(msg) \div kByte /\ Block(msg)[2] = Len(msg) % kByte
         /\ \A i \in 1 .. Len(msg) : Block(msg)[i + 2] = msg[i]
<1> DEFINE x == Len(msg) \div kByte
           y == Len(msg) % kByte
<1>1. x \in Nat /\ y \in Nat
  BY FramerAssumption, Quotient
<1>2. Block(msg) = <<x, y>> \o msg
  BY DEF Block
<1> HIDE DEF x, y
<1>3. <<x, y>> \in Seq(Nat) /\ Len(<<x, y>>) = 2 /\ <<x, y>>[1] = x /\ <<x, y>>[2] = y
  BY <1>1
<1>4. /\ <<x, y>> \o msg \in Seq(Nat) /\ Len(<<x, y>> \o msg) = Len(msg) + 2
      /\ (<<x, y>> \o msg)[1] = x /\ (<<x, y>> \o msg)[2] = y
      /\ \A i \in 1 .. Len(msg) : (<<x, y>> \o msg)[i + 2] = msg[i]
  BY <1>3
<1> QED
  BY <1>2, <1>4 DEF x, y

\* Sequences are equal if they are at every place.
LEMMA SamePlaces ==
  ASSUME NEW s \in Seq(Nat), NEW t \in Seq(Nat), Len(s) = Len(t),
         \A i \in 1 .. Len(s) : s[i] = t[i]
  PROVE  s = t
OBVIOUS

\* next() consumes the block of the message it hands out.
LEMMA BlockRead ==
  ASSUME NEW buf, IsBuffer(buf), NEW p \in 0 .. Len(buf), HasNext(buf, p)
  PROVE  Bytes(buf, 0, After(buf, p))
           = Bytes(buf, 0, p) \o Block(Bytes(buf, p + 2, be16(buf, p)))
<1> DEFINE b == be16(buf, p)
           m == Bytes(buf, p + 2, b)
           a == Bytes(buf, 0, p)
           c == Bytes(buf, 0, p + 2 + b)
           k == Block(m)
<1>1. b \in Nat /\ p \in Nat /\ After(buf, p) = p + 2 + b /\ p + 2 + b <= Len(buf)
      /\ Len(buf) \in Nat /\ Len(buf) - p >= 2
  BY NextIs
<1>2. buf \in Seq(Nat)
  BY FramerAssumption DEF IsBuffer
<1> HIDE DEF b
<1>3. m \in Seq(Nat) /\ Len(m) = b /\ \A i \in 1 .. b : m[i] = buf[p + 2 + i]
  <2> DEFINE r == p + 2
  <2>1. r \in Nat /\ b \in Nat /\ r + b <= Len(buf)
    BY <1>1
  <2> HIDE DEF r, m
  <2>2. Bytes(buf, r, b) \in Seq(Nat) /\ Len(Bytes(buf, r, b)) = b
        /\ \A i \in 1 .. b : Bytes(buf, r, b)[i] = buf[r + i]
    BY <1>2, <2>1, BytesAre
  <2> QED
    BY <2>2 DEF r, m
<1>4. a \in Seq(Nat) /\ Len(a) = p /\ \A i \in 1 .. p : a[i] = buf[i]
  <2>1. 0 + p <= Len(buf) /\ \A i \in 1 .. p : 0 + i = i
    BY <1>1
  <2>2. a \in Seq(Nat) /\ Len(a) = p /\ \A i \in 1 .. p : a[i] = buf[0 + i]
    BY <1>1, <1>2, <2>1, BytesAre
  <2> HIDE DEF a
  <2> QED
    BY <2>1, <2>2
<1>5. c \in Seq(Nat) /\ Len(c) = p + 2 + b /\ \A i \in 1 .. p + 2 + b : c[i] = buf[i]
  <2> DEFINE n == p + 2 + b
  <2>1. n \in Nat /\ 0 + n <= Len(buf) /\ \A i \in 1 .. n : 0 + i = i
    BY <1>1
  <2> HIDE DEF n
  <2>2. Bytes(buf, 0, n) \in Seq(Nat) /\ Len(Bytes(buf, 0, n)) = n
        /\ \A i \in 1 .. n : Bytes(buf, 0, n)[i] = buf[0 + i]
    BY <1>2, <2>1, BytesAre
  <2>3. \A i \in 1 .. n : Bytes(buf, 0, n)[i] = buf[i]
    BY <2>1, <2>2
  <2> QED
    BY <2>2, <2>3 DEF n
<1> HIDE DEF m, a, c
<1>6. /\ k \in Seq(Nat) /\ Len(k) = b + 2 /\ k[1] = buf[p + 1] /\ k[2] = buf[p + 2]
      /\ \A i \in 1 .. b : k[i + 2] = buf[p + 2 + i]
  <2>1. /\ k \in Seq(Nat) /\ Len(k) = b + 2 /\ k[1] = b \div kByte /\ k[2] = b % kByte
        /\ \A i \in 1 .. b : k[i + 2] = m[i]
    BY <1>3, BlockIs
  <2>2. buf[p + 1] = b \div kByte /\ buf[p + 2] = b % kByte
    BY <1>1, LengthBytes DEF b
  <2> HIDE DEF k
  <2> QED
    BY <1>3, <2>1, <2>2
<1> HIDE DEF k
<1>7. a \o k \in Seq(Nat) /\ Len(a \o k) = p + 2 + b
      /\ (\A i \in 1 .. p : (a \o k)[i] = a[i])
      /\ (\A i \in p + 1 .. p + 2 + b : (a \o k)[i] = k[i - p])
  <2>1. /\ a \o k \in Seq(Nat) /\ Len(a \o k) = p + (b + 2)
        /\ \A i \in 1 .. Len(a) + Len(k) :
             (a \o k)[i] = IF i <= Len(a) THEN a[i] ELSE k[i - Len(a)]
    <3>1. a \in Seq(Nat) /\ k \in Seq(Nat) /\ Len(a) = p /\ Len(k) = b + 2
      BY <1>4, <1>6
    <3>2. /\ a \o k \in Seq(Nat) /\ Len(a \o k) = Len(a) + Len(k)
          /\ \A i \in 1 .. Len(a) + Len(k) :
               (a \o k)[i] = IF i <= Len(a) THEN a[i] ELSE k[i - Len(a)]
      BY <3>1, ConcatProperties
    <3> QED
      BY <3>1, <3>2
  <2>2. p + (b + 2) = p + 2 + b /\ Len(a) + Len(k) = p + 2 + b
    BY <1>1, <1>4, <1>6
  <2>3. ASSUME NEW i \in 1 .. p PROVE (a \o k)[i] = a[i]
    <3>1. i \in 1 .. Len(a) + Len(k) /\ i <= Len(a)
      BY <1>1, <1>4, <2>2
    <3> QED
      BY <2>1, <3>1
  <2>4. ASSUME NEW i \in p + 1 .. p + 2 + b PROVE (a \o k)[i] = k[i - p]
    <3>1. i \in 1 .. Len(a) + Len(k) /\ ~(i <= Len(a)) /\ i - Len(a) = i - p
      BY <1>1, <1>4, <2>2
    <3> QED
      BY <2>1, <3>1
  <2> QED
    BY <2>1, <2>2, <2>3, <2>4
<1>8. ASSUME NEW i \in p + 1 .. p + 2 + b PROVE k[i - p] = buf[i]
  <2>1. CASE i = p + 1
    BY <1>1, <1>6, <2>1
  <2>2. CASE i = p + 2
    BY <1>1, <1>6, <2>2
  <2>3. CASE i # p + 1 /\ i # p + 2
    <3> DEFINE j == i - p - 2
    <3>1. j \in 1 .. b /\ j + 2 = i - p /\ p + 2 + j = i
      BY <1>1, <2>3
    <3> HIDE DEF j
    <3>2. k[j + 2] = buf[p + 2 + j]
      BY <1>6, <3>1
    <3> QED
      BY <3>1, <3>2
  <2> QED
    BY <2>1, <2>2, <2>3
<1>9. ASSUME NEW i \in 1 .. p + 2 + b PROVE (a \o k)[i] = c[i]
  <2>1. i \in 1 .. p \/ i \in p + 1 .. p + 2 + b
    BY <1>1
  <2> QED
    BY <1>4, <1>5, <1>7, <1>8, <2>1
<1>10. a \o k = c
  <2> DEFINE d == a \o k
  <2>1. d \in Seq(Nat) /\ Len(d) = Len(c) /\ \A i \in 1 .. Len(d) : d[i] = c[i]
    BY <1>5, <1>7, <1>9
  <2> HIDE DEF d
  <2>2. d = c
    BY <1>5, <2>1, SamePlaces
  <2> QED
    BY <2>2 DEF d
<1> QED
  BY <1>1, <1>10 DEF a, c, k, m, b

\* Where the walk stops, no block starts.
LEMMA NoBlock ==
  ASSUME NEW buf, IsBuffer(buf), NEW p \in 0 .. Len(buf), NEW n \in 1 .. Len(buf) - p - 2,
         Bytes(buf, p, n + 2) = Block(Bytes(buf, p + 2, n))
  PROVE  HasNext(buf, p)
<1>1. Len(buf) \in Nat /\ p \in Nat /\ n \in Nat \ {0} /\ n <= Len(buf) - p - 2
      /\ n + 2 \in Nat /\ p + (n + 2) <= Len(buf) /\ (p + 2) + n <= Len(buf) /\ p + 2 \in Nat
      /\ Len(buf) - p >= 2 /\ 1 \in 1 .. n + 2 /\ 2 \in 1 .. n + 2
  BY NextIs
<1>2. buf \in Seq(Nat)
  BY FramerAssumption DEF IsBuffer
<1> DEFINE m == Bytes(buf, p + 2, n)
<1>3. m \in Seq(Nat) /\ Len(m) = n
  BY <1>1, <1>2, BytesAre
<1>4. Bytes(buf, p, n + 2)[1] = buf[p + 1] /\ Bytes(buf, p, n + 2)[2] = buf[p + 2]
  <2>1. \A i \in 1 .. n + 2 : Bytes(buf, p, n + 2)[i] = buf[p + i]
    BY <1>1, <1>2, BytesAre
  <2> QED
    BY <1>1, <2>1
<1>5. Block(m)[1] = n \div kByte /\ Block(m)[2] = n % kByte
  <2> HIDE DEF m
  <2> QED
    BY <1>3, BlockIs
<1>6. buf[p + 1] = n \div kByte /\ buf[p + 2] = n % kByte
  BY <1>4, <1>5
<1>7. n = be16(buf, p)
  BY <1>1, <1>6, LengthBytes
<1> QED
  BY <1>1, <1>7, NextIs

-----------------------------------------------------------------------------
(***************************************************************************)
(* The file: read_file beside a recorder.                                  *)
(***************************************************************************)
\* What a recorder writes.
Byte == 0 .. kByte - 1

Written == Recordings \cup Restarts

CallType ==
  [pc : {"open", "reading", "returned", "throw"}, buffer : Seq(Byte), read : Nat]

\* What was read so far is what the file had there, and if it was not started anew, what the
\* recording has there.
CallInv ==
  /\ call \in CallType /\ Len(call.buffer) < kSizes /\ call.read <= Len(call.buffer)
  /\ call.pc = "open" => call.read = 0
  /\ call.pc = "returned" => call.read = Len(call.buffer)
  /\ \A i \in 1 .. call.read : call.buffer[i] \in held[i]
  /\ call.pc \in {"reading", "returned"} /\ ~shrunk =>
       /\ Len(call.buffer) <= Len(recording)
       /\ \A i \in 1 .. call.read : call.buffer[i] = recording[i]

\* The file is a prefix of the recording, and what it has was held.
FileInv ==
  /\ file \in Seq(Byte) /\ recording \in Written /\ shrunk \in BOOLEAN
  /\ Len(file) <= Len(recording) /\ \A i \in 1 .. Len(file) : file[i] = recording[i]
  /\ DOMAIN held = 1 .. Longest(Written) /\ \A i \in 1 .. Len(file) : file[i] \in held[i]
  /\ CallInv

\* A recording is a buffer, no longer than the longest.
LEMMA RecordingIs ==
  ASSUME NEW r \in Written
  PROVE  /\ r \in Seq(Byte) /\ Len(r) \in Nat /\ Len(r) < kSizes
         /\ \A i \in 1 .. Len(r) : r[i] \in Byte
         /\ Longest(Written) \in Nat /\ Len(r) <= Longest(Written)
<1>1. \A s \in Written : s \in Seq(Byte) /\ Len(s) \in Nat /\ Len(s) < kSizes
  BY RecordingsAreBytes DEF Written, Byte
<1> DEFINE T == {Len(s) : s \in Written}
<1>2. T \in SUBSET (0 .. kSizes) /\ T # {} /\ kSizes \in Nat
  <2>1. \A s \in Written : Len(s) \in 0 .. kSizes
    BY <1>1, FramerAssumption
  <2> QED
    BY <2>1, FramerAssumption
<1>3. PICK m \in T : \A n \in T : n <= m
  <2> HIDE DEF T
  <2> QED
    BY <1>2, GreatestOf
<1>4. \E n \in T : \A s \in Written : Len(s) <= n
  BY <1>3
<1>5. Longest(Written) \in T /\ \A s \in Written : Len(s) <= Longest(Written)
  BY <1>4 DEF Longest
<1>6. \A i \in 1 .. Len(r) : r[i] \in Byte
  BY <1>1
<1> QED
  BY <1>1, <1>2, <1>5, <1>6

\* The invariant of the file holds initially.
LEMMA FileStarts == FileInit => FileInv
<1> SUFFICES ASSUME FileInit PROVE FileInv
  OBVIOUS
<1>1. recording \in Written
  BY DEF FileInit, Written
<1>2. PICK n \in 0 .. Len(recording) : file = SubSeq(recording, 1, n)
  BY DEF FileInit
<1>3. /\ recording \in Seq(Byte) /\ Len(recording) \in Nat
      /\ Longest(Written) \in Nat /\ Len(recording) <= Longest(Written)
  BY <1>1, RecordingIs
<1>4. file \in Seq(Byte) /\ Len(file) = n /\ \A i \in 1 .. n : file[i] = recording[i]
  BY <1>2, <1>3
<1>5. held = [i \in 1 .. Longest(Written) |-> IF i <= Len(file) THEN {file[i]} ELSE {}]
  BY DEF FileInit, Written
<1>6. \A i \in 1 .. Len(file) : file[i] \in held[i]
  BY <1>3, <1>4, <1>5
<1>7. CallInv
  <2>1. call = [pc |-> "open", buffer |-> << >>, read |-> 0]
    BY DEF FileInit
  <2>2. << >> \in Seq(Byte) /\ Len(<< >>) = 0 /\ 0 < kSizes
    BY FramerAssumption
  <2> QED
    BY <2>1, <2>2 DEF CallInv, CallType
<1>8. shrunk \in BOOLEAN
  BY DEF FileInit
<1>9. Len(file) <= Len(recording) /\ DOMAIN held = 1 .. Longest(Written)
  BY <1>2, <1>3, <1>4, <1>5
<1> QED
  BY <1>1, <1>4, <1>6, <1>7, <1>8, <1>9 DEF FileInv

\* A byte is appended.
LEMMA GrowStep == FileInv /\ Grow => FileInv'
<1> SUFFICES ASSUME FileInv, Grow PROVE FileInv'
  OBVIOUS
<1> DEFINE n == Len(file) + 1
           b == recording[n]
<1>1. /\ file \in Seq(Byte) /\ recording \in Written /\ Len(file) \in Nat
      /\ Len(file) < Len(recording) /\ call' = call /\ recording' = recording
      /\ shrunk' = shrunk /\ file' = Append(file, b)
      /\ held' = [held EXCEPT ![n] = @ \cup {b}]
  BY DEF FileInv, Grow
<1>2. Len(recording) \in Nat /\ n \in 1 .. Len(recording) /\ b \in Byte
      /\ n \in 1 .. Longest(Written)
  BY <1>1, RecordingIs
<1>3. file' \in Seq(Byte) /\ Len(file') = n /\ file'[n] = b
      /\ \A i \in 1 .. Len(file) : file'[i] = file[i]
  BY <1>1, <1>2
<1>4. DOMAIN held' = DOMAIN held /\ b \in held'[n] /\ \A x : \A i \in DOMAIN held :
        x \in held[i] => x \in held'[i]
  BY <1>1, <1>2 DEF FileInv
<1>5. \A i \in 1 .. Len(file') : i \in 1 .. Len(file) \/ i = n
  BY <1>1, <1>3
<1>6. \A i \in 1 .. Len(file) : i \in DOMAIN held
  <2>1. DOMAIN held = 1 .. Longest(Written)
    BY DEF FileInv
  <2>2. Longest(Written) \in Nat /\ Len(recording) <= Longest(Written)
    BY <1>1, RecordingIs
  <2>3. Len(file) <= Longest(Written)
    BY <1>1, <1>2, <2>2
  <2> QED
    BY <1>1, <2>1, <2>2, <2>3
<1>7. \A i \in 1 .. Len(file') : file'[i] = recording[i] /\ file'[i] \in held'[i]
  BY <1>3, <1>4, <1>5, <1>6 DEF FileInv
<1>8. CallInv'
  <2>1. CallInv
    BY DEF FileInv
  <2>2. \A i \in 1 .. call.read : call.buffer[i] \in held'[i]
    <3> SUFFICES ASSUME NEW i \in 1 .. call.read PROVE call.buffer[i] \in held'[i]
      OBVIOUS
    <3>1. call.buffer[i] \in held[i]
      BY <2>1 DEF CallInv
    <3>2. CASE i \in DOMAIN held
      BY <1>4, <3>1, <3>2
    <3>3. CASE i \notin DOMAIN held
      BY <1>1, <3>1, <3>3
    <3> QED
      BY <3>2, <3>3
  <2> QED
    BY <1>1, <2>1, <2>2 DEF CallInv
<1>9. Len(file') <= Len(recording')
  BY <1>1, <1>2, <1>3
<1> HIDE DEF n, b
<1> QED
  BY <1>1, <1>3, <1>4, <1>7, <1>8, <1>9 DEF FileInv

\* The file is started anew.
LEMMA StartAnewStep == FileInv /\ StartAnew => FileInv'
<1> SUFFICES ASSUME FileInv, StartAnew PROVE FileInv'
  OBVIOUS
<1>1. recording' \in Written /\ file' = << >> /\ shrunk' = TRUE /\ held' = held /\ call' = call
  BY DEF StartAnew, Written
<1>2. Len(recording') \in Nat
  BY <1>1, RecordingIs
<1>3. << >> \in Seq(Byte) /\ Len(<< >>) = 0 /\ 1 .. 0 = {}
  OBVIOUS
<1>4. CallInv'
  BY <1>1 DEF FileInv, CallInv
<1> QED
  BY <1>1, <1>2, <1>3, <1>4 DEF FileInv

\* The steps of read_file: what they leave alone, and what they do to the call.
LEMMA CallStep ==
  ASSUME FileInv, UNCHANGED <<file, recording, held>>, shrunk' \in BOOLEAN, CallInv'
  PROVE  FileInv'
BY DEF FileInv

\* The call ends, one way or the other.
LEMMA GotoStep ==
  ASSUME FileInv, NEW end \in {"returned", "throw"}, Goto(end), UNCHANGED <<recording, held>>,
         end = "returned" => /\ call.pc = "reading" /\ call.read = Len(call.buffer)
                             /\ shrunk' = shrunk
  PROVE  CallInv'
<1>1. CallInv
  BY DEF FileInv
<1>2. call' \in CallType /\ call'.pc = end /\ call'.buffer = call.buffer /\ call'.read = call.read
  BY <1>1 DEF CallInv, CallType, Goto
<1> QED
  BY <1>1, <1>2 DEF CallInv

\* The file is opened, or is not.
LEMMA OpenStep == FileInv /\ OpenFile => FileInv'
<1> SUFFICES ASSUME FileInv, OpenFile PROVE FileInv'
  OBVIOUS
<1>1. UNCHANGED <<file, recording, held>> /\ shrunk' = FALSE /\ call.pc = "open" /\ CallInv
  BY DEF OpenFile, FileInv
<1>2. CASE Goto("throw")
  BY <1>1, <1>2, GotoStep, CallStep
<1>3. CASE call' = [call EXCEPT !.pc = "reading", !.buffer = [i \in 1 .. Len(file) |-> Zero]]
  <2> DEFINE b == [i \in 1 .. Len(file) |-> Zero]
  <2>1. Len(file) \in Nat /\ Len(file) <= Len(recording) /\ Len(recording) < kSizes
        /\ Len(recording) \in Nat
    BY RecordingIs DEF FileInv
  <2>2. b \in Seq(Byte) /\ Len(b) = Len(file)
    BY <2>1, FramerAssumption DEF Byte, Zero
  <2> HIDE DEF b
  <2>3. call' \in CallType /\ call'.pc = "reading" /\ call'.buffer = b /\ call'.read = 0
    BY <1>1, <1>3, <2>2 DEF CallInv, CallType, b
  <2>4. Len(b) < kSizes /\ 0 <= Len(b) /\ Len(b) <= Len(recording') /\ 1 .. 0 = {}
    BY <1>1, <2>1, <2>2, FramerAssumption
  <2>5. CallInv'
    BY <2>3, <2>4 DEF CallInv
  <2> QED
    BY <1>1, <2>5, CallStep
<1> QED
  BY <1>2, <1>3 DEF OpenFile

\* Some bytes of the file are read.
LEMMA ReadStep == FileInv /\ Read => FileInv'
<1> SUFFICES ASSUME FileInv, Read PROVE FileInv'
  OBVIOUS
<1>1. PICK n \in 1 .. Len(call.buffer) - call.read :
        /\ n <= Available
        /\ call' = [call EXCEPT
                      !.read = @ + n,
                      !.buffer = [i \in DOMAIN @ |->
                                    IF i \in call.read + 1 .. call.read + n THEN file[i] ELSE @[i]]]
  BY DEF Read
<1> DEFINE m == call.read
           b == [i \in DOMAIN call.buffer |->
                   IF i \in m + 1 .. m + n THEN file[i] ELSE call.buffer[i]]
<1>2. UNCHANGED <<file, recording, held, shrunk>> /\ call.pc = "reading" /\ CallInv
  BY DEF Read, FileInv
<1>3. /\ m \in Nat /\ Len(call.buffer) \in Nat /\ n \in Nat /\ m + n <= Len(call.buffer)
      /\ Len(file) \in Nat /\ m + n <= Len(file)
  BY <1>1, <1>2 DEF CallInv, CallType, FileInv, Available
<1>4. call.buffer \in Seq(Byte)
  BY <1>2 DEF CallInv, CallType
<1>5. /\ \A i \in 1 .. m : i \in 1 .. Len(call.buffer) /\ i \notin m + 1 .. m + n
      /\ \A i \in m + 1 .. m + n : i \in 1 .. Len(call.buffer) /\ i \in 1 .. Len(file)
      /\ \A i \in 1 .. m + n : i \in 1 .. m \/ i \in m + 1 .. m + n
      /\ DOMAIN call.buffer = 1 .. Len(call.buffer)
  BY <1>3, <1>4
<1>6. \A i \in m + 1 .. m + n : file[i] \in Byte
  BY <1>5 DEF FileInv
<1>7. b \in Seq(Byte) /\ Len(b) = Len(call.buffer)
  <2>1. \A i \in 1 .. Len(call.buffer) : b[i] \in Byte
    <3> HIDE DEF m
    <3> QED
      BY <1>4, <1>5, <1>6
  <2>2. b = [i \in 1 .. Len(call.buffer) |-> b[i]]
    BY <1>5
  <2> HIDE DEF b
  <2> QED
    BY <1>3, <2>1, <2>2
<1>8. /\ \A i \in 1 .. m : b[i] = call.buffer[i]
      /\ \A i \in m + 1 .. m + n : b[i] = file[i]
  BY <1>5
<1>9. call' \in CallType /\ call'.pc = "reading" /\ call'.buffer = b /\ call'.read = m + n
  <2>1. call' = [call EXCEPT !.read = m + n, !.buffer = b]
    BY <1>1
  <2> HIDE DEF b, m
  <2>2. m + n \in Nat
    BY <1>3
  <2> QED
    BY <1>2, <1>7, <2>1, <2>2 DEF CallInv, CallType
<1>10. /\ \A i \in m + 1 .. m + n : b[i] \in held[i] /\ b[i] = recording[i]
       /\ \A i \in 1 .. m : b[i] \in held[i]
       /\ ~shrunk => \A i \in 1 .. m : b[i] = recording[i]
       /\ ~shrunk => Len(b) <= Len(recording)
  <2>1. \A i \in m + 1 .. m + n : file[i] \in held[i] /\ file[i] = recording[i]
    BY <1>5 DEF FileInv
  <2>2. \A i \in 1 .. m : call.buffer[i] \in held[i]
    BY <1>2 DEF CallInv
  <2>3. ~shrunk => Len(call.buffer) <= Len(recording)
                   /\ \A i \in 1 .. m : call.buffer[i] = recording[i]
    BY <1>2 DEF CallInv
  <2> HIDE DEF b, m
  <2> QED
    BY <1>7, <1>8, <2>1, <2>2, <2>3
<1> HIDE DEF b
<1>11. /\ \A i \in 1 .. m + n : b[i] \in held[i]
       /\ ~shrunk => \A i \in 1 .. m + n : b[i] = recording[i]
  <2> HIDE DEF m
  <2> QED
    BY <1>5, <1>10
<1>12. CallInv'
  <2>1. Len(call'.buffer) < kSizes /\ call'.read <= Len(call'.buffer)
    BY <1>2, <1>3, <1>7, <1>9 DEF CallInv
  <2> HIDE DEF m
  <2> QED
    BY <1>2, <1>9, <1>10, <1>11, <2>1 DEF CallInv
<1> QED
  BY <1>2, <1>12, CallStep DEF FileInv

\* Every step of the recorder and of read_file keeps the invariant.
LEMMA FileStep == FileInv /\ [FileNext]_fileVars => FileInv'
<1> SUFFICES ASSUME FileInv, [FileNext]_fileVars PROVE FileInv'
  OBVIOUS
<1>1. CASE Short
  <2>1. Goto("throw") /\ UNCHANGED <<file, recording, held, shrunk>> /\ shrunk' \in BOOLEAN
    BY <1>1 DEF Short, FileInv
  <2> QED
    BY <2>1, GotoStep, CallStep
<1>2. CASE Whole
  <2>1. Goto("returned") /\ UNCHANGED <<file, recording, held, shrunk>> /\ shrunk' \in BOOLEAN
        /\ call.pc = "reading" /\ call.read = Len(call.buffer)
    BY <1>2 DEF Whole, FileInv
  <2>2. CallInv'
    BY <2>1, GotoStep
  <2> QED
    BY <2>1, <2>2, CallStep
<1>3. CASE UNCHANGED fileVars
  BY <1>3 DEF fileVars, FileInv, CallInv
<1> QED
  BY <1>1, <1>2, <1>3, GrowStep, StartAnewStep, OpenStep, ReadStep DEF FileNext

-----------------------------------------------------------------------------
(***************************************************************************)
(* The file: the walk over what was read.                                  *)
(***************************************************************************)
ViewType == [data : Nat, size : Nat]

EndOf(v) == v.data + v.size

\* g has, for each offset from q on, what a walk from there hands out.
Walks(buf, q, g) ==
  g = [p \in q .. Len(buf) |->
         IF HasNext(buf, p) THEN <<View(buf, p)>> \o g[After(buf, p)] ELSE << >>]

\* What Walk hands out, from each offset.
WalkFrom(buf) == CHOOSE g : Walks(buf, 0, g)

\* The walk moves on.
LEMMA MovesOn ==
  ASSUME NEW buf, IsBuffer(buf), NEW p \in 0 .. Len(buf), HasNext(buf, p)
  PROVE  /\ After(buf, p) \in p + 1 .. Len(buf) /\ After(buf, p) \in 0 .. Len(buf)
         /\ View(buf, p) \in ViewType /\ View(buf, p).size > 0
         /\ EndOf(View(buf, p)) = After(buf, p)
<1>1. /\ be16(buf, p) \in Nat \ {0} /\ After(buf, p) = p + 2 + be16(buf, p)
      /\ After(buf, p) \in 0 .. Len(buf) /\ Len(buf) \in Nat
  BY NextIs
<1> DEFINE b == be16(buf, p)
<1>2. View(buf, p) = [data |-> p + 2, size |-> b]
  BY DEF View
<1> HIDE DEF b
<1>3. b \in Nat \ {0} /\ p + 2 \in Nat
  BY <1>1 DEF b
<1>4. View(buf, p) \in ViewType /\ View(buf, p).size = b /\ View(buf, p).data = p + 2
  BY <1>2, <1>3 DEF ViewType
<1> QED
  BY <1>1, <1>3, <1>4 DEF EndOf, b

\* There are walks: otherwise take the last offset with none.
LEMMA WalksExist ==
  ASSUME NEW buf, IsBuffer(buf)
  PROVE  \E g : Walks(buf, 0, g)
<1> DEFINE n == Len(buf)
           Bad == {q \in 0 .. n : ~\E g : Walks(buf, q, g)}
<1>0. n \in Nat
  BY DEF IsBuffer
<1>1. SUFFICES ASSUME Bad # {} PROVE FALSE
  BY <1>0
<1>2. PICK q \in Bad : \A k \in Bad : k <= q
  <2>1. Bad \in SUBSET (0 .. n)
    OBVIOUS
  <2> HIDE DEF Bad, n
  <2> QED
    BY <1>0, <1>1, <2>1, GreatestOf
<1>3. \A p \in 0 .. n : HasNext(buf, p) => After(buf, p) \in p + 1 .. n
  BY MovesOn
<1>4. q # n
  <2> SUFFICES ASSUME q = n PROVE FALSE
    OBVIOUS
  <2> DEFINE g == [p \in n .. n |-> << >>]
  <2>1. ~HasNext(buf, n)
    BY <1>0, <1>3
  <2>2. Walks(buf, n, g)
    BY <1>0, <2>1 DEF Walks
  <2> QED
    BY <2>2
<1>5. q \in 0 .. n /\ q + 1 \in 0 .. n /\ q + 1 \notin Bad
  <2>1. q \in 0 .. n /\ q + 1 \in 0 .. n /\ ~(q + 1 <= q)
    BY <1>0, <1>4
  <2> HIDE DEF Bad
  <2> QED
    BY <1>2, <2>1
<1>6. PICK h : Walks(buf, q + 1, h)
  BY <1>5
<1> DEFINE g == [p \in q .. n |->
                   IF p = q THEN IF HasNext(buf, q) THEN <<View(buf, q)>> \o h[After(buf, q)]
                                 ELSE << >>
                   ELSE h[p]]
<1>7. ASSUME NEW p \in q .. n
      PROVE  g[p] = IF HasNext(buf, p) THEN <<View(buf, p)>> \o g[After(buf, p)] ELSE << >>
  <2>1. \A k \in q + 1 .. n : g[k] = h[k]
    BY <1>5
  <2>2. p \in 0 .. n
    BY <1>5
  <2>3. HasNext(buf, p) => After(buf, p) \in q + 1 .. n
    BY <1>0, <1>3, <1>5, <2>2
  <2>4. CASE p = q
    BY <2>1, <2>3, <2>4
  <2>5. CASE p # q
    <3>1. p \in q + 1 .. n
      BY <1>5, <2>5
    <3>2. h[p] = IF HasNext(buf, p) THEN <<View(buf, p)>> \o h[After(buf, p)] ELSE << >>
      BY <1>6, <3>1 DEF Walks
    <3> QED
      BY <2>1, <2>3, <3>1, <3>2
  <2> QED
    BY <2>4, <2>5
<1>8. Walks(buf, q, g)
  BY <1>7 DEF Walks
<1> QED
  BY <1>2, <1>8

\* What a walk from an offset hands out: the view there, and what a walk from behind it does.
LEMMA WalkIs ==
  ASSUME NEW buf, IsBuffer(buf)
  PROVE  /\ Walk(buf) = WalkFrom(buf)[0]
         /\ \A p \in 0 .. Len(buf) :
              WalkFrom(buf)[p] = IF HasNext(buf, p)
                                 THEN <<View(buf, p)>> \o WalkFrom(buf)[After(buf, p)]
                                 ELSE << >>
<1>1. Walks(buf, 0, WalkFrom(buf))
  BY WalksExist DEF WalkFrom
<1>2. Walk(buf) = WalkFrom(buf)[0]
  BY DEF Walk, WalkFrom, Walks
<1> QED
  BY <1>1, <1>2 DEF Walks

\* All that is handed out from an offset on ends behind the first block there.
EndsBehind(buf, p) ==
  /\ WalkFrom(buf)[p] \in Seq(ViewType)
  /\ \A k \in 1 .. Len(WalkFrom(buf)[p]) :
       HasNext(buf, p) /\ EndOf(WalkFrom(buf)[p][k]) >= After(buf, p)

\* That holds at every offset.
LEMMA WalkEnds ==
  ASSUME NEW buf, IsBuffer(buf), NEW p \in 0 .. Len(buf)
  PROVE  EndsBehind(buf, p)
<1> DEFINE n == Len(buf)
           Bad == {q \in 0 .. n : ~EndsBehind(buf, q)}
<1>0. n \in Nat
  BY DEF IsBuffer
<1>1. SUFFICES ASSUME Bad # {} PROVE FALSE
  OBVIOUS
<1>2. PICK q \in Bad : \A k \in Bad : k <= q
  <2>1. Bad \in SUBSET (0 .. n)
    OBVIOUS
  <2> HIDE DEF Bad, n
  <2> QED
    BY <1>0, <1>1, <2>1, GreatestOf
<1> DEFINE w == WalkFrom(buf)[q]
<1>3. q \in 0 .. n /\ ~EndsBehind(buf, q)
  OBVIOUS
<1>4. CASE ~HasNext(buf, q)
  <2>1. w = << >>
    BY <1>3, <1>4, WalkIs
  <2> QED
    BY <1>3, <2>1 DEF EndsBehind
<1>5. CASE HasNext(buf, q)
  <2> DEFINE a == After(buf, q)
             v == View(buf, q)
             u == WalkFrom(buf)[a]
  <2>1. w = <<v>> \o u
    BY <1>3, <1>5, WalkIs
  <2>2. a \in q + 1 .. n /\ a \in 0 .. n /\ v \in ViewType /\ EndOf(v) = a
    BY <1>3, <1>5, MovesOn
  <2>3. EndsBehind(buf, a)
    <3>1. ~(a <= q) /\ a \in 0 .. n
      BY <1>0, <1>3, <2>2
    <3>2. a \notin Bad
      <4> HIDE DEF Bad, a
      <4> QED
        BY <1>2, <3>1
    <3> QED
      BY <3>1, <3>2
  <2>4. u \in Seq(ViewType) /\ \A k \in 1 .. Len(u) : EndOf(u[k]) >= a
    <3>1. ASSUME NEW k \in 1 .. Len(u) PROVE EndOf(u[k]) >= a
      <4>1. HasNext(buf, a) /\ EndOf(u[k]) >= After(buf, a)
        BY <2>3 DEF EndsBehind
      <4>2. After(buf, a) \in a + 1 .. n
        BY <2>2, <4>1, MovesOn
      <4>3. u \in Seq(ViewType)
        BY <2>3 DEF EndsBehind
      <4>4. EndOf(u[k]) \in Nat
        <5> HIDE DEF u
        <5>1. u[k] \in ViewType
          BY <4>3
        <5> QED
          BY <5>1 DEF EndOf, ViewType
      <4> HIDE DEF u, a
      <4> QED
        BY <1>0, <2>2, <4>1, <4>2, <4>4
    <3> QED
      BY <2>3, <3>1 DEF EndsBehind
  <2> HIDE DEF u, v, a
  <2>5. <<v>> \in Seq(ViewType) /\ Len(<<v>>) = 1 /\ <<v>>[1] = v
    BY <2>2
  <2>6. /\ <<v>> \o u \in Seq(ViewType) /\ Len(<<v>> \o u) = 1 + Len(u)
        /\ \A k \in 1 .. 1 + Len(u) :
             (<<v>> \o u)[k] = IF k <= 1 THEN <<v>>[k] ELSE u[k - 1]
    BY <2>4, <2>5, ConcatProperties
  <2>7. ASSUME NEW k \in 1 .. 1 + Len(u) PROVE EndOf((<<v>> \o u)[k]) >= a
    <3>1. CASE k = 1
      <4>1. (<<v>> \o u)[k] = v
        BY <2>5, <2>6, <3>1
      <4> QED
        BY <2>2, <4>1
    <3>2. CASE k # 1
      <4>1. k - 1 \in 1 .. Len(u) /\ ~(k <= 1)
        BY <2>4, <3>2
      <4> QED
        BY <2>4, <2>6, <4>1
    <3> QED
      BY <3>1, <3>2
  <2>8. w \in Seq(ViewType) /\ \A k \in 1 .. Len(w) : EndOf(w[k]) >= a
    BY <2>1, <2>6, <2>7
  <2> QED
    BY <1>3, <1>5, <2>8 DEF EndsBehind, a
<1> QED
  BY <1>4, <1>5

\* A prefix of a buffer.
Begins(b, r) == Len(b) <= Len(r) /\ \A i \in 1 .. Len(b) : b[i] = r[i]

\* The walk over a prefix goes as the walk over the whole, to where a block is cut off.
LEMMA NextOfPrefix ==
  ASSUME NEW b, NEW r, IsBuffer(b), IsBuffer(r), Begins(b, r), NEW p \in 0 .. Len(b)
  PROVE  /\ p \in 0 .. Len(r)
         /\ HasNext(b, p) => /\ HasNext(r, p) /\ View(b, p) = View(r, p)
                             /\ After(b, p) = After(r, p)
         /\ ~HasNext(b, p) /\ HasNext(r, p) => After(r, p) > Len(b)
<1>1. Len(b) \in Nat /\ Len(r) \in Nat /\ Len(b) <= Len(r) /\ p \in Nat
      /\ p \in 0 .. Len(r)
  BY DEF IsBuffer, Begins
<1>2. ASSUME Len(b) - p >= 2 PROVE be16(b, p) = be16(r, p)
  <2>1. p + 1 \in 1 .. Len(b) /\ p + 2 \in 1 .. Len(b)
    BY <1>1, <1>2
  <2> QED
    BY <2>1 DEF be16, Begins
<1>3. ASSUME HasNext(b, p)
      PROVE  HasNext(r, p) /\ View(b, p) = View(r, p) /\ After(b, p) = After(r, p)
  <2>1. Len(b) - p >= 2 /\ be16(b, p) # 0 /\ be16(b, p) <= Len(b) - p - 2
        /\ be16(b, p) \in Nat
    BY <1>3, NextIs
  <2>2. be16(r, p) = be16(b, p)
    BY <1>2, <2>1
  <2>3. Len(r) - p >= 2 /\ be16(r, p) # 0 /\ be16(r, p) <= Len(r) - p - 2
    BY <1>1, <2>1, <2>2
  <2>4. HasNext(r, p)
    BY <1>1, <2>3, NextIs
  <2> QED
    BY <2>2, <2>4 DEF View, After
<1>4. ASSUME ~HasNext(b, p), HasNext(r, p) PROVE After(r, p) > Len(b)
  <2>1. be16(r, p) \in Nat \ {0} /\ After(r, p) = p + 2 + be16(r, p)
    BY <1>1, <1>4, NextIs
  <2>2. ~(Len(b) - p >= 2) \/ be16(b, p) = 0 \/ ~(be16(b, p) <= Len(b) - p - 2)
    BY <1>4, NextIs
  <2>3. CASE ~(Len(b) - p >= 2)
    BY <1>1, <2>1, <2>3
  <2>4. CASE Len(b) - p >= 2
    <3>1. be16(b, p) = be16(r, p)
      BY <1>2, <2>4
    <3>2. ~(be16(r, p) <= Len(b) - p - 2)
      BY <2>1, <2>2, <2>4, <3>1
    <3> QED
      BY <1>1, <2>1, <3>2
  <2> QED
    BY <2>3, <2>4
<1> QED
  BY <1>1, <1>3, <1>4

-----------------------------------------------------------------------------
\* The messages in views of a buffer.
ContentsOf(buf, vs) == [k \in 1 .. Len(vs) |-> Bytes(buf, vs[k].data, vs[k].size)]

\* The walk stands behind the last view, all views end before that, and what was consumed is
\* their blocks; what it has handed out is the beginning of what a walk over the recording does.
WalkInv ==
  /\ pos \in 0 .. Len(call.buffer) /\ views \in Seq(ViewType) /\ done \in BOOLEAN
  /\ call.pc # "returned" => WalkInit
  /\ done => ~HasNext(call.buffer, pos)
  /\ pos = IF views = << >> THEN 0 ELSE EndOf(views[Len(views)])
  /\ \A k \in 1 .. Len(views) : views[k].size > 0 /\ EndOf(views[k]) <= pos
  /\ Bytes(call.buffer, 0, pos) = Blocks(ContentsOf(call.buffer, views))
  /\ call.pc = "returned" /\ ~shrunk =>
       WalkFrom(recording)[0] = views \o WalkFrom(recording)[pos]

\* The inductive invariant of a reader of a file.
ReaderInv == FileInv /\ WalkInv

\* What the invariant of the file says of what is walked over.
LEMMA Buffers ==
  ASSUME FileInv
  PROVE  /\ IsBuffer(call.buffer) /\ IsBuffer(recording)
         /\ Len(call.buffer) \in Nat /\ Len(recording) \in Nat
         /\ call.pc = "returned" /\ ~shrunk => Begins(call.buffer, recording)
<1>1. recording \in Seq(Byte) /\ Len(recording) \in Nat /\ Len(recording) < kSizes
  BY RecordingIs DEF FileInv
<1>2. call.buffer \in Seq(Byte) /\ Len(call.buffer) < kSizes
  BY DEF FileInv, CallInv, CallType
<1>3. call.pc = "returned" /\ ~shrunk => Begins(call.buffer, recording)
  BY DEF FileInv, CallInv, Begins
<1> QED
  BY <1>1, <1>2, <1>3 DEF IsBuffer, Byte

\* Before the walk.
LEMMA WalkUnbegun == FileInv /\ WalkInit => WalkInv
<1> SUFFICES ASSUME FileInv, WalkInit PROVE WalkInv
  OBVIOUS
<1>1. pos = 0 /\ views = << >> /\ done = FALSE
  BY DEF WalkInit
<1>2. IsBuffer(call.buffer) /\ IsBuffer(recording) /\ Len(call.buffer) \in Nat
      /\ Len(recording) \in Nat
  BY Buffers
<1>3. Bytes(call.buffer, 0, 0) = << >>
  <2>1. call.buffer \in Seq(0 .. kByte - 1) /\ 0 + 0 <= Len(call.buffer)
    BY <1>2 DEF IsBuffer
  <2>2. Bytes(call.buffer, 0, 0) \in Seq(0 .. kByte - 1) /\ Len(Bytes(call.buffer, 0, 0)) = 0
    BY <2>1, BytesAre
  <2> QED
    BY <2>2
<1>4. Blocks(ContentsOf(call.buffer, << >>)) = << >>
  <2>1. ContentsOf(call.buffer, << >>) = << >> /\ Len(<< >>) = 0
    BY DEF ContentsOf
  <2> QED
    BY <2>1, BlocksOfNone
<1>5. WalkFrom(recording)[0] = << >> \o WalkFrom(recording)[0]
  <2> DEFINE w == WalkFrom(recording)[0]
  <2>1. 0 \in 0 .. Len(recording)
    BY <1>2
  <2>2. w \in Seq(ViewType)
    BY <1>2, <2>1, WalkEnds DEF EndsBehind
  <2> HIDE DEF w
  <2>3. << >> \o w = w
    BY <2>2, ConcatEmptySeq
  <2> QED
    BY <2>3 DEF w
<1>6. 0 \in 0 .. Len(call.buffer) /\ << >> \in Seq(ViewType) /\ Len(<< >>) = 0
      /\ 1 .. 0 = {}
  BY <1>2
<1>7. Bytes(call.buffer, 0, pos) = Blocks(ContentsOf(call.buffer, views))
  BY <1>1, <1>3, <1>4
<1>8. WalkFrom(recording)[0] = views \o WalkFrom(recording)[pos]
  BY <1>1, <1>5
<1>9. /\ pos \in 0 .. Len(call.buffer) /\ views \in Seq(ViewType) /\ done \in BOOLEAN /\ ~done
      /\ (pos = IF views = << >> THEN 0 ELSE EndOf(views[Len(views)]))
      /\ \A k \in 1 .. Len(views) : views[k].size > 0 /\ EndOf(views[k]) <= pos
  <2>1. pos \in 0 .. Len(call.buffer) /\ done \in BOOLEAN /\ ~done
    BY <1>1, <1>6
  <2>2. views \in Seq(ViewType) /\ Len(views) = 0
    BY <1>1, <1>6
  <2>3. pos = IF views = << >> THEN 0 ELSE EndOf(views[Len(views)])
    BY <1>1
  <2>4. \A k \in 1 .. Len(views) : FALSE
    BY <2>2
  <2> QED
    BY <2>1, <2>2, <2>3, <2>4
<1> QED
  BY <1>7, <1>8, <1>9 DEF WalkInv

\* next() hands out a message.
LEMMA NextStep ==
  ASSUME ReaderInv, call.pc = "returned", NextMessage(call.buffer), UNCHANGED fileVars
  PROVE  WalkInv'
<1> DEFINE buf == call.buffer
           v == View(buf, pos)
           a == After(buf, pos)
           us == Append(views, v)
<1>1. /\ HasNext(buf, pos) /\ ~done /\ views' = us /\ pos' = a /\ done' = done
      /\ call' = call /\ recording' = recording /\ shrunk' = shrunk
  BY DEF NextMessage, fileVars
<1>2. IsBuffer(buf) /\ IsBuffer(recording) /\ (~shrunk => Begins(buf, recording))
      /\ Len(buf) \in Nat
  BY Buffers DEF ReaderInv
<1>3. pos \in 0 .. Len(buf) /\ views \in Seq(ViewType) /\ Len(views) \in Nat
  BY DEF ReaderInv, WalkInv
<1> HIDE DEF buf
<1>4. a \in pos + 1 .. Len(buf) /\ a \in 0 .. Len(buf) /\ v \in ViewType /\ v.size > 0
      /\ EndOf(v) = a
  BY <1>1, <1>2, <1>3, MovesOn
<1>5. Bytes(buf, 0, a) = Bytes(buf, 0, pos) \o Block(Bytes(buf, v.data, v.size))
  <2>1. v.data = pos + 2 /\ v.size = be16(buf, pos)
    BY DEF View
  <2> QED
    BY <1>1, <1>2, <1>3, <2>1, BlockRead
<1> HIDE DEF v, a
<1>6. us \in Seq(ViewType) /\ Len(us) = Len(views) + 1 /\ us[Len(views) + 1] = v
      /\ us # << >> /\ \A k \in 1 .. Len(views) : us[k] = views[k]
  BY <1>3, <1>4
<1> HIDE DEF us
<1>7. Bytes(buf, 0, a) = Blocks(ContentsOf(buf, us))
  <2> DEFINE f == ContentsOf(buf, views)
             e == ContentsOf(buf, us)
             n == Len(views)
  <2>1. Len(f) = n /\ Len(e) = n + 1 /\ n \in Nat
    BY <1>3, <1>6 DEF ContentsOf
  <2>2. \A k \in 1 .. n : f[k] = e[k]
    <3> SUFFICES ASSUME NEW k \in 1 .. n PROVE f[k] = e[k]
      OBVIOUS
    <3>1. k \in 1 .. Len(us) /\ us[k] = views[k]
      BY <1>3, <1>6
    <3> QED
      BY <3>1 DEF ContentsOf
  <2>3. e[n + 1] = Bytes(buf, v.data, v.size)
    <3>1. n + 1 \in 1 .. Len(us) /\ us[n + 1] = v
      BY <1>3, <1>6
    <3> QED
      BY <3>1 DEF ContentsOf
  <2>4. Bytes(buf, 0, pos) = Blocks(f)
    BY DEF ReaderInv, WalkInv, buf
  <2> HIDE DEF f, e, n
  <2>5. Blocks(e) = Blocks(f) \o Block(e[Len(e)])
    BY <2>1, <2>2, BlocksOfMore
  <2> QED
    BY <1>5, <2>1, <2>3, <2>4, <2>5 DEF e
<1>8. ASSUME ~shrunk PROVE WalkFrom(recording)[0] = us \o WalkFrom(recording)[a]
  <2> DEFINE w == WalkFrom(recording)[a]
  <2>1. /\ pos \in 0 .. Len(recording) /\ HasNext(recording, pos)
        /\ View(recording, pos) = v /\ After(recording, pos) = a
    BY <1>1, <1>2, <1>3, <1>8, NextOfPrefix DEF v, a
  <2>2. WalkFrom(recording)[pos] = <<v>> \o w
    BY <1>2, <2>1, WalkIs
  <2>3. a \in 0 .. Len(recording)
    BY <1>2, <2>1, MovesOn
  <2>4. w \in Seq(ViewType)
    BY <1>2, <2>3, WalkEnds DEF EndsBehind
  <2>5. WalkFrom(recording)[0] = views \o (<<v>> \o w)
    BY <1>8, <2>2 DEF ReaderInv, WalkInv
  <2> HIDE DEF w
  <2>6. <<v>> \in Seq(ViewType)
    BY <1>4
  <2>7. views \o (<<v>> \o w) = (views \o <<v>>) \o w
    BY <1>3, <2>4, <2>6, ConcatAssociative
  <2>8. views \o <<v>> = us
    BY <1>3, <1>4 DEF us
  <2> QED
    BY <2>5, <2>7, <2>8 DEF w
<1>9. ASSUME NEW k \in 1 .. Len(us) PROVE us[k].size > 0 /\ EndOf(us[k]) <= a
  <2>1. CASE k = Len(views) + 1
    BY <1>4, <1>6, <2>1
  <2>2. CASE k # Len(views) + 1
    <3>1. k \in 1 .. Len(views)
      BY <1>3, <1>6, <2>2
    <3>2. views[k].size > 0 /\ EndOf(views[k]) <= pos
      BY <3>1 DEF ReaderInv, WalkInv
    <3>3. EndOf(views[k]) \in Nat
      <4>1. views[k] \in ViewType
        BY <1>3, <3>1
      <4> QED
        BY <4>1 DEF EndOf, ViewType
    <3> QED
      BY <1>3, <1>4, <1>6, <3>1, <3>2, <3>3
  <2> QED
    BY <2>1, <2>2
<1>10. done' = FALSE
  BY <1>1 DEF ReaderInv, WalkInv
<1> QED
  BY <1>1, <1>4, <1>6, <1>7, <1>8, <1>9, <1>10 DEF WalkInv, buf

\* Every step of the recorder, of read_file and of the walk keeps the invariant.
LEMMA ReaderStep == ReaderInv /\ [ReaderNext]_readerVars => ReaderInv'
<1> SUFFICES ASSUME ReaderInv, [ReaderNext]_readerVars PROVE ReaderInv'
  OBVIOUS
<1>1. CASE FileNext /\ UNCHANGED walkVars
  <2>1. FileInv'
    BY <1>1, FileStep DEF ReaderInv
  <2>2. call.pc # "returned"
    BY <1>1 DEF FileNext, Grow, StartAnew, Followed, OpenFile, Read, Short, Whole
  <2>3. WalkInit'
    BY <1>1, <2>2 DEF ReaderInv, WalkInv, WalkInit, walkVars
  <2>4. FileInv' /\ WalkInit' => WalkInv'
    BY WalkUnbegun, PTL
  <2> QED
    BY <2>1, <2>3, <2>4 DEF ReaderInv
<1>2. CASE WalkNext /\ UNCHANGED fileVars
  <2>1. FileInv'
    BY <1>2, FileStep DEF ReaderInv
  <2>2. CASE NextMessage(call.buffer)
    BY <1>2, <2>1, <2>2, NextStep DEF ReaderInv, WalkNext
  <2>3. CASE End(call.buffer)
    BY <1>2, <2>1, <2>3 DEF ReaderInv, WalkInv, WalkNext, End, fileVars
  <2> QED
    BY <1>2, <2>2, <2>3 DEF WalkNext
<1>3. CASE UNCHANGED readerVars
  <2>1. FileInv'
    BY <1>3, FileStep DEF ReaderInv, readerVars
  <2> QED
    BY <1>3, <2>1 DEF ReaderInv, readerVars, walkVars, fileVars, WalkInv, WalkInit
<1> QED
  BY <1>1, <1>2, <1>3 DEF ReaderNext

\* It holds always.
LEMMA ReaderInvariant == ReaderSpec => []ReaderInv
<1>1. ReaderInit => ReaderInv
  BY FileStarts, WalkUnbegun DEF ReaderInit, ReaderInv
<1> QED
  BY <1>1, ReaderStep, PTL DEF ReaderSpec

\* framing.h:26-31: for any bytes and any interruption of the recorder, no view leaves the
\* buffer, what was consumed is what was packed, and the walk stops where no block starts.
THEOREM BlocksRead == ReaderSpec => []ReadsBlocks
<1>1. ReaderInv => ReadsBlocks
  <2> SUFFICES ASSUME ReaderInv PROVE ReadsBlocks
    OBVIOUS
  <2>1. IsBuffer(call.buffer) /\ Len(call.buffer) \in Nat
    BY Buffers DEF ReaderInv
  <2>2. pos \in 0 .. Len(call.buffer) /\ views \in Seq(ViewType)
        /\ DOMAIN views = 1 .. Len(views)
    BY DEF ReaderInv, WalkInv
  <2>3. ViewsInBuffer
    <3>1. ASSUME NEW k \in DOMAIN views
          PROVE  views[k].size > 0 /\ views[k].data + views[k].size <= Len(call.buffer)
      <4>1. views[k].size > 0 /\ EndOf(views[k]) <= pos
        BY <2>2 DEF ReaderInv, WalkInv
      <4>2. views[k] \in ViewType
        BY <2>2
      <4>3. views[k].data + views[k].size \in Nat
        BY <4>2 DEF ViewType
      <4> QED
        BY <2>1, <2>2, <4>1, <4>3 DEF EndOf
    <3> QED
      BY <2>1, <2>2, <3>1 DEF ViewsInBuffer
  <2>4. [k \in DOMAIN views |-> Contents(views[k])] = ContentsOf(call.buffer, views)
    BY <2>2 DEF ContentsOf, Contents
  <2>5. ASSUME done, NEW n \in 1 .. Len(call.buffer) - pos - 2
        PROVE  Bytes(call.buffer, pos, n + 2) # Block(Bytes(call.buffer, pos + 2, n))
    <3>1. ~HasNext(call.buffer, pos)
      BY <2>5 DEF ReaderInv, WalkInv
    <3> QED
      BY <2>1, <2>2, <3>1, NoBlock
  <2> QED
    BY <2>3, <2>4, <2>5 DEF ReadsBlocks, ReaderInv, WalkInv
<1> QED
  BY <1>1, ReaderInvariant, PTL

\* For any recording and any interruption of it, what is read is the messages that were whole
\* when the file was opened; and no byte is made up.
THEOREM WholeMessagesRead == ReaderSpec => []ReadsWholeMessages
<1>1. ReaderInv => ReadsWholeMessages
  <2> SUFFICES ASSUME ReaderInv PROVE ReadsWholeMessages
    OBVIOUS
  <2> DEFINE n == Len(call.buffer)
             w == WalkFrom(recording)[pos]
             all == Walk(recording)
             m == Len(views)
  <2>1. /\ IsBuffer(call.buffer) /\ IsBuffer(recording) /\ n \in Nat /\ Len(recording) \in Nat
        /\ call.pc = "returned" /\ ~shrunk => Begins(call.buffer, recording)
    BY Buffers DEF ReaderInv
  <2>2. pos \in 0 .. n /\ views \in Seq(ViewType) /\ m \in Nat /\ DOMAIN views = 1 .. m
        /\ (pos = IF views = << >> THEN 0 ELSE EndOf(views[m]))
        /\ \A k \in 1 .. m : EndOf(views[k]) <= pos
    BY DEF ReaderInv, WalkInv
  <2>3. call.buffer \in Seq(Byte) /\ DOMAIN call.buffer = 1 .. n
    BY DEF ReaderInv, FileInv, CallInv, CallType
  <2>4. ReadsAPrefix
    <3> SUFFICES ASSUME call.pc = "returned", ~shrunk PROVE IsPrefix(call.buffer, recording)
      BY DEF ReadsAPrefix
    <3>1. recording \in Seq(Byte)
      BY <2>1 DEF IsBuffer, Byte
    <3>2. n <= Len(recording) /\ \A i \in 1 .. n : call.buffer[i] = recording[i]
      BY <2>1 DEF Begins
    <3> QED
      BY <2>1, <2>3, <3>1, <3>2 DEF IsPrefix
  <2>5. NoMadeUpBytes
    BY <2>3 DEF NoMadeUpBytes, ReaderInv, FileInv, CallInv
  <2>6. ASSUME done, ~shrunk
        PROVE  LET last(k) == all[k].data + all[k].size
                   whole == {k \in DOMAIN all : last(k) <= n}
               IN  /\ views = [k \in whole |-> all[k]]
                   /\ Exhausted(call.buffer, pos) <=> (n = 0 \/ \E k \in whole : last(k) = n)
    <3>1. call.pc = "returned" /\ ~HasNext(call.buffer, pos)
      BY <2>6 DEF ReaderInv, WalkInv, WalkInit
    <3>2. Begins(call.buffer, recording)
      BY <2>1, <2>6, <3>1
    <3>3. pos \in 0 .. Len(recording)
          /\ (HasNext(recording, pos) => After(recording, pos) > n)
      BY <2>1, <2>2, <3>1, <3>2, NextOfPrefix
    <3>4. EndsBehind(recording, pos)
      BY <2>1, <3>3, WalkEnds
    <3>5. all = views \o w
      <4>1. WalkFrom(recording)[0] = views \o w
        BY <2>6, <3>1 DEF ReaderInv, WalkInv
      <4>2. all = WalkFrom(recording)[0]
        BY <2>1, WalkIs
      <4> QED
        BY <4>1, <4>2
    <3>6. w \in Seq(ViewType) /\ Len(w) \in Nat
          /\ \A k \in 1 .. Len(w) : EndOf(w[k]) > n
      <4>1. w \in Seq(ViewType) /\ Len(w) \in Nat
        BY <3>4 DEF EndsBehind
      <4>2. ASSUME NEW k \in 1 .. Len(w) PROVE EndOf(w[k]) > n
        <5>1. HasNext(recording, pos) /\ EndOf(w[k]) >= After(recording, pos)
          BY <3>4 DEF EndsBehind
        <5>2. After(recording, pos) > n /\ After(recording, pos) \in 0 .. Len(recording)
          BY <2>1, <3>3, <5>1, MovesOn
        <5>3. EndOf(w[k]) \in Nat
          <6> HIDE DEF w
          <6>1. w[k] \in ViewType
            BY <4>1
          <6> QED
            BY <6>1 DEF EndOf, ViewType
        <5> HIDE DEF w, n
        <5> QED
          BY <2>1, <5>1, <5>2, <5>3
      <4> QED
        BY <4>1, <4>2
    <3> HIDE DEF w, all
    <3>7. /\ all \in Seq(ViewType) /\ Len(all) = m + Len(w)
          /\ \A k \in 1 .. m + Len(w) : all[k] = IF k <= m THEN views[k] ELSE w[k - m]
      BY <2>2, <3>5, <3>6, ConcatProperties
    <3>8. DOMAIN all = 1 .. m + Len(w)
      BY <3>7
    <3> HIDE DEF n, m
    <3>9. \A k \in 1 .. m : k \in DOMAIN all /\ all[k] = views[k] /\ EndOf(all[k]) <= n
      <4> SUFFICES ASSUME NEW k \in 1 .. m
                   PROVE  k \in DOMAIN all /\ all[k] = views[k] /\ EndOf(all[k]) <= n
        OBVIOUS
      <4>1. k \in 1 .. m + Len(w) /\ k <= m
        BY <2>2, <3>6
      <4>2. all[k] = views[k] /\ EndOf(views[k]) <= pos
        BY <2>2, <3>7, <4>1
      <4>3. EndOf(views[k]) \in Nat
        <5>1. views[k] \in ViewType
          BY <2>2
        <5> QED
          BY <5>1 DEF EndOf, ViewType
      <4> QED
        BY <2>1, <2>2, <3>8, <4>1, <4>2, <4>3
    <3>10. \A k \in DOMAIN all : k \notin 1 .. m => ~(EndOf(all[k]) <= n)
      <4> SUFFICES ASSUME NEW k \in DOMAIN all, k \notin 1 .. m PROVE ~(EndOf(all[k]) <= n)
        OBVIOUS
      <4>1. k \in 1 .. m + Len(w) /\ ~(k <= m) /\ k - m \in 1 .. Len(w)
        BY <2>2, <3>6, <3>8
      <4>2. all[k] = w[k - m] /\ EndOf(w[k - m]) > n
        BY <3>6, <3>7, <4>1
      <4>3. EndOf(w[k - m]) \in Nat
        <5>1. w[k - m] \in ViewType
          BY <3>6, <4>1
        <5> QED
          BY <5>1 DEF EndOf, ViewType
      <4> QED
        BY <2>1, <4>2, <4>3
    <3>11. {k \in DOMAIN all : EndOf(all[k]) <= n} = 1 .. m
      BY <3>9, <3>10
    <3>12. views = [k \in 1 .. m |-> all[k]]
      BY <2>2, <3>9
    <3>13. pos = n <=> (n = 0 \/ \E k \in 1 .. m : EndOf(all[k]) = n)
      <4>1. ASSUME pos = n, n # 0 PROVE \E k \in 1 .. m : EndOf(all[k]) = n
        <5>1. views # << >> /\ EndOf(views[m]) = n
          BY <2>2, <4>1
        <5>2. m \in 1 .. m
          BY <2>2, <5>1 DEF m
        <5> QED
          BY <3>9, <5>1, <5>2
      <4>2. ASSUME NEW k \in 1 .. m, EndOf(all[k]) = n PROVE pos = n
        BY <2>1, <2>2, <3>9, <4>2
      <4>3. n = 0 => pos = n
        BY <2>1, <2>2
      <4> QED
        BY <4>1, <4>2, <4>3
    <3>14. Exhausted(call.buffer, pos) <=> pos = n
      BY DEF Exhausted, n
    <3> QED
      BY <3>11, <3>12, <3>13, <3>14 DEF EndOf
  <2> QED
    BY <2>4, <2>5, <2>6 DEF ReadsWholeMessages
<1> QED
  BY <1>1, ReaderInvariant, PTL
=============================================================================
