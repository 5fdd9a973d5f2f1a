-------------------------- MODULE LatencyRecorder --------------------------
(***************************************************************************)
(* The latency recorder (src/common/latency_recorder.h): an array of a     *)
(* fixed size that is stamped into during a run, and the percentiles read  *)
(* from it afterwards.  Every call that changes it is an action; a         *)
(* percentile p is a pair of integers <<a, b>> that stands for a / b.      *)
(***************************************************************************)
EXTENDS Integers, Sequences, FiniteSets

CONSTANTS
  Capacity,       \* samples that fit
  Ticks,          \* durations that are recorded
  Percentiles,    \* the percentiles that are read
  MaxCalls        \* calls of record

ASSUME RecorderAssumption ==
  /\ Capacity \in Nat /\ Ticks \subseteq Nat /\ MaxCalls \in Nat
  /\ \A p \in Percentiles : p \in Nat \X Nat /\ p[1] <= p[2] /\ p[2] # 0

VARIABLES
  samples,        \* samples_, a function on 0 .. Capacity - 1
  count_,         \* count_
  dropped,        \* dropped_
  recorded,       \* every duration that was recorded and not dropped, oldest first
  forgotten       \* how many of them discard_first has discarded

recorderVars == <<samples, count_, dropped, recorded, forgotten>>

-----------------------------------------------------------------------------
RecorderInit ==
  /\ samples = [i \in 0 .. Capacity - 1 |-> 0]
  /\ count_ = 0 /\ dropped = 0 /\ recorded = << >> /\ forgotten = 0

record(t) ==
  /\ Len(recorded) + dropped < MaxCalls
  /\ \/ /\ count_ < Capacity
        /\ samples' = [samples EXCEPT ![count_] = t] /\ count_' = count_ + 1
        /\ recorded' = Append(recorded, t) /\ UNCHANGED <<dropped, forgotten>>
     \/ /\ count_ >= Capacity
        /\ dropped' = dropped + 1 /\ UNCHANGED <<samples, count_, recorded, forgotten>>

\* The samples behind the first n, copied to the front; the rest keep what they had.
Moved(n) == [i \in DOMAIN samples |-> IF i + n < count_ THEN samples[i + n] ELSE samples[i]]

DiscardFirst(n) ==
  /\ \/ n >= count_ /\ count_' = 0 /\ UNCHANGED samples
     \/ n < count_ /\ samples' = Moved(n) /\ count_' = count_ - n
  /\ forgotten' = forgotten + (count_ - count_')
  /\ UNCHANGED <<dropped, recorded>>

RecorderNext ==
  \/ \E t \in Ticks : record(t)
  \/ \E n \in 1 .. Capacity + 1 : DiscardFirst(n)

RecorderSpec == RecorderInit /\ [][RecorderNext]_recorderVars

-----------------------------------------------------------------------------
Held == [i \in 1 .. count_ |-> samples[i - 1]]

\* Mutant of RankOf: one behind the last sample stands for the largest.
RankOfCount(p) == (2 * p[1] * count_ + p[2]) \div (2 * p[2])

\* p * (count_ - 1) + 0.5, cut off.
RankOf(p) == (2 * p[1] * (count_ - 1) + p[2]) \div (2 * p[2])

\* The copy that is sorted: the k-th sample has k - 1 before it, those that are less and,
\* of its equals, the ones held earlier.
Before(i) == {j \in 1 .. count_ : Held[j] < Held[i] \/ (Held[j] = Held[i] /\ j < i)}

Sorted == [k \in 1 .. count_ |-> Held[CHOOSE i \in 1 .. count_ : Cardinality(Before(i)) = k - 1]]

percentile(p) ==
  IF count_ = 0 THEN 0
  ELSE Sorted[1 + (IF RankOf(p) >= count_ THEN count_ - 1 ELSE RankOf(p))]

max_ticks ==
  LET upto[i \in 0 .. count_] ==
        IF i = 0 THEN 0 ELSE IF samples[i - 1] > upto[i - 1] THEN samples[i - 1] ELSE upto[i - 1]
  IN  upto[count_]

-----------------------------------------------------------------------------
\* A duration that was recorded is held, in the order of the calls, until it is discarded,
\* and one that found the array full is counted: no sample is lost, kept twice or taken
\* from the part of the array that is no longer in use.
HoldsWhatWasRecorded ==
  /\ Held = SubSeq(recorded, forgotten + 1, Len(recorded))
  /\ count_ <= Capacity

\* A percentile is a sample of the nearest rank among those that should be held: the samples
\* below it are at most that many and those up to it more, for some rank within half a
\* sample of p * (count_ - 1); the smallest is at 0, the largest at 1, and in between they
\* are in the order of p.
PercentilesAreRanks ==
  /\ HoldsWhatWasRecorded
  /\ count_ > 0 =>
       /\ \A p \in Percentiles :
            LET below == Cardinality({i \in 1 .. count_ : Held[i] < percentile(p)})
                upto == Cardinality({i \in 1 .. count_ : Held[i] <= percentile(p)})
            IN  \E rank \in below .. upto - 1 :
                  /\ 2 * rank * p[2] <= 2 * p[1] * (count_ - 1) + p[2]
                  /\ 2 * rank * p[2] >= 2 * p[1] * (count_ - 1) - p[2]
       /\ percentile(<<1, 1>>) = max_ticks
       /\ \A p, q \in Percentiles : p[1] * q[2] <= q[1] * p[2] => percentile(p) <= percentile(q)
=============================================================================
