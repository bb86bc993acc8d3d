------------------------------ MODULE Timeline ------------------------------
(***************************************************************************)
(* The range geometry of the dashboard: how build_window resolves a range  *)
(* (backend/api_dashboard.py), how _bucket_seconds chooses the width of a  *)
(* bin and how dense_bucket_bounds lays the bins out, one turn of its loop *)
(* at a time (backend/api_common.py), and the bin the event query groups   *)
(* an event into.                                                          *)
(*                                                                         *)
(* An instant is a number of ticks since the epoch of 1970, negative       *)
(* before it; a tick stands for the microsecond of datetime.  Widths and   *)
(* bucket epochs are whole seconds.                                        *)
(***************************************************************************)
EXTENDS Integers, Sequences, FiniteSets

CONSTANTS
  Instants,        \* bound: the instants of edges and events
  MinInstant,      \* datetime.min
  Clock,           \* bound: what the clock may say
  Ranges,          \* lengths of the ranges other than "all", in ticks
  TicksPerSecond,
  Candidates,      \* _BUCKET_CANDIDATES_S, in increasing order
  MinBins          \* 100 in the code

ASSUME InstantsAssumption ==
  /\ Instants \subseteq Int
  /\ MinInstant \in Int
  /\ \A t \in Instants : t >= MinInstant
ASSUME ClockAssumption == Clock \subseteq Nat \ {0}
ASSUME RangesAssumption == Ranges \subseteq Nat \ {0}
ASSUME TicksAssumption == TicksPerSecond \in Nat \ {0}
ASSUME CandidatesAssumption ==
  /\ Candidates \in Seq(Nat \ {0})
  /\ Candidates # <<>>
  /\ \A j, k \in DOMAIN Candidates : j < k => Candidates[j] < Candidates[k]
ASSUME MinBinsAssumption == MinBins \in Nat \ {0}

VARIABLES
  pc,       \* "request", "bounds", "bins", "done"; "error" after an OverflowError
  start,    \* RangeWindow
  end,
  bucket,
  current,  \* current_epoch
  last,     \* last_epoch
  out       \* bins so far

vars == <<pc, start, end, bucket, current, last, out>>
window == <<start, end, bucket>>

Bin == [left : Int, right : Int, epoch : Int]

TypeOK ==
  /\ pc \in {"request", "bounds", "bins", "done", "error"}
  /\ start \in Int /\ end \in Int
  /\ bucket \in {Candidates[k] : k \in DOMAIN Candidates}
  /\ current \in Int /\ last \in Int
  /\ out \in Seq(Bin)

Init ==
  /\ pc = "request"
  /\ start = 0 /\ end = 0
  /\ bucket = Candidates[1]
  /\ current = 0 /\ last = 0
  /\ out = <<>>

-----------------------------------------------------------------------------
(* Arithmetic *)

Later(a, b) == IF a >= b THEN a ELSE b
Earlier(a, b) == IF a <= b THEN a ELSE b

\* int(...): truncates towards 1970, in both directions.
EpochSeconds(t) ==
  IF t >= 0 THEN t \div TicksPerSecond ELSE -((-t) \div TicksPerSecond)

\* Python's // rounds down, as \div does.
BucketEpoch(t, width) == (EpochSeconds(t) \div width) * width

\* Mutant of SqlBucket: without FLOOR the cast to bigint rounds.
SqlRounded(t, width) ==
  LET ticks == TicksPerSecond * width
  IN ((t + ticks \div 2) \div ticks) * width

\* FLOOR(EXTRACT(EPOCH FROM event_at) / width) * width
SqlBucket(t, width) == (t \div (TicksPerSecond * width)) * width

SpanSeconds(delta) == Later(1, EpochSeconds(delta))

\* Mutant of BucketSeconds: the candidate that stops the loop is taken.
BucketOneFurther(delta) ==
  LET fitting == {k \in DOMAIN Candidates :
                    \A j \in 1 .. k : SpanSeconds(delta) >= MinBins * Candidates[j]}
  IN Candidates[Earlier(Len(Candidates), 1 + Cardinality(fitting))]

\* The loop over the candidates stops at the first that gives too few bins.
BucketSeconds(delta) ==
  LET fitting == {k \in DOMAIN Candidates :
                    \A j \in 1 .. k : SpanSeconds(delta) >= MinBins * Candidates[j]}
  IN Candidates[Later(1, Cardinality(fitting))]

-----------------------------------------------------------------------------
(* build_window *)

\* Nd and Nh.
BuildWindow(now, range) ==
  /\ pc = "request"
  /\ now - range \in Instants
  /\ start' = now - range
  /\ end' = now
  /\ bucket' = BucketSeconds(range)
  /\ pc' = "bounds"
  /\ UNCHANGED <<current, last, out>>

\* end - delta is before datetime.min: an OverflowError that nothing catches.
RangeTooLong(now, range) ==
  /\ pc = "request"
  /\ now - range < MinInstant
  /\ pc' = "error"
  /\ UNCHANGED <<window, current, last, out>>

\* "all", from the earliest event; the clock may be behind it.
BuildWindowAll(now, earliest) ==
  /\ pc = "request"
  /\ start' = earliest
  /\ end' = now
  /\ bucket' = BucketSeconds(now - earliest)
  /\ pc' = "bounds"
  /\ UNCHANGED <<current, last, out>>

\* "all", without any event: as wide as the time since 1970, and empty.
BuildWindowEmpty(now) ==
  /\ pc = "request"
  /\ start' = now
  /\ end' = now
  /\ bucket' = BucketSeconds(now)
  /\ pc' = "bounds"
  /\ UNCHANGED <<current, last, out>>

-----------------------------------------------------------------------------
(* dense_bucket_bounds *)

\* Mutant of LastEpoch: the right edge counts as inside.
LastEpochInclusive == BucketEpoch(end, bucket)

\* The bin of the last instant before the right edge.
LastEpoch == BucketEpoch(end - 1, bucket)

EmptyRange ==
  /\ pc = "bounds"
  /\ end <= start
  /\ pc' = "done"
  /\ UNCHANGED <<window, current, last, out>>

FirstBin ==
  /\ pc = "bounds"
  /\ end > start
  /\ current' = BucketEpoch(start, bucket)
  /\ last' = LastEpoch
  /\ pc' = "bins"
  /\ UNCHANGED <<window, out>>

\* A bin, cut off at the edges of the range.
Clipped(epoch) ==
  [left |-> Later(epoch * TicksPerSecond, start),
   right |-> Earlier((epoch + bucket) * TicksPerSecond, end),
   epoch |-> epoch]

NextBin ==
  /\ pc = "bins"
  /\ current <= last
  /\ out' = Append(out, Clipped(current))
  /\ current' = current + bucket
  /\ UNCHANGED <<pc, window, last>>

Return ==
  /\ pc = "bins"
  /\ current > last
  /\ pc' = "done"
  /\ UNCHANGED <<window, current, last, out>>

Next ==
  \/ \E now \in Clock, range \in Ranges : BuildWindow(now, range) \/ RangeTooLong(now, range)
  \/ \E now \in Clock, earliest \in Instants : BuildWindowAll(now, earliest)
  \/ \E now \in Clock : BuildWindowEmpty(now)
  \/ EmptyRange \/ FirstBin \/ NextBin \/ Return

Spec == Init /\ [][Next]_vars

-----------------------------------------------------------------------------
(* Properties *)

Bins == DOMAIN out

\* "the visible first and final buckets are clipped to the selected range
\* edges" (backend/api_common.py) and the bins are dense: a finished timeline
\* starts at the left edge, ends at the right one, and every bin begins where
\* the one before it ends; an empty range has none.  Only a left edge before
\* 1970 may be missed, by less than a second: int() truncates towards 1970.
BinsTileTheWindow ==
  pc = "done" =>
    /\ out = <<>> <=> end <= start
    /\ out # <<>> =>
         /\ IF start >= 0 THEN out[1].left = start
            ELSE start <= out[1].left /\ out[1].left < start + TicksPerSecond
         /\ out[Len(out)].right = end
    /\ \A k \in Bins : out[k].left < out[k].right
    /\ \A k \in Bins \ {1} : out[k].left = out[k - 1].right

\* "Choose the largest Claudit bucket that still gives at least 100 bins"
\* (_bucket_seconds), at any alignment of the edges: bins are as narrow as can
\* be or enough of them, and no wider candidate would still be enough.
WidestThatFits ==
  pc = "done" /\ start < end =>
    /\ bucket = Candidates[1] \/ Len(out) >= MinBins
    /\ \A k \in DOMAIN Candidates :
         Candidates[k] > bucket => end - start < MinBins * Candidates[k] * TicksPerSecond

=============================================================================
