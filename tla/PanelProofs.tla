----------------------------- MODULE PanelProofs -----------------------------
(***************************************************************************)
(* Theorems about the range geometry (Timeline) and what a panel makes of  *)
(* it (Panel), for any clock resolution, any list of widths, any number of *)
(* bins to aim at and any instants, those before 1970 included; and, at    *)
(* the end, about the page's list of repositories (RepositoryList).        *)
(***************************************************************************)
EXTENDS Panel, RepositoryList, FiniteSetTheorems, TLAPS

-----------------------------------------------------------------------------
(* Products and quotients *)

\* Division rounds down, below zero too.
LEMMA Division ==
  ASSUME NEW a \in Int, NEW d \in Nat \ {0}
  PROVE  a \div d \in Int /\ (a \div d) * d <= a /\ a < ((a \div d) + 1) * d
OBVIOUS

\* Multiplying keeps the order; different multiples are a whole step apart.
LEMMA Multiples ==
  ASSUME NEW a \in Int, NEW b \in Int, NEW d \in Nat \ {0}
  PROVE  /\ a <= b => a * d <= b * d
         /\ a < b => a * d + d <= b * d
OBVIOUS

\* The numbers up to n are n many.
LEMMA UpTo ==
  ASSUME NEW n \in Nat
  PROVE  IsFiniteSet(1 .. n) /\ Cardinality(1 .. n) = n
BY FS_Interval

\* A common positive factor preserves the order.
LEMMA Cancel ==
  ASSUME NEW a \in Int, NEW b \in Int, NEW d \in Nat \ {0}, a * d < b * d
  PROVE  a < b
BY Multiples

\* int(t.timestamp()) is at most a second from t, on the side of 1970.
LEMMA EpochSecondsBounds ==
  ASSUME NEW t \in Int
  PROVE  /\ EpochSeconds(t) \in Int
         /\ t >= 0 => /\ EpochSeconds(t) * TicksPerSecond <= t
                      /\ t < EpochSeconds(t) * TicksPerSecond + TicksPerSecond
                      /\ EpochSeconds(t) >= 0
         /\ t < 0 => /\ t <= EpochSeconds(t) * TicksPerSecond
                     /\ EpochSeconds(t) * TicksPerSecond < t + TicksPerSecond
                     /\ EpochSeconds(t) <= 0
<1> DEFINE T == TicksPerSecond
<1>1. T \in Nat \ {0}
  BY TicksAssumption
<1> HIDE DEF T
<1>2. CASE t >= 0
  <2>1. EpochSeconds(t) = t \div T
    BY <1>2 DEF EpochSeconds, T
  <2>2. t \div T >= 0
    <3>1. 0 * T < ((t \div T) + 1) * T
      BY <1>1, <1>2, Division
    <3> QED
      BY <1>1, <3>1, Cancel, Division
  <2>3. ((t \div T) + 1) * T = (t \div T) * T + T
    BY <1>1, Division
  <2> QED
    BY <1>1, <1>2, <2>1, <2>2, <2>3, Division DEF T
<1>3. CASE t < 0
  <2> DEFINE q == (-t) \div T
  <2>1. EpochSeconds(t) = -q
    BY <1>3 DEF EpochSeconds, T
  <2>2. q \in Int /\ q * T <= -t /\ -t < (q + 1) * T
    BY <1>1, Division
  <2> HIDE DEF q
  <2>3. (q + 1) * T = q * T + T /\ (-q) * T = -(q * T)
    BY <1>1, <2>2
  <2>4. q >= 0
    <3>1. 0 * T < (q + 1) * T
      BY <1>1, <1>3, <2>2
    <3> QED
      BY <1>1, <2>2, <3>1, Cancel
  <2> QED
    BY <1>1, <1>3, <2>1, <2>2, <2>3, <2>4 DEF T
<1> QED
  BY <1>2, <1>3

\* A later instant does not have fewer whole seconds.
LEMMA EpochSecondsMonotone ==
  ASSUME NEW a \in Int, NEW b \in Int, a <= b
  PROVE  EpochSeconds(a) <= EpochSeconds(b)
<1> DEFINE T == TicksPerSecond
           x == EpochSeconds(a)
           y == EpochSeconds(b)
<1> SUFFICES x <= y
  OBVIOUS
<1>1. /\ x \in Int /\ y \in Int /\ T \in Nat \ {0}
      /\ a >= 0 => x * T <= a
      /\ b >= 0 => b < y * T + T /\ y >= 0
      /\ a < 0 => x * T < a + T /\ x <= 0
      /\ b < 0 => b <= y * T
  BY EpochSecondsBounds, TicksAssumption
<1> HIDE DEF T, x, y
<1>2. (y + 1) * T = y * T + T
  BY <1>1
<1>3. CASE a < 0 /\ b >= 0
  BY <1>1, <1>3
<1>4. CASE a >= 0 \/ b < 0
  <2>1. x * T < (y + 1) * T
    BY <1>1, <1>2, <1>4
  <2> QED
    BY <1>1, <2>1, Cancel
<1> QED
  BY <1>3, <1>4

\* The bucket epoch of an instant is the multiple of the width at or before its
\* second.
LEMMA BucketEpochBounds ==
  ASSUME NEW t \in Int, NEW w \in Nat \ {0}
  PROVE  /\ BucketEpoch(t, w) \in Int
         /\ BucketEpoch(t, w) <= EpochSeconds(t)
         /\ EpochSeconds(t) < BucketEpoch(t, w) + w
         /\ \E c \in Int : BucketEpoch(t, w) = c * w
<1> DEFINE s == EpochSeconds(t)
           c == s \div w
<1>1. s \in Int
  BY EpochSecondsBounds
<1> HIDE DEF s
<1>2. c \in Int /\ c * w <= s /\ s < (c + 1) * w /\ BucketEpoch(t, w) = c * w
  BY <1>1, Division DEF BucketEpoch, s
<1> HIDE DEF c
<1>3. (c + 1) * w = c * w + w /\ c * w \in Int
  BY <1>2
<1> QED
  BY <1>1, <1>2, <1>3 DEF s

-----------------------------------------------------------------------------
(* The width *)

Fitting(delta) ==
  {k \in DOMAIN Candidates : \A j \in 1 .. k : SpanSeconds(delta) >= MinBins * Candidates[j]}

\* The widths before the first that gives too few bins are a prefix of the list.
LEMMA FittingIsAPrefix ==
  ASSUME NEW delta
  PROVE  /\ Cardinality(Fitting(delta)) \in 0 .. Len(Candidates)
         /\ Fitting(delta) = 1 .. Cardinality(Fitting(delta))
<1> DEFINE F == Fitting(delta)
           m == Cardinality(F)
<1>1. DOMAIN Candidates = 1 .. Len(Candidates) /\ Len(Candidates) \in Nat
  BY CandidatesAssumption
<1>2. F \subseteq 1 .. Len(Candidates) /\ \A k \in F : 1 .. k \subseteq F
  BY <1>1 DEF Fitting
<1> HIDE DEF F
<1>3. IsFiniteSet(1 .. Len(Candidates)) /\ Cardinality(1 .. Len(Candidates)) = Len(Candidates)
  BY <1>1, UpTo
<1>4. IsFiniteSet(F) /\ m \in Nat /\ m <= Len(Candidates)
  BY <1>2, <1>3, FS_Subset, FS_CardinalityType
<1>5. \A k \in F : k <= m
  <2> TAKE k \in F
  <2>1. k \in Nat \ {0} /\ Cardinality(1 .. k) = k
    BY <1>1, <1>2, UpTo
  <2> QED
    BY <1>2, <1>4, <2>1, FS_Subset
<1>6. IsFiniteSet(1 .. m) /\ Cardinality(1 .. m) = m
  BY <1>4, UpTo
<1>7. F \subseteq 1 .. m
  BY <1>1, <1>2, <1>4, <1>5
<1>8. F = 1 .. m
  BY <1>6, <1>7, FS_Subset
<1> QED
  BY <1>1, <1>4, <1>8 DEF F

Widths == {Candidates[k] : k \in DOMAIN Candidates}

\* The width is the last of that prefix, or the first of the list.
LEMMA ChosenWidth ==
  ASSUME NEW delta
  PROVE  LET m == Cardinality(Fitting(delta))
         IN  /\ Later(1, m) \in DOMAIN Candidates
             /\ BucketSeconds(delta) = Candidates[Later(1, m)]
             /\ BucketSeconds(delta) \in Widths
<1> DEFINE m == Cardinality(Fitting(delta))
<1>1. DOMAIN Candidates = 1 .. Len(Candidates) /\ Len(Candidates) \in Nat \ {0}
  BY CandidatesAssumption
<1>2. m \in 0 .. Len(Candidates)
  BY FittingIsAPrefix
<1>3. BucketSeconds(delta) = Candidates[Later(1, m)]
  BY DEF BucketSeconds, Fitting
<1> HIDE DEF m
<1>4. Later(1, m) \in DOMAIN Candidates
  BY <1>1, <1>2 DEF Later
<1> QED
  BY <1>3, <1>4 DEF Widths, m

\* Every width the code lists is a positive number of seconds.
LEMMA WidthsArePositive == Widths \subseteq Nat \ {0}
BY CandidatesAssumption DEF Widths

\* The width gives enough bins, unless it is the narrowest, and every wider one
\* gives too few.
LEMMA WidthIsWidest ==
  ASSUME NEW delta \in Int, delta > 0
  PROVE  /\ \/ BucketSeconds(delta) = Candidates[1]
            \/ MinBins * BucketSeconds(delta) <= EpochSeconds(delta)
         /\ \A k \in DOMAIN Candidates : Candidates[k] > BucketSeconds(delta) =>
              delta < MinBins * Candidates[k] * TicksPerSecond
<1> DEFINE m == Cardinality(Fitting(delta))
           w == BucketSeconds(delta)
           span == SpanSeconds(delta)
           secs == EpochSeconds(delta)
<1>1. /\ DOMAIN Candidates = 1 .. Len(Candidates) /\ Len(Candidates) \in Nat \ {0}
      /\ \A k \in DOMAIN Candidates : Candidates[k] \in Nat \ {0}
      /\ \A j, k \in DOMAIN Candidates : j < k => Candidates[j] < Candidates[k]
  BY CandidatesAssumption
<1>2. /\ m \in 0 .. Len(Candidates) /\ Fitting(delta) = 1 .. m
      /\ w = Candidates[Later(1, m)] /\ Later(1, m) \in DOMAIN Candidates
  BY FittingIsAPrefix, ChosenWidth
<1>3. /\ secs \in Nat /\ span = Later(1, secs)
      /\ delta < secs * TicksPerSecond + TicksPerSecond
  BY EpochSecondsBounds DEF SpanSeconds
<1>4. MinBins \in Nat \ {0} /\ TicksPerSecond \in Nat \ {0}
  BY MinBinsAssumption, TicksAssumption
<1>5. \A k \in DOMAIN Candidates :
        k \in Fitting(delta) <=> \A j \in 1 .. k : span >= MinBins * Candidates[j]
  BY DEF Fitting
<1> HIDE DEF m, w, span, secs
<1>6. w = Candidates[1] \/ MinBins * w <= secs
  <2>1. CASE m <= 1
    BY <1>2, <2>1 DEF Later
  <2>2. CASE m > 1
    <3>1. w = Candidates[m] /\ m \in DOMAIN Candidates /\ m \in Fitting(delta)
      BY <1>1, <1>2, <2>2 DEF Later
    <3>2. span >= MinBins * w
      BY <1>1, <1>5, <3>1
    <3>3. w \in Nat /\ w > 1
      <4>1. Candidates[1] < Candidates[m] /\ Candidates[1] \in Nat \ {0}
        BY <1>1, <2>2, <3>1
      <4> QED
        BY <1>1, <3>1, <4>1
    <3>4. MinBins * w >= w /\ MinBins * w \in Nat
      BY <1>4, <3>3
    <3>5. span > 1
      BY <1>3, <3>2, <3>3, <3>4 DEF Later
    <3>6. span = secs
      BY <1>3, <3>5 DEF Later
    <3> QED
      BY <3>2, <3>4, <3>6, <1>3
  <2> QED
    BY <1>2, <2>1, <2>2
<1>7. ASSUME NEW k \in DOMAIN Candidates, Candidates[k] > w
      PROVE  delta < MinBins * Candidates[k] * TicksPerSecond
  <2>1. k \notin Fitting(delta)
    <3>1. k > m \/ k <= Later(1, m)
      BY <1>1, <1>2 DEF Later
    <3>2. k > Later(1, m)
      <4>1. k # Later(1, m) /\ ~(k < Later(1, m))
        BY <1>1, <1>2, <1>7
      <4> QED
        BY <1>1, <1>2, <4>1 DEF Later
    <3> QED
      BY <1>1, <1>2, <3>2 DEF Later
  <2>2. PICK j \in 1 .. k : ~(span >= MinBins * Candidates[j])
    BY <1>5, <2>1
  <2>3. j \in DOMAIN Candidates /\ Candidates[j] <= Candidates[k]
    BY <1>1, <2>2
  <2> DEFINE u == MinBins * Candidates[j]
             v == MinBins * Candidates[k]
  <2>4. u \in Nat /\ v \in Nat /\ u <= v
    BY <1>1, <1>4, <2>3, Multiples
  <2> HIDE DEF u, v
  <2>5. secs < v
    BY <1>3, <2>2, <2>4 DEF Later, u
  <2>6. secs * TicksPerSecond + TicksPerSecond <= v * TicksPerSecond
    BY <1>3, <1>4, <2>4, <2>5, Multiples
  <2> QED
    BY <1>3, <1>4, <2>4, <2>6 DEF v
<1> QED
  BY <1>6, <1>7 DEF w, secs

-----------------------------------------------------------------------------
(* Type correctness *)

\* Instants, epochs and bins are numbers, and the width is one of the candidates.
THEOREM TypeCorrect == Spec => []TypeOK
<1> USE DEF window
<1>1. Init => TypeOK
  BY CandidatesAssumption DEF Init, TypeOK
<1>2. TypeOK /\ [Next]_vars => TypeOK'
  <2> SUFFICES ASSUME TypeOK, [Next]_vars PROVE TypeOK'
    OBVIOUS
  <2>1. \A delta : BucketSeconds(delta) \in {Candidates[k] : k \in DOMAIN Candidates}
    BY ChosenWidth DEF Widths
  <2>2. ASSUME NEW now \in Clock, NEW length \in Ranges,
               BuildWindow(now, length) \/ RangeTooLong(now, length)
        PROVE  TypeOK'
    BY <2>1, <2>2, ClockAssumption, RangesAssumption
    DEF TypeOK, BuildWindow, RangeTooLong
  <2>3. ASSUME NEW now \in Clock, NEW earliest \in Instants, BuildWindowAll(now, earliest)
        PROVE  TypeOK'
    BY <2>1, <2>3, ClockAssumption, InstantsAssumption DEF TypeOK, BuildWindowAll
  <2>4. ASSUME NEW now \in Clock, BuildWindowEmpty(now) PROVE TypeOK'
    BY <2>1, <2>4, ClockAssumption DEF TypeOK, BuildWindowEmpty
  <2>5. bucket \in Nat \ {0}
    BY WidthsArePositive DEF TypeOK, Widths
  <2>6. CASE FirstBin
    BY <2>5, <2>6, BucketEpochBounds DEF TypeOK, FirstBin, LastEpoch
  <2>7. CASE NextBin
    <3>1. Clipped(current) \in Bin
      BY <2>5, TicksAssumption DEF TypeOK, Clipped, Later, Earlier, Bin
    <3> QED
      BY <2>5, <2>7, <3>1 DEF TypeOK, NextBin
  <2>8. CASE EmptyRange \/ Return \/ UNCHANGED vars
    BY <2>8 DEF TypeOK, EmptyRange, Return, vars
  <2> QED
    BY <2>2, <2>3, <2>4, <2>6, <2>7, <2>8 DEF Next
<1> QED
  BY <1>1, <1>2, PTL DEF Spec

-----------------------------------------------------------------------------
(* The loop *)

First == BucketEpoch(start, bucket)

\* The loop of dense_bucket_bounds: the bins so far are those of the epochs from
\* the first on, and the epoch to come is at most one beyond the last.
LaidOut ==
  /\ start < end
  /\ last = LastEpoch
  /\ current = First + Len(out) * bucket
  /\ current <= last + bucket
  /\ \A k \in 1 .. Len(out) : out[k] = Clipped(First + (k - 1) * bucket)

\* The end is the clock's, and the width is chosen for the length of the window.
WindowInv ==
  /\ pc \in {"bounds", "bins", "done"} => end \in Clock
  /\ pc \in {"bounds", "bins", "done"} /\ start < end => bucket = BucketSeconds(end - start)

LoopInv ==
  /\ pc \in {"request", "bounds"} => out = <<>>
  /\ pc = "bins" => LaidOut
  /\ pc = "done" => \/ end <= start /\ out = <<>>
                    \/ LaidOut /\ current > last

\* The edges of the window lie in the first and the last bucket.
LEMMA Edges ==
  ASSUME TypeOK, start < end, end \in Clock
  PROVE  /\ First \in Int /\ LastEpoch \in Int /\ bucket \in Nat \ {0}
         /\ First <= LastEpoch
         /\ First * TicksPerSecond < start + TicksPerSecond
         /\ start >= 0 => First * TicksPerSecond <= start
         /\ start < (First + bucket) * TicksPerSecond
         /\ LastEpoch * TicksPerSecond < end
         /\ end <= (LastEpoch + bucket) * TicksPerSecond
<1> DEFINE T == TicksPerSecond
           s == EpochSeconds(start)
           e == EpochSeconds(end - 1)
           f == First
           l == LastEpoch
           w == bucket
<1>1. /\ T \in Nat \ {0} /\ w \in Nat \ {0} /\ start \in Int /\ end \in Int /\ end >= 1
      /\ start <= end - 1
  BY TicksAssumption, WidthsArePositive, ClockAssumption DEF TypeOK, Widths
<1>2. /\ s \in Int /\ e \in Int /\ s <= e
      /\ start >= 0 => s * T <= start /\ start < s * T + T
      /\ start < 0 => start <= s * T /\ s * T < start + T
      /\ e * T <= end - 1 /\ end - 1 < e * T + T
  BY <1>1, EpochSecondsBounds, EpochSecondsMonotone DEF T
<1>3. /\ f \in Int /\ f <= s /\ s < f + w /\ \E c \in Int : f = c * w
      /\ l \in Int /\ l <= e /\ e < l + w /\ \E c \in Int : l = c * w
  <2>1. start \in Int /\ end - 1 \in Int /\ bucket \in Nat \ {0}
    BY <1>1
  <2>2. f \in Int /\ f <= s /\ s < f + w /\ \E c \in Int : f = c * w
    BY <2>1, BucketEpochBounds DEF First
  <2>3. l \in Int /\ l <= e /\ e < l + w /\ \E c \in Int : l = c * w
    BY <2>1, BucketEpochBounds DEF LastEpoch
  <2> QED
    BY <2>2, <2>3
<1> HIDE DEF T, s, e, f, l, w
<1>4. f <= l
  <2>1. PICK a \in Int, b \in Int : f = a * w /\ l = b * w
    BY <1>3
  <2>2. (b + 1) * w = b * w + w
    BY <1>1, <2>1
  <2>3. a * w < (b + 1) * w
    BY <1>1, <1>2, <1>3, <2>1, <2>2
  <2>4. a < b + 1
    BY <1>1, <2>1, <2>3, Cancel
  <2>5. a <= b
    BY <2>1, <2>4
  <2> QED
    BY <1>1, <2>1, <2>5, Multiples
<1>5. f * T <= s * T /\ s * T + T <= (f + w) * T
  BY <1>1, <1>2, <1>3, Multiples
<1>6. l * T <= e * T /\ e * T + T <= (l + w) * T
  BY <1>1, <1>2, <1>3, Multiples
<1>7. f * T \in Int /\ s * T \in Int /\ (f + w) * T \in Int /\ l * T \in Int /\ e * T \in Int
      /\ (l + w) * T \in Int
  BY <1>1, <1>2, <1>3
<1>8. f * T < start + T /\ (start >= 0 => f * T <= start) /\ start < (f + w) * T
  BY <1>1, <1>2, <1>5, <1>7
<1>9. l * T < end /\ end <= (l + w) * T
  BY <1>1, <1>2, <1>6, <1>7
<1> QED
  BY <1>1, <1>3, <1>4, <1>8, <1>9 DEF T, f, l, w

\* The window stays as build_window made it.
LEMMA NextWindowInv == TypeOK /\ WindowInv /\ [Next]_vars => WindowInv'
<1> SUFFICES ASSUME TypeOK, WindowInv, [Next]_vars PROVE WindowInv'
  OBVIOUS
<1> USE DEF WindowInv, window
<1>1. ASSUME NEW now \in Clock, NEW length \in Ranges,
             BuildWindow(now, length) \/ RangeTooLong(now, length)
      PROVE  WindowInv'
  <2>1. now - (now - length) = length
    BY ClockAssumption, RangesAssumption
  <2> QED
    BY <1>1, <2>1 DEF BuildWindow, RangeTooLong
<1>2. ASSUME NEW now \in Clock, NEW earliest \in Instants, BuildWindowAll(now, earliest)
      PROVE  WindowInv'
  BY <1>2 DEF BuildWindowAll
<1>3. ASSUME NEW now \in Clock, BuildWindowEmpty(now) PROVE WindowInv'
  <2>1. ~(now < now)
    BY ClockAssumption
  <2> QED
    BY <1>3, <2>1 DEF BuildWindowEmpty
<1>4. CASE EmptyRange \/ FirstBin \/ NextBin \/ Return \/ UNCHANGED vars
  BY <1>4 DEF EmptyRange, FirstBin, NextBin, Return, vars
<1> QED
  BY <1>1, <1>2, <1>3, <1>4 DEF Next

\* Each turn of the loop adds the next bin, and only that.
LEMMA NextLoopInv == TypeOK /\ WindowInv /\ LoopInv /\ [Next]_vars => LoopInv'
<1> SUFFICES ASSUME TypeOK, WindowInv, LoopInv, [Next]_vars PROVE LoopInv'
  OBVIOUS
<1>1. ASSUME NEW now \in Clock, NEW length \in Ranges,
             BuildWindow(now, length) \/ RangeTooLong(now, length)
      PROVE  LoopInv'
  BY <1>1 DEF LoopInv, BuildWindow, RangeTooLong
<1>2. ASSUME NEW now \in Clock, NEW earliest \in Instants, BuildWindowAll(now, earliest)
      PROVE  LoopInv'
  BY <1>2 DEF LoopInv, BuildWindowAll
<1>3. ASSUME NEW now \in Clock, BuildWindowEmpty(now) PROVE LoopInv'
  BY <1>3 DEF LoopInv, BuildWindowEmpty
<1>4. CASE EmptyRange
  BY <1>4 DEF LoopInv, EmptyRange, window
<1>5. CASE FirstBin
  <2>1. /\ start < end /\ end \in Clock /\ out = <<>> /\ pc' = "bins"
        /\ current' = First /\ last' = LastEpoch
        /\ UNCHANGED <<start, end, bucket, out>>
    BY <1>5 DEF TypeOK, FirstBin, First, window, LoopInv, WindowInv
  <2>2. /\ First \in Int /\ LastEpoch \in Int /\ bucket \in Nat \ {0} /\ First <= LastEpoch
    BY <2>1, Edges
  <2>3. Len(out') = 0 /\ First' = First /\ LastEpoch' = LastEpoch
    BY <2>1 DEF First, LastEpoch
  <2>4. First + Len(out') * bucket = First /\ LastEpoch <= LastEpoch + bucket
        /\ 1 .. Len(out') = {}
    BY <2>2, <2>3
  <2>5. First <= LastEpoch + bucket
    BY <2>2
  <2>6. LaidOut'
    BY <2>1, <2>3, <2>4, <2>5 DEF LaidOut
  <2> QED
    BY <2>1, <2>6 DEF LoopInv
<1>6. CASE NextBin
  <2> DEFINE n == Len(out)
  <2>1. /\ LaidOut /\ pc' = "bins" /\ current <= last
        /\ current' = current + bucket /\ out' = Append(out, Clipped(current))
        /\ UNCHANGED <<start, end, bucket, last>>
    BY <1>6 DEF NextBin, LoopInv, window
  <2>2. n \in Nat /\ bucket \in Nat \ {0} /\ current \in Int /\ last \in Int /\ First \in Int
    <3>1. bucket \in Nat \ {0} /\ start \in Int
      BY WidthsArePositive DEF TypeOK, Widths
    <3>2. First \in Int
      BY <3>1, BucketEpochBounds DEF First
    <3> QED
      BY <3>1, <3>2 DEF TypeOK
  <2>3. Len(out') = n + 1 /\ out'[n + 1] = Clipped(current)
        /\ \A k \in 1 .. n : out'[k] = out[k]
    BY <2>1 DEF TypeOK
  <2>4. First' = First /\ LastEpoch' = LastEpoch
        /\ \A epoch : Clipped(epoch)' = Clipped(epoch)
    BY <2>1 DEF First, LastEpoch, Clipped
  <2> HIDE DEF n
  <2>5. /\ current = First + n * bucket
        /\ n = (n + 1) - 1 /\ (n + 1) * bucket = n * bucket + bucket
    BY <2>1, <2>2 DEF LaidOut, n
  <2>6. \A k \in 1 .. n + 1 : out'[k] = Clipped(First + (k - 1) * bucket)
    <3> TAKE k \in 1 .. n + 1
    <3>1. CASE k \in 1 .. n
      BY <2>1, <2>3, <3>1 DEF LaidOut, n
    <3>2. CASE k = n + 1
      BY <2>3, <2>5, <3>2
    <3> QED
      BY <2>2, <3>1, <3>2
  <2>7. (\A k \in 1 .. Len(out) : out[k] = Clipped(First + (k - 1) * bucket))'
    BY <2>1, <2>3, <2>6 DEF Clipped, First
  <2>8. current' = First + (n + 1) * bucket /\ current' <= last + bucket
    <3>1. n * bucket \in Int
      BY <2>2
    <3> QED
      BY <2>1, <2>2, <2>5, <3>1
  <2>9. start < end /\ last = LastEpoch
    BY <2>1 DEF LaidOut
  <2>10. LaidOut'
    BY <2>1, <2>3, <2>4, <2>7, <2>8, <2>9 DEF LaidOut
  <2> QED
    BY <2>1, <2>10 DEF LoopInv
<1>7. CASE Return
  BY <1>7 DEF LoopInv, Return, LaidOut, First, LastEpoch, Clipped, window
<1>8. CASE UNCHANGED vars
  BY <1>8 DEF LoopInv, LaidOut, First, LastEpoch, Clipped, vars
<1> QED
  BY <1>1, <1>2, <1>3, <1>4, <1>5, <1>6, <1>7, <1>8 DEF Next

\* The inductive invariant of the layout.
LEMMA TimelineInv == Spec => [](TypeOK /\ WindowInv /\ LoopInv)
<1>1. Init => WindowInv /\ LoopInv
  BY DEF Init, WindowInv, LoopInv
<1> QED
  BY <1>1, TypeCorrect, NextWindowInv, NextLoopInv, PTL DEF Spec

-----------------------------------------------------------------------------
(* The finished timeline *)

Finished == TypeOK /\ end \in Clock /\ LaidOut /\ current > last

\* The epoch of a bin.
Epoch(k) == First + (k - 1) * bucket

\* The loop has laid out every bucket from the first to the last.
LEMMA Grid ==
  ASSUME Finished
  PROVE  /\ Len(out) \in Nat \ {0} /\ bucket \in Nat \ {0} /\ First \in Int /\ LastEpoch \in Int
         /\ LastEpoch + bucket = First + Len(out) * bucket
         /\ Epoch(Len(out)) = LastEpoch
         /\ \A k \in 1 .. Len(out) :
              /\ Epoch(k) \in Int /\ First <= Epoch(k) /\ Epoch(k) <= LastEpoch
              /\ out[k] = Clipped(Epoch(k))
              /\ Epoch(k + 1) = Epoch(k) + bucket
<1> DEFINE n == Len(out)
           f == First
           l == LastEpoch
           w == bucket
<1>1. /\ n \in Nat /\ f \in Int /\ l \in Int /\ w \in Nat \ {0} /\ f <= l
  BY Edges DEF Finished, TypeOK, LaidOut
<1>2. f + n * w > l /\ f + n * w <= l + w
  BY DEF Finished, LaidOut
<1>3. (\E c \in Int : f = c * w) /\ (\E c \in Int : l = c * w)
  <2>1. start \in Int /\ end - 1 \in Int /\ bucket \in Nat \ {0}
    BY <1>1 DEF Finished, TypeOK
  <2>2. \E c \in Int : f = c * w
    BY <2>1, BucketEpochBounds DEF First
  <2>3. \E c \in Int : l = c * w
    BY <2>1, BucketEpochBounds DEF LastEpoch
  <2> QED
    BY <2>2, <2>3
<1>4. \A k \in 1 .. n : out[k] = Clipped(Epoch(k))
  BY DEF Finished, LaidOut, Epoch
<1>5. \A k \in Int : Epoch(k) = f + (k - 1) * w
  BY DEF Epoch
<1> HIDE DEF n, f, l, w
<1>6. l + w = f + n * w
  <2>1. PICK a \in Int, b \in Int : f = a * w /\ l = b * w
    BY <1>3
  <2>2. (a + n) * w = f + n * w /\ (b + 1) * w = l + w
    BY <1>1, <2>1
  <2>3. b < a + n
    BY <1>1, <1>2, <2>1, <2>2, Cancel
  <2>4. b + 1 <= a + n
    BY <1>1, <2>1, <2>3
  <2>5. (b + 1) * w <= (a + n) * w
    BY <1>1, <2>1, <2>4, Multiples
  <2> QED
    BY <1>1, <1>2, <2>1, <2>2, <2>5
<1>7. n # 0
  <2>1. 0 * w = 0
    BY <1>1
  <2> QED
    BY <1>1, <1>6, <2>1
<1>8. \A k \in 1 .. n :
        /\ (k - 1) * w \in Int /\ (n - 1) * w = n * w - w
        /\ 0 * w <= (k - 1) * w /\ (k - 1) * w <= (n - 1) * w /\ 0 * w = 0
        /\ k * w = (k - 1) * w + w
  BY <1>1, Multiples
<1>9. \A k \in 1 .. n : /\ Epoch(k) \in Int /\ f <= Epoch(k) /\ Epoch(k) <= l
                        /\ Epoch(k + 1) = Epoch(k) + w
  <2> TAKE k \in 1 .. n
  <2>1. Epoch(k) = f + (k - 1) * w /\ Epoch(k + 1) = f + k * w
    BY <1>1, <1>5
  <2>2. n * w \in Int
    BY <1>1
  <2> QED
    BY <1>1, <1>6, <1>8, <2>1, <2>2
<1>10. Epoch(n) = l
  <2>1. Epoch(n) = f + (n - 1) * w /\ (n - 1) * w = n * w - w /\ n * w \in Int
    BY <1>1, <1>5
  <2> QED
    BY <1>1, <1>6, <2>1
<1> QED
  BY <1>1, <1>4, <1>6, <1>7, <1>9, <1>10 DEF n, f, l, w

\* Every bucket from the first to the last has a bin of positive length; only the
\* first and the last are cut off.
LEMMA BinsInside ==
  ASSUME Finished, NEW e \in Int, First <= e, e <= LastEpoch
  PROVE  /\ Clipped(e).left < Clipped(e).right
         /\ e + bucket <= LastEpoch => Clipped(e).right = Clipped(e + bucket).left
         /\ e = LastEpoch => Clipped(e).right = end
         /\ e = First => /\ start <= Clipped(e).left
                         /\ Clipped(e).left < start + TicksPerSecond
                         /\ start >= 0 => Clipped(e).left = start
<1> DEFINE T == TicksPerSecond
           f == First
           l == LastEpoch
           w == bucket
<1>1. /\ T \in Nat \ {0} /\ w \in Nat \ {0} /\ start \in Int /\ end \in Int /\ start < end
      /\ f \in Int /\ l \in Int /\ f <= e /\ e <= l
  BY Grid, TicksAssumption DEF Finished, TypeOK, LaidOut
<1>2. /\ f * T < start + T /\ (start >= 0 => f * T <= start) /\ start < (f + w) * T
      /\ l * T < end /\ end <= (l + w) * T
  BY Edges DEF Finished, LaidOut
<1>3. \A epoch : /\ Clipped(epoch).left = Later(epoch * T, start)
                 /\ Clipped(epoch).right = Earlier((epoch + w) * T, end)
  BY DEF Clipped
<1> HIDE DEF T, f, l, w
<1>4. /\ e * T \in Int /\ f * T \in Int /\ l * T \in Int /\ (e + w) * T \in Int
      /\ (f + w) * T \in Int /\ (l + w) * T \in Int
  BY <1>1
<1>5. /\ e * T <= l * T /\ f * T <= e * T /\ (f + w) * T <= (e + w) * T /\ e * T < (e + w) * T
      /\ e + w <= l => (e + w) * T <= l * T
  BY <1>1, Multiples
<1>6. Clipped(e).left < Clipped(e).right
  BY <1>1, <1>2, <1>3, <1>4, <1>5 DEF Later, Earlier
<1>7. ASSUME e + w <= l PROVE Clipped(e).right = Clipped(e + w).left
  BY <1>1, <1>2, <1>3, <1>4, <1>5, <1>7 DEF Later, Earlier
<1>8. ASSUME e = l PROVE Clipped(e).right = end
  <2>1. (e + w) * T = (l + w) * T
    BY <1>8
  <2> QED
    BY <1>1, <1>2, <1>3, <1>4, <2>1 DEF Earlier
<1>9. ASSUME e = f
      PROVE  /\ start <= Clipped(e).left /\ Clipped(e).left < start + T
             /\ start >= 0 => Clipped(e).left = start
  BY <1>1, <1>2, <1>3, <1>4, <1>9 DEF Later
<1> QED
  BY <1>6, <1>7, <1>8, <1>9 DEF T, f, l, w

\* A bin begins where the one before it ends, the first and the last at the edges.
LEMMA BinsTile == TypeOK /\ WindowInv /\ LoopInv => BinsTileTheWindow
<1>1. ASSUME TypeOK, WindowInv, LoopInv, pc = "done" PROVE BinsTileTheWindow
  <2>1. CASE end <= start /\ out = <<>>
    BY <2>1 DEF BinsTileTheWindow, Bins
  <2>2. CASE LaidOut /\ current > last
    <3> DEFINE n == Len(out)
    <3>1. Finished
      BY <1>1, <2>2 DEF Finished, WindowInv
    <3>2. n \in Nat \ {0} /\ Bins = 1 .. n /\ out # <<>>
      BY <1>1, <3>1, Grid DEF TypeOK, Bins
    <3>3. /\ Epoch(1) = First
          /\ Epoch(n) = LastEpoch
          /\ bucket \in Nat \ {0} /\ First \in Int /\ LastEpoch \in Int
          /\ \A k \in 1 .. n : /\ Epoch(k) \in Int /\ First <= Epoch(k) /\ Epoch(k) <= LastEpoch
                              /\ out[k] = Clipped(Epoch(k))
                              /\ Epoch(k + 1) = Epoch(k) + bucket
      <4>1. Epoch(1) = First
        BY <3>1, Grid DEF Epoch
      <4> QED
        BY <3>1, <4>1, Grid
    <3> HIDE DEF n
    <3>4. \A k \in Bins : out[k].left < out[k].right
      BY <3>1, <3>2, <3>3, BinsInside
    <3>5. \A k \in Bins \ {1} : out[k].left = out[k - 1].right
      <4> TAKE k \in Bins \ {1}
      <4> DEFINE e == Epoch(k - 1)
      <4>1. k - 1 \in 1 .. n /\ k \in 1 .. n /\ (k - 1) + 1 = k
        BY <3>2
      <4>2. /\ e \in Int /\ First <= e /\ e <= LastEpoch
            /\ Epoch(k) = e + bucket /\ e + bucket <= LastEpoch
            /\ out[k - 1] = Clipped(e) /\ out[k] = Clipped(e + bucket)
        BY <3>3, <4>1
      <4> HIDE DEF e
      <4> QED
        BY <3>1, <4>2, BinsInside
    <3>6. out[n].right = end
      BY <3>1, <3>2, <3>3, BinsInside
    <3>7. /\ start <= out[1].left /\ out[1].left < start + TicksPerSecond
          /\ start >= 0 => out[1].left = start
      BY <3>1, <3>2, <3>3, BinsInside
    <3>8. ~(end <= start)
      BY <3>1 DEF Finished, LaidOut, TypeOK
    <3> QED
      BY <3>2, <3>4, <3>5, <3>6, <3>7, <3>8 DEF BinsTileTheWindow, n
  <2> QED
    BY <1>1, <2>1, <2>2 DEF LoopInv
<1> QED
  BY <1>1 DEF BinsTileTheWindow

\* The bins of a finished timeline tile its window, whatever the alignment of its
\* edges; of a window that begins before 1970 less than a second may be missed.
THEOREM BinsTileTheWindowAlways == Spec => []BinsTileTheWindow
BY BinsTile, TimelineInv, PTL

\* The width of a finished timeline is the widest that still gives enough bins,
\* counting the bins that are laid out, not the width's share of the range.
THEOREM WidestThatFitsAlways == Spec => []WidestThatFits
<1>1. ASSUME TypeOK, WindowInv, LoopInv, pc = "done", start < end PROVE WidestThatFits
  <2> DEFINE n == Len(out)
             w == bucket
             T == TicksPerSecond
             f == First
             l == LastEpoch
             secs == EpochSeconds(end - start)
  <2>1. Finished
    BY <1>1 DEF Finished, WindowInv, LoopInv, TypeOK
  <2>2. end - start \in Int /\ end - start > 0 /\ w = BucketSeconds(end - start)
    BY <1>1 DEF TypeOK, WindowInv
  <2>3. w = Candidates[1] \/ MinBins * w <= secs
    BY <2>2, WidthIsWidest
  <2>4. ASSUME MinBins * w <= secs PROVE n >= MinBins
    <3>1. /\ n \in Nat /\ w \in Nat \ {0} /\ T \in Nat \ {0} /\ MinBins \in Nat \ {0}
          /\ f \in Int /\ l \in Int /\ l + w = f + n * w /\ start \in Int /\ end \in Int
      BY <2>1, Grid, TicksAssumption, MinBinsAssumption DEF Finished, TypeOK
    <3>2. f * T < start + T /\ end <= (l + w) * T
      BY <2>1, Edges DEF Finished, LaidOut
    <3>3. secs \in Nat /\ secs * T <= end - start
      BY <2>2, EpochSecondsBounds
    <3> HIDE DEF n, w, T, f, l, secs
    <3> DEFINE m == n * w
    <3>4. m \in Nat /\ l + w = f + m
      BY <3>1
    <3> HIDE DEF m
    <3>5. (l + w) * T = f * T + m * T /\ (m + 1) * T = m * T + T
          /\ f * T \in Int /\ m * T \in Int /\ secs * T \in Int
      BY <3>1, <3>3, <3>4
    <3>6. secs * T < (m + 1) * T
      BY <3>1, <3>2, <3>3, <3>5
    <3>7. secs < m + 1
      BY <3>1, <3>3, <3>4, <3>6, Cancel
    <3>8. MinBins * w \in Nat /\ MinBins * w <= m
      BY <2>4, <3>1, <3>3, <3>4, <3>7
    <3>9. (n + 1) * w = m + w
      BY <3>1 DEF m
    <3>10. MinBins * w < (n + 1) * w
      BY <3>1, <3>4, <3>8, <3>9
    <3>11. MinBins < n + 1
      BY <3>1, <3>10, Cancel
    <3> QED
      BY <3>1, <3>11
  <2>5. \A k \in DOMAIN Candidates : Candidates[k] > w => end - start < MinBins * Candidates[k] * T
    BY <2>2, WidthIsWidest
  <2> QED
    BY <2>3, <2>4, <2>5 DEF WidestThatFits
<1>2. TypeOK /\ WindowInv /\ LoopInv => WidestThatFits
  BY <1>1 DEF WidestThatFits
<1> QED
  BY <1>2, TimelineInv, PTL

-----------------------------------------------------------------------------
(* Events and bins *)

\* The bin that PostgreSQL groups an instant into is the only one of its epoch
\* that Python lays out, and it covers the instant.
EventsHaveTheirBin ==
  pc = "done" /\ start >= 0 =>
    \A t \in {i \in Instants : start <= i /\ i < end} : \E k \in Bins :
      /\ out[k].left <= t /\ t < out[k].right
      /\ \A j \in Bins : out[j].epoch = SqlBucket(t, bucket) <=> j = k

\* The bucket of the query is the multiple of the width whose ticks hold t.
LEMMA SqlBucketBounds ==
  ASSUME NEW t \in Int, NEW w \in Nat \ {0}
  PROVE  \E c \in Int : /\ SqlBucket(t, w) = c * w
                       /\ (c * w) * TicksPerSecond <= t
                       /\ t < (c * w + w) * TicksPerSecond
<1> DEFINE T == TicksPerSecond
           d == T * w
           q == t \div d
<1>1. T \in Nat \ {0} /\ d \in Nat \ {0}
  BY TicksAssumption
<1>2. SqlBucket(t, w) = q * w
  BY DEF SqlBucket
<1> HIDE DEF T, d
<1>3. q \in Int /\ q * d <= t /\ t < (q + 1) * d
  BY <1>1, Division
<1> HIDE DEF q
<1>4. (q * w) * T = q * d /\ (q * w + w) * T = (q + 1) * d
  BY <1>1, <1>3 DEF d
<1> QED
  BY <1>2, <1>3, <1>4 DEF T

\* Of any instant inside a range that starts in 1970 or later, query and bins
\* name the same bin.
LEMMA EventHasItsBin ==
  ASSUME Finished, start >= 0, NEW t \in Int, start <= t, t < end
  PROVE  \E k \in Bins :
           /\ out[k].left <= t /\ t < out[k].right
           /\ \A j \in Bins : out[j].epoch = SqlBucket(t, bucket) <=> j = k
<1> DEFINE T == TicksPerSecond
           f == First
           l == LastEpoch
           w == bucket
           n == Len(out)
<1>1. /\ T \in Nat \ {0} /\ w \in Nat \ {0} /\ start \in Int /\ end \in Int
      /\ f \in Int /\ l \in Int /\ n \in Nat \ {0} /\ l + w = f + n * w /\ Bins = 1 .. n
  BY Grid, TicksAssumption DEF Finished, TypeOK, Bins
<1>2. f * T <= start /\ end <= (l + w) * T
  BY Edges DEF Finished, LaidOut
<1>3. PICK a \in Int : f = a * w
  <2>1. start \in Int /\ bucket \in Nat \ {0}
    BY <1>1
  <2> QED
    BY <2>1, BucketEpochBounds DEF First
<1>4. PICK c \in Int : /\ SqlBucket(t, w) = c * w
                       /\ (c * w) * T <= t /\ t < (c * w + w) * T
  BY <1>1, SqlBucketBounds
<1>5. \A k \in 1 .. n : out[k] = Clipped(Epoch(k)) /\ Epoch(k) = f + (k - 1) * w
  BY Grid DEF Epoch
<1>6. \A epoch : /\ Clipped(epoch).left = Later(epoch * T, start)
                 /\ Clipped(epoch).right = Earlier((epoch + w) * T, end)
                 /\ Clipped(epoch).epoch = epoch
  BY DEF Clipped
<1> HIDE DEF T, f, l, w, n
<1>7. c * w + w = (c + 1) * w /\ l + w = (a + n) * w /\ c * w \in Int /\ (c + 1) * w \in Int
      /\ (a + n) * w \in Int
  BY <1>1, <1>3
<1>8. a < c + 1
  <2>1. (a * w) * T < ((c + 1) * w) * T
    BY <1>1, <1>2, <1>3, <1>4, <1>7
  <2>2. a * w < (c + 1) * w
    BY <1>1, <1>3, <1>7, <2>1, Cancel
  <2> QED
    BY <1>1, <2>2, Cancel
<1>9. c < a + n
  <2>1. (c * w) * T < ((a + n) * w) * T
    BY <1>1, <1>2, <1>4, <1>7
  <2>2. c * w < (a + n) * w
    BY <1>1, <1>7, <2>1, Cancel
  <2> QED
    BY <1>1, <2>2, Cancel
<1> DEFINE k == c - a + 1
<1>10. k \in 1 .. n
  BY <1>1, <1>8, <1>9
<1>11. \A j \in 1 .. n : Epoch(j) = (a + j - 1) * w
  <2> TAKE j \in 1 .. n
  <2>1. (a + (j - 1)) * w = a * w + (j - 1) * w /\ a + j - 1 = a + (j - 1)
    BY <1>1
  <2> QED
    BY <1>3, <1>5, <2>1
<1>12. a + k - 1 = c
  BY <1>1
<1> HIDE DEF k
<1>13. Epoch(k) = c * w
  BY <1>10, <1>11, <1>12
<1>14. out[k].left <= t /\ t < out[k].right
  <2>1. /\ out[k].left = Later((c * w) * T, start)
        /\ out[k].right = Earlier((c * w + w) * T, end)
    BY <1>5, <1>6, <1>10, <1>13
  <2> QED
    BY <1>4, <2>1 DEF Later, Earlier
<1>15. ASSUME NEW j \in 1 .. n PROVE out[j].epoch = SqlBucket(t, w) <=> j = k
  <2>1. out[j].epoch = (a + j - 1) * w
    BY <1>5, <1>6, <1>11
  <2>2. ASSUME (a + j - 1) * w = c * w PROVE a + j - 1 = c
    <3>1. ~((a + j - 1) * w < c * w) /\ ~(c * w < (a + j - 1) * w)
      BY <1>1, <1>7, <2>2
    <3>2. ~(a + j - 1 < c) /\ ~(c < a + j - 1)
      <4>1. a + j - 1 \in Int
        BY <1>1
      <4> QED
        BY <1>1, <1>7, <2>2, <4>1, Multiples
    <3> QED
      BY <1>1, <3>2
  <2> QED
    BY <1>1, <1>4, <1>10, <1>12, <2>1, <2>2
<1> QED
  BY <1>1, <1>10, <1>14, <1>15 DEF w, n

\* Query and bins agree on every event of a range that starts in 1970 or later,
\* though one computes with fractions and the other with truncated seconds.
THEOREM EventsHaveTheirBinAlways == Spec => []EventsHaveTheirBin
<1>1. TypeOK /\ WindowInv /\ LoopInv => EventsHaveTheirBin
  <2> SUFFICES ASSUME TypeOK, WindowInv, LoopInv, pc = "done", start >= 0,
                      NEW t \in Instants, start <= t, t < end
               PROVE  \E k \in Bins :
                        /\ out[k].left <= t /\ t < out[k].right
                        /\ \A j \in Bins : out[j].epoch = SqlBucket(t, bucket) <=> j = k
    BY DEF EventsHaveTheirBin
  <2>1. t \in Int /\ start \in Int /\ end \in Int
    BY InstantsAssumption DEF TypeOK
  <2>2. Finished
    BY <2>1 DEF WindowInv, LoopInv, Finished
  <2> QED
    BY EventHasItsBin, <2>1, <2>2
<1> QED
  BY <1>1, TimelineInv, PTL

-----------------------------------------------------------------------------
(* The panel *)

\* Of a sequence whose first entries pass, and no other, those are left.
LEMMA FirstEntries ==
  ASSUME NEW s, NEW n \in Nat
  PROVE  Entries(s, 1 .. n) = [k \in 1 .. n |-> s[k]]
<1>1. Cardinality(1 .. n) = n
  BY UpTo
<1>2. \A k \in 1 .. n : Rank(k, 1 .. n) = k
  <2> TAKE k \in 1 .. n
  <2>1. {j \in 1 .. n : j <= k} = 1 .. k /\ k \in Nat
    OBVIOUS
  <2> QED
    BY <2>1, UpTo DEF Rank
<1> DEFINE Kth(k) == CHOOSE j \in 1 .. n : Rank(j, 1 .. n) = k
<1>3. \A k \in 1 .. n : Kth(k) = k
  BY <1>2
<1>4. Entries(s, 1 .. n) = [k \in 1 .. Cardinality(1 .. n) |-> s[Kth(k)]]
  BY DEF Entries
<1> HIDE DEF Kth
<1> QED
  BY <1>1, <1>3, <1>4

\* Whole milliseconds: an instant before one is in an earlier one.
LEMMA MillisBounds ==
  ASSUME NEW t \in Int
  PROVE  /\ Millis(t) \in Int
         /\ \A u \in Int : t <= u => Millis(t) <= Millis(u)
         /\ \A c \in Int : /\ t < c * TicksPerMilli => Millis(t) < c
                           /\ Millis(c * TicksPerMilli) = c
<1> DEFINE m == TicksPerMilli
<1>1. m \in Nat \ {0}
  BY MilliAssumption
<1> HIDE DEF m
<1>2. \A u \in Int : /\ Millis(u) \in Int
                     /\ Millis(u) * m <= u /\ u < (Millis(u) + 1) * m
  BY <1>1, Division DEF Millis, m
<1>3. ASSUME NEW u \in Int, NEW v \in Int, Millis(u) * m < (v + 1) * m PROVE Millis(u) <= v
  <2>1. Millis(u) < v + 1
    BY <1>1, <1>2, <1>3, Cancel
  <2> QED
    BY <1>2, <2>1
<1>4. ASSUME NEW u \in Int, t <= u PROVE Millis(t) <= Millis(u)
  <2>1. Millis(t) * m < (Millis(u) + 1) * m
    <3>1. Millis(t) * m \in Int /\ (Millis(u) + 1) * m \in Int
      BY <1>1, <1>2
    <3> QED
      BY <1>2, <1>4, <3>1
  <2> QED
    BY <1>2, <1>3, <2>1
<1>5. ASSUME NEW c \in Int, t < c * m PROVE Millis(t) < c
  <2>1. Millis(t) * m < c * m
    <3>1. Millis(t) * m \in Int /\ c * m \in Int
      BY <1>1, <1>2
    <3> QED
      BY <1>2, <1>5, <3>1
  <2> QED
    BY <1>1, <1>2, <2>1, Cancel
<1>6. ASSUME NEW c \in Int PROVE Millis(c * m) = c
  <2>1. c * m \in Int
    BY <1>1
  <2>2. Millis(c * m) <= c
    <3>1. c * m < (c + 1) * m
      BY <1>1
    <3>2. Millis(c * m) * m < (c + 1) * m
      <4>1. Millis(c * m) * m \in Int /\ (c + 1) * m \in Int
        BY <1>1, <1>2, <2>1
      <4> QED
        BY <1>2, <2>1, <3>1, <4>1
    <3> QED
      BY <1>3, <2>1, <3>2
  <2>3. c < Millis(c * m) + 1
    BY <1>1, <1>2, <2>1, Cancel
  <2> QED
    BY <1>2, <2>1, <2>2, <2>3
<1> QED
  BY <1>2, <1>4, <1>5, <1>6 DEF m

\* Seconds are whole milliseconds.
LEMMA SecondsAreMillis ==
  /\ TicksPerSecond \div TicksPerMilli \in Nat \ {0}
  /\ TicksPerSecond = (TicksPerSecond \div TicksPerMilli) * TicksPerMilli
<1> DEFINE m == TicksPerMilli
           T == TicksPerSecond
           q == T \div m
<1>1. m \in Nat \ {0} /\ T \in Nat \ {0} /\ T % m = 0
  BY MilliAssumption, TicksAssumption
<1> HIDE DEF m, T
<1>2. q \in Int /\ T = q * m + (T % m)
  BY <1>1
<1>3. T = q * m
  BY <1>1, <1>2
<1>4. q > 0
  <2>1. 0 * m < q * m
    BY <1>1, <1>2, <1>3
  <2> QED
    BY <1>1, <1>2, <2>1, Cancel
<1> QED
  BY <1>2, <1>3, <1>4 DEF m, T

\* Milliseconds of an instant are an integer.
LEMMA MillisType == \A t \in Int : Millis(t) \in Int
BY MillisBounds

\* Cutting to milliseconds keeps the order.
LEMMA MillisOrder == \A t, u \in Int : t <= u => Millis(t) <= Millis(u)
BY MillisBounds

\* Cutting changes nothing on whole milliseconds.
LEMMA WholeMillis ==
  \A t, c \in Int : t < c * TicksPerMilli => Millis(t) < c /\ Millis(c * TicksPerMilli) = c
BY MillisBounds

\* Bins that end on the grid have a length on the page; only the last may have none.
LEMMA BinsOnThePage ==
  ASSUME Finished, start >= 0
  PROVE  /\ Len(out) \in Nat \ {0} /\ DOMAIN out = 1 .. Len(out)
         /\ out[1].left = start /\ out[Len(out)].right = end
         /\ \A k \in 1 .. Len(out) :
              /\ out[k].left \in Int /\ out[k].right \in Int
              /\ start <= out[k].left /\ out[k].right <= end /\ out[k].left < out[k].right
              /\ k # 1 => out[k].left = out[k - 1].right
              /\ k # Len(out) => \E c \in Int : out[k].right = c * TicksPerMilli
<1> DEFINE n == Len(out)
           T == TicksPerSecond
<1>1. /\ n \in Nat \ {0} /\ T \in Nat \ {0} /\ bucket \in Nat \ {0}
      /\ start \in Int /\ end \in Int /\ DOMAIN out = 1 .. n /\ out # <<>>
  BY Grid, TicksAssumption DEF Finished, TypeOK
<1>2. \A k \in 1 .. n : /\ Epoch(k) \in Int /\ First <= Epoch(k) /\ Epoch(k) <= LastEpoch
                        /\ out[k] = Clipped(Epoch(k)) /\ Epoch(k + 1) = Epoch(k) + bucket
  BY Grid
<1>3. Epoch(1) = First /\ Epoch(n) = LastEpoch
  BY Grid DEF Epoch
<1>4. \A epoch : /\ Clipped(epoch).left = Later(epoch * T, start)
                 /\ Clipped(epoch).right = Earlier((epoch + bucket) * T, end)
  BY DEF Clipped
<1> HIDE DEF n, T
<1>5. ASSUME NEW k \in 1 .. n
      PROVE  /\ out[k].left \in Int /\ out[k].right \in Int
             /\ start <= out[k].left /\ out[k].right <= end /\ out[k].left < out[k].right
  <2>1. Epoch(k) * T \in Int /\ (Epoch(k) + bucket) * T \in Int
    BY <1>1, <1>2
  <2>2. out[k].left < out[k].right
    BY <1>2, BinsInside
  <2>3. /\ out[k].left = Later(Epoch(k) * T, start)
        /\ out[k].right = Earlier((Epoch(k) + bucket) * T, end)
    BY <1>2, <1>4
  <2> QED
    BY <1>1, <2>1, <2>2, <2>3 DEF Later, Earlier
<1>6. ASSUME NEW k \in 1 .. n, k # 1 PROVE out[k].left = out[k - 1].right
  <2> DEFINE e == Epoch(k - 1)
  <2>1. k - 1 \in 1 .. n /\ (k - 1) + 1 = k
    BY <1>1, <1>6
  <2>2. /\ e \in Int /\ First <= e /\ e <= LastEpoch
        /\ Epoch(k) = e + bucket /\ e + bucket <= LastEpoch
        /\ out[k - 1] = Clipped(e) /\ out[k] = Clipped(e + bucket)
    BY <1>2, <2>1
  <2> HIDE DEF e
  <2> QED
    BY <2>2, BinsInside
<1>7. ASSUME NEW k \in 1 .. n, k # n PROVE \E c \in Int : out[k].right = c * TicksPerMilli
  <2> DEFINE q == T \div TicksPerMilli
             e == Epoch(k + 1)
  <2>1. k + 1 \in 1 .. n /\ (k + 1) - 1 = k /\ k + 1 # 1
    BY <1>1, <1>7
  <2>2. out[k].right = Later(e * T, start) /\ e \in Int
    BY <1>2, <1>4, <1>6, <2>1
  <2>3. e * T > start
    <3>1. start < (First + bucket) * T /\ First \in Int
      BY Edges DEF Finished, LaidOut, T
    <3>2. e = Epoch(k) + bucket /\ Epoch(k) \in Int /\ First <= Epoch(k)
      BY <1>2
    <3>3. (First + bucket) * T <= e * T
      BY <1>1, <3>1, <3>2, Multiples
    <3>4. (First + bucket) * T \in Int /\ e * T \in Int
      BY <1>1, <2>2, <3>1
    <3> QED
      BY <1>1, <3>1, <3>3, <3>4
  <2>4. out[k].right = e * T
    BY <1>1, <2>2, <2>3 DEF Later
  <2>5. q \in Int /\ T = q * TicksPerMilli /\ TicksPerMilli \in Int
    BY SecondsAreMillis, MilliAssumption DEF T
  <2> HIDE DEF q, e
  <2>6. e * T = (e * q) * TicksPerMilli /\ e * q \in Int
    BY <2>2, <2>5
  <2> QED
    BY <2>4, <2>6
<1>8. out[1].left = start /\ out[n].right = end
  BY <1>1, <1>2, <1>3, BinsInside
<1> QED
  BY <1>1, <1>5, <1>6, <1>7, <1>8 DEF n

\* How many bins have a length on the page.
Drawable == IF Millis(out[Len(out)].left) < Millis(end) THEN Len(out) ELSE Len(out) - 1

\* The rows a panel keeps are the bins in their order, the last perhaps left out.
LEMMA RowsAreBins ==
  ASSUME Finished, start >= 0
  PROVE  /\ Drawable \in Nat
         /\ Rows = [k \in 1 .. Drawable |-> Row(out[k])]
         /\ \A k \in 1 .. Drawable : HasLength(Row(out[k]))
<1> DEFINE n == Len(out)
           kept == {k \in DOMAIN out : HasLength(Row(out[k]))}
           all == [k \in DOMAIN out |-> Row(out[k])]
<1>1. /\ n \in Nat \ {0} /\ DOMAIN out = 1 .. n /\ out[n].right = end
      /\ \A k \in 1 .. n :
           /\ out[k].left \in Int /\ out[k].right \in Int /\ out[k].left < out[k].right
           /\ k # n => \E c \in Int : out[k].right = c * TicksPerMilli
  BY BinsOnThePage
<1>2. \A k \in 1 .. n : HasLength(Row(out[k])) <=> Millis(out[k].right) > Millis(out[k].left)
  BY DEF HasLength, Row
<1> HIDE DEF n
<1>3. ASSUME NEW k \in 1 .. n, k # n PROVE HasLength(Row(out[k]))
  <2>1. PICK c \in Int : out[k].right = c * TicksPerMilli
    BY <1>1, <1>3
  <2>2. Millis(out[k].left) < c /\ Millis(out[k].right) = c /\ Millis(out[k].left) \in Int
    <3>1. /\ out[k].left \in Int /\ out[k].left < c * TicksPerMilli
          /\ out[k].right = c * TicksPerMilli
      BY <1>1, <2>1
    <3> QED
      BY <3>1, WholeMillis, MillisType
  <2> QED
    BY <1>2, <2>2
<1>4. Millis(end) \in Int /\ Millis(out[n].left) \in Int /\ n \in 1 .. n
  <2>1. n \in 1 .. n /\ end \in Int /\ out[n].left \in Int
    BY <1>1
  <2> QED
    BY <2>1, MillisType
<1>5. Drawable \in Nat /\ kept = 1 .. Drawable
  <2>1. CASE Millis(out[n].left) < Millis(end)
    <3>1. Drawable = n /\ HasLength(Row(out[n]))
      BY <1>1, <1>2, <1>4, <2>1 DEF Drawable, n
    <3> QED
      BY <1>1, <1>3, <3>1
  <2>2. CASE ~(Millis(out[n].left) < Millis(end))
    <3>1. Drawable = n - 1 /\ ~HasLength(Row(out[n]))
      BY <1>1, <1>2, <1>4, <2>2 DEF Drawable, n
    <3> QED
      BY <1>1, <1>3, <3>1
  <2> QED
    BY <2>1, <2>2
<1>6. Rows = Entries(all, kept)
  BY DEF Rows
<1>7. \A k \in kept : all[k] = Row(out[k]) /\ HasLength(Row(out[k]))
  OBVIOUS
<1> HIDE DEF kept, all
<1>8. Rows = [k \in 1 .. Drawable |-> all[k]]
  BY <1>5, <1>6, FirstEntries
<1> QED
  BY <1>5, <1>7, <1>8

\* Intervals that fill an axis, one after the other.
Fill(intervals, axis) ==
  /\ Len(intervals) \in Nat \ {0} /\ DOMAIN intervals = 1 .. Len(intervals)
  /\ intervals[1].start = axis.start /\ intervals[Len(intervals)].end = axis.end
  /\ \A k \in 1 .. Len(intervals) :
       /\ intervals[k].start \in Int /\ intervals[k].end \in Int
       /\ axis.start <= intervals[k].start /\ intervals[k].end <= axis.end
       /\ intervals[k].start < intervals[k].end
       /\ k # 1 => intervals[k].start = intervals[k - 1].end

\* Rounding to milliseconds opens no gap, and a bin that is left out ends where the
\* one before it does.
LEMMA RowsFillTheAxis ==
  ASSUME Finished, start >= 0, Drawable # 0
  PROVE  Fill(Rows, Axis) /\ Len(Rows) = Drawable
<1> DEFINE n == Len(out)
           d == Drawable
<1>1. /\ n \in Nat \ {0} /\ DOMAIN out = 1 .. n /\ out[1].left = start /\ out[n].right = end
      /\ start \in Int /\ end \in Int
      /\ \A k \in 1 .. n : /\ out[k].left \in Int /\ out[k].right \in Int
                          /\ start <= out[k].left /\ out[k].right <= end
                          /\ out[k].left < out[k].right
  BY BinsOnThePage DEF Finished, TypeOK
<1>0. \A k \in 1 .. n : k # 1 => out[k].left = out[k - 1].right
  BY BinsOnThePage
<1>2. /\ d \in Nat \ {0} /\ Rows = [k \in 1 .. d |-> Row(out[k])]
      /\ \A k \in 1 .. d : HasLength(Row(out[k]))
  BY RowsAreBins
<1>3. /\ d <= n
      /\ d = n \/ (d = n - 1 /\ ~(Millis(out[n].left) < Millis(end)))
  <2>1. \/ d = n
        \/ d = n - 1 /\ ~(Millis(out[n].left) < Millis(end))
    BY DEF Drawable
  <2>2. n \in Int
    BY <1>1
  <2> HIDE DEF n, d
  <2> QED
    BY <2>1, <2>2
<1> HIDE DEF n, d
<1>4. /\ Millis(start) \in Int /\ Millis(end) \in Int
      /\ \A k \in 1 .. n :
           /\ Millis(out[k].left) \in Int /\ Millis(out[k].right) \in Int
           /\ Millis(start) <= Millis(out[k].left)
           /\ Millis(out[k].left) <= Millis(end)
           /\ Millis(out[k].right) <= Millis(end)
  <2>1. ASSUME NEW k \in 1 .. n
        PROVE  /\ Millis(out[k].left) \in Int /\ Millis(out[k].right) \in Int
               /\ Millis(start) <= Millis(out[k].left)
               /\ Millis(out[k].left) <= Millis(end)
               /\ Millis(out[k].right) <= Millis(end)
    <3>1. /\ out[k].left \in Int /\ out[k].right \in Int
          /\ start <= out[k].left /\ out[k].left <= end /\ out[k].right <= end
      BY <1>1
    <3> QED
      BY <1>1, <3>1, MillisType, MillisOrder
  <2> QED
    BY <1>1, <2>1, MillisType
<1>5. /\ Len(Rows) = d /\ DOMAIN Rows = 1 .. d
      /\ \A k \in 1 .. d : /\ Rows[k].start = Millis(out[k].left)
                          /\ Rows[k].end = Millis(out[k].right)
                          /\ Rows[k].start < Rows[k].end
  <2>1. \A k \in 1 .. d : Row(out[k]).start = Millis(out[k].left)
                          /\ Row(out[k]).end = Millis(out[k].right)
    BY DEF Row
  <2>2. \A k \in 1 .. d : Millis(out[k].left) \in Int /\ Millis(out[k].right) \in Int
    BY <1>1, <1>2, <1>3, <1>4
  <2>3. /\ Len(Rows) = d /\ DOMAIN Rows = 1 .. d
        /\ \A k \in 1 .. d : Rows[k] = Row(out[k])
    BY <1>2
  <2> QED
    BY <1>2, <2>1, <2>2, <2>3 DEF HasLength
<1>6. Axis.start = Millis(start) /\ Axis.end = Millis(end)
  <2>1. 1 \in 1 .. d /\ 1 \in 1 .. n
    BY <1>1, <1>2
  <2>2. Millis(start) < Millis(end)
    BY <1>1, <1>4, <1>5, <2>1
  <2> QED
    BY <1>4, <2>2 DEF Axis
<1>7. Rows[1].start = Millis(start)
  BY <1>1, <1>2, <1>5
<1>8. Rows[d].end = Millis(end)
  <2>1. CASE d = n
    BY <1>1, <1>2, <1>5, <2>1
  <2>2. CASE d = n - 1
    <3>1. n \in 1 .. n /\ n # 1 /\ d \in 1 .. d
      BY <1>1, <1>2, <2>2
    <3>2. out[n].left = out[d].right
      BY <1>0, <2>2, <3>1
    <3>3. Millis(out[n].left) = Millis(end)
      BY <1>1, <1>3, <1>4, <2>2, <3>1
    <3> QED
      BY <1>5, <3>1, <3>2, <3>3
  <2> QED
    BY <1>3, <2>1, <2>2
<1>9. \A k \in 1 .. d : k # 1 => Rows[k].start = Rows[k - 1].end
  <2> SUFFICES ASSUME NEW k \in 1 .. d, k # 1 PROVE Rows[k].start = Rows[k - 1].end
    OBVIOUS
  <2>1. k \in 1 .. n /\ k - 1 \in 1 .. d
    BY <1>1, <1>2, <1>3
  <2>2. out[k].left = out[k - 1].right
    BY <1>0, <2>1
  <2> QED
    BY <1>5, <2>1, <2>2
<1>10. \A k \in 1 .. d : /\ Rows[k].start \in Int /\ Rows[k].end \in Int
                        /\ Axis.start <= Rows[k].start /\ Rows[k].end <= Axis.end
  <2>1. \A k \in 1 .. d : k \in 1 .. n
    BY <1>1, <1>2, <1>3
  <2> QED
    BY <1>4, <1>5, <1>6, <2>1
<1> QED
  BY <1>2, <1>5, <1>6, <1>7, <1>8, <1>9, <1>10 DEF Fill, d

\* Without rows the panel lays out intervals of its own, as the server would.
LEMMA BlanksFillTheAxis ==
  ASSUME TypeOK
  PROVE  Fill(BlankIntervals, Axis)
<1> DEFINE S == Axis.start
           E == Axis.end
           len == E - S
           w == BinMs
           N == (len + w - 1) \div w
<1>1. S \in Int /\ E \in Int /\ S < E
  <2>1. start \in Int /\ end \in Int
    BY DEF TypeOK
  <2>2. Millis(start) \in Int /\ Millis(end) \in Int /\ DayMillis \in Nat \ {0}
    BY <2>1, MillisBounds, DayAssumption
  <2> QED
    BY <2>2 DEF Axis
<1>2. w \in Nat \ {0}
  <2>1. bucket \in Nat \ {0} /\ TicksPerSecond \div TicksPerMilli \in Nat \ {0}
    BY WidthsArePositive, SecondsAreMillis DEF TypeOK, Widths
  <2> QED
    BY <2>1 DEF BinMs
<1>3. BlankIntervals = [k \in 1 .. N |-> [start |-> S + (k - 1) * w,
                                         end |-> Earlier(S + k * w, E)]]
  BY DEF BlankIntervals
<1> HIDE DEF w, S, E
<1>4. len \in Nat \ {0} /\ len + w - 1 \in Int
  BY <1>1, <1>2
<1>5. N \in Int /\ N * w <= len + w - 1 /\ len + w - 1 < (N + 1) * w
  BY <1>2, <1>4, Division
<1> HIDE DEF N
<1>6. N \in Nat \ {0} /\ len <= N * w /\ (N - 1) * w < len
  <2>1. N * w \in Int /\ (N - 1) * w = N * w - w /\ (N + 1) * w = N * w + w
    BY <1>2, <1>5
  <2>2. 0 * w < N * w
    BY <1>2, <1>4, <1>5, <2>1
  <2>3. 0 < N
    BY <1>2, <1>5, <2>2, Cancel
  <2> QED
    BY <1>2, <1>4, <1>5, <2>1, <2>3
<1>7. ASSUME NEW k \in 1 .. N
      PROVE  /\ (k - 1) * w \in Int /\ k * w \in Int /\ k * w = (k - 1) * w + w
             /\ 0 <= (k - 1) * w /\ (k - 1) * w < len
  <2>1. k \in Int /\ k - 1 \in Int /\ 0 <= k - 1 /\ k - 1 <= N - 1 /\ N - 1 \in Int
    BY <1>6
  <2>2. /\ (k - 1) * w \in Int /\ k * w \in Int /\ k * w = (k - 1) * w + w
        /\ (N - 1) * w \in Int /\ 0 * w = 0
    BY <1>2, <2>1
  <2>3. 0 * w <= (k - 1) * w /\ (k - 1) * w <= (N - 1) * w
    BY <1>2, <2>1, Multiples
  <2> QED
    BY <1>4, <1>6, <2>2, <2>3
<1> DEFINE b == BlankIntervals
<1>8. /\ Len(b) = N /\ DOMAIN b = 1 .. N
      /\ \A k \in 1 .. N : b[k].start = S + (k - 1) * w /\ b[k].end = Earlier(S + k * w, E)
  BY <1>3, <1>6
<1> HIDE DEF b
<1>9. b[1].start = S
  <2>1. 1 \in 1 .. N /\ S + (1 - 1) * w = S
    BY <1>1, <1>2, <1>6
  <2> QED
    BY <1>8, <2>1
<1>10. b[N].end = E
  <2>1. N \in 1 .. N /\ N * w \in Int
    BY <1>6, <1>7
  <2>2. E <= S + N * w
    BY <1>1, <1>6, <2>1
  <2>3. b[N].end = Earlier(S + N * w, E)
    BY <1>8, <2>1
  <2> QED
    BY <1>1, <2>1, <2>2, <2>3 DEF Earlier
<1>11. ASSUME NEW k \in 1 .. N
       PROVE  /\ b[k].start \in Int /\ b[k].end \in Int
              /\ S <= b[k].start /\ b[k].end <= E /\ b[k].start < b[k].end
              /\ k # 1 => b[k].start = b[k - 1].end
  <2>1. b[k].start = S + (k - 1) * w /\ b[k].end = Earlier(S + k * w, E)
    BY <1>8
  <2>2. /\ b[k].start \in Int /\ b[k].end \in Int
        /\ S <= b[k].start /\ b[k].end <= E /\ b[k].start < b[k].end
    BY <1>1, <1>2, <1>7, <2>1 DEF Earlier
  <2>3. ASSUME k # 1 PROVE b[k].start = b[k - 1].end
    <3>1. k - 1 \in 1 .. N
      BY <1>6, <2>3
    <3>2. b[k - 1].end = Earlier(S + (k - 1) * w, E)
      BY <1>8, <3>1
    <3> QED
      BY <1>1, <1>7, <2>1, <3>2 DEF Earlier
  <2> QED
    BY <2>2, <2>3
<1> QED
  BY <1>6, <1>8, <1>9, <1>10, <1>11 DEF Fill, S, E, b

\* What fills its axis is drawn.
LEMMA FilledIsDrawn ==
  ASSUME NEW rows, Fill(rows, Axis)
  PROVE  /\ rows[1].start = Axis.start /\ rows[Len(rows)].end = Axis.end
         /\ \A k \in DOMAIN rows : rows[k].start < rows[k].end
         /\ \A k \in DOMAIN rows \ {1} : rows[k].start = rows[k - 1].end
         /\ rows # <<>>
BY DEF Fill

\* The panel of a range that starts in 1970 or later is never refused: three
\* roundings of the same edges agree, and the only events it leaves out are those of
\* a last bin that has no length in milliseconds.
THEOREM PanelDrawsTheAnswerAlways == Spec => []PanelDrawsTheAnswer
<1>1. ASSUME TypeOK, end <= start, out = <<>> PROVE PanelDrawsTheAnswer
  <2>1. Rows = <<>>
    <3>1. {k \in DOMAIN out : HasLength(Row(out[k]))} = 1 .. 0
      BY <1>1
    <3>2. Rows = Entries([k \in DOMAIN out |-> Row(out[k])], 1 .. 0)
      BY <3>1 DEF Rows
    <3>3. Rows = [k \in 1 .. 0 |-> [j \in DOMAIN out |-> Row(out[j])][k]]
      BY <3>2, FirstEntries
    <3> QED
      BY <3>3
  <2>2. ~Refused
    BY <2>1 DEF Refused
  <2>3. Drawn = BlankIntervals /\ Fill(Drawn, Axis)
    BY <1>1, <2>1, BlanksFillTheAxis DEF Drawn
  <2>4. {i \in Instants : start <= i /\ i < end} = {}
    <3>1. start \in Int /\ end \in Int /\ \A i \in Instants : i \in Int
      BY <1>1, InstantsAssumption DEF TypeOK
    <3>2. \A i \in Instants : ~(start <= i /\ i < end)
      BY <1>1, <3>1
    <3> QED
      BY <3>2
  <2> QED
    BY <2>2, <2>3, <2>4, FilledIsDrawn DEF PanelDrawsTheAnswer
<1>2. ASSUME Finished, start >= 0 PROVE PanelDrawsTheAnswer
  <2> DEFINE n == Len(out)
             d == Drawable
  <2>1. /\ d \in Nat
        /\ n \in Nat \ {0}
        /\ \/ d = n
           \/ d = n - 1 /\ Millis(out[n].left) = Millis(end)
    <3>1. n \in Nat \ {0} /\ out[n].left \in Int /\ out[n].left <= end /\ end \in Int
      <4>1. n \in Nat \ {0}
        BY <1>2, BinsOnThePage
      <4>2. n \in 1 .. n
        BY <4>1
      <4>3. out[n].left \in Int /\ out[n].right \in Int /\ out[n].left < out[n].right /\ out[n].right = end
        BY <1>2, <4>2, BinsOnThePage
      <4> QED
        BY <4>1, <4>3
    <3>2. Millis(out[n].left) \in Int /\ Millis(end) \in Int /\ Millis(out[n].left) <= Millis(end)
      BY <3>1, MillisType, MillisOrder
    <3>3. \/ d = n
          \/ d = n - 1 /\ ~(Millis(out[n].left) < Millis(end))
      BY DEF Drawable
    <3>4. d \in Nat
      BY <1>2, RowsAreBins
    <3>5. ~(Millis(out[n].left) < Millis(end)) => Millis(out[n].left) = Millis(end)
      BY <3>2
    <3> HIDE DEF n, d
    <3> QED
      BY <3>1, <3>3, <3>4, <3>5
  <2>2. Rows = [k \in 1 .. d |-> Row(out[k])]
    BY <1>2, RowsAreBins
  <2>4. Fill(Drawn, Axis) /\ ~Refused
    <3>1. CASE d = 0
      <4>1. Rows = <<>>
        BY <2>2, <3>1
      <4>2. Drawn = BlankIntervals /\ TypeOK
        BY <1>2, <4>1 DEF Drawn, Finished
      <4>3. ~Refused
        BY <4>1 DEF Refused
      <4> QED
        BY <4>2, <4>3, BlanksFillTheAxis
    <3>2. CASE d # 0
      <4>1. Fill(Rows, Axis)
        BY <1>2, <3>2, RowsFillTheAxis
      <4>2. Drawn = Rows
        BY <4>1, FilledIsDrawn DEF Drawn
      <4>3. ~Refused
        BY <4>1 DEF Refused, Fill
      <4> QED
        BY <4>1, <4>2, <4>3
    <3> QED
      BY <3>1, <3>2
  <2> HIDE DEF n, d
  <2>5. ASSUME NEW t \in Instants, start <= t, t < end
        PROVE  LET mine == {k \in DOMAIN Rows : Rows[k].epoch = SqlBucket(t, bucket)}
               IN \/ /\ Cardinality(mine) = 1
                     /\ \A k \in mine : /\ Rows[k].start <= Millis(t)
                                        /\ Millis(t) < Rows[k].end \/ k = Len(Rows)
                  \/ /\ out[Len(out)].left <= t
                     /\ Millis(out[Len(out)].left) = Millis(end)
    <3> DEFINE mine == {k \in DOMAIN Rows : Rows[k].epoch = SqlBucket(t, bucket)}
    <3>1. t \in Int /\ Bins = 1 .. n
      BY <1>2, InstantsAssumption, BinsOnThePage DEF Bins, n
    <3>2. PICK k \in 1 .. n : /\ out[k].left <= t /\ t < out[k].right
                              /\ \A j \in 1 .. n : out[j].epoch = SqlBucket(t, bucket) <=> j = k
      BY <1>2, <2>5, <3>1, EventHasItsBin
    <3>3. \A j \in 1 .. d : /\ Rows[j].start = Millis(out[j].left)
                            /\ Rows[j].end = Millis(out[j].right)
                            /\ Rows[j].epoch = out[j].epoch
      BY <2>2 DEF Row
    <3>4. DOMAIN Rows = 1 .. d /\ Len(Rows) = d
      BY <2>1, <2>2
    <3>5. CASE k \in 1 .. d
      <4>1. mine = {k}
        BY <2>1, <3>2, <3>3, <3>4, <3>5
      <4>2. Cardinality(mine) = 1
        BY <4>1, FS_Singleton
      <4>3. Rows[k].start <= Millis(t)
        <5>1. out[k].left \in Int
          BY <1>2, <3>2, BinsOnThePage DEF n
        <5> QED
          BY <3>1, <3>2, <3>3, <3>5, <5>1, MillisOrder
      <4>4. ASSUME k # d PROVE Millis(t) < Rows[k].end
        <5>1. k # n
          BY <2>1, <3>5, <4>4
        <5>2. PICK c \in Int : out[k].right = c * TicksPerMilli
          BY <1>2, <3>2, <5>1, BinsOnThePage DEF n
        <5>3. Millis(t) < c /\ Rows[k].end = c
          BY <3>1, <3>2, <3>3, <3>5, <5>2, WholeMillis
        <5> QED
          BY <5>3
      <4> HIDE DEF mine
      <4>5. \A j \in mine : /\ Rows[j].start <= Millis(t)
                            /\ Millis(t) < Rows[j].end \/ j = Len(Rows)
        BY <3>4, <4>1, <4>3, <4>4
      <4> QED
        BY <4>2, <4>5 DEF mine
    <3>6. CASE k \notin 1 .. d
      <4>1. k = n /\ Millis(out[n].left) = Millis(end)
        BY <2>1, <3>2, <3>6
      <4> QED
        BY <3>2, <4>1 DEF n
    <3> QED
      BY <3>5, <3>6
  <2> QED
    BY <2>4, <2>5, FilledIsDrawn DEF PanelDrawsTheAnswer
<1>3. TypeOK /\ WindowInv /\ LoopInv => PanelDrawsTheAnswer
  <2> SUFFICES ASSUME TypeOK, WindowInv, LoopInv, pc = "done", start >= 0
               PROVE  PanelDrawsTheAnswer
    BY DEF PanelDrawsTheAnswer
  <2> QED
    BY <1>1, <1>2 DEF LoopInv, WindowInv, Finished
<1> QED
  BY <1>3, TimelineInv, PTL

-----------------------------------------------------------------------------
(* The repository list of the page *)

\* A request the effect may send.
LEMMA RequestFields ==
  ASSUME NEW s \in {"none", "sent", "answered", "failed"}, NEW r \in ListRanges, NEW n \in Nat,
         NEW f \in BOOLEAN, NEW v \in Versions
  PROVE  [status |-> s, range |-> r, nonce |-> n, fresh |-> f, version |-> v] \in Request
BY DEF Request

\* Answering changes the status and the version only.
LEMMA AnswerFields ==
  ASSUME NEW q \in Request, NEW v \in Versions
  PROVE  LET r == [q EXCEPT !.status = "answered", !.version = v]
         IN r \in Request /\ r.nonce = q.nonce /\ r.version = v
BY DEF Request

\* The version before the first ingest.
LEMMA ZeroIsVersion == 0 \in Versions
BY BoundsAssumption DEF Versions

\* What the server may answer.
LEMMA Answered ==
  ASSUME Answer, ListTypeOK
  PROVE  \E v \in 0 .. committed :
           /\ request' = [request EXCEPT !.status = "answered", !.version = v]
           /\ request.fresh => v = committed
<1>1. CASE request.fresh
  <2>1. request' = [request EXCEPT !.status = "answered", !.version = committed]
    BY <1>1 DEF Answer
  <2>2. committed \in 0 .. committed
    BY BoundsAssumption DEF ListTypeOK, Versions
  <2> QED
    BY <2>1, <2>2
<1>2. CASE ~request.fresh
  BY <1>2 DEF Answer
<1> QED
  BY <1>1, <1>2

\* The type invariant is inductive.
THEOREM ListTypeCorrect == ListSpec => []ListTypeOK
<1>1. ListInit => ListTypeOK
  <2> SUFFICES ASSUME ListInit PROVE ListTypeOK
    OBVIOUS
  <2>1. request \in Request /\ request.nonce = 0 /\ request.version = 0
    BY InitialAssumption, ZeroIsVersion, RequestFields DEF ListInit
  <2>2. list \in List
    BY InitialAssumption, ZeroIsVersion DEF ListInit, NoList, List
  <2>3. effectDue \in BOOLEAN /\ failed \in BOOLEAN /\ closed \in BOOLEAN
    BY DEF ListInit
  <2>4. /\ committed \in Versions /\ told \in 0 .. committed /\ selects \in 0 .. MaxSelects
        /\ range \in ListRanges /\ nonce \in Nat /\ handled \in 0 .. nonce
        /\ nonce = 0 /\ committed = 0
    BY InitialAssumption, BoundsAssumption DEF ListInit, Versions
  <2> QED
    BY <2>1, <2>2, <2>3, <2>4 DEF ListTypeOK
<1>2. ASSUME ListTypeOK, [ListNext]_listVars
      PROVE  ListTypeOK'
  <2> USE <1>2, InitialAssumption, BoundsAssumption DEF ListTypeOK, Versions
  <2>1. CASE Commit
    <3>1. request.version \in Nat /\ told \in Nat /\ committed' = committed + 1 /\ committed' \in Versions
      BY <2>1 DEF Commit, Request
    <3> QED
      BY <2>1, <3>1 DEF Commit, shown
  <2>2. CASE IngestDone
    BY <2>2 DEF IngestDone, shown, Request
  <2>3. ASSUME NEW r \in ListRanges, SelectRange(r)
        PROVE  ListTypeOK'
    BY <2>3 DEF SelectRange, List, NoList
  <2>4. CASE Effect
    <3>1. IsFresh \in BOOLEAN
      BY DEF IsFresh
    <3>2. request' \in Request /\ request'.nonce = nonce /\ request'.version = 0
      BY <2>4, <3>1, RequestFields, ZeroIsVersion DEF Effect
    <3>3. effectDue' \in BOOLEAN /\ failed' \in BOOLEAN
      BY <2>4 DEF Effect
    <3> QED
      BY <2>4, <3>2, <3>3 DEF Effect, outside, HandledByRequest
  <2>5. CASE Answer
    <3>1. PICK v \in 0 .. committed : request' = [request EXCEPT !.status = "answered", !.version = v]
      BY <2>5, Answered
    <3>2. v \in Versions
      OBVIOUS
    <3>3. request' \in Request /\ request'.nonce = request.nonce /\ request'.version = v
      BY <3>1, <3>2, AnswerFields
    <3> QED
      BY <2>5, <3>3 DEF Answer, outside, shown
  <2>6. CASE Fail
    BY <2>6 DEF Fail, outside, shown, Request
  <2>7. CASE Resolve
    BY <2>7 DEF Resolve, outside, Request, List
  <2>8. CASE Reject
    BY <2>8 DEF Reject, outside, Request
  <2>9. CASE Close
    BY <2>9 DEF Close, outside, shown
  <2>10. CASE UNCHANGED listVars
    BY <2>10 DEF listVars
  <2> QED
    BY <2>1, <2>2, <2>3, <2>4, <2>5, <2>6, <2>7, <2>8, <2>9, <2>10 DEF ListNext
<1> QED
  BY <1>1, <1>2, PTL DEF ListSpec

-----------------------------------------------------------------------------
(* The list never goes back *)

UnderWay == request.status # "none"

ListIsCurrent == list.present /\ list.range = range

\* Between two runs of the effect the request is of the range; when a change of
\* the range is the reason for the next run it is of another.
RequestIsOfRange ==
  UnderWay =>
    /\ ~effectDue => request.range = range /\ request.nonce = nonce
    /\ effectDue /\ request.nonce = nonce => request.range # range

\* Only a fresh request can be the one of a nonce that is not handled.
OnlyFreshHandles ==
  UnderWay /\ ~request.fresh => request.nonce = handled

FreshIsUnhandled ==
  UnderWay /\ request.fresh => handled # request.nonce

\* Nothing is asked of the cache while the list of the range is shown.
NoCachedQuestion ==
  /\ effectDue /\ nonce = handled => ~ListIsCurrent
  /\ UnderWay /\ ~request.fresh /\ request.range = range => ~ListIsCurrent

\* An answer past the cache is as new as anything shown.
FreshAnswersAreNew ==
  /\ list.version <= committed
  /\ request.status = "answered" /\ request.fresh => request.version >= list.version

ListInv ==
  /\ RequestIsOfRange /\ OnlyFreshHandles /\ FreshIsUnhandled
  /\ NoCachedQuestion /\ FreshAnswersAreNew

\* Nothing is asked, and nothing shown, at first.
LEMMA ListInvInit == ListInit => ListInv
BY DEF ListInit, ListInv, RequestIsOfRange, OnlyFreshHandles, FreshIsUnhandled,
   NoCachedQuestion, FreshAnswersAreNew, UnderWay, ListIsCurrent, NoList

\* Every step keeps ListInv: one case for each action.
LEMMA ListInvStep ==
  ASSUME ListTypeOK, ListTypeOK', ListInv, [ListNext]_listVars
  PROVE  ListInv'
<1> USE DEF UnderWay, ListIsCurrent
<1>1. ASSUME Commit \/ Close \/ UNCHANGED listVars
      PROVE  ListInv'
  BY <1>1 DEF Commit, Close, listVars, outside, shown,
     ListTypeOK, Versions, List, ListInv, RequestIsOfRange,
     OnlyFreshHandles, FreshIsUnhandled, NoCachedQuestion, FreshAnswersAreNew
<1>2. CASE IngestDone
  BY <1>2 DEF IngestDone, shown, ListTypeOK, Request, ListInv,
     RequestIsOfRange, OnlyFreshHandles, FreshIsUnhandled, NoCachedQuestion,
     FreshAnswersAreNew
<1>3. ASSUME NEW r \in ListRanges, SelectRange(r)
      PROVE  ListInv'
  <2>1. /\ ~effectDue /\ range' = r /\ (effectDue' <=> r # range)
        /\ ~list'.present /\ list'.version = 0
        /\ UNCHANGED <<committed, nonce, handled, request>>
    BY <1>3 DEF SelectRange, NoList
  <2>2. RequestIsOfRange'
    BY <2>1 DEF ListInv, RequestIsOfRange
  <2>3. OnlyFreshHandles' /\ FreshIsUnhandled' /\ NoCachedQuestion'
    BY <2>1 DEF ListInv, OnlyFreshHandles, FreshIsUnhandled, NoCachedQuestion
  <2>4. FreshAnswersAreNew'
    BY <2>1 DEF ListTypeOK, Request, Versions, FreshAnswersAreNew
  <2> QED
    BY <2>2, <2>3, <2>4 DEF ListInv
<1>4. CASE Effect
  <2>1. /\ request'.nonce = nonce /\ request'.range = range
        /\ request'.status = "sent" /\ (request'.fresh <=> nonce # handled)
    BY <1>4 DEF Effect, IsFresh
  <2> QED
    BY <1>4, <2>1 DEF Effect, HandledByRequest, outside, ListTypeOK,
       ListInv, RequestIsOfRange, OnlyFreshHandles, FreshIsUnhandled, NoCachedQuestion,
       FreshAnswersAreNew
<1>5. CASE Answer
  <2>1. PICK v \in 0 .. committed :
          /\ request' = [request EXCEPT !.status = "answered", !.version = v]
          /\ request.fresh => v = committed
    BY <1>5, Answered
  <2>2. /\ request'.nonce = request.nonce /\ request'.range = request.range
        /\ request'.fresh = request.fresh /\ request'.version = v
        /\ request.status = "sent"
    BY <1>5, <2>1 DEF Answer, ListTypeOK, Request
  <2> QED
    BY <1>5, <2>1, <2>2 DEF Answer, outside, shown, ListTypeOK,
       ListInv, RequestIsOfRange, OnlyFreshHandles, FreshIsUnhandled, NoCachedQuestion,
       FreshAnswersAreNew
<1>6. CASE Fail
  BY <1>6 DEF Fail, outside, shown, ListTypeOK, Request,
     ListInv, RequestIsOfRange, OnlyFreshHandles, FreshIsUnhandled, NoCachedQuestion,
     FreshAnswersAreNew
<1>7. CASE Resolve
  <2>1. /\ request'.status = "none" /\ request'.fresh = request.fresh
        /\ list'.range = request.range /\ list'.version = request.version
    BY <1>7 DEF Resolve, ListTypeOK, Request
  <2>2. RequestIsOfRange' /\ OnlyFreshHandles' /\ FreshIsUnhandled'
    BY <2>1 DEF RequestIsOfRange, OnlyFreshHandles, FreshIsUnhandled
  <2>3. request.version <= committed
    BY DEF ListTypeOK
  <2>4. NoCachedQuestion'
    BY <1>7, <2>1 DEF Resolve, ListInv, RequestIsOfRange, OnlyFreshHandles,
       NoCachedQuestion
  <2>5. FreshAnswersAreNew'
    BY <1>7, <2>1, <2>3 DEF Resolve, outside, FreshAnswersAreNew
  <2> QED
    BY <2>2, <2>4, <2>5 DEF ListInv
<1>8. CASE Reject
  BY <1>8 DEF Reject, outside, ListTypeOK, Request, ListInv,
     RequestIsOfRange, OnlyFreshHandles, FreshIsUnhandled, NoCachedQuestion,
     FreshAnswersAreNew
<1> QED
  BY <1>1, <1>2, <1>3, <1>4, <1>5, <1>6, <1>7, <1>8 DEF ListNext

\* The inductive invariant of the list.
LEMMA ListInvHolds == ListSpec => []ListInv
<1>1. ListTypeOK /\ ListTypeOK' /\ ListInv /\ [ListNext]_listVars => ListInv'
  BY ListInvStep
<1> QED
  BY <1>1, ListInvInit, ListTypeCorrect, PTL DEF ListSpec

\* Staying on a range, the page never replaces its list by an older one: an answer
\* from the cache finds no list of the range, one past the cache is as new.
THEOREM ListNeverGoesBackHolds == ListSpec => ListNeverGoesBack
<1>1. ASSUME ListInv, ListTypeOK, [ListNext]_listVars,
             list.present, list.range = range, list'.present, list'.range = range'
      PROVE  list'.version >= list.version
  <2>1. CASE Resolve
    BY <1>1, <2>1 DEF Resolve, ListTypeOK, Request, List,
       Versions, ListInv, NoCachedQuestion, FreshAnswersAreNew, UnderWay,
       ListIsCurrent
  <2>2. ASSUME NEW r \in ListRanges, SelectRange(r)
        PROVE  FALSE
    BY <1>1, <2>2 DEF SelectRange, NoList
  <2>3. CASE UNCHANGED list
    BY <1>1, <2>3 DEF ListTypeOK, List, Versions
  <2> QED
    BY <1>1, <2>1, <2>2, <2>3 DEF ListNext, listVars, shown, Commit,
       IngestDone, Effect, Answer, Fail, Reject,
       Close
<1> QED
  BY <1>1, ListTypeCorrect, ListInvHolds, PTL DEF ListSpec, ListNeverGoesBack

-----------------------------------------------------------------------------
(* A refresh is under way until it is shown *)

\* While an ingest the page was told of is not handled, its question is about to
\* be asked, or has been asked past the cache and not answered from before it;
\* or the list is known to be out of date.
RefreshIsUnderWay ==
  nonce # handled =>
    \/ effectDue \/ failed \/ closed
    \/ /\ UnderWay /\ request.fresh /\ request.nonce = nonce
       /\ request.status = "answered" => request.version >= told

\* What makes the last ingest handled is a list that shows it.
HandledIsShown ==
  [][ nonce # handled /\ nonce' = handled' => list'.present /\ list'.version >= told' ]_listVars

\* A request for the latest nonce was sent after the page was told of it.
AnswersWhatWasTold ==
  UnderWay /\ request.fresh /\ request.nonce = nonce /\ request.status = "answered" =>
    request.version >= told

\* The request goes only when its nonce is handled or its failure is shown.
SomethingIsUnderWay ==
  nonce # handled => UnderWay \/ effectDue \/ failed \/ closed

RefreshInv == AnswersWhatWasTold /\ SomethingIsUnderWay

\* Every step keeps RefreshInv.
LEMMA NextRefreshInv ==
  ASSUME ListTypeOK, ListInv, RefreshInv, [ListNext]_listVars
  PROVE  RefreshInv'
<1> USE DEF RefreshInv, AnswersWhatWasTold, SomethingIsUnderWay, UnderWay
<1>0. /\ told \in Nat /\ committed \in Nat /\ told <= committed
      /\ nonce \in Nat /\ request.nonce \in Nat /\ request.nonce <= nonce
  BY DEF ListTypeOK, Versions, Request
<1>1. CASE Commit \/ Close \/ UNCHANGED listVars
  BY <1>1 DEF Commit, Close, listVars, outside, shown
<1>2. CASE IngestDone
  BY <1>0, <1>2 DEF IngestDone
<1>3. ASSUME NEW r \in ListRanges, SelectRange(r) PROVE RefreshInv'
  BY <1>3 DEF SelectRange
<1>4. CASE Effect
  BY <1>4 DEF Effect
<1>5. CASE Answer
  <2>1. PICK v \in 0 .. committed :
          /\ request' = [request EXCEPT !.status = "answered", !.version = v]
          /\ request.fresh => v = committed
    BY <1>5, Answered
  <2>2. /\ request'.nonce = request.nonce /\ request'.fresh = request.fresh
        /\ request'.version = v /\ request'.status = "answered"
    BY <2>1 DEF ListTypeOK, Request
  <2>3. UNCHANGED <<told, nonce, handled, effectDue, failed, closed>>
    BY <1>5 DEF Answer, outside, shown
  <2> QED
    BY <1>0, <2>1, <2>2, <2>3
<1>6. CASE Fail
  BY <1>6 DEF Fail, outside, shown, ListTypeOK, Request
<1>7. CASE Resolve
  <2>1. request'.status = "none" /\ UNCHANGED <<nonce, effectDue, failed, closed>>
    BY <1>7 DEF Resolve, ListTypeOK, Request
  <2>2. UnderWay /\ handled' = IF request.fresh THEN request.nonce ELSE handled
    BY <1>7 DEF Resolve
  <2>3. ~effectDue => handled' = nonce
    BY <2>2 DEF ListInv, RequestIsOfRange, OnlyFreshHandles
  <2> QED
    BY <2>1, <2>3
<1>8. CASE Reject
  BY <1>8 DEF Reject, outside, ListTypeOK, Request
<1> QED
  BY <1>1, <1>2, <1>3, <1>4, <1>5, <1>6, <1>7, <1>8 DEF ListNext

\* Nothing is to be refreshed at first.
LEMMA RefreshInvHolds == ListSpec => []RefreshInv
<1>1. ListInit => RefreshInv
  BY DEF ListInit, RefreshInv, AnswersWhatWasTold, SomethingIsUnderWay, UnderWay
<1>2. ListTypeOK /\ ListInv /\ RefreshInv /\ [ListNext]_listVars => RefreshInv'
  BY NextRefreshInv
<1> QED
  BY <1>1, <1>2, ListTypeCorrect, ListInvHolds, PTL DEF ListSpec

\* Aborting the request of a refresh loses nothing: a change of the range that
\* mutes it, a later ingest or a late answer leaves the refresh about to be asked
\* for or under way, and past the cache.  With the fairness of FairSpec these
\* end, which is RefreshIsNotLost.
THEOREM RefreshIsUnderWayHolds == ListSpec => []RefreshIsUnderWay
<1>1. ListInv /\ RefreshInv => RefreshIsUnderWay
  BY DEF ListInv, RequestIsOfRange, OnlyFreshHandles, RefreshInv, AnswersWhatWasTold,
     SomethingIsUnderWay, RefreshIsUnderWay
<1> QED
  BY <1>1, ListInvHolds, RefreshInvHolds, PTL

\* The page stops asking past the cache only when it shows what it was told of.
THEOREM HandledIsShownHolds == ListSpec => HandledIsShown
<1>1. ASSUME ListTypeOK, ListInv, RefreshInv, [ListNext]_listVars, nonce # handled, nonce' = handled'
      PROVE  list'.present /\ list'.version >= told'
  <2>1. CASE Resolve
    <3>1. request.status = "answered" /\ UnderWay /\ UNCHANGED <<told, nonce>>
      BY <2>1 DEF Resolve, UnderWay, outside
    <3>2. request.fresh /\ request.nonce = nonce
      BY <1>1, <2>1, <3>1 DEF Resolve
    <3>3. request.version >= told
      BY <1>1, <3>1, <3>2 DEF RefreshInv, AnswersWhatWasTold
    <3>4. list'.present /\ list'.version = request.version
      BY <2>1 DEF Resolve
    <3> QED
      BY <3>1, <3>3, <3>4
  <2>2. CASE IngestDone
    <3>1. nonce' = nonce + 1 /\ handled' = handled
      BY <2>2 DEF IngestDone
    <3>2. nonce \in Nat /\ handled \in Nat /\ handled <= nonce
      BY <1>1 DEF ListTypeOK
    <3>3. nonce' # handled'
      BY <3>1, <3>2
    <3> QED
      BY <1>1, <3>3
  <2>3. ASSUME NEW r \in ListRanges, SelectRange(r) PROVE FALSE
    BY <1>1, <2>3 DEF SelectRange
  <2>4. CASE UNCHANGED <<nonce, handled>>
    BY <1>1, <2>4
  <2> QED
    BY <1>1, <2>1, <2>2, <2>3, <2>4 DEF ListNext, listVars, outside, shown, Commit,
       Effect, HandledByRequest, Answer, Fail, Reject, Close
<1> QED
  BY <1>1, ListTypeCorrect, ListInvHolds, RefreshInvHolds, PTL DEF ListSpec, HandledIsShown

=============================================================================
