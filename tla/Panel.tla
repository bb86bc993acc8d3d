-------------------------------- MODULE Panel --------------------------------
(***************************************************************************)
(* What a time-series panel makes of the bins it is sent: dashboardToView- *)
(* Model and normalizeBuckets in src/app.jsx, normalizedDenseIntervals and *)
(* boundedTimeIntervals in src/dashboard-charts.jsx.                       *)
(*                                                                         *)
(* The server's instants are microseconds, the page's milliseconds.  A     *)
(* panel is a function of the answer: the operators here are over a        *)
(* finished timeline of module Timeline.                                   *)
(***************************************************************************)
EXTENDS Timeline, Filtering

CONSTANTS
  TicksPerMilli,
  DayMillis        \* 86_400_000 in the code

ASSUME MilliAssumption ==
  /\ TicksPerMilli \in Nat \ {0}
  /\ TicksPerSecond % TicksPerMilli = 0
ASSUME DayAssumption == DayMillis \in Nat \ {0}

\* Date.parse cuts the digits after the third.
Millis(t) == t \div TicksPerMilli

BinMs == bucket * (TicksPerSecond \div TicksPerMilli)

\* A range that has no length at the page's precision becomes one day.
Axis == [start |-> Millis(start),
          end |-> IF Millis(end) > Millis(start) THEN Millis(end)
                  ELSE Millis(start) + DayMillis]

Row(bin) == [start |-> Millis(bin.left), end |-> Millis(bin.right), epoch |-> bin.epoch]

\* Mutant of HasLength: rows that the panel will refuse are kept.
MayBeEmpty(row) == row.end >= row.start

\* normalizeBuckets keeps the rows that have a length at the page's precision.
HasLength(row) == row.end > row.start

Rows ==
  Entries([k \in DOMAIN out |-> Row(out[k])], {k \in DOMAIN out : HasLength(Row(out[k]))})

\* normalizedDenseIntervals throws a TypeError, and no panel is drawn.
Refused ==
  \E k \in DOMAIN Rows :
    \/ Rows[k].end <= Rows[k].start
    \/ Rows[k].start < Axis.start
    \/ Rows[k].end > Axis.end
    \/ Rows[k].start # (IF k = 1 THEN Axis.start ELSE Rows[k - 1].end)
    \/ k = Len(Rows) /\ Rows[k].end # Axis.end

\* boundedTimeIntervals, when there are no rows: width by width from the left edge.
BlankIntervals ==
  LET length == Axis.end - Axis.start
  IN [k \in 1 .. (length + BinMs - 1) \div BinMs |->
        [start |-> Axis.start + (k - 1) * BinMs,
         end |-> Earlier(Axis.start + k * BinMs, Axis.end)]]

Drawn == IF Rows = <<>> THEN BlankIntervals ELSE Rows

-----------------------------------------------------------------------------
(* Properties *)

\* Three calculations of one bin: PostgreSQL groups the events, Python lays the
\* bins out, and the panel, in milliseconds, "validates [the rows] as complete
\* contiguous coverage" (src/dashboard-charts.jsx) of a range it has rounded
\* itself.  For every range that starts in 1970 or later the panel is drawn, its
\* intervals fill its axis without gap or overlap, and every event of the range
\* is counted in exactly one of them, the one that covers it.  Only the events
\* of a last bin thinner than a millisecond are missing.
PanelDrawsTheAnswer ==
  pc = "done" /\ start >= 0 =>
    /\ ~Refused
    /\ Drawn[1].start = Axis.start /\ Drawn[Len(Drawn)].end = Axis.end
    /\ \A k \in DOMAIN Drawn : Drawn[k].start < Drawn[k].end
    /\ \A k \in DOMAIN Drawn \ {1} : Drawn[k].start = Drawn[k - 1].end
    /\ \A t \in {i \in Instants : start <= i /\ i < end} :
         LET mine == {k \in DOMAIN Rows : Rows[k].epoch = SqlBucket(t, bucket)}
         IN \/ /\ Cardinality(mine) = 1
               /\ \A k \in mine :
                    /\ Rows[k].start <= Millis(t)
                    /\ Millis(t) < Rows[k].end \/ k = Len(Rows)
            \/ /\ out[Len(out)].left <= t
               /\ Millis(out[Len(out)].left) = Millis(end)

=============================================================================
