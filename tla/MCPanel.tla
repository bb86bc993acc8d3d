------------------------------- MODULE MCPanel -------------------------------
(* Values for checking Timeline and Panel with TLC: four ticks to a second   *)
(* and two to a millisecond.                                                 *)
EXTENDS Panel

\* A second and a half before 1970 to ten seconds after it.
Around1970 == -6 .. 40
FirstInstant == -6
After1970 == 1 .. 40

\* Half a second to twelve and a half; the longest begins before FirstInstant.
SomeRanges == {2, 7, 13, 24, 37, 40, 50}

ThreeWidths == <<1, 2, 3>>

=============================================================================
