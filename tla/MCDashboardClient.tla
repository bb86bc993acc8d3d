-------------------------- MODULE MCDashboardClient --------------------------
(* Model values for checking DashboardClient with TLC. *)
EXTENDS DashboardClient

CONSTANTS month, week

TwoSelections == {month, week}

=============================================================================
