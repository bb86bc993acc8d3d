--------------------------- MODULE MCDashboardRead ---------------------------
(* Values for checking DashboardRead with TLC. *)
EXTENDS DashboardRead

CONSTANTS r1, r2

TwoRepositories == {r1, r2}

Item(r, created, state, closed) ==
  [repository |-> r, created |-> created, state |-> state, closed |-> closed]

\* One repository that has lost its items, another, or both; open, completed and
\* otherwise closed items, inside and outside the short range.
SomeContents ==
  {[repositories |-> {r2}, items |-> {}],
   [repositories |-> {r1}, items |-> {Item(r1, 1, "open", 0)}],
   [repositories |-> {r1}, items |-> {Item(r1, 3, "open", 0), Item(r1, 1, "completed", 3)}],
   [repositories |-> {r1, r2}, items |-> {Item(r1, 3, "unknown", 3), Item(r2, 2, "open", 0)}]}

=============================================================================
