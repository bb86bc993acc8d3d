---------------------------- MODULE SnapshotStore ----------------------------
(***************************************************************************)
(* What the current-state tables promise their readers: a run offers a     *)
(* complete valid snapshot, and either the tables become exactly that      *)
(* snapshot at once, data_changed telling truly whether they differed from *)
(* it, or nothing happens.                                                 *)
(***************************************************************************)
EXTENDS SnapshotShapes

VARIABLES content, dataChanged,
          offered   \* the snapshot of the run under way, else empty

Init == content = EmptySnapshot /\ dataChanged = FALSE /\ offered = EmptySnapshot

Offer ==
  /\ offered' \in Snapshots
  /\ UNCHANGED <<content, dataChanged>>

Replace ==
  /\ content' = offered
  /\ dataChanged' = (content' # content)
  /\ offered' = EmptySnapshot

Withdraw ==
  /\ offered' = EmptySnapshot
  /\ UNCHANGED <<content, dataChanged>>

Next == Offer \/ Replace \/ Withdraw

Spec == Init /\ [][Next]_<<content, dataChanged, offered>>

=============================================================================
