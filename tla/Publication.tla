----------------------------- MODULE Publication -----------------------------
(***************************************************************************)
(* What an ingest promises to those who read its results: browsers are     *)
(* told that a run is done only when the response cache no longer vouches  *)
(* for anything older than what is stored.  How a run gets there, what it  *)
(* records and where it fails is left open; Ingest implements this.        *)
(***************************************************************************)
EXTENDS Naturals

VARIABLES
  stored,   \* version of the current-state tables
  covered,  \* version the cache was last made stale for
  event     \* the last event handed to the broadcaster

vars == <<stored, covered, event>>

NoEvent == [kind |-> "none", version |-> 0]

Init == stored = 0 /\ covered = 0 /\ event = NoEvent

\* A snapshot is committed; it may be the one that is stored already.
Store ==
  /\ stored' \in {stored, stored + 1}
  /\ UNCHANGED <<covered, event>>

Cover ==
  /\ covered' = stored
  /\ UNCHANGED <<stored, event>>

\* Never before the cache covers what the event speaks of.
Announce ==
  /\ covered = stored
  /\ event' = [kind |-> "ingest_done", version |-> stored]
  /\ UNCHANGED <<stored, covered>>

AnnounceFailure ==
  /\ event' = [event EXCEPT !.kind = "ingest_failed"]
  /\ UNCHANGED <<stored, covered>>

\* A new process has an empty cache and no subscribers.
Restart ==
  /\ covered' = stored
  /\ event' = NoEvent
  /\ UNCHANGED stored

Next == Store \/ Cover \/ Announce \/ AnnounceFailure \/ Restart

Spec == Init /\ [][Next]_vars

=============================================================================
