------------------------------ MODULE Reconcile ------------------------------
(***************************************************************************)
(* The transaction of _commit_snapshot in backend/ingest.py, statement by  *)
(* statement: upserts of repositories, issues and pull requests, the       *)
(* last_seen_at update, the deletion of unseen rows with the cascades of   *)
(* backend/schema.sql, and the commit.  A statement may fail, and the      *)
(* process may die, between any two of them.                               *)
(*                                                                         *)
(* The columns a snapshot carries besides the repository reference are one *)
(* abstract `body`; the transaction's time is the number of its run.       *)
(***************************************************************************)
EXTENDS SnapshotShapes, Functions, FiniteSets

CONSTANT MaxRuns   \* bound: transactions in a behaviour

ASSUME RunsAssumption == MaxRuns \in Nat
\* The node ids that ever occur.
ASSUME FiniteIds ==
  IsFiniteSet(Repositories) /\ IsFiniteSet(Issues) /\ IsFiniteSet(PullRequests)

VARIABLES
  db,          \* the committed tables
  work,        \* the tables as the open transaction sees them
  stage,       \* "idle", or what the transaction does next
  snapshot,    \* the validated snapshot being applied
  todo,        \* its rows that are not upserted yet
  counts,      \* the six counters of the run
  now,         \* runs begun so far: the open transaction's committed_at
  syncedAt,    \* sync_state.last_committed_at
  dataChanged  \* ingest_runs.data_changed of the last committed run

vars == <<db, work, stage, snapshot, todo, counts, now, syncedAt, dataChanged>>

Stages == {"idle", "upsert", "delete_issues", "delete_pull_requests",
           "delete_repositories", "commit"}

RepositoryRow == [body : Bodies, firstSeen : Nat, lastSeen : Nat]

IsTable(table, ids, rows) == DOMAIN table \subseteq ids /\ table \in [DOMAIN table -> rows]

IsDatabase(tables) ==
  /\ DOMAIN tables = Tables
  /\ IsTable(tables.repositories, Repositories, RepositoryRow)
  /\ IsTable(tables.issues, Issues, ItemRow)
  /\ IsTable(tables.pull_requests, PullRequests, ItemRow)

Counter == [Tables -> Nat]
NoCount == [t \in Tables |-> 0]
NoCounts == [upserted |-> NoCount, deleted |-> NoCount]
NothingToDo == [t \in Tables |-> {}]

\* Type invariant; what is still to be upserted is part of the snapshot.
TypeOK ==
  /\ IsDatabase(db)
  /\ IsDatabase(work)
  /\ stage \in Stages
  /\ snapshot \in Snapshots
  /\ DOMAIN todo = Tables /\ \A t \in Tables : todo[t] \subseteq DOMAIN snapshot[t]
  /\ counts \in [upserted : Counter, deleted : Counter]
  /\ now \in 0 .. MaxRuns
  /\ syncedAt \in 0 .. now
  /\ dataChanged \in BOOLEAN

Init ==
  /\ db = EmptySnapshot
  /\ work = EmptySnapshot
  /\ stage = "idle"
  /\ snapshot = EmptySnapshot
  /\ todo = NothingToDo
  /\ counts = NoCounts
  /\ now = 0
  /\ syncedAt = 0
  /\ dataChanged = FALSE

-----------------------------------------------------------------------------
(* Statements *)

\* The table with row n inserted or replaced.
WithRow(table, n, row) ==
  [m \in DOMAIN table \cup {n} |-> IF m = n THEN row ELSE table[m]]

Tally(kind, table, k) == counts' = [counts EXCEPT ![kind][table] = @ + k]

Done(table, n) == todo' = [todo EXCEPT ![table] = @ \ {n}]

\* BEGIN; the transaction works on the tables as committed.
Begin ==
  /\ stage = "idle"
  /\ now < MaxRuns
  /\ snapshot' \in Snapshots
  /\ stage' = "upsert"
  /\ work' = db
  /\ todo' = [t \in Tables |-> DOMAIN snapshot'[t]]
  /\ counts' = NoCounts
  /\ now' = now + 1
  /\ UNCHANGED <<db, syncedAt, dataChanged>>

\* first_seen_at is inserted and never updated.
FirstSeen(r) ==
  IF r \in DOMAIN work.repositories THEN work.repositories[r].firstSeen ELSE now

\* INSERT ... ON CONFLICT DO UPDATE ... WHERE a compared column differs:
\* counted when it inserts or updates.
UpsertRepository(r) ==
  LET body == snapshot.repositories[r].body
      same == r \in DOMAIN work.repositories /\ work.repositories[r].body = body
      row == [body |-> body, firstSeen |-> FirstSeen(r), lastSeen |-> now]
  IN /\ stage = "upsert"
     /\ r \in todo.repositories
     /\ work' = IF same THEN work
                ELSE [work EXCEPT !.repositories = WithRow(@, r, row)]
     /\ Tally("upserted", "repositories", IF same THEN 0 ELSE 1)
     /\ Done("repositories", r)
     /\ UNCHANGED <<db, stage, snapshot, now, syncedAt, dataChanged>>

\* Mutant of InOrder: the three loops run in any order.
InAnyOrder(table) == TRUE

\* The rows of the tables before this one are all upserted.
InOrder(table) ==
  /\ todo.repositories = {}
  /\ table = "pull_requests" => todo.issues = {}

\* Mutant of Stored: the WHERE clause forgets the repository_node_id.
BodyStored(table, n) ==
  n \in DOMAIN work[table] /\ work[table][n].body = snapshot[table][n].body

\* No compared column of the stored item differs from the snapshot's.
Stored(table, n) == n \in DOMAIN work[table] /\ work[table][n] = snapshot[table][n]

\* Issues and pull requests: the same statement over their own columns; the
\* foreign key demands that the repository is stored.
UpsertItem(table, n) ==
  LET row == snapshot[table][n]
  IN /\ stage = "upsert"
     /\ InOrder(table)
     /\ n \in todo[table]
     /\ row.repository \in DOMAIN work.repositories
     /\ work' = IF Stored(table, n) THEN work
                ELSE [work EXCEPT ![table] = WithRow(@, n, row)]
     /\ Tally("upserted", table, IF Stored(table, n) THEN 0 ELSE 1)
     /\ Done(table, n)
     /\ UNCHANGED <<db, stage, snapshot, now, syncedAt, dataChanged>>

\* Mutant of Seen: the UPDATE statement is dropped.
NobodySeen == {}

\* The node ids of the snapshot's repositories.
Seen == DOMAIN snapshot.repositories

\* UPDATE repositories SET last_seen_at ... WHERE node_id = ANY(seen): not
\* counted as a change of data.
TouchSeen ==
  /\ stage = "upsert"
  /\ todo = NothingToDo
  /\ work' = [work EXCEPT !.repositories =
       [r \in DOMAIN @ |-> IF r \in Seen THEN [@[r] EXCEPT !.lastSeen = now] ELSE @[r]]]
  /\ stage' = "delete_issues"
  /\ UNCHANGED <<db, snapshot, todo, counts, now, syncedAt, dataChanged>>

Unseen(table) == DOMAIN work[table] \ DOMAIN snapshot[table]

\* Mutant of Deleted: the rows go, but are not counted.
DeletedUncounted(table, k) == UNCHANGED counts

Deleted(table, k) == Tally("deleted", table, k)

\* _delete_unseen: DELETE ... WHERE NOT (node_id = ANY(seen)) RETURNING node_id
DeleteUnseenItems(table) ==
  /\ work' = [work EXCEPT ![table] = Restrict(@, DOMAIN @ \ Unseen(table))]
  /\ Deleted(table, Cardinality(Unseen(table)))

DeleteUnseenIssues ==
  /\ stage = "delete_issues"
  /\ DeleteUnseenItems("issues")
  /\ stage' = "delete_pull_requests"
  /\ UNCHANGED <<db, snapshot, todo, now, syncedAt, dataChanged>>

DeleteUnseenPullRequests ==
  /\ stage = "delete_pull_requests"
  /\ DeleteUnseenItems("pull_requests")
  /\ stage' = "delete_repositories"
  /\ UNCHANGED <<db, snapshot, todo, now, syncedAt, dataChanged>>

\* ON DELETE CASCADE: the items of a deleted repository go with it.
Cascade(items, gone) ==
  Restrict(items, {n \in DOMAIN items : items[n].repository \notin gone})

DeleteUnseenRepositories ==
  LET gone == Unseen("repositories")
  IN /\ stage = "delete_repositories"
     /\ work' = [repositories |-> Restrict(work.repositories, DOMAIN work.repositories \ gone),
                 issues |-> Cascade(work.issues, gone),
                 pull_requests |-> Cascade(work.pull_requests, gone)]
     /\ Deleted("repositories", Cardinality(gone))
     /\ stage' = "commit"
     /\ UNCHANGED <<db, snapshot, todo, now, syncedAt, dataChanged>>

\* data_changed = any(six counters)
AnyChange == \E kind \in {"upserted", "deleted"}, t \in Tables : counts[kind][t] # 0

\* Mutant of DropRows: rows of an aborted run are left for the next one.
LeaveRows == UNCHANGED todo

DropRows == todo' = NothingToDo

\* Back to no transaction; the variables of run_ingest's frame are gone.
Close ==
  /\ stage' = "idle"
  /\ work' = EmptySnapshot
  /\ snapshot' = EmptySnapshot
  /\ DropRows
  /\ counts' = NoCounts
  /\ UNCHANGED now

\* sync_state and the audit row are written, then COMMIT.
Commit ==
  /\ stage = "commit"
  /\ db' = work
  /\ syncedAt' = now
  /\ dataChanged' = AnyChange
  /\ Close

\* A statement or the COMMIT raises, or the process dies: ROLLBACK.
Abort ==
  /\ stage # "idle"
  /\ Close
  /\ UNCHANGED <<db, syncedAt, dataChanged>>

Next ==
  \/ Begin
  \/ \E r \in Repositories : UpsertRepository(r)
  \/ \E i \in Issues : UpsertItem("issues", i)
  \/ \E p \in PullRequests : UpsertItem("pull_requests", p)
  \/ TouchSeen
  \/ DeleteUnseenIssues
  \/ DeleteUnseenPullRequests
  \/ DeleteUnseenRepositories
  \/ Commit
  \/ Abort

Spec == Init /\ [][Next]_vars

-----------------------------------------------------------------------------
(* Properties *)

\* What the dashboard reads of the tables: all but the observation times.
Content(tables) ==
  [tables EXCEPT !.repositories = [r \in DOMAIN @ |-> [body |-> @[r].body]]]

Store == INSTANCE SnapshotStore WITH content <- Content(db), offered <- snapshot

\* However the statements interleave with failures, a run either leaves the
\* committed tables alone or makes them exactly the validated snapshot it was
\* given, and data_changed is true exactly when that made a difference.
ReplacesAtomically == Store!Spec

\* The order "upsert, then delete; items before repositories" never breaks a
\* foreign key, not even inside the transaction, so no statement raises for it.
ForeignKeysHold ==
  /\ Referential(db) /\ Referential(work)
  /\ \A t \in ItemTables : \A n \in todo[t] :
       InOrder(t) => snapshot[t][n].repository \in DOMAIN work.repositories

\* Rows of b that a lacks or holds with another content.
Differing(a, b) == {n \in DOMAIN b : n \notin DOMAIN a \/ a[n] # b[n]}

\* The six counters of ingest_runs say exactly what the commit changes: no
\* row is counted twice, missed, or removed by a cascade nobody counts.
CountsAreExact ==
  stage = "commit" =>
    \A t \in Tables :
      LET before == Content(db)[t]
          after == Content(work)[t]
      IN /\ counts.upserted[t] = Cardinality(Differing(before, after))
         /\ counts.deleted[t] = Cardinality(DOMAIN before \ DOMAIN after)

\* first_seen_at survives every later run that sees the repository again, and
\* last_seen_at is truthful also for repositories a snapshot did not change:
\* all stored ones were seen by the last committed run.
SeenTimesAreTrue ==
  [][\A r \in DOMAIN db'.repositories :
       /\ r \in DOMAIN db.repositories =>
            db'.repositories[r].firstSeen = db.repositories[r].firstSeen
       /\ db'.repositories[r].lastSeen = syncedAt']_vars

=============================================================================
