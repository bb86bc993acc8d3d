--------------------------- MODULE ReconcileProofs ---------------------------
(***************************************************************************)
(* Theorems about the reconciliation transaction, for any finite sets of   *)
(* node ids, any contents and any number of runs; and, from the section on *)
(* validation on, about SnapshotValidation, whose accepted snapshots are   *)
(* those the transaction is given.                                         *)
(***************************************************************************)
EXTENDS Reconcile, SnapshotValidation, FiniteSetTheorems, TLAPS

-----------------------------------------------------------------------------
(* Snapshots and tables *)

\* A table without rows is a table.
LEMMA NoRowsAreATable ==
  ASSUME NEW ids, NEW rows
  PROVE  NoRows \in Table(ids, rows)
<1>1. NoRows \in [{} -> rows]
  BY DEF NoRows
<1> QED
  BY <1>1 DEF Table

\* The empty snapshot, which replaces everything by nothing, is one.
LEMMA EmptyIsASnapshot == EmptySnapshot \in Snapshots
<1>1. EmptySnapshot \in [repositories : Table(Repositories, [body : Bodies]),
                         issues : Table(Issues, ItemRow),
                         pull_requests : Table(PullRequests, ItemRow)]
  BY NoRowsAreATable DEF EmptySnapshot, Tables
<1>2. Referential(EmptySnapshot)
  BY DEF Referential, EmptySnapshot, NoRows, Tables, ItemTables
<1> QED
  BY <1>1, <1>2 DEF Snapshots

\* A database before the first ingest.
LEMMA EmptyIsADatabase ==
  /\ IsDatabase(EmptySnapshot)
  /\ Referential(EmptySnapshot)
  /\ \A t \in Tables : DOMAIN EmptySnapshot[t] = {}
BY DEF IsDatabase, IsTable, EmptySnapshot, NoRows, Tables, Referential, ItemTables

\* What _validate_snapshot promises of the tables of a snapshot.
LEMMA SnapshotRows ==
  ASSUME NEW s \in Snapshots
  PROVE  /\ DOMAIN s.repositories \subseteq Repositories
         /\ DOMAIN s.issues \subseteq Issues
         /\ DOMAIN s.pull_requests \subseteq PullRequests
         /\ s.repositories \in [DOMAIN s.repositories -> [body : Bodies]]
         /\ s.issues \in [DOMAIN s.issues -> ItemRow]
         /\ s.pull_requests \in [DOMAIN s.pull_requests -> ItemRow]
         /\ Referential(s)
BY DEF Snapshots, Table

\* The rows of a table of a database or a snapshot can be counted.
LEMMA RowsAreFinite ==
  ASSUME NEW t \in Tables, NEW d, IsDatabase(d) \/ d \in Snapshots
  PROVE  IsFiniteSet(DOMAIN d[t])
<1>1. \/ DOMAIN d[t] \subseteq Repositories
      \/ DOMAIN d[t] \subseteq Issues
      \/ DOMAIN d[t] \subseteq PullRequests
  BY SnapshotRows DEF Tables, IsDatabase, IsTable
<1> QED
  BY <1>1, FiniteIds, FS_Subset

-----------------------------------------------------------------------------
(* Type correctness *)

\* Every statement of the transaction leaves well-formed tables, counters that
\* do not fall below zero, and times that are not in the future.
THEOREM TypeCorrect == Spec => []TypeOK
<1>1. Init => TypeOK
  <2> SUFFICES ASSUME Init PROVE TypeOK
    OBVIOUS
  <2>1. IsDatabase(db) /\ IsDatabase(work) /\ snapshot \in Snapshots
    BY EmptyIsASnapshot, EmptyIsADatabase DEF Init
  <2>2. DOMAIN todo = Tables /\ \A t \in Tables : todo[t] \subseteq DOMAIN snapshot[t]
    BY DEF Init, NothingToDo
  <2>3. counts \in [upserted : Counter, deleted : Counter]
    BY DEF Init, NoCounts, NoCount, Counter
  <2>4. /\ stage \in Stages
        /\ now \in 0 .. MaxRuns
        /\ syncedAt \in 0 .. now
    BY RunsAssumption DEF Init, Stages
  <2>5. dataChanged \in BOOLEAN
    BY DEF Init
  <2> QED
    BY <2>1, <2>2, <2>3, <2>4, <2>5 DEF TypeOK
<1>2. TypeOK /\ [Next]_vars => TypeOK'
  <2> SUFFICES ASSUME TypeOK, [Next]_vars PROVE TypeOK'
    OBVIOUS
  <2>1. CASE Begin
    BY <2>1, RunsAssumption DEF TypeOK, Begin, NoCounts, NoCount, Counter, Stages
  <2>2. ASSUME NEW r \in Repositories, UpsertRepository(r) PROVE TypeOK'
    <3> DEFINE same == r \in DOMAIN work.repositories
                       /\ work.repositories[r].body = snapshot.repositories[r].body
               row == [body |-> snapshot.repositories[r].body,
                       firstSeen |-> FirstSeen(r), lastSeen |-> now]
    <3>1. row \in RepositoryRow
      BY <2>2, RunsAssumption, SnapshotRows
      DEF TypeOK, UpsertRepository, FirstSeen, IsDatabase, IsTable, RepositoryRow, Tables
    <3>2. IsDatabase(work')
      <4>1. CASE same
        BY <2>2, <4>1 DEF TypeOK, UpsertRepository
      <4>2. CASE ~same
        <5>1. work' = [work EXCEPT !.repositories = WithRow(@, r, row)]
          BY <2>2, <4>2 DEF UpsertRepository
        <5> QED
          BY <5>1, <3>1 DEF TypeOK, IsDatabase, IsTable, Tables, WithRow
      <4> QED
        BY <4>1, <4>2
    <3>3. counts' \in [upserted : Counter, deleted : Counter]
      BY <2>2 DEF TypeOK, UpsertRepository, Tally, Counter, Tables
    <3> QED
      BY <2>2, <3>2, <3>3 DEF TypeOK, UpsertRepository, Done
  <2>3. ASSUME NEW t \in ItemTables, NEW n, UpsertItem(t, n), n \in Issues \/ t # "issues",
               n \in PullRequests \/ t # "pull_requests"
        PROVE  TypeOK'
    <3>1. snapshot[t][n] \in ItemRow
      BY <2>3, SnapshotRows DEF TypeOK, UpsertItem, ItemTables, Tables
    <3>2. IsDatabase(work')
      <4>1. CASE Stored(t, n)
        BY <2>3, <4>1 DEF TypeOK, UpsertItem
      <4>2. CASE ~Stored(t, n)
        <5>1. work' = [work EXCEPT ![t] = WithRow(@, n, snapshot[t][n])]
          BY <2>3, <4>2 DEF UpsertItem
        <5> QED
          BY <5>1, <2>3, <3>1 DEF TypeOK, IsDatabase, IsTable, Tables, ItemTables, WithRow
      <4> QED
        BY <4>1, <4>2
    <3>3. counts' \in [upserted : Counter, deleted : Counter]
      BY <2>3 DEF TypeOK, UpsertItem, Tally, Counter, Tables, ItemTables
    <3> QED
      BY <2>3, <3>2, <3>3 DEF TypeOK, UpsertItem, Done, Tables, ItemTables
  <2>4. CASE TouchSeen
    <3>1. IsDatabase(work')
      BY <2>4, RunsAssumption
      DEF TypeOK, TouchSeen, IsDatabase, IsTable, RepositoryRow, Tables
    <3> QED
      BY <2>4, <3>1 DEF TypeOK, TouchSeen, Stages
  <2>5. ASSUME NEW t \in ItemTables, DeleteUnseenItems(t)
        PROVE  /\ IsDatabase(work')
               /\ counts' \in [upserted : Counter, deleted : Counter]
    <3>1. Cardinality(Unseen(t)) \in Nat
      BY RowsAreFinite, FS_Subset, FS_CardinalityType DEF TypeOK, Unseen, ItemTables, Tables
    <3>2. IsDatabase(work')
      BY <2>5 DEF TypeOK, DeleteUnseenItems, IsDatabase, IsTable, Restrict, ItemTables, Tables
    <3> QED
      BY <2>5, <3>1, <3>2 DEF TypeOK, DeleteUnseenItems, Deleted, Tally, Counter, ItemTables, Tables
  <2>6. CASE DeleteUnseenIssues
    BY <2>5, <2>6 DEF TypeOK, DeleteUnseenIssues, Stages, ItemTables
  <2>7. CASE DeleteUnseenPullRequests
    BY <2>5, <2>7 DEF TypeOK, DeleteUnseenPullRequests, Stages, ItemTables
  <2>8. CASE DeleteUnseenRepositories
    <3>1. Cardinality(Unseen("repositories")) \in Nat
      BY RowsAreFinite, FS_Subset, FS_CardinalityType DEF TypeOK, Unseen, Tables
    <3>2. IsDatabase(work')
      BY <2>8 DEF TypeOK, DeleteUnseenRepositories, IsDatabase, IsTable, Restrict, Cascade, Tables
    <3>3. counts' \in [upserted : Counter, deleted : Counter]
      BY <2>8, <3>1 DEF TypeOK, DeleteUnseenRepositories, Deleted, Tally, Counter, Tables
    <3> QED
      BY <2>8, <3>2, <3>3 DEF TypeOK, DeleteUnseenRepositories, Stages
  <2>9. ASSUME Close, db' \in {db, work}, syncedAt' \in {syncedAt, now}, dataChanged' \in BOOLEAN
        PROVE  TypeOK'
    BY <2>9, EmptyIsASnapshot, EmptyIsADatabase
    DEF TypeOK, Close, DropRows, NothingToDo, NoCounts, NoCount, Counter, Stages
  <2>10. CASE Commit
    BY <2>9, <2>10 DEF Commit, AnyChange
  <2>11. CASE Abort
    BY <2>9, <2>11 DEF Abort, TypeOK
  <2>12. CASE UNCHANGED vars
    BY <2>12 DEF TypeOK, vars
  <2> QED
    BY <2>1, <2>2, <2>3, <2>4, <2>6, <2>7, <2>8, <2>10, <2>11, <2>12 DEF Next, ItemTables
<1> QED
  BY <1>1, <1>2, PTL DEF Spec

-----------------------------------------------------------------------------
(* What the transaction has done so far *)

\* The node ids of the snapshot's rows of a table that are upserted.
Applied(t) == DOMAIN snapshot[t] \ todo[t]

\* What a row says, but for observation times.
Says(t, row) == IF t = "repositories" THEN [body |-> row.body] ELSE row

\* _delete_unseen is done with the table.
Purged(t) ==
  \/ stage = "commit"
  \/ t = "issues" /\ stage \in {"delete_pull_requests", "delete_repositories"}
  \/ t = "pull_requests" /\ stage = "delete_repositories"

\* Deletions begin when everything is upserted, and an aborted run leaves no rows.
DoneInv == stage # "upsert" => todo = NothingToDo

\* The committed repositories were all seen by the last committed run.
SyncedInv == \A r \in DOMAIN db.repositories : db.repositories[r].lastSeen = syncedAt

\* The tables inside the transaction: the committed ones, plus what is upserted,
\* minus what is deleted; a row that is not upserted is the committed one.
RowsInv ==
  stage # "idle" => \A t \in Tables :
    /\ DOMAIN work[t] = IF Purged(t) THEN DOMAIN snapshot[t] ELSE DOMAIN db[t] \cup Applied(t)
    /\ \A n \in Applied(t) : Says(t, work[t][n]) = snapshot[t][n]
    /\ \A n \in DOMAIN work[t] \ Applied(t) : work[t][n] = db[t][n]

\* Rows of the snapshot, upserted so far, that the committed table lacks or
\* holds with another content.
News(t) ==
  {n \in Applied(t) : n \notin DOMAIN db[t] \/ Says(t, db[t][n]) # snapshot[t][n]}

CountsInv ==
  stage # "idle" => \A t \in Tables :
    /\ counts.upserted[t] = Cardinality(News(t))
    /\ counts.deleted[t] =
         IF Purged(t) THEN Cardinality(DOMAIN db[t] \ DOMAIN snapshot[t]) ELSE 0

TimesInv ==
  stage # "idle" => \A r \in DOMAIN work.repositories :
    /\ r \in DOMAIN db.repositories =>
         work.repositories[r].firstSeen = db.repositories[r].firstSeen
    /\ stage # "upsert" /\ r \in Seen => work.repositories[r].lastSeen = now

KeysInv == Referential(db) /\ Referential(work)

TransactionInv == DoneInv /\ RowsInv /\ CountsInv /\ TimesInv /\ KeysInv

\* BEGIN: nothing is upserted, counted or deleted.
LEMMA BeginInv ==
  ASSUME TypeOK, TypeOK', TransactionInv, Begin
  PROVE  TransactionInv'
<1>1. \A t \in Tables : Applied(t)' = {} /\ News(t)' = {} /\ ~Purged(t)'
  BY DEF Begin, Applied, News, Purged
<1>2. stage' = "upsert" /\ work' = db /\ db' = db
  BY DEF Begin
<1>3. DoneInv' /\ RowsInv' /\ TimesInv'
  BY <1>1, <1>2 DEF DoneInv, RowsInv, TimesInv
<1>4. CountsInv'
  <2>1. \A t \in Tables : counts'.upserted[t] = 0 /\ counts'.deleted[t] = 0
    BY DEF Begin, NoCounts, NoCount
  <2> QED
    BY <1>1, <2>1, FS_EmptySet DEF CountsInv
<1>5. KeysInv'
  BY <1>2 DEF TransactionInv, KeysInv
<1> QED
  BY <1>3, <1>4, <1>5 DEF TransactionInv

\* One more row is upserted: it is counted exactly when it is news.
LEMMA CountUpsert ==
  ASSUME TypeOK, TypeOK', TransactionInv, stage = "upsert",
         UNCHANGED <<db, snapshot, stage>>,
         NEW t \in Tables, NEW n \in todo[t], NEW stored \in BOOLEAN,
         stored <=> n \in DOMAIN db[t] /\ Says(t, db[t][n]) = snapshot[t][n],
         Tally("upserted", t, IF stored THEN 0 ELSE 1),
         Done(t, n)
  PROVE  CountsInv'
<1>1. /\ Applied(t)' = Applied(t) \cup {n}
      /\ n \notin Applied(t)
      /\ \A u \in Tables \ {t} : Applied(u)' = Applied(u)
  BY DEF TypeOK, Applied, Done
<1>2. \A u \in Tables \ {t} : News(u)' = News(u)
  BY <1>1 DEF News
<1>3. IsFiniteSet(News(t)) /\ n \notin News(t)
  BY <1>1, RowsAreFinite, FS_Subset DEF TypeOK, News, Applied
<1>4. News(t)' = IF stored THEN News(t) ELSE News(t) \cup {n}
  BY <1>1 DEF News
<1>5. Cardinality(News(t)') = Cardinality(News(t)) + (IF stored THEN 0 ELSE 1)
  <2>1. CASE stored
    BY <2>1, <1>3, <1>4, FS_CardinalityType
  <2>2. CASE ~stored
    BY <2>2, <1>3, <1>4, FS_AddElement, FS_CardinalityType
  <2> QED
    BY <2>1, <2>2
<1>6. \A u \in Tables :
        /\ counts'.upserted[u] = counts.upserted[u] + (IF u = t /\ ~stored THEN 1 ELSE 0)
        /\ counts'.deleted[u] = counts.deleted[u]
  BY DEF TypeOK, Tally, Counter
<1>7. \A u \in Tables : Purged(u)' <=> Purged(u)
  BY DEF Purged
<1>8. \A u \in Tables :
        Cardinality(News(u)') = Cardinality(News(u)) + (IF u = t /\ ~stored THEN 1 ELSE 0)
  <2> SUFFICES ASSUME NEW u \in Tables
               PROVE  Cardinality(News(u)')
                        = Cardinality(News(u)) + (IF u = t /\ ~stored THEN 1 ELSE 0)
    OBVIOUS
  <2>1. CASE u = t
    BY <2>1, <1>5
  <2>2. CASE u # t
    <3>1. IsFiniteSet(News(u))
      BY RowsAreFinite, FS_Subset DEF TypeOK, News, Applied
    <3> QED
      BY <2>2, <3>1, <1>2, FS_CardinalityType
  <2> QED
    BY <2>1, <2>2
<1>9. /\ \A u \in Tables : /\ counts.upserted[u] = Cardinality(News(u))
                           /\ ~Purged(u) /\ counts.deleted[u] = 0
      /\ UNCHANGED <<db, snapshot>>
  BY DEF TransactionInv, CountsInv, Purged
<1> QED
  BY <1>6, <1>7, <1>8, <1>9 DEF CountsInv

\* The statement of a repository.
LEMMA UpsertRepositoryInv ==
  ASSUME TypeOK, TypeOK', TransactionInv, NEW r \in Repositories, UpsertRepository(r)
  PROVE  TransactionInv'
<1> DEFINE same == r \in DOMAIN work.repositories
                   /\ work.repositories[r].body = snapshot.repositories[r].body
           row == [body |-> snapshot.repositories[r].body,
                   firstSeen |-> FirstSeen(r), lastSeen |-> now]
<1>1. /\ stage = "upsert" /\ r \in todo.repositories
      /\ UNCHANGED <<db, stage, snapshot, now>>
  BY DEF UpsertRepository
<1>2. /\ Applied("repositories")' = Applied("repositories") \cup {r}
      /\ r \notin Applied("repositories")
      /\ \A t \in ItemTables : Applied(t)' = Applied(t)
  BY DEF UpsertRepository, TypeOK, Applied, Done, Tables, ItemTables
<1>3. r \in DOMAIN snapshot.repositories
      /\ snapshot.repositories[r] = [body |-> snapshot.repositories[r].body]
  BY <1>1, SnapshotRows DEF TypeOK, Tables
<1>4. same <=> r \in DOMAIN db.repositories
               /\ Says("repositories", db.repositories[r]) = snapshot.repositories[r]
  BY <1>1, <1>2, <1>3 DEF TransactionInv, RowsInv, Purged, Says, Tables
<1>5. CountsInv'
  BY <1>1, <1>4, CountUpsert DEF UpsertRepository, Tables
<1>6. /\ DOMAIN work'.repositories = DOMAIN work.repositories \cup {r}
      /\ Says("repositories", work'.repositories[r]) = snapshot.repositories[r]
      /\ \A m \in DOMAIN work.repositories \ {r} :
           work'.repositories[m] = work.repositories[m]
      /\ \A t \in ItemTables : work'[t] = work[t]
      /\ work'.repositories[r].firstSeen = FirstSeen(r)
  <2>1. CASE same
    BY <2>1, <1>3 DEF UpsertRepository, Says, FirstSeen
  <2>2. CASE ~same
    <3>1. work' = [work EXCEPT !.repositories = WithRow(@, r, row)]
      BY <2>2 DEF UpsertRepository
    <3> QED
      BY <3>1, <1>3 DEF TypeOK, IsDatabase, WithRow, Says, ItemTables, Tables
  <2> QED
    BY <2>1, <2>2
<1>7. RowsInv'
  BY <1>1, <1>2, <1>6 DEF TransactionInv, RowsInv, Purged, Tables, ItemTables
<1>8. TimesInv'
  BY <1>1, <1>2, <1>6 DEF TransactionInv, TimesInv, RowsInv, FirstSeen, Purged, Tables
<1>9. KeysInv'
  BY <1>1, <1>6 DEF TransactionInv, KeysInv, Referential, ItemTables
<1>10. DoneInv'
  BY <1>1 DEF DoneInv
<1> QED
  BY <1>5, <1>7, <1>8, <1>9, <1>10 DEF TransactionInv

\* The statement of an issue or a pull request.
LEMMA UpsertItemInv ==
  ASSUME TypeOK, TypeOK', TransactionInv, NEW t \in ItemTables, NEW n, UpsertItem(t, n)
  PROVE  TransactionInv'
<1> DEFINE row == snapshot[t][n]
<1>1. /\ stage = "upsert" /\ n \in todo[t] /\ t \in Tables
      /\ row.repository \in DOMAIN work.repositories
      /\ UNCHANGED <<db, stage, snapshot, now>>
  BY DEF UpsertItem, ItemTables, Tables
<1>2. /\ Applied(t)' = Applied(t) \cup {n}
      /\ n \notin Applied(t) /\ n \in DOMAIN snapshot[t]
      /\ \A u \in Tables \ {t} : Applied(u)' = Applied(u)
  BY <1>1 DEF UpsertItem, TypeOK, Applied, Done
<1>3. Stored(t, n) <=> n \in DOMAIN db[t] /\ Says(t, db[t][n]) = snapshot[t][n]
  BY <1>1, <1>2 DEF TransactionInv, RowsInv, Purged, Stored, Says, ItemTables
<1>4. CountsInv'
  BY <1>1, <1>3, CountUpsert DEF UpsertItem
<1>5. /\ DOMAIN work'[t] = DOMAIN work[t] \cup {n}
      /\ work'[t][n] = row
      /\ \A m \in DOMAIN work[t] \ {n} : work'[t][m] = work[t][m]
      /\ \A u \in Tables \ {t} : work'[u] = work[u]
  <2>1. CASE Stored(t, n)
    BY <2>1 DEF UpsertItem, Stored
  <2>2. CASE ~Stored(t, n)
    <3>1. work' = [work EXCEPT ![t] = WithRow(@, n, row)]
      BY <2>2 DEF UpsertItem
    <3> QED
      BY <3>1, <1>1 DEF TypeOK, IsDatabase, WithRow
  <2> QED
    BY <2>1, <2>2
<1>6. RowsInv'
  BY <1>1, <1>2, <1>5 DEF TransactionInv, RowsInv, Purged, Says, ItemTables
<1>7. work'.repositories = work.repositories
  BY <1>5 DEF ItemTables, Tables
<1>8. TimesInv'
  BY <1>1, <1>7 DEF TransactionInv, TimesInv
<1>9. KeysInv'
  BY <1>1, <1>5, <1>7 DEF TransactionInv, KeysInv, Referential, ItemTables, Tables
<1>10. DoneInv'
  BY <1>1 DEF DoneInv
<1> QED
  BY <1>4, <1>6, <1>8, <1>9, <1>10 DEF TransactionInv

\* UPDATE ... last_seen_at: only times change.
LEMMA TouchSeenInv ==
  ASSUME TypeOK, TypeOK', TransactionInv, TouchSeen
  PROVE  TransactionInv'
<1>1. /\ stage = "upsert" /\ stage' = "delete_issues" /\ todo = NothingToDo
      /\ UNCHANGED <<db, snapshot, todo, counts, now>>
  BY DEF TouchSeen
<1>2. \A t \in Tables : /\ Applied(t)' = Applied(t) /\ Applied(t) = DOMAIN snapshot[t]
                        /\ ~Purged(t) /\ ~Purged(t)'
  BY <1>1 DEF Applied, Purged, NothingToDo
<1>3. /\ \A t \in Tables : DOMAIN work'[t] = DOMAIN work[t]
      /\ \A t \in ItemTables : work'[t] = work[t]
      /\ \A r \in DOMAIN work.repositories :
           /\ work'.repositories[r].body = work.repositories[r].body
           /\ work'.repositories[r].firstSeen = work.repositories[r].firstSeen
           /\ work'.repositories[r] =
                IF r \in Seen THEN [work.repositories[r] EXCEPT !.lastSeen = now]
                ELSE work.repositories[r]
  BY DEF TouchSeen, TypeOK, IsDatabase, IsTable, RepositoryRow, Tables, ItemTables
<1>4. RowsInv'
  <2>1. \A t \in Tables :
          /\ DOMAIN work[t] = DOMAIN db[t] \cup DOMAIN snapshot[t]
          /\ \A n \in DOMAIN snapshot[t] : Says(t, work[t][n]) = snapshot[t][n]
          /\ \A n \in DOMAIN work[t] \ DOMAIN snapshot[t] : work[t][n] = db[t][n]
    BY <1>1, <1>2 DEF TransactionInv, RowsInv
  <2>2. \A t \in Tables :
          /\ \A n \in DOMAIN snapshot[t] : Says(t, work'[t][n]) = Says(t, work[t][n])
          /\ \A n \in DOMAIN work[t] \ DOMAIN snapshot[t] : work'[t][n] = work[t][n]
    BY <1>3, <2>1 DEF Says, Seen, Tables, ItemTables
  <2> QED
    BY <1>1, <1>2, <1>3, <2>1, <2>2 DEF RowsInv
<1>5. CountsInv'
  <2>1. \A t \in Tables : News(t)' = News(t)
    BY <1>1, <1>2 DEF News
  <2> QED
    BY <2>1, <1>1, <1>2 DEF TransactionInv, CountsInv
<1>6. TimesInv'
  <2>1. \A r \in DOMAIN work.repositories : r \in Seen => work'.repositories[r].lastSeen = now
    BY <1>3 DEF TypeOK, IsDatabase, IsTable, RepositoryRow
  <2> QED
    BY <2>1, <1>1, <1>3 DEF TransactionInv, TimesInv, Seen, Tables
<1>7. KeysInv'
  BY <1>1, <1>3 DEF TransactionInv, KeysInv, Referential, Tables, ItemTables
<1>8. DoneInv'
  BY <1>1 DEF DoneInv
<1> QED
  BY <1>4, <1>5, <1>6, <1>7, <1>8 DEF TransactionInv

\* _delete_unseen counts what the snapshot lacks of the committed table.
LEMMA CountDelete ==
  ASSUME TypeOK, TypeOK', TransactionInv, stage \notin {"idle", "upsert"}, stage' # "idle",
         UNCHANGED <<db, snapshot, todo>>,
         NEW t \in Tables, ~Purged(t), Purged(t)',
         \A u \in Tables \ {t} : Purged(u)' <=> Purged(u),
         Deleted(t, Cardinality(Unseen(t)))
  PROVE  /\ Unseen(t) = DOMAIN db[t] \ DOMAIN snapshot[t]
         /\ CountsInv'
<1>1. \A u \in Tables : Applied(u)' = Applied(u) /\ Applied(u) = DOMAIN snapshot[u]
  BY DEF TransactionInv, DoneInv, Applied, NothingToDo
<1>2. Unseen(t) = DOMAIN db[t] \ DOMAIN snapshot[t]
  BY <1>1 DEF TransactionInv, RowsInv, Unseen
<1>3. \A u \in Tables : News(u)' = News(u)
  BY <1>1 DEF News
<1>4. Cardinality(Unseen(t)) \in Nat
  BY RowsAreFinite, FS_Subset, FS_CardinalityType DEF TypeOK, Unseen
<1>5. counts.deleted[t] = 0
  BY DEF TransactionInv, CountsInv
<1>6. \A u \in Tables :
        /\ counts'.upserted[u] = counts.upserted[u]
        /\ counts'.deleted[u] = IF u = t THEN Cardinality(Unseen(t)) ELSE counts.deleted[u]
  BY <1>4, <1>5 DEF TypeOK, Deleted, Tally, Counter
<1> QED
  BY <1>2, <1>3, <1>6 DEF TransactionInv, CountsInv

\* The deletion of items: no foreign key refers to them.
LEMMA DeleteItemsInv ==
  ASSUME TypeOK, TypeOK', TransactionInv, NEW t \in ItemTables, DeleteUnseenItems(t),
         stage \notin {"idle", "upsert"}, stage' \notin {"idle", "upsert"},
         ~Purged(t), Purged(t)', \A u \in Tables \ {t} : Purged(u)' <=> Purged(u),
         UNCHANGED <<db, snapshot, todo, now>>
  PROVE  TransactionInv'
<1>1. \A u \in Tables : Applied(u)' = Applied(u) /\ Applied(u) = DOMAIN snapshot[u]
  BY DEF TransactionInv, DoneInv, Applied, NothingToDo
<1>2. t \in Tables
  BY DEF ItemTables, Tables
<1>3. CountsInv'
  BY <1>2, CountDelete DEF DeleteUnseenItems
<1>4. /\ DOMAIN work'[t] = DOMAIN work[t] \cap DOMAIN snapshot[t]
      /\ \A n \in DOMAIN work'[t] : work'[t][n] = work[t][n]
      /\ \A u \in Tables \ {t} : work'[u] = work[u]
  BY <1>2 DEF DeleteUnseenItems, Unseen, Restrict, TypeOK, IsDatabase
<1>5. RowsInv'
  <2>1. \A u \in Tables :
          /\ DOMAIN work[u] = IF Purged(u) THEN DOMAIN snapshot[u]
                              ELSE DOMAIN db[u] \cup DOMAIN snapshot[u]
          /\ \A n \in DOMAIN snapshot[u] : Says(u, work[u][n]) = snapshot[u][n]
          /\ \A n \in DOMAIN work[u] \ DOMAIN snapshot[u] : work[u][n] = db[u][n]
    BY <1>1 DEF TransactionInv, RowsInv
  <2>2. /\ DOMAIN work'[t] = DOMAIN snapshot[t]
        /\ \A n \in DOMAIN snapshot[t] : work'[t][n] = work[t][n]
    BY <1>2, <1>4, <2>1
  <2> SUFFICES ASSUME NEW u \in Tables
               PROVE  /\ DOMAIN work'[u] = IF Purged(u)' THEN DOMAIN snapshot[u]
                                           ELSE DOMAIN db[u] \cup DOMAIN snapshot[u]
                      /\ \A n \in DOMAIN snapshot[u] : Says(u, work'[u][n]) = snapshot[u][n]
                      /\ \A n \in DOMAIN work'[u] \ DOMAIN snapshot[u] : work'[u][n] = db[u][n]
    BY <1>1 DEF RowsInv
  <2>3. CASE u = t
    BY <1>2, <2>1, <2>2, <2>3
  <2>4. CASE u # t
    <3>1. work'[u] = work[u] /\ (Purged(u)' <=> Purged(u))
      BY <1>4, <2>4
    <3>2. CASE Purged(u)
      BY <2>1, <3>1, <3>2
    <3>3. CASE ~Purged(u)
      BY <2>1, <3>1, <3>3
    <3> QED
      BY <3>2, <3>3
  <2> QED
    BY <2>3, <2>4
<1>6. work'.repositories = work.repositories
  BY <1>4 DEF ItemTables, Tables
<1>7. TimesInv'
  BY <1>6 DEF TransactionInv, TimesInv, Seen
<1>8. KeysInv'
  BY <1>4, <1>6 DEF TransactionInv, KeysInv, Referential, ItemTables, Tables
<1>9. DoneInv'
  BY DEF TransactionInv, DoneInv, NothingToDo
<1> QED
  BY <1>3, <1>5, <1>7, <1>8, <1>9 DEF TransactionInv

\* The deletion of repositories: what is left of the items belongs to the
\* repositories of the snapshot, so the cascade finds nothing.
LEMMA DeleteRepositoriesInv ==
  ASSUME TypeOK, TypeOK', TransactionInv, DeleteUnseenRepositories
  PROVE  TransactionInv'
<1> DEFINE gone == Unseen("repositories")
<1>1. /\ stage = "delete_repositories" /\ stage' = "commit"
      /\ UNCHANGED <<db, snapshot, todo, now>>
      /\ work' = [repositories |-> Restrict(work.repositories, DOMAIN work.repositories \ gone),
                  issues |-> Cascade(work.issues, gone),
                  pull_requests |-> Cascade(work.pull_requests, gone)]
  BY DEF DeleteUnseenRepositories
<1>2. \A u \in Tables : Applied(u)' = Applied(u) /\ Applied(u) = DOMAIN snapshot[u]
  BY <1>1 DEF TransactionInv, DoneInv, Applied, NothingToDo
<1>3. /\ ~Purged("repositories") /\ \A u \in Tables : Purged(u)'
      /\ \A u \in ItemTables : Purged(u)
  BY <1>1 DEF Purged, Tables, ItemTables
<1>4. CountsInv'
  <2>1. Deleted("repositories", Cardinality(gone))
    BY DEF DeleteUnseenRepositories
  <2> QED
    BY <1>1, <1>3, <2>1, CountDelete DEF Tables, ItemTables
<1>5. \A t \in ItemTables : \A n \in DOMAIN work[t] :
        work[t][n].repository \notin gone
  BY <1>1, <1>2, <1>3, SnapshotRows
  DEF TransactionInv, RowsInv, TypeOK, Says, Unseen, Referential, Tables, ItemTables
<1>6. /\ \A t \in ItemTables : DOMAIN work'[t] = DOMAIN work[t]
      /\ \A t \in ItemTables : \A n \in DOMAIN work[t] : work'[t][n] = work[t][n]
  BY <1>1, <1>5 DEF Cascade, Restrict, ItemTables
<1>7. /\ DOMAIN work'.repositories = DOMAIN work.repositories \cap DOMAIN snapshot.repositories
      /\ \A r \in DOMAIN work'.repositories : work'.repositories[r] = work.repositories[r]
  BY <1>1 DEF Unseen, Restrict
<1>8. RowsInv'
  <2>1. \A u \in Tables :
          /\ DOMAIN work[u] = IF Purged(u) THEN DOMAIN snapshot[u]
                              ELSE DOMAIN db[u] \cup DOMAIN snapshot[u]
          /\ \A n \in DOMAIN snapshot[u] : Says(u, work[u][n]) = snapshot[u][n]
    BY <1>1, <1>2 DEF TransactionInv, RowsInv
  <2>2. \A u \in Tables : /\ DOMAIN work'[u] = DOMAIN snapshot[u]
                          /\ \A n \in DOMAIN snapshot[u] : work'[u][n] = work[u][n]
    BY <1>3, <1>6, <1>7, <2>1 DEF Tables, ItemTables
  <2>3. \A u \in Tables :
          /\ DOMAIN work'[u] = DOMAIN snapshot[u]
          /\ \A n \in DOMAIN snapshot[u] : Says(u, work'[u][n]) = snapshot[u][n]
    BY <2>1, <2>2
  <2> QED
    BY <1>1, <1>2, <1>3, <2>3 DEF RowsInv
<1>9. TimesInv'
  BY <1>1, <1>7 DEF TransactionInv, TimesInv, Seen
<1>10. KeysInv'
  BY <1>1, <1>5, <1>6, <1>7 DEF TransactionInv, KeysInv, Referential, Unseen
<1>11. DoneInv'
  BY <1>1 DEF TransactionInv, DoneInv, NothingToDo
<1> QED
  BY <1>4, <1>8, <1>9, <1>10, <1>11 DEF TransactionInv

\* COMMIT and ROLLBACK: the transaction's state is gone.
LEMMA CloseInv ==
  ASSUME TransactionInv, Close, db' \in {db, work}
  PROVE  TransactionInv'
BY EmptyIsADatabase
DEF TransactionInv, Close, DropRows, DoneInv, RowsInv, CountsInv, TimesInv, KeysInv

\* The strengthened invariant is inductive.
LEMMA NextTransactionInv == TypeOK /\ TypeOK' /\ TransactionInv /\ [Next]_vars => TransactionInv'
<1> SUFFICES ASSUME TypeOK, TypeOK', TransactionInv, [Next]_vars
             PROVE  TransactionInv'
  OBVIOUS
<1>1. CASE DeleteUnseenIssues
  BY <1>1, DeleteItemsInv DEF DeleteUnseenIssues, Purged, Tables, ItemTables
<1>2. CASE DeleteUnseenPullRequests
  BY <1>2, DeleteItemsInv DEF DeleteUnseenPullRequests, Purged, Tables, ItemTables
<1>3. CASE Commit \/ Abort
  BY <1>3, CloseInv DEF Commit, Abort
<1>4. CASE UNCHANGED vars
  BY <1>4 DEF vars, TransactionInv, DoneInv, RowsInv, CountsInv, TimesInv, KeysInv,
              Applied, News, Purged, Seen
<1> QED
  BY <1>1, <1>2, <1>3, <1>4, BeginInv, UpsertRepositoryInv, UpsertItemInv, TouchSeenInv,
     DeleteRepositoriesInv DEF Next, ItemTables

\* The inductive invariant of the transaction.
LEMMA TransactionInvHolds == Spec => [](TypeOK /\ TransactionInv)
<1>1. Init => TransactionInv
  BY EmptyIsADatabase
  DEF Init, TransactionInv, DoneInv, RowsInv, CountsInv, TimesInv, KeysInv
<1>2. Spec => []TypeOK
  BY TypeCorrect
<1> QED
  BY <1>1, <1>2, NextTransactionInv, PTL DEF Spec

-----------------------------------------------------------------------------
(* What it achieves *)

\* Neither the order of the statements nor the cascades break a foreign key, and
\* no item is upserted before its repository.
THEOREM ForeignKeysHoldAlways == Spec => []ForeignKeysHold
<1>1. TypeOK /\ TransactionInv => ForeignKeysHold
  <2> SUFFICES ASSUME TypeOK, TransactionInv,
                      NEW t \in ItemTables, NEW n \in todo[t], InOrder(t)
               PROVE  snapshot[t][n].repository \in DOMAIN work.repositories
    BY DEF ForeignKeysHold, TransactionInv, KeysInv
  <2>1. n \in DOMAIN snapshot[t] /\ todo # NothingToDo
    BY DEF TypeOK, NothingToDo, Tables, ItemTables
  <2>2. stage = "upsert"
    BY <2>1 DEF TransactionInv, DoneInv
  <2>3. snapshot[t][n].repository \in DOMAIN snapshot.repositories
    BY <2>1, SnapshotRows DEF TypeOK, Referential
  <2> QED
    BY <2>2, <2>3 DEF TransactionInv, RowsInv, Applied, InOrder, Purged, Tables
<1> QED
  BY <1>1, TransactionInvHolds, PTL

\* At the commit the tables of the transaction are the snapshot.
LEMMA CommitsTheSnapshot ==
  ASSUME TypeOK, TransactionInv, stage = "commit"
  PROVE  Content(work) = snapshot
<1>1. \A t \in Tables : /\ DOMAIN work[t] = DOMAIN snapshot[t]
                        /\ \A n \in DOMAIN snapshot[t] : Says(t, work[t][n]) = snapshot[t][n]
  BY DEF TransactionInv, DoneInv, RowsInv, Purged, Applied, NothingToDo
<1>2. Content(work).repositories = snapshot.repositories
  BY <1>1, SnapshotRows DEF TypeOK, Content, IsDatabase, IsTable, Says, Tables
<1>3. Content(work).issues = snapshot.issues
  BY <1>1, SnapshotRows DEF TypeOK, Content, IsDatabase, IsTable, Says, Tables
<1>4. Content(work).pull_requests = snapshot.pull_requests
  BY <1>1, SnapshotRows DEF TypeOK, Content, IsDatabase, IsTable, Says, Tables
<1>5. Content(work) = [t \in Tables |-> Content(work)[t]]
  BY DEF TypeOK, Content, IsDatabase
<1>6. snapshot = [t \in Tables |-> snapshot[t]]
  BY DEF TypeOK, Snapshots, Tables
<1> QED
  BY <1>2, <1>3, <1>4, <1>5, <1>6 DEF Tables

\* The content of a database, row by row.
LEMMA ContentRows ==
  ASSUME NEW d, IsDatabase(d), NEW t \in Tables
  PROVE  /\ DOMAIN Content(d)[t] = DOMAIN d[t]
         /\ \A n \in DOMAIN d[t] : Content(d)[t][n] = Says(t, d[t][n])
BY DEF IsDatabase, Content, Says, Tables

\* The counters of the run are the numbers of rows that the commit changes.
THEOREM CountsAreExactAlways == Spec => []CountsAreExact
<1>1. ASSUME TypeOK, TransactionInv, stage = "commit", NEW t \in Tables
      PROVE  /\ Differing(Content(db)[t], Content(work)[t]) = News(t)
             /\ DOMAIN Content(db)[t] \ DOMAIN Content(work)[t] = DOMAIN db[t] \ DOMAIN snapshot[t]
             /\ counts.upserted[t] = Cardinality(News(t))
             /\ counts.deleted[t] = Cardinality(DOMAIN db[t] \ DOMAIN snapshot[t])
  <2>1. Applied(t) = DOMAIN snapshot[t]
    BY <1>1 DEF TransactionInv, DoneInv, Applied, NothingToDo
  <2>2. Content(work)[t] = snapshot[t]
    BY <1>1, CommitsTheSnapshot
  <2>3. Differing(Content(db)[t], snapshot[t]) = News(t)
    BY <1>1, <2>1, ContentRows DEF TypeOK, Differing, News
  <2>4. Purged(t)
    BY <1>1 DEF Purged
  <2> QED
    BY <1>1, <2>2, <2>3, <2>4, ContentRows DEF TypeOK, TransactionInv, CountsInv
<1>2. TypeOK /\ TransactionInv => CountsAreExact
  BY <1>1 DEF CountsAreExact
<1> QED
  BY <1>2, TransactionInvHolds, PTL

\* At the commit every repository of the transaction's tables has been seen.
LEMMA CommitsWhatWasSeen ==
  ASSUME TypeOK, TransactionInv, stage = "commit", NEW r \in DOMAIN work.repositories
  PROVE  /\ work.repositories[r].lastSeen = now
         /\ r \in DOMAIN db.repositories =>
              work.repositories[r].firstSeen = db.repositories[r].firstSeen
<1>1. r \in Seen
  BY DEF TransactionInv, RowsInv, Purged, Seen, Tables
<1> QED
  BY <1>1 DEF TransactionInv, TimesInv

\* Every step but the commit leaves the committed tables and their time alone.
LEMMA OnlyCommitChanges == [Next]_vars => Commit \/ UNCHANGED <<db, syncedAt, dataChanged>>
BY DEF Next, vars, Begin, UpsertRepository, UpsertItem, TouchSeen, DeleteUnseenIssues,
   DeleteUnseenPullRequests, DeleteUnseenRepositories, Abort

\* A commit keeps the first sighting of every repository it keeps, and all
\* committed repositories were seen by the run that committed last.
THEOREM SeenTimesAreTrueAlways == Spec => SeenTimesAreTrue
<1> DEFINE Times ==
      \A r \in DOMAIN db'.repositories :
        /\ r \in DOMAIN db.repositories =>
             db'.repositories[r].firstSeen = db.repositories[r].firstSeen
        /\ db'.repositories[r].lastSeen = syncedAt'
<1>1. Init => SyncedInv
  BY DEF Init, SyncedInv, EmptySnapshot, NoRows, Tables
<1>2. TypeOK /\ TransactionInv /\ SyncedInv /\ [Next]_vars => SyncedInv' /\ Times
  <2> SUFFICES ASSUME TypeOK, TransactionInv, SyncedInv, [Next]_vars
               PROVE  SyncedInv' /\ Times
    OBVIOUS
  <2>1. CASE Commit
    BY <2>1, CommitsWhatWasSeen DEF Commit, SyncedInv
  <2>2. CASE UNCHANGED <<db, syncedAt, dataChanged>>
    BY <2>2 DEF SyncedInv
  <2> QED
    BY <2>1, <2>2, OnlyCommitChanges
<1> QED
  BY <1>1, <1>2, TransactionInvHolds, PTL DEF Spec, SeenTimesAreTrue

-----------------------------------------------------------------------------
(* Refinement *)

\* Both modules speak of the same snapshots.
LEMMA SameShapes == Store!EmptySnapshot = EmptySnapshot /\ Store!Snapshots = Snapshots
<1>1. /\ Store!NoRows = NoRows /\ Store!Tables = Tables /\ Store!ItemTables = ItemTables
      /\ Store!ItemRow = ItemRow
  BY DEF Store!NoRows, NoRows, Store!Tables, Tables, Store!ItemTables, ItemTables,
         Store!ItemRow, ItemRow
<1>2. ASSUME NEW ids, NEW rows PROVE Store!Table(ids, rows) = Table(ids, rows)
  BY DEF Store!Table, Table
<1>3. ASSUME NEW s PROVE Store!Referential(s) <=> Referential(s)
  BY <1>1 DEF Store!Referential, Referential
<1> QED
  BY <1>1, <1>2, <1>3 DEF Store!EmptySnapshot, EmptySnapshot, Store!Snapshots, Snapshots

\* data_changed is what the commit reports: whether any counter is not zero.
LEMMA ChangesAreReported ==
  ASSUME TypeOK, TransactionInv, stage = "commit"
  PROVE  AnyChange = (snapshot # Content(db))
<1>1. \A t \in Tables : /\ Applied(t) = DOMAIN snapshot[t]
                        /\ IsFiniteSet(News(t)) /\ IsFiniteSet(DOMAIN db[t] \ DOMAIN snapshot[t])
                        /\ counts.upserted[t] = Cardinality(News(t))
                        /\ counts.deleted[t] = Cardinality(DOMAIN db[t] \ DOMAIN snapshot[t])
  <2> TAKE t \in Tables
  <2>1. Applied(t) = DOMAIN snapshot[t]
    BY DEF TransactionInv, DoneInv, Applied, NothingToDo
  <2>2. IsFiniteSet(News(t)) /\ IsFiniteSet(DOMAIN db[t] \ DOMAIN snapshot[t])
    BY RowsAreFinite, FS_Subset DEF TypeOK, News, Applied
  <2> QED
    BY <2>1, <2>2 DEF TransactionInv, CountsInv, Purged
<1>2. \A t \in Tables : /\ counts["upserted"][t] = 0 <=> News(t) = {}
                        /\ counts["deleted"][t] = 0 <=> DOMAIN db[t] \ DOMAIN snapshot[t] = {}
  BY <1>1, FS_EmptySet
<1>3. AnyChange <=> \E t \in Tables : News(t) # {} \/ DOMAIN db[t] \ DOMAIN snapshot[t] # {}
  BY <1>2 DEF AnyChange
<1>4. ASSUME NEW t \in Tables
      PROVE  News(t) = {} /\ DOMAIN db[t] \ DOMAIN snapshot[t] = {}
               <=> Content(db)[t] = snapshot[t]
  <2>1. /\ DOMAIN Content(db)[t] = DOMAIN db[t]
        /\ \A n \in DOMAIN db[t] : Content(db)[t][n] = Says(t, db[t][n])
    BY ContentRows DEF TypeOK
  <2>2. /\ Content(db)[t] = [n \in DOMAIN Content(db)[t] |-> Content(db)[t][n]]
        /\ snapshot[t] = [n \in DOMAIN snapshot[t] |-> snapshot[t][n]]
    BY SnapshotRows DEF TypeOK, Content, IsDatabase, IsTable, Tables
  <2>3. ASSUME News(t) = {}, DOMAIN db[t] \ DOMAIN snapshot[t] = {}
        PROVE  Content(db)[t] = snapshot[t]
    <3>1. \A n \in DOMAIN snapshot[t] : n \in DOMAIN db[t] /\ Says(t, db[t][n]) = snapshot[t][n]
      BY <1>1, <2>3 DEF News
    <3>2. DOMAIN db[t] = DOMAIN snapshot[t]
      BY <2>3, <3>1
    <3> QED
      BY <2>1, <2>2, <3>1, <3>2
  <2>4. ASSUME Content(db)[t] = snapshot[t]
        PROVE  News(t) = {} /\ DOMAIN db[t] \ DOMAIN snapshot[t] = {}
    <3>1. DOMAIN db[t] = DOMAIN snapshot[t]
      BY <2>1, <2>4
    <3> QED
      BY <1>1, <2>1, <2>4, <3>1 DEF News
  <2> QED
    BY <2>3, <2>4
<1>5. /\ Content(db) = [t \in Tables |-> Content(db)[t]]
      /\ snapshot = [t \in Tables |-> snapshot[t]]
  BY DEF TypeOK, Content, IsDatabase, Snapshots, Tables
<1>6. AnyChange <=> snapshot # Content(db)
  BY <1>3, <1>4, <1>5
<1> QED
  BY <1>6 DEF AnyChange

\* Every statement is a stutter of SnapshotStore; BEGIN, COMMIT and ROLLBACK are
\* its three actions.
LEMMA NextReplaces ==
  TypeOK /\ TransactionInv /\ [Next]_vars
    => [Store!Next]_<<Content(db), dataChanged, snapshot>>
<1> SUFFICES ASSUME TypeOK, TransactionInv, [Next]_vars
             PROVE  [Store!Next]_<<Content(db), dataChanged, snapshot>>
  OBVIOUS
<1>1. CASE Begin
  BY <1>1, SameShapes DEF Begin, Store!Next, Store!Offer
<1>2. CASE Commit
  <2>1. Content(db)' = snapshot /\ snapshot' = EmptySnapshot
    BY <1>2, CommitsTheSnapshot DEF Commit, Close, Content
  <2>2. dataChanged' = (Content(db)' # Content(db))
    <3>1. dataChanged' = AnyChange /\ AnyChange = (snapshot # Content(db))
      BY <1>2, ChangesAreReported DEF Commit
    <3> QED
      BY <2>1, <3>1
  <2> QED
    BY <2>1, <2>2, SameShapes DEF Store!Next, Store!Replace
<1>3. CASE Abort
  <2>1. Content(db)' = Content(db) /\ UNCHANGED dataChanged /\ snapshot' = EmptySnapshot
    BY <1>3 DEF Abort, Close, Content
  <2> QED
    BY <2>1, SameShapes DEF Store!Next, Store!Withdraw
<1>4. CASE UNCHANGED <<db, dataChanged, snapshot>>
  BY <1>4 DEF Content
<1> QED
  BY <1>1, <1>2, <1>3, <1>4
  DEF Next, vars, UpsertRepository, UpsertItem, TouchSeen, DeleteUnseenIssues,
      DeleteUnseenPullRequests, DeleteUnseenRepositories

\* The transaction implements SnapshotStore: readers find the old contents or the
\* offered snapshot, never anything between, and data_changed tells which.
THEOREM ReplacesAtomicallyAlways == Spec => ReplacesAtomically
<1>1. Init => Store!Init
  <2>1. ASSUME Init PROVE Content(db) = EmptySnapshot
    BY <2>1 DEF Init, Content, EmptySnapshot, NoRows, Tables
  <2> QED
    BY <2>1, SameShapes DEF Init, Store!Init
<1> QED
  BY <1>1, NextReplaces, TransactionInvHolds, PTL DEF Spec, ReplacesAtomically, Store!Spec

-----------------------------------------------------------------------------
(* What is reconciled: the snapshots that pass validation *)

\* Ids are counted once: every accepted row has one of its own.
CountInv ==
  /\ IsFiniteSet(seenIds) /\ IsFiniteSet(DOMAIN repositories)
  /\ IsFiniteSet(issues) /\ IsFiniteSet(pulls)
  /\ DOMAIN repositories \subseteq seenIds
  /\ \A row \in issues \cup pulls : row.id \in seenIds
  /\ Cardinality(seenIds) = Accepted

\* Every accepted row passes the schema, and refers to an accepted repository.
StorableInv ==
  /\ \A row \in issues : StorableIssue(row) \/ row.number = "too_large"
  /\ \A row \in pulls : StorablePull(row) \/ row.number = "too_large"
  /\ \A row \in issues \cup pulls : row.repository \in DOMAIN repositories

\* Sizes, and one more.
LEMMA OneMore ==
  ASSUME NEW S, NEW x, IsFiniteSet(S), x \notin S
  PROVE  /\ IsFiniteSet(S \cup {x}) /\ Cardinality(S) \in Nat
         /\ Cardinality(S \cup {x}) = Cardinality(S) + 1
BY FS_AddElement, FS_CardinalityType

\* A refused snapshot leaves nothing.
LEMMA RejectLeavesNothing ==
  ASSUME Reject
  PROVE  CountInv' /\ StorableInv'
<1>1. /\ seenIds' = {} /\ DOMAIN repositories' = {} /\ issues' = {} /\ pulls' = {}
  BY DEF Reject
<1>2. IsFiniteSet({}) /\ Cardinality({}) = 0
  BY FS_EmptySet
<1>3. Accepted' = 0 + 0 + 0
  BY <1>1, <1>2 DEF Accepted
<1> QED
  BY <1>1, <1>2, <1>3 DEF CountInv, StorableInv

\* The tables have numbers of rows.
LEMMA CountsAreNumbers ==
  ASSUME CountInv
  PROVE  {Cardinality(DOMAIN repositories), Cardinality(issues), Cardinality(pulls)} \subseteq Nat
<1>1. IsFiniteSet(DOMAIN repositories) /\ IsFiniteSet(issues) /\ IsFiniteSet(pulls)
  BY DEF CountInv
<1>2. /\ Cardinality(DOMAIN repositories) \in Nat /\ Cardinality(issues) \in Nat
      /\ Cardinality(pulls) \in Nat
  BY <1>1, FS_CardinalityType
<1> QED
  BY <1>2

\* Each loop adds a row under an id nobody had.
LEMMA RepositoryAdds ==
  ASSUME CountInv, StorableInv, ValidateRepository
  PROVE  CountInv' /\ StorableInv'
<1> SUFFICES ASSUME NEW raw \in RawRepository, RepositoryIsValid(raw),
                    seenIds' = seenIds \cup {raw.id},
                    repositories' = [r \in DOMAIN repositories \cup {raw.id} |->
                                       IF r = raw.id THEN raw.owner ELSE repositories[r]],
                    issues' = issues, pulls' = pulls
             PROVE  CountInv' /\ StorableInv'
  BY RejectLeavesNothing DEF ValidateRepository
<1>1. raw.id \notin seenIds /\ raw.id \notin DOMAIN repositories
  BY DEF RepositoryIsValid, IsNew, CountInv
<1>2. DOMAIN repositories' = DOMAIN repositories \cup {raw.id}
  OBVIOUS
<1>3. /\ IsFiniteSet(seenIds') /\ Cardinality(seenIds') = Cardinality(seenIds) + 1
      /\ IsFiniteSet(DOMAIN repositories')
      /\ Cardinality(DOMAIN repositories') = Cardinality(DOMAIN repositories) + 1
      /\ {Cardinality(DOMAIN repositories), Cardinality(issues), Cardinality(pulls)} \subseteq Nat
  <2>1. IsFiniteSet(seenIds) /\ IsFiniteSet(DOMAIN repositories)
    BY DEF CountInv
  <2>2. IsFiniteSet(seenIds') /\ Cardinality(seenIds') = Cardinality(seenIds) + 1
    BY <1>1, <2>1, OneMore
  <2>3. /\ IsFiniteSet(DOMAIN repositories')
        /\ Cardinality(DOMAIN repositories') = Cardinality(DOMAIN repositories) + 1
    BY <1>1, <1>2, <2>1, OneMore
  <2>4. {Cardinality(DOMAIN repositories), Cardinality(issues), Cardinality(pulls)} \subseteq Nat
    BY CountsAreNumbers
  <2> QED
    BY <2>2, <2>3, <2>4
<1>4. Cardinality(seenIds') = Accepted'
  <2>1. Accepted = Cardinality(DOMAIN repositories) + Cardinality(issues) + Cardinality(pulls)
    BY DEF Accepted
  <2>2. Accepted' = Cardinality(DOMAIN repositories') + Cardinality(issues) + Cardinality(pulls)
    BY DEF Accepted
  <2>3. Cardinality(seenIds) = Accepted
    BY DEF CountInv
  <2> QED
    BY <1>3, <2>1, <2>2, <2>3
<1>5. CountInv'
  BY <1>2, <1>3, <1>4 DEF CountInv
<1>6. StorableInv'
  BY <1>2 DEF StorableInv
<1> QED
  BY <1>5, <1>6

\* An accepted issue, likewise: its number of rows, its checks and its repository.
LEMMA IssueAdds ==
  ASSUME CountInv, StorableInv, ValidateIssue
  PROVE  CountInv' /\ StorableInv'
<1> SUFFICES ASSUME NEW raw \in RawItem, NEW reason \in Reasons,
                    ItemIsValid(raw), IssueStateIsValid(raw, reason),
                    seenIds' = seenIds \cup {raw.id},
                    issues' = issues \cup
                      {[id |-> raw.id, repository |-> raw.repository, number |-> raw.number,
                        state |-> raw.state, closed |-> raw.closed, reason |-> reason]},
                    repositories' = repositories, pulls' = pulls
             PROVE  CountInv' /\ StorableInv'
  BY RejectLeavesNothing DEF ValidateIssue
<1> DEFINE row == [id |-> raw.id, repository |-> raw.repository, number |-> raw.number,
                   state |-> raw.state, closed |-> raw.closed, reason |-> reason]
<1>1. /\ row.id = raw.id /\ row.repository = raw.repository /\ row.number = raw.number
      /\ row.state = raw.state /\ row.closed = raw.closed /\ row.reason = reason
      /\ issues' = issues \cup {row}
  OBVIOUS
<1> HIDE DEF row
<1>2. /\ raw.id \notin seenIds /\ raw.repository \in DOMAIN repositories
      /\ raw.number \in {"fits", "too_large"}
  BY DEF ItemIsValid, IsNew, RawItem, Numbers
<1>3. row \notin issues
  BY <1>1, <1>2 DEF CountInv
<1>4. /\ IsFiniteSet(seenIds') /\ Cardinality(seenIds') = Cardinality(seenIds) + 1
      /\ IsFiniteSet(issues') /\ Cardinality(issues') = Cardinality(issues) + 1
      /\ {Cardinality(DOMAIN repositories), Cardinality(issues), Cardinality(pulls)} \subseteq Nat
  <2>1. IsFiniteSet(seenIds') /\ Cardinality(seenIds') = Cardinality(seenIds) + 1
    <3>1. IsFiniteSet(seenIds)
      BY DEF CountInv
    <3> QED
      BY <1>2, <3>1, OneMore
  <2>2. IsFiniteSet(issues') /\ Cardinality(issues') = Cardinality(issues) + 1
    <3>1. IsFiniteSet(issues)
      BY DEF CountInv
    <3>2. issues' = issues \cup {row}
      BY <1>1
    <3> QED
      BY <1>3, <3>1, <3>2, OneMore
  <2>3. {Cardinality(DOMAIN repositories), Cardinality(issues), Cardinality(pulls)} \subseteq Nat
    BY CountsAreNumbers
  <2> QED
    BY <2>1, <2>2, <2>3
<1>5. Cardinality(seenIds') = Accepted'
  <2>1. Accepted = Cardinality(DOMAIN repositories) + Cardinality(issues) + Cardinality(pulls)
    BY DEF Accepted
  <2>2. Accepted' = Cardinality(DOMAIN repositories) + Cardinality(issues') + Cardinality(pulls)
    BY DEF Accepted
  <2>3. Cardinality(seenIds) = Accepted
    BY DEF CountInv
  <2> QED
    BY <1>4, <2>1, <2>2, <2>3
<1>6. CountInv'
  BY <1>1, <1>4, <1>5 DEF CountInv
<1>7. row.number = "fits" => StorableIssue(row)
  BY <1>1 DEF StorableIssue, IssueStateIsValid, OpenReasonIsValid
<1>8. StorableInv'
  BY <1>1, <1>2, <1>7 DEF StorableInv
<1> QED
  BY <1>6, <1>8

\* An accepted pull request, likewise.
LEMMA PullAdds ==
  ASSUME CountInv, StorableInv, ValidatePull
  PROVE  CountInv' /\ StorableInv'
<1> SUFFICES ASSUME NEW raw \in RawItem, NEW merged \in BOOLEAN, NEW mergedAt \in BOOLEAN,
                    ItemIsValid(raw), PullStateIsValid(raw, merged, mergedAt),
                    seenIds' = seenIds \cup {raw.id},
                    pulls' = pulls \cup
                      {[id |-> raw.id, repository |-> raw.repository, number |-> raw.number,
                        state |-> raw.state, closed |-> raw.closed, merged |-> merged,
                        mergedAt |-> mergedAt]},
                    repositories' = repositories, issues' = issues
             PROVE  CountInv' /\ StorableInv'
  BY RejectLeavesNothing DEF ValidatePull
<1> DEFINE row == [id |-> raw.id, repository |-> raw.repository, number |-> raw.number,
                   state |-> raw.state, closed |-> raw.closed, merged |-> merged,
                   mergedAt |-> mergedAt]
<1>1. /\ row.id = raw.id /\ row.repository = raw.repository /\ row.number = raw.number
      /\ row.state = raw.state /\ row.closed = raw.closed
      /\ row.merged = merged /\ row.mergedAt = mergedAt
      /\ pulls' = pulls \cup {row}
  OBVIOUS
<1> HIDE DEF row
<1>2. /\ raw.id \notin seenIds /\ raw.repository \in DOMAIN repositories
      /\ raw.number \in {"fits", "too_large"}
  BY DEF ItemIsValid, IsNew, RawItem, Numbers
<1>3. row \notin pulls
  BY <1>1, <1>2 DEF CountInv
<1>4. /\ IsFiniteSet(seenIds') /\ Cardinality(seenIds') = Cardinality(seenIds) + 1
      /\ IsFiniteSet(pulls') /\ Cardinality(pulls') = Cardinality(pulls) + 1
      /\ {Cardinality(DOMAIN repositories), Cardinality(issues), Cardinality(pulls)} \subseteq Nat
  <2>1. IsFiniteSet(seenIds') /\ Cardinality(seenIds') = Cardinality(seenIds) + 1
    <3>1. IsFiniteSet(seenIds)
      BY DEF CountInv
    <3> QED
      BY <1>2, <3>1, OneMore
  <2>2. IsFiniteSet(pulls') /\ Cardinality(pulls') = Cardinality(pulls) + 1
    <3>1. IsFiniteSet(pulls)
      BY DEF CountInv
    <3>2. pulls' = pulls \cup {row}
      BY <1>1
    <3> QED
      BY <1>3, <3>1, <3>2, OneMore
  <2>3. {Cardinality(DOMAIN repositories), Cardinality(issues), Cardinality(pulls)} \subseteq Nat
    BY CountsAreNumbers
  <2> QED
    BY <2>1, <2>2, <2>3
<1>5. Cardinality(seenIds') = Accepted'
  <2>1. Accepted = Cardinality(DOMAIN repositories) + Cardinality(issues) + Cardinality(pulls)
    BY DEF Accepted
  <2>2. Accepted' = Cardinality(DOMAIN repositories) + Cardinality(issues) + Cardinality(pulls')
    BY DEF Accepted
  <2>3. Cardinality(seenIds) = Accepted
    BY DEF CountInv
  <2> QED
    BY <1>4, <2>1, <2>2, <2>3
<1>6. CountInv'
  BY <1>1, <1>4, <1>5 DEF CountInv
<1>7. row.number = "fits" => StorablePull(row)
  BY <1>1 DEF StorablePull, PullStateIsValid
<1>8. StorableInv'
  BY <1>1, <1>2, <1>7 DEF StorableInv
<1> QED
  BY <1>6, <1>8

\* The counting and the schema hold throughout the validation of a snapshot.
LEMMA ValidationInvHolds == ValidationSpec => [](CountInv /\ StorableInv)
<1>1. ValidationInit => CountInv /\ StorableInv
  <2> SUFFICES ASSUME ValidationInit PROVE CountInv /\ StorableInv
    OBVIOUS
  <2>1. seenIds = {} /\ DOMAIN repositories = {} /\ issues = {} /\ pulls = {}
    BY DEF ValidationInit
  <2>2. IsFiniteSet({}) /\ Cardinality({}) = 0
    BY FS_EmptySet
  <2>3. Accepted = 0 + 0 + 0
    BY <2>1, <2>2 DEF Accepted
  <2> QED
    BY <2>1, <2>2, <2>3 DEF CountInv, StorableInv
<1>2. ASSUME CountInv, StorableInv, [ValidationNext]_validationVars
      PROVE  CountInv' /\ StorableInv'
  <2>1. ASSUME UNCHANGED <<seenIds, repositories, issues, pulls>>
        PROVE  CountInv' /\ StorableInv'
    BY <1>2, <2>1 DEF CountInv, StorableInv, Accepted
  <2>2. CASE NextCollection \/ UNCHANGED validationVars
    BY <2>1, <2>2 DEF NextCollection, validationVars
  <2> QED
    BY <1>2, <2>2, RejectLeavesNothing, RepositoryAdds, IssueAdds, PullAdds
    DEF ValidationNext, BoundaryRefuses
<1> QED
  BY <1>1, <1>2, PTL DEF ValidationSpec

\* The schema refuses no row the validator accepted, but for a number it does not
\* bound, for any ids and any number of records.
THEOREM AcceptedIsStorableAlways == ValidationSpec => []AcceptedIsStorable
<1>1. CountInv /\ StorableInv => AcceptedIsStorable
  <2> SUFFICES ASSUME CountInv, StorableInv PROVE AcceptedIsStorable
    OBVIOUS
  <2>1. Cardinality(seenIds) = Accepted
    BY DEF CountInv
  <2> QED
    BY <2>1 DEF StorableInv, AcceptedIsStorable
<1> QED
  BY <1>1, ValidationInvHolds, PTL

\* An id is that of one row, in all three tables together.
KeyInv ==
  /\ \A a, b \in issues : a.id = b.id => a = b
  /\ \A a, b \in pulls : a.id = b.id => a = b
  /\ \A a \in issues, b \in pulls : a.id # b.id
  /\ \A row \in issues \cup pulls : row.id \notin DOMAIN repositories

\* The accepted rows as _commit_snapshot goes through them, a table by its ids.
Keyed(rows) ==
  [n \in {row.id : row \in rows} |->
     LET row == CHOOSE r \in rows : r.id = n
     IN [repository |-> row.repository, body |-> row]]
AcceptedSnapshot ==
  [repositories |-> [n \in DOMAIN repositories |-> [body |-> repositories[n]]],
   issues |-> Keyed(issues),
   pull_requests |-> Keyed(pulls)]

\* Rows have the fields and the values the validator lets through.
LEMMA ValidTypes == ValidationSpec => []ValidationTypeOK
<1>1. ValidationInit => ValidationTypeOK
  BY DEF ValidationInit, ValidationTypeOK
<1>2. ASSUME ValidationTypeOK, [ValidationNext]_validationVars
      PROVE  ValidationTypeOK'
  <2>1. CASE Reject
    BY <2>1 DEF Reject, ValidationTypeOK
  <2>2. CASE ValidateRepository
    <3>1. CASE Reject
      BY <2>1, <3>1
    <3>2. CASE ~Reject
      <4>1. PICK raw \in RawRepository :
              /\ seenIds' = seenIds \cup {raw.id}
              /\ repositories' = [r \in DOMAIN repositories \cup {raw.id} |->
                                    IF r = raw.id THEN raw.owner ELSE repositories[r]]
              /\ UNCHANGED <<phase, issues, pulls>>
        BY <2>2, <3>2 DEF ValidateRepository
      <4>2. raw.id \in Ids /\ raw.owner \in Owners
        BY DEF RawRepository
      <4> QED
        BY <1>2, <4>1, <4>2 DEF ValidationTypeOK
    <3> QED
      BY <3>1, <3>2
  <2>3. CASE ValidateIssue
    <3>1. CASE Reject
      BY <2>1, <3>1
    <3>2. CASE ~Reject
      <4>1. PICK raw \in RawItem, reason \in Reasons :
              /\ seenIds' = seenIds \cup {raw.id}
              /\ issues' = issues \cup
                   {[id |-> raw.id, repository |-> raw.repository, number |-> raw.number,
                     state |-> raw.state, closed |-> raw.closed, reason |-> reason]}
              /\ UNCHANGED <<phase, repositories, pulls>>
        BY <2>3, <3>2 DEF ValidateIssue
      <4>2. /\ raw.id \in Ids
            /\ [id |-> raw.id, repository |-> raw.repository, number |-> raw.number,
                state |-> raw.state, closed |-> raw.closed, reason |-> reason] \in Issue
        BY DEF RawItem, Issue
      <4> QED
        BY <1>2, <4>1, <4>2 DEF ValidationTypeOK
    <3> QED
      BY <3>1, <3>2
  <2>4. CASE ValidatePull
    <3>1. CASE Reject
      BY <2>1, <3>1
    <3>2. CASE ~Reject
      <4>1. PICK raw \in RawItem, merged \in BOOLEAN, mergedAt \in BOOLEAN :
              /\ seenIds' = seenIds \cup {raw.id}
              /\ pulls' = pulls \cup
                   {[id |-> raw.id, repository |-> raw.repository, number |-> raw.number,
                     state |-> raw.state, closed |-> raw.closed, merged |-> merged,
                     mergedAt |-> mergedAt]}
              /\ UNCHANGED <<phase, repositories, issues>>
        BY <2>4, <3>2 DEF ValidatePull
      <4>2. /\ raw.id \in Ids
            /\ [id |-> raw.id, repository |-> raw.repository, number |-> raw.number,
                state |-> raw.state, closed |-> raw.closed, merged |-> merged,
                mergedAt |-> mergedAt] \in Pull
        BY DEF RawItem, Pull
      <4> QED
        BY <1>2, <4>1, <4>2 DEF ValidationTypeOK
    <3> QED
      BY <3>1, <3>2
  <2>5. CASE phase \in {"repositories", "issues", "pull_requests"} /\ NextCollection
    BY <1>2, <2>5 DEF NextCollection, ValidationTypeOK
  <2>6. CASE UNCHANGED validationVars
    BY <1>2, <2>6 DEF validationVars, ValidationTypeOK
  <2> QED
    BY <1>2, <2>1, <2>2, <2>3, <2>4, <2>5, <2>6 DEF ValidationNext, BoundaryRefuses
<1> QED
  BY <1>1, <1>2, PTL DEF ValidationSpec

\* A new id is that of no row.
LEMMA KeysStayUnique ==
  ASSUME CountInv, KeyInv, [ValidationNext]_validationVars
  PROVE  KeyInv'
<1>1. CASE Reject
  BY <1>1 DEF Reject, KeyInv
<1>2. ASSUME UNCHANGED <<repositories, issues, pulls>> PROVE KeyInv'
  BY <1>2 DEF KeyInv
<1>3. CASE ValidateRepository
  <2>1. CASE ~Reject
    <3>1. PICK raw \in RawRepository :
            /\ raw.id \notin seenIds
            /\ DOMAIN repositories' = DOMAIN repositories \cup {raw.id}
            /\ UNCHANGED <<issues, pulls>>
      BY <1>3, <2>1 DEF ValidateRepository, RepositoryIsValid, IsNew
    <3> QED
      BY <3>1 DEF CountInv, KeyInv
  <2> QED
    BY <1>1, <2>1
<1>4. CASE ValidateIssue
  <2>1. CASE ~Reject
    <3>1. PICK raw \in RawItem, reason \in Reasons :
            /\ raw.id \notin seenIds
            /\ issues' = issues \cup
                 {[id |-> raw.id, repository |-> raw.repository, number |-> raw.number,
                   state |-> raw.state, closed |-> raw.closed, reason |-> reason]}
            /\ UNCHANGED <<repositories, pulls>>
      BY <1>4, <2>1 DEF ValidateIssue, ItemIsValid, IsNew
    <3> DEFINE row == [id |-> raw.id, repository |-> raw.repository, number |-> raw.number,
                       state |-> raw.state, closed |-> raw.closed, reason |-> reason]
    <3>2. row.id \notin seenIds /\ issues' = issues \cup {row}
      BY <3>1
    <3> HIDE DEF row
    <3> QED
      BY <3>1, <3>2 DEF CountInv, KeyInv
  <2> QED
    BY <1>1, <2>1
<1>5. CASE ValidatePull
  <2>1. CASE ~Reject
    <3>1. PICK raw \in RawItem, merged \in BOOLEAN, mergedAt \in BOOLEAN :
            /\ raw.id \notin seenIds
            /\ pulls' = pulls \cup
                 {[id |-> raw.id, repository |-> raw.repository, number |-> raw.number,
                   state |-> raw.state, closed |-> raw.closed, merged |-> merged,
                   mergedAt |-> mergedAt]}
            /\ UNCHANGED <<repositories, issues>>
      BY <1>5, <2>1 DEF ValidatePull, ItemIsValid, IsNew
    <3> DEFINE row == [id |-> raw.id, repository |-> raw.repository, number |-> raw.number,
                       state |-> raw.state, closed |-> raw.closed, merged |-> merged,
                       mergedAt |-> mergedAt]
    <3>2. row.id \notin seenIds /\ pulls' = pulls \cup {row}
      BY <3>1
    <3> HIDE DEF row
    <3> QED
      BY <3>1, <3>2 DEF CountInv, KeyInv
  <2> QED
    BY <1>1, <2>1
<1>6. CASE NextCollection \/ UNCHANGED validationVars
  BY <1>2, <1>6 DEF NextCollection, validationVars
<1> QED
  BY <1>1, <1>3, <1>4, <1>5, <1>6 DEF ValidationNext, BoundaryRefuses

\* What validation accepts is what the transaction may be given: every row appears
\* under an id of its own, and refers to a repository that is there.
THEOREM AcceptedIsASnapshotAlways ==
  ASSUME Ids \subseteq Repositories, Ids \subseteq Issues, Ids \subseteq PullRequests,
         Owners \cup Issue \cup Pull \subseteq Bodies
  PROVE  ValidationSpec => [](KeyInv /\ AcceptedSnapshot \in Snapshots)
<1>1. ValidationInit => KeyInv
  BY DEF ValidationInit, KeyInv
<1>2. CountInv /\ KeyInv /\ [ValidationNext]_validationVars => KeyInv'
  BY KeysStayUnique
<1>3. ValidationTypeOK /\ StorableInv => AcceptedSnapshot \in Snapshots
  <2> SUFFICES ASSUME ValidationTypeOK, StorableInv PROVE AcceptedSnapshot \in Snapshots
    OBVIOUS
  <2>1. /\ DOMAIN repositories \in SUBSET Repositories
        /\ AcceptedSnapshot.repositories \in [DOMAIN repositories -> [body : Bodies]]
    BY DEF ValidationTypeOK, AcceptedSnapshot
  <2>2. ASSUME NEW rows, NEW T, \A row \in rows : /\ row.id \in T /\ row \in Bodies
                                                  /\ row.repository \in DOMAIN repositories
        PROVE  /\ DOMAIN Keyed(rows) \in SUBSET T
               /\ Keyed(rows) \in [DOMAIN Keyed(rows) -> ItemRow]
               /\ \A n \in DOMAIN Keyed(rows) : Keyed(rows)[n].repository \in DOMAIN repositories
    <3>1. DOMAIN Keyed(rows) = {row.id : row \in rows}
      BY DEF Keyed
    <3>2. ASSUME NEW n \in {row.id : row \in rows}
          PROVE  Keyed(rows)[n] \in ItemRow /\ Keyed(rows)[n].repository \in DOMAIN repositories
      <4> DEFINE row == CHOOSE r \in rows : r.id = n
      <4>1. row \in rows
        BY <3>2
      <4>2. Keyed(rows)[n] = [repository |-> row.repository, body |-> row]
        BY <3>2 DEF Keyed
      <4> HIDE DEF row
      <4> QED
        BY <2>1, <2>2, <4>1, <4>2 DEF ItemRow
    <3>3. Keyed(rows) = [n \in DOMAIN Keyed(rows) |-> Keyed(rows)[n]]
      BY DEF Keyed
    <3> HIDE DEF Keyed
    <3> QED
      BY <2>2, <3>1, <3>2, <3>3
  <2>3. /\ DOMAIN Keyed(issues) \in SUBSET Issues
        /\ Keyed(issues) \in [DOMAIN Keyed(issues) -> ItemRow]
        /\ \A n \in DOMAIN Keyed(issues) : Keyed(issues)[n].repository \in DOMAIN repositories
    <3>1. \A row \in issues : /\ row.id \in Issues /\ row \in Bodies
                              /\ row.repository \in DOMAIN repositories
      BY DEF ValidationTypeOK, Issue, StorableInv
    <3> QED
      BY <2>2, <3>1
  <2>4. /\ DOMAIN Keyed(pulls) \in SUBSET PullRequests
        /\ Keyed(pulls) \in [DOMAIN Keyed(pulls) -> ItemRow]
        /\ \A n \in DOMAIN Keyed(pulls) : Keyed(pulls)[n].repository \in DOMAIN repositories
    <3>1. \A row \in pulls : /\ row.id \in PullRequests /\ row \in Bodies
                             /\ row.repository \in DOMAIN repositories
      BY DEF ValidationTypeOK, Pull, StorableInv
    <3> QED
      BY <2>2, <3>1
  <2>5. /\ AcceptedSnapshot.repositories \in Table(Repositories, [body : Bodies])
        /\ AcceptedSnapshot.issues \in Table(Issues, ItemRow)
        /\ AcceptedSnapshot.pull_requests \in Table(PullRequests, ItemRow)
    <3>1. AcceptedSnapshot.issues = Keyed(issues) /\ AcceptedSnapshot.pull_requests = Keyed(pulls)
      BY DEF AcceptedSnapshot
    <3> QED
      BY <2>1, <2>3, <2>4, <3>1 DEF Table
  <2>6. AcceptedSnapshot \in [repositories : Table(Repositories, [body : Bodies]),
                             issues : Table(Issues, ItemRow),
                             pull_requests : Table(PullRequests, ItemRow)]
    BY <2>5 DEF AcceptedSnapshot
  <2>7. Referential(AcceptedSnapshot)
    <3>1. /\ AcceptedSnapshot["issues"] = Keyed(issues)
          /\ AcceptedSnapshot["pull_requests"] = Keyed(pulls)
          /\ DOMAIN AcceptedSnapshot.repositories = DOMAIN repositories
      BY DEF AcceptedSnapshot
    <3> QED
      BY <2>3, <2>4, <3>1 DEF Referential, ItemTables
  <2> QED
    BY <2>6, <2>7 DEF Snapshots
<1> QED
  BY <1>1, <1>2, <1>3, ValidTypes, ValidationInvHolds, PTL DEF ValidationSpec

=============================================================================
