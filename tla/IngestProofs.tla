---------------------------- MODULE IngestProofs ----------------------------
(***************************************************************************)
(* Proofs about Ingest for every set of callers and every bound on the     *)
(* number of runs.  The lock excludes: while a caller stands inside        *)
(* run_ingest all others are outside, so each invariant below speaks of    *)
(* one caller at a time.                                                   *)
(***************************************************************************)
EXTENDS Ingest, SequenceTheorems, TLAPS

\* _RUN_LOCK is held exactly by the caller inside run_ingest.
LockInv == \A c \in Callers : pc[c] # "out" <=> lock = c

BeforeRow == {"out", "announce", "open"}
WithRow == {"number", "acquire", "begin", "commit", "invalidate", "broadcast"}
RowSettled == {"invalidate", "broadcast", "tell", "reset", "finally", "release"}

\* The row of the run in flight is the newest, and is finished, or given up,
\* once the transaction or the recording of a failure is over.
RowInv ==
  \A c \in Callers :
    /\ runId[c] # 0 => runId[c] = Len(runs)
    /\ pc[c] \in BeforeRow => runId[c] = 0
    /\ pc[c] \in WithRow => runId[c] # 0
    /\ pc[c] \in RowSettled /\ runId[c] # 0 =>
         runs[runId[c]].finished \/ runId[c] \in interrupted

\* Progress is idle when nobody runs, and from the finally clause on; while
\* somebody runs it names his row or none.
ProgressInv ==
  /\ progress.phase = "idle" => progress.run = 0
  /\ lock = NoCaller => progress.phase = "idle"
  /\ \A c \in Callers :
       /\ pc[c] = "release" => progress.phase = "idle"
       /\ pc[c] \in {"open", "number"} => progress.phase # "idle"
       /\ pc[c] # "out" => progress.run \in {0, runId[c]}

\* The cache never knows more than is stored, and all of it when browsers are told.
CacheInv ==
  /\ covered <= store
  /\ event.kind = "ingest_done" => event.version <= covered
  /\ \A c \in Callers :
       /\ pc[c] \in {"invalidate", "broadcast"} => sync.status = "success"
       /\ pc[c] = "broadcast" => covered = store

\* What the end of a run leaves behind.
Story ==
  /\ ended = "committed" =>
       /\ event.kind = "ingest_done" /\ ~progress.error
       /\ sync.status = "success" /\ covered = store
  /\ ended = "failed" =>
       /\ event.kind = "ingest_failed" /\ progress.error
       /\ recorded => sync.status = "failure"

\* It holds from the last step that tells it to the first of the next run.
StoryInv ==
  /\ lock = NoCaller => Story
  /\ \A c \in Callers :
       /\ pc[c] \in {"finally", "release"} => Story
       /\ pc[c] = "finally" /\ ended = "failed" => progress.phase = "idle"
       /\ pc[c] \in {"open"} \cup WithRow => ~progress.error
       /\ pc[c] \in {"tell", "reset"} /\ recorded => sync.status = "failure"
       /\ pc[c] = "reset" => event.kind = "ingest_failed" /\ ended = "failed"

IngestInv == LockInv /\ RowInv /\ ProgressInv /\ CacheInv /\ StoryInv

(***************************************************************************)
(* Types                                                                   *)
(***************************************************************************)

\* Replacing one row keeps the table and all other rows.
LEMMA UpdateRow ==
  ASSUME runs \in Seq(Row), NEW i \in DOMAIN runs, NEW row \in Row,
         runs' = [runs EXCEPT ![i] = row]
  PROVE  /\ runs' \in Seq(Row)
         /\ Len(runs') = Len(runs) /\ DOMAIN runs' = DOMAIN runs
         /\ \A j \in DOMAIN runs : runs'[j] = IF j = i THEN row ELSE runs[j]
<1>1. i \in 1 .. Len(runs)
  OBVIOUS
<1>2. QED
  BY <1>1, ExceptSeq

\* _open_run appends a row and keeps all others.
LEMMA AppendRow ==
  ASSUME runs \in Seq(Row), runs' = Append(runs, NewRow)
  PROVE  /\ runs' \in Seq(Row)
         /\ Len(runs') = Len(runs) + 1 /\ DOMAIN runs' = 1 .. Len(runs) + 1
         /\ runs'[Len(runs) + 1] = NewRow
         /\ \A j \in DOMAIN runs : runs'[j] = runs[j]
<1>1. NewRow \in Row
  BY DEF NewRow, Row
<1>2. QED
  BY <1>1, AppendProperties

\* The row of the run in flight exists.
LEMMA OwnRow ==
  ASSUME TypeOK, RowInv, NEW c \in Callers, runId[c] # 0
  PROVE  runId[c] \in DOMAIN runs /\ runId[c] = Len(runs) /\ runs[runId[c]] \in Row
BY DEF TypeOK, TablesTypeOK, CallersTypeOK, RowInv

\* What a transaction that took effect does to the table.
LEMMA ApplyRow ==
  ASSUME TypeOK, RowInv, NEW c \in Callers, pc[c] = "commit", ApplySnapshot(c)
  PROVE  /\ runs' \in Seq(Row)
         /\ Len(runs') = Len(runs) /\ DOMAIN runs' = DOMAIN runs
         /\ runId[c] \in DOMAIN runs /\ runId[c] = Len(runs)
         /\ runs'[runId[c]].finished /\ runs'[runId[c]].committed
         /\ \A j \in DOMAIN runs : j # runId[c] => runs'[j] = runs[j]
<1> DEFINE row == [finished |-> TRUE, committed |-> TRUE, error |-> FALSE]
<1>1. runId[c] # 0
  BY DEF RowInv, WithRow
<1>2. row \in Row
  BY DEF Row
<1>3. runs' = [runs EXCEPT ![runId[c]] = row]
  BY DEF ApplySnapshot
<1> HIDE DEF row
<1>4. runs \in Seq(Row)
  BY DEF TypeOK, TablesTypeOK
<1>5. QED
  BY <1>1, <1>2, <1>3, <1>4, UpdateRow, OwnRow DEF row

\* What the recording of a failure does to it.
LEMMA FailRow ==
  ASSUME TypeOK, RowInv, NEW c \in Callers, StoreFailure(c)
  PROVE  /\ runs' \in Seq(Row)
         /\ Len(runs') = Len(runs) /\ DOMAIN runs' = DOMAIN runs
         /\ runId[c] # 0 => runs'[runId[c]].finished
         /\ \A j \in DOMAIN runs : /\ runs'[j].committed = runs[j].committed
                                   /\ runs[j].finished => runs'[j].finished
                                   /\ j # runId[c] => runs'[j] = runs[j]
<1> DEFINE i == runId[c]
           row == [runs[i] EXCEPT !.finished = TRUE, !.error = TRUE]
<1>0. runs \in Seq(Row)
  BY DEF TypeOK, TablesTypeOK
<1>1. CASE i = 0
  BY <1>0, <1>1 DEF StoreFailure
<1>2. CASE i # 0
  <2>1. i \in DOMAIN runs /\ runs[i] \in Row
    BY <1>2, OwnRow
  <2>2. row \in Row /\ row.finished /\ row.committed = runs[i].committed
    BY <2>1 DEF Row
  <2>3. runs' = [runs EXCEPT ![i] = row]
    BY <1>2 DEF StoreFailure
  <2> HIDE DEF row
  <2>4. QED
    BY <1>0, <2>1, <2>2, <2>3, UpdateRow
<1>3. QED
  BY <1>1, <1>2

\* The process starts with typed state.
LEMMA InitTyped == Init => TypeOK
BY CallerAssumption, MaxRunsAssumption
   DEF Init, TypeOK, TablesTypeOK, CallersTypeOK, ReportsTypeOK, Location, Progress, Phase, Event,
       Health, Sync, IdleProgress, NoHealth, RunIds

\* Every step leaves ingest_runs, sync_state and the stored data typed.
LEMMA NextTablesTyped == TypeOK /\ RowInv /\ [Next]_vars => TablesTypeOK'
<1> SUFFICES ASSUME TypeOK, RowInv, [Next]_vars PROVE TablesTypeOK'
  OBVIOUS
<1> USE MaxRunsAssumption DEF tables, Move
<1>1. CASE UNCHANGED tables
  BY <1>1 DEF TypeOK, TablesTypeOK
<1>2. ASSUME NEW c \in Callers, OpenRun(c) \/ OpenRunFails(c) PROVE TablesTypeOK'
  BY <1>2, AppendRow DEF TypeOK, TablesTypeOK, OpenRun, OpenRunFails, tables
<1>3. ASSUME NEW c \in Callers, Commit(c) \/ CommitFails(c) PROVE TablesTypeOK'
  <2>1. CASE pc[c] = "commit" /\ ApplySnapshot(c)
    <3>1. runs' \in Seq(Row) /\ Len(runs') <= MaxRuns
      BY <2>1, ApplyRow DEF TypeOK, TablesTypeOK
    <3>2. sync' \in Sync
      BY <2>1 DEF ApplySnapshot, Sync, TypeOK, CallersTypeOK
    <3>3. store' \in Nat
      BY <2>1 DEF ApplySnapshot, TypeOK, TablesTypeOK
    <3> QED
      BY <3>1, <3>2, <3>3 DEF TablesTypeOK
  <2>2. QED
    BY <1>1, <1>3, <2>1 DEF Commit, CommitFails
<1>4. ASSUME NEW c \in Callers, RecordFailure(c) PROVE TablesTypeOK'
  <2>1. CASE StoreFailure(c)
    <3>1. runs' \in Seq(Row) /\ Len(runs') <= MaxRuns
      BY <2>1, FailRow DEF TypeOK, TablesTypeOK
    <3>2. sync' \in Sync
      BY <2>1 DEF StoreFailure, Sync, TypeOK, TablesTypeOK
    <3> QED
      BY <1>4, <3>1, <3>2 DEF RecordFailure, TypeOK, TablesTypeOK
  <2>2. QED
    BY <1>1, <1>4, <2>1 DEF RecordFailure
<1>5. QED
  BY <1>1, <1>2, <1>3, <1>4
     DEF Next, vars, Enter, Step, Announce, NumberRun, Acquire, AcquireFails, BeginCommit, Invalidate,
         Broadcast, TellFailure, ResetWithError, Finally, Release, HealthStep, Read, ReadRow,
         ReadSync, ReadProgress, Answer, Crash

\* Every step leaves the callers and the lock typed.
LEMMA NextCallersTyped == TypeOK /\ [Next]_vars => CallersTypeOK'
<1> SUFFICES ASSUME TypeOK, [Next]_vars PROVE CallersTypeOK'
  OBVIOUS
<1> USE CallerAssumption, MaxRunsAssumption DEF TypeOK, CallersTypeOK, Move, LockFree, Cover, DropFrame, Location
<1>1. ASSUME NEW c \in Callers, Enter(c) PROVE CallersTypeOK'
  BY <1>1 DEF Enter
<1>2. ASSUME NEW c \in Callers, Step(c) PROVE CallersTypeOK'
  <2>1. CASE OpenRun(c)
    BY <2>1 DEF OpenRun, TablesTypeOK
  <2>2. CASE Announce(c) \/ OpenRunFails(c) \/ NumberRun(c) \/ Acquire(c) \/ AcquireFails(c)
    BY <2>2 DEF Announce, OpenRunFails, NumberRun, Acquire, AcquireFails
  <2>3. CASE BeginCommit(c) \/ Commit(c) \/ CommitFails(c) \/ Invalidate(c) \/ Broadcast(c)
    BY <2>3 DEF BeginCommit, Commit, CommitFails, Invalidate, Broadcast
  <2>4. CASE RecordFailure(c) \/ TellFailure(c) \/ ResetWithError(c) \/ Finally(c)
    BY <2>4 DEF RecordFailure, TellFailure, ResetWithError, Finally
  <2>5. CASE Release(c)
    BY <2>5 DEF Release
  <2>6. QED
    BY <1>2, <2>1, <2>2, <2>3, <2>4, <2>5 DEF Step
<1>3. CASE HealthStep
  BY <1>3 DEF HealthStep, Read, ReadRow, ReadSync, ReadProgress, Answer
<1>4. CASE Crash
  BY <1>4 DEF Crash
<1>5. CASE UNCHANGED vars
  BY <1>5 DEF vars
<1>6. QED
  BY <1>1, <1>2, <1>3, <1>4, <1>5 DEF Next

\* The values _set_progress and _reset_progress leave behind.
LEMMA ProgressTyped ==
  /\ IdleProgress \in Progress
  /\ FailedProgress \in Progress
  /\ [IdleProgress EXCEPT !.phase = "acquiring"] \in Progress
  /\ \A p \in Progress : \A phase \in Phase : [p EXCEPT !.phase = phase] \in Progress
  /\ \A p \in Progress : \A run \in 0 .. MaxRuns : [p EXCEPT !.run = run] \in Progress
<1>1. IdleProgress \in Progress
  BY MaxRunsAssumption DEF IdleProgress, Progress, Phase
<1>2. FailedProgress \in Progress
  BY MaxRunsAssumption DEF FailedProgress, Progress, Phase
<1>3. \A p \in Progress : \A phase \in Phase : [p EXCEPT !.phase = phase] \in Progress
  BY DEF Progress
<1>4. \A p \in Progress : \A run \in 0 .. MaxRuns : [p EXCEPT !.run = run] \in Progress
  BY DEF Progress
<1>5. QED
  BY <1>1, <1>2, <1>3, <1>4 DEF Phase

\* Every step leaves what is told of a run typed: progress, events, the cache and /health.
LEMMA NextReportsTyped == TypeOK /\ [Next]_vars => ReportsTypeOK'
<1> SUFFICES ASSUME TypeOK, [Next]_vars PROVE ReportsTypeOK'
  OBVIOUS
<1> USE MaxRunsAssumption
    DEF TypeOK, ReportsTypeOK, Phase, Event, NoHealth, RunIds, history
<1>1. ASSUME NEW c \in Callers, Enter(c) PROVE ReportsTypeOK'
  BY <1>1 DEF Enter
<1>2. ASSUME NEW c \in Callers, Step(c) PROVE ReportsTypeOK'
  <2>1. CASE Announce(c) \/ NumberRun(c) \/ Acquire(c) \/ AcquireFails(c) \/ BeginCommit(c)
    <3>1. progress' \in Progress
      <4>1. progress \in Progress /\ runId[c] \in 0 .. MaxRuns
        BY DEF CallersTypeOK
      <4>2. CASE Announce(c) \/ AcquireFails(c)
        BY <4>1, <4>2, ProgressTyped DEF Announce, AcquireFails
      <4>3. CASE NumberRun(c)
        BY <4>1, <4>3, ProgressTyped DEF NumberRun
      <4>4. CASE Acquire(c)
        BY <4>1, <4>4, ProgressTyped DEF Acquire
      <4>5. CASE BeginCommit(c)
        BY <4>1, <4>5, ProgressTyped DEF BeginCommit
      <4> QED
        BY <2>1, <4>2, <4>3, <4>4, <4>5
    <3> QED
      BY <2>1, <3>1 DEF Announce, NumberRun, Acquire, AcquireFails, BeginCommit
  <2>2. CASE OpenRun(c) \/ OpenRunFails(c)
    <3>1. Len(runs) < MaxRuns => Len(runs) + 1 \in RunIds
      BY DEF TablesTypeOK
    <3> HIDE DEF RunIds, Event
    <3> QED
      BY <2>2, <3>1 DEF OpenRun, OpenRunFails
  <2>3. CASE Commit(c) \/ CommitFails(c)
    BY <2>3 DEF Commit, CommitFails
  <2>4. CASE Invalidate(c) \/ Broadcast(c) \/ TellFailure(c)
    BY <2>4 DEF Invalidate, Cover, Broadcast, TellFailure, TablesTypeOK
  <2>5. CASE RecordFailure(c)
    <3>1. interrupted' \in SUBSET RunIds /\ recorded' \in BOOLEAN
      BY <2>5 DEF RecordFailure
    <3> HIDE DEF RunIds, Event
    <3> QED
      BY <2>5, <3>1 DEF RecordFailure
  <2>6. CASE ResetWithError(c) \/ Finally(c) \/ Release(c)
    <3>1. progress' \in Progress
      BY <2>6, ProgressTyped DEF ResetWithError, Finally, AfterRun, Release
    <3> HIDE DEF RunIds, Event
    <3> QED
      BY <2>6, <3>1 DEF ResetWithError, Finally, Release
  <2>7. QED
    BY <1>2, <2>1, <2>2, <2>3, <2>4, <2>5, <2>6 DEF Step
<1>3. CASE HealthStep
  <2>1. ASSUME NEW what, NEW failed \in BOOLEAN, NEW inFlight \in BOOLEAN,
               Read(what, failed, inFlight)
        PROVE  health' \in Health
    <3>1. (health.reads = 2 /\ lock = NoCaller /\ ended = "failed") \in BOOLEAN
      OBVIOUS
    <3> QED
      BY <2>1, <3>1 DEF Read, Health
  <2>2. /\ (runs # <<>> /\ runs[Len(runs)].error) \in BOOLEAN
        /\ (sync.status = "failure") \in BOOLEAN
        /\ progress.error \in BOOLEAN /\ (progress.phase # "idle") \in BOOLEAN
    BY DEF Progress
  <2>3. health' \in Health
    <3>1. CASE ReadRow
      <4> DEFINE failed == runs # <<>> /\ runs[Len(runs)].error
      <4>1. failed \in BOOLEAN /\ Read("row", failed, FALSE)
        BY <2>2, <3>1 DEF ReadRow
      <4> HIDE DEF failed
      <4> QED
        BY <2>1, <4>1
    <3>2. CASE ReadSync
      BY <2>1, <2>2, <3>2 DEF ReadSync
    <3>3. CASE ReadProgress
      BY <2>1, <2>2, <3>3 DEF ReadProgress
    <3>4. CASE Answer
      BY <3>4 DEF Answer, NoHealth, Health
    <3> QED
      BY <1>3, <3>1, <3>2, <3>3, <3>4 DEF HealthStep
  <2> QED
    BY <1>3, <2>3 DEF HealthStep, Read, ReadRow, ReadSync, ReadProgress, Answer
<1>4. CASE Crash
  <2>1. {i \in DOMAIN runs : ~runs[i].finished} \subseteq RunIds
    BY DEF TablesTypeOK
  <2>2. health' \in Health /\ progress' \in Progress /\ event' \in Event
    BY <1>4, ProgressTyped DEF Crash, Health
  <2> HIDE DEF RunIds, Event
  <2> QED
    BY <1>4, <2>1, <2>2 DEF Crash, TablesTypeOK
<1>5. CASE UNCHANGED vars
  BY <1>5 DEF vars
<1>6. QED
  BY <1>1, <1>2, <1>3, <1>4, <1>5 DEF Next

(***************************************************************************)
(* The lock, and the row of the run in flight                              *)
(***************************************************************************)

\* Nobody else is inside run_ingest.
LEMMA OthersAreOut ==
  ASSUME TypeOK, LockInv, NEW c \in Callers, pc[c] # "out", NEW d \in Callers, d # c
  PROVE  pc[d] = "out" /\ runId[d] = 0
BY DEF LockInv, TypeOK, CallersTypeOK

\* Every step keeps the run lock exclusive.
LEMMA NextLock == TypeOK /\ LockInv /\ [Next]_vars => LockInv'
<1> SUFFICES ASSUME TypeOK, LockInv, [Next]_vars PROVE LockInv'
  OBVIOUS
<1> USE CallerAssumption DEF LockInv, Move, LockFree, DropFrame
<1>0. pc \in [Callers -> Location]
  BY DEF TypeOK, CallersTypeOK
<1>1. ASSUME NEW c \in Callers, Enter(c) PROVE LockInv'
  BY <1>0, <1>1 DEF Enter
<1>2. ASSUME NEW c \in Callers, Step(c) PROVE LockInv'
  <2>1. CASE Release(c)
    BY <1>0, <2>1 DEF Release
  <2>2. CASE ~Release(c)
    <3>1. /\ lock' = lock /\ pc[c] # "out"
          /\ \E location \in Location : location # "out" /\ pc' = [pc EXCEPT ![c] = location]
      BY <1>2, <2>2
         DEF Step, Announce, OpenRun, OpenRunFails, NumberRun, Acquire, AcquireFails, BeginCommit,
             Commit, CommitFails, Invalidate, Broadcast, RecordFailure, TellFailure, ResetWithError,
             Finally, Location
    <3> QED
      BY <1>0, <3>1
  <2> QED
    BY <2>1, <2>2
<1>3. CASE HealthStep
  BY <1>3 DEF HealthStep, Read, ReadRow, ReadSync, ReadProgress, Answer
<1>4. CASE Crash
  BY <1>4 DEF Crash
<1>5. CASE UNCHANGED vars
  BY <1>5 DEF vars
<1>6. QED
  BY <1>1, <1>2, <1>3, <1>4, <1>5 DEF Next

\* Every step keeps the newest row that of the run in flight.
LEMMA NextRow == TypeOK /\ LockInv /\ RowInv /\ [Next]_vars => RowInv'
<1> SUFFICES ASSUME TypeOK, LockInv, RowInv, [Next]_vars PROVE RowInv'
  OBVIOUS
<1> USE DEF RowInv, Move, LockFree, Cover, DropFrame, BeforeRow, WithRow, RowSettled, tables, history
<1>0. /\ pc \in [Callers -> Location] /\ runId \in [Callers -> 0 .. MaxRuns]
      /\ runs \in Seq(Row) /\ MaxRuns \in Nat
  BY MaxRunsAssumption DEF TypeOK, CallersTypeOK, TablesTypeOK
<1>1. ASSUME NEW c \in Callers, Enter(c) PROVE RowInv'
  BY <1>0, <1>1 DEF Enter
<1>2. ASSUME NEW c \in Callers, Step(c) PROVE RowInv'
  <2>0. /\ pc[c] # "out"
        /\ \A d \in Callers \ {c} : pc[d] = "out" /\ runId[d] = 0
    <3>1. pc[c] # "out"
      BY <1>2 DEF Step, Announce, OpenRun, OpenRunFails, NumberRun, Acquire, AcquireFails, BeginCommit,
             Commit, CommitFails, Invalidate, Broadcast, RecordFailure, TellFailure, ResetWithError,
             Finally, Release
    <3> QED
      BY <3>1, OthersAreOut
  <2>1. CASE OpenRun(c)
    BY <1>0, <2>0, <2>1, AppendRow DEF OpenRun
  <2>2. CASE OpenRunFails(c)
    BY <1>0, <2>0, <2>2 DEF OpenRunFails
  <2>3. CASE Commit(c)
    BY <1>0, <2>0, <2>3, ApplyRow DEF Commit
  <2>4. CASE CommitFails(c)
    BY <1>0, <2>0, <2>4, ApplyRow DEF CommitFails
  <2>5. CASE RecordFailure(c)
    <3>1. CASE StoreFailure(c)
      BY <1>0, <2>0, <2>5, <3>1, FailRow, OwnRow DEF RecordFailure
    <3>2. CASE UNCHANGED <<runs, sync>> /\ interrupted' = interrupted \cup ({runId[c]} \cap RunIds)
      BY <1>0, <2>0, <2>5, <3>2 DEF RecordFailure, RunIds
    <3> QED
      BY <2>5, <3>1, <3>2 DEF RecordFailure
  <2>6. CASE Announce(c) \/ NumberRun(c) \/ Acquire(c) \/ AcquireFails(c) \/ BeginCommit(c)
    BY <1>0, <2>0, <2>6 DEF Announce, NumberRun, Acquire, AcquireFails, BeginCommit
  <2>7. CASE Invalidate(c) \/ Broadcast(c) \/ TellFailure(c) \/ ResetWithError(c) \/ Finally(c)
    BY <1>0, <2>0, <2>7 DEF Invalidate, Broadcast, TellFailure, ResetWithError, Finally
  <2>8. CASE Release(c)
    BY <1>0, <2>0, <2>8 DEF Release
  <2> QED
    BY <1>2, <2>1, <2>2, <2>3, <2>4, <2>5, <2>6, <2>7, <2>8 DEF Step
<1>3. CASE HealthStep
  BY <1>3 DEF HealthStep, Read, ReadRow, ReadSync, ReadProgress, Answer
<1>4. CASE Crash
  BY <1>4 DEF Crash
<1>5. CASE UNCHANGED vars
  BY <1>5 DEF vars
<1>6. QED
  BY <1>1, <1>2, <1>3, <1>4, <1>5 DEF Next

(***************************************************************************)
(* The tables                                                              *)
(***************************************************************************)

\* sync_state names a row that exists.
SyncInv == sync.run <= Len(runs) /\ SyncNamesNewestCommit

\* Every step keeps sync_state naming the newest committed run.
LEMMA NextSync == TypeOK /\ RowInv /\ SyncInv /\ [Next]_vars => SyncInv'
<1> SUFFICES ASSUME TypeOK, RowInv, SyncInv, [Next]_vars PROVE SyncInv'
  OBVIOUS
<1> USE DEF SyncInv, SyncNamesNewestCommit, Move
<1>0. /\ sync \in Sync /\ sync.run \in Nat
      /\ runs \in Seq(Row) /\ Len(runs) \in Nat /\ DOMAIN runs = 1 .. Len(runs)
  BY MaxRunsAssumption DEF TypeOK, TablesTypeOK, Sync
<1>1. CASE UNCHANGED <<runs, sync>>
  BY <1>1
<1>2. CASE runs' = Append(runs, NewRow) /\ UNCHANGED sync
  BY <1>0, <1>2, AppendRow DEF NewRow
<1>3. ASSUME NEW c \in Callers, pc[c] = "commit", ApplySnapshot(c) PROVE SyncInv'
  <2>1. sync'.run = runId[c]
    BY <1>3 DEF ApplySnapshot
  <2> QED
    BY <1>0, <1>3, <2>1, ApplyRow
<1>4. ASSUME NEW c \in Callers, StoreFailure(c) PROVE SyncInv'
  <2>1. sync'.run = sync.run
    BY <1>0, <1>4 DEF StoreFailure, Sync
  <2> QED
    BY <1>0, <1>4, <2>1, FailRow
<1>5. QED
  BY <1>1, <1>2, <1>3, <1>4
     DEF Next, vars, tables, Enter, Step, Announce, OpenRun, OpenRunFails, NumberRun, Acquire, AcquireFails,
         BeginCommit, Commit, CommitFails, Invalidate, Broadcast, RecordFailure, TellFailure,
         ResetWithError, Finally, Release, HealthStep, Read, ReadRow, ReadSync, ReadProgress, Answer, Crash

\* Every step that leaves a row unfinished has recorded why.
LEMMA NextUnfinished ==
  TypeOK /\ LockInv /\ RowInv /\ UnfinishedRowsAreExplained /\ [Next]_vars
    => UnfinishedRowsAreExplained'
<1> SUFFICES ASSUME TypeOK, LockInv, RowInv, UnfinishedRowsAreExplained, [Next]_vars
             PROVE  UnfinishedRowsAreExplained'
  OBVIOUS
<1> USE DEF UnfinishedRowsAreExplained, Move, LockFree, DropFrame, tables, history
<1>0. /\ pc \in [Callers -> Location] /\ runId \in [Callers -> 0 .. MaxRuns]
      /\ runs \in Seq(Row) /\ Len(runs) \in Nat /\ DOMAIN runs = 1 .. Len(runs)
      /\ Len(runs) <= MaxRuns /\ MaxRuns \in Nat
  BY MaxRunsAssumption DEF TypeOK, CallersTypeOK, TablesTypeOK
<1>1. ASSUME NEW c \in Callers, Enter(c) PROVE UnfinishedRowsAreExplained'
  <2>1. \A d \in Callers : lock # d
    BY <1>1, CallerAssumption DEF Enter
  <2> QED
    BY <1>1, <2>1 DEF Enter
<1>2. ASSUME NEW c \in Callers, Step(c) PROVE UnfinishedRowsAreExplained'
  <2>0. pc[c] # "out" /\ lock = c
    <3>1. pc[c] # "out"
      BY <1>2 DEF Step, Announce, OpenRun, OpenRunFails, NumberRun, Acquire, AcquireFails, BeginCommit,
             Commit, CommitFails, Invalidate, Broadcast, RecordFailure, TellFailure, ResetWithError,
             Finally, Release
    <3> QED
      BY <3>1 DEF LockInv
  <2>1. CASE OpenRun(c)
    <3>1. lock' = c /\ runId'[c] = Len(runs) + 1 /\ runId[c] = 0 /\ interrupted' = interrupted
      BY <1>0, <2>0, <2>1 DEF OpenRun, RowInv, BeforeRow
    <3>2. \A i \in DOMAIN runs : ~runs[i].finished => i \in interrupted
      BY <1>0, <2>0, <3>1
    <3> QED
      BY <1>0, <2>1, <3>1, <3>2, AppendRow DEF OpenRun
  <2>2. CASE OpenRunFails(c)
    <3>1. lock' = lock /\ runId' = runId
      BY <2>2 DEF OpenRunFails
    <3>2. CASE UNCHANGED <<runs, interrupted>>
      BY <3>1, <3>2
    <3>3. CASE runs' = Append(runs, NewRow) /\ interrupted' = interrupted \cup {Len(runs) + 1}
      BY <1>0, <3>1, <3>3, AppendRow
    <3> QED
      BY <2>2, <3>2, <3>3 DEF OpenRunFails
  <2>3. CASE Commit(c) \/ CommitFails(c)
    <3>1. lock' = lock /\ runId' = runId /\ interrupted' = interrupted
      BY <2>3 DEF Commit, CommitFails
    <3>2. CASE pc[c] = "commit" /\ ApplySnapshot(c)
      BY <1>0, <3>1, <3>2, ApplyRow
    <3> QED
      BY <2>3, <3>1, <3>2 DEF Commit, CommitFails
  <2>4. CASE RecordFailure(c)
    <3>1. lock' = lock /\ runId' = runId /\ interrupted \subseteq interrupted'
      BY <2>4 DEF RecordFailure
    <3>2. CASE StoreFailure(c)
      BY <1>0, <3>1, <3>2, FailRow
    <3> QED
      BY <2>4, <3>1, <3>2 DEF RecordFailure
  <2>5. CASE Announce(c) \/ NumberRun(c) \/ Acquire(c) \/ AcquireFails(c) \/ BeginCommit(c)
    BY <2>5 DEF Announce, NumberRun, Acquire, AcquireFails, BeginCommit
  <2>6. CASE Invalidate(c) \/ Broadcast(c) \/ TellFailure(c) \/ ResetWithError(c) \/ Finally(c)
    BY <2>6 DEF Invalidate, Broadcast, TellFailure, ResetWithError, Finally
  <2>7. CASE Release(c)
    <3>1. \A i \in DOMAIN runs : ~runs[i].finished => i \in interrupted
      BY <1>0, <2>0, <2>7 DEF Release, RowInv, RowSettled
    <3> QED
      BY <2>7, <3>1 DEF Release
  <2> QED
    BY <1>2, <2>1, <2>2, <2>3, <2>4, <2>5, <2>6, <2>7 DEF Step
<1>3. CASE HealthStep
  BY <1>3 DEF HealthStep, Read, ReadRow, ReadSync, ReadProgress, Answer
<1>4. CASE Crash
  BY <1>4 DEF Crash
<1>5. CASE UNCHANGED vars
  BY <1>5 DEF vars
<1>6. QED
  BY <1>1, <1>2, <1>3, <1>4, <1>5 DEF Next

(***************************************************************************)
(* What is told: the progress, the cache and the event                     *)
(***************************************************************************)

\* Every step keeps progress idle or that of the holder.
LEMMA NextProgress ==
  TypeOK /\ LockInv /\ RowInv /\ ProgressInv /\ [Next]_vars => ProgressInv'
<1> SUFFICES ASSUME TypeOK, LockInv, RowInv, ProgressInv, [Next]_vars PROVE ProgressInv'
  OBVIOUS
<1> USE CallerAssumption DEF ProgressInv, Move, LockFree, Cover, DropFrame, tables, history
<1>0. pc \in [Callers -> Location] /\ runId \in [Callers -> 0 .. MaxRuns] /\ progress \in Progress
  BY DEF TypeOK, CallersTypeOK, ReportsTypeOK
<1>1. ASSUME NEW c \in Callers, Enter(c) PROVE ProgressInv'
  BY <1>0, <1>1 DEF Enter
<1>2. ASSUME NEW c \in Callers, Step(c) PROVE ProgressInv'
  <2>0. /\ pc[c] # "out" /\ lock = c
        /\ \A d \in Callers \ {c} : pc[d] = "out"
    <3>1. pc[c] # "out"
      BY <1>2 DEF Step, Announce, OpenRun, OpenRunFails, NumberRun, Acquire, AcquireFails, BeginCommit,
             Commit, CommitFails, Invalidate, Broadcast, RecordFailure, TellFailure, ResetWithError,
             Finally, Release
    <3> QED
      BY <3>1, OthersAreOut DEF LockInv
  <2>1. CASE OpenRun(c)
    <3>1. runId[c] = 0 /\ progress' = progress /\ lock' = lock
      BY <2>1 DEF OpenRun, RowInv, BeforeRow
    <3> QED
      BY <1>0, <2>0, <2>1, <3>1 DEF OpenRun
  <2>2. CASE Announce(c) \/ NumberRun(c) \/ Acquire(c) \/ BeginCommit(c)
    <3>1. progress'.run \in {0, runId[c]} /\ progress'.phase # "idle"
      <4>1. CASE Announce(c)
        BY <4>1 DEF Announce, IdleProgress
      <4>2. CASE NumberRun(c)
        BY <1>0, <4>2 DEF NumberRun, Progress
      <4>3. CASE Acquire(c) \/ BeginCommit(c)
        BY <1>0, <2>0, <4>3 DEF Acquire, BeginCommit, Progress
      <4> QED
        BY <2>2, <4>1, <4>2, <4>3
    <3>2. lock' = lock /\ runId' = runId /\ pc'[c] \notin {"out", "release"}
          /\ \A d \in Callers \ {c} : pc'[d] = "out"
      BY <1>0, <2>0, <2>2 DEF Announce, NumberRun, Acquire, BeginCommit
    <3> QED
      BY <2>0, <3>1, <3>2
  <2>3. CASE OpenRunFails(c) \/ AcquireFails(c) \/ Commit(c) \/ CommitFails(c) \/ Invalidate(c)
             \/ Broadcast(c) \/ RecordFailure(c) \/ TellFailure(c)
    BY <1>0, <2>0, <2>3
       DEF OpenRunFails, AcquireFails, Commit, CommitFails, Invalidate, Broadcast, RecordFailure, TellFailure
  <2>4. CASE ResetWithError(c)
    BY <1>0, <2>0, <2>4 DEF ResetWithError, FailedProgress
  <2>5. CASE Finally(c)
    BY <1>0, <2>0, <2>5 DEF Finally, AfterRun, IdleProgress
  <2>6. CASE Release(c)
    BY <1>0, <2>0, <2>6 DEF Release
  <2> QED
    BY <1>2, <2>1, <2>2, <2>3, <2>4, <2>5, <2>6 DEF Step
<1>3. CASE HealthStep
  BY <1>3 DEF HealthStep, Read, ReadRow, ReadSync, ReadProgress, Answer
<1>4. CASE Crash
  BY <1>4 DEF Crash, IdleProgress
<1>5. CASE UNCHANGED vars
  BY <1>5 DEF vars
<1>6. QED
  BY <1>1, <1>2, <1>3, <1>4, <1>5 DEF Next

\* Every step keeps the cache no newer than the tables, and ingest_done no newer than the cache.
LEMMA NextCache == TypeOK /\ LockInv /\ RowInv /\ CacheInv /\ [Next]_vars => CacheInv'
<1> SUFFICES ASSUME TypeOK, LockInv, RowInv, CacheInv, [Next]_vars PROVE CacheInv'
  OBVIOUS
<1> USE DEF CacheInv, Move, LockFree, Cover, DropFrame, tables, history
<1>0. /\ pc \in [Callers -> Location] /\ sync \in Sync /\ event \in Event
      /\ store \in Nat /\ covered \in Nat
  BY DEF TypeOK, CallersTypeOK, TablesTypeOK, ReportsTypeOK
<1>1. ASSUME NEW c \in Callers, Enter(c) PROVE CacheInv'
  BY <1>0, <1>1 DEF Enter
<1>2. ASSUME NEW c \in Callers, Step(c) PROVE CacheInv'
  <2>0. pc[c] # "out" /\ \A d \in Callers \ {c} : pc[d] = "out"
    <3>1. pc[c] # "out"
      BY <1>2 DEF Step, Announce, OpenRun, OpenRunFails, NumberRun, Acquire, AcquireFails, BeginCommit,
             Commit, CommitFails, Invalidate, Broadcast, RecordFailure, TellFailure, ResetWithError,
             Finally, Release
    <3> QED
      BY <3>1, OthersAreOut
  <2>1. CASE Commit(c) \/ CommitFails(c)
    <3>1. CASE ApplySnapshot(c)
      <4>1. store' \in Nat /\ store <= store' /\ sync'.status = "success"
        BY <1>0, <3>1 DEF ApplySnapshot
      <4> QED
        BY <1>0, <2>0, <2>1, <4>1 DEF Commit, CommitFails
    <3>2. CASE ~ApplySnapshot(c)
      BY <1>0, <2>0, <2>1, <3>2 DEF Commit, CommitFails
    <3> QED
      BY <3>1, <3>2
  <2>2. CASE Invalidate(c)
    BY <1>0, <2>0, <2>2 DEF Invalidate, Event
  <2>3. CASE Broadcast(c)
    BY <1>0, <2>0, <2>3 DEF Broadcast
  <2>4. CASE TellFailure(c)
    BY <1>0, <2>0, <2>4 DEF TellFailure, Event
  <2>5. CASE RecordFailure(c)
    BY <1>0, <2>0, <2>5 DEF RecordFailure
  <2>6. CASE Announce(c) \/ OpenRun(c) \/ OpenRunFails(c) \/ NumberRun(c) \/ Acquire(c) \/ AcquireFails(c)
    BY <1>0, <2>0, <2>6 DEF Announce, OpenRun, OpenRunFails, NumberRun, Acquire, AcquireFails
  <2>7. CASE BeginCommit(c) \/ ResetWithError(c) \/ Finally(c) \/ Release(c)
    BY <1>0, <2>0, <2>7 DEF BeginCommit, ResetWithError, Finally, Release
  <2> QED
    BY <1>2, <2>1, <2>2, <2>3, <2>4, <2>5, <2>6, <2>7 DEF Step
<1>3. CASE HealthStep
  BY <1>3 DEF HealthStep, Read, ReadRow, ReadSync, ReadProgress, Answer
<1>4. CASE Crash
  BY <1>0, <1>4 DEF Crash
<1>5. CASE UNCHANGED vars
  BY <1>5 DEF vars
<1>6. QED
  BY <1>1, <1>2, <1>3, <1>4, <1>5 DEF Next

\* Every step keeps the four accounts of the last run in agreement.
LEMMA NextStory ==
  TypeOK /\ LockInv /\ RowInv /\ CacheInv /\ StoryInv /\ [Next]_vars => StoryInv'
<1> SUFFICES ASSUME TypeOK, LockInv, RowInv, CacheInv, StoryInv, [Next]_vars PROVE StoryInv'
  OBVIOUS
<1> USE CallerAssumption DEF StoryInv, Move, LockFree, Cover, DropFrame, WithRow, tables, history
<1>0. /\ pc \in [Callers -> Location] /\ sync \in Sync /\ event \in Event /\ progress \in Progress
      /\ lock \in Callers \cup {NoCaller}
  BY DEF TypeOK, CallersTypeOK, TablesTypeOK, ReportsTypeOK
<1>1. ASSUME NEW c \in Callers, Enter(c) PROVE StoryInv'
  <2>1. \A d \in Callers : pc[d] = "out"
    BY <1>1 DEF Enter, LockInv
  <2> QED
    BY <1>0, <1>1, <2>1 DEF Enter
<1>2. ASSUME NEW c \in Callers, Step(c) PROVE StoryInv'
  <2>0. /\ pc[c] # "out" /\ lock = c
        /\ \A d \in Callers \ {c} : pc[d] = "out"
    <3>1. pc[c] # "out"
      BY <1>2 DEF Step, Announce, OpenRun, OpenRunFails, NumberRun, Acquire, AcquireFails, BeginCommit,
             Commit, CommitFails, Invalidate, Broadcast, RecordFailure, TellFailure, ResetWithError,
             Finally, Release
    <3> QED
      BY <3>1, OthersAreOut DEF LockInv
  <2>1. CASE Announce(c)
    BY <1>0, <2>0, <2>1 DEF Announce, IdleProgress
  <2>2. CASE OpenRun(c) \/ OpenRunFails(c) \/ AcquireFails(c) \/ Commit(c) \/ CommitFails(c) \/ Invalidate(c)
    BY <1>0, <2>0, <2>2 DEF OpenRun, OpenRunFails, AcquireFails, Commit, CommitFails, Invalidate
  <2>3. CASE NumberRun(c) \/ Acquire(c) \/ BeginCommit(c)
    <3>1. progress'.error = progress.error
      BY <1>0, <2>3 DEF NumberRun, Acquire, BeginCommit, Progress
    <3> QED
      BY <1>0, <2>0, <2>3, <3>1 DEF NumberRun, Acquire, BeginCommit
  <2>4. CASE Broadcast(c)
    <3>1. Story'
      BY <1>0, <2>0, <2>4 DEF Broadcast, Story, CacheInv
    <3> QED
      BY <1>0, <2>0, <2>4, <3>1 DEF Broadcast
  <2>5. CASE RecordFailure(c)
    <3>1. StoreFailure(c) => sync'.status = "failure"
      BY <1>0 DEF StoreFailure, Sync
    <3> QED
      BY <1>0, <2>0, <2>5, <3>1 DEF RecordFailure
  <2>6. CASE TellFailure(c)
    <3>1. event'.kind = "ingest_failed"
      BY <1>0, <2>6 DEF TellFailure, Event
    <3> QED
      BY <1>0, <2>0, <2>6, <3>1 DEF TellFailure
  <2>7. CASE ResetWithError(c)
    <3>1. Story' /\ progress'.phase = "idle"
      BY <1>0, <2>0, <2>7 DEF ResetWithError, FailedProgress, Story
    <3> QED
      BY <1>0, <2>0, <2>7, <3>1 DEF ResetWithError
  <2>8. CASE Finally(c)
    <3>1. Story'
      BY <1>0, <2>0, <2>8 DEF Finally, AfterRun, IdleProgress, Story
    <3> QED
      BY <1>0, <2>0, <2>8, <3>1 DEF Finally
  <2>9. CASE Release(c)
    <3>1. Story'
      BY <1>0, <2>0, <2>9 DEF Release, Story
    <3> QED
      BY <1>0, <2>0, <2>9, <3>1 DEF Release
  <2> QED
    BY <1>2, <2>1, <2>2, <2>3, <2>4, <2>5, <2>6, <2>7, <2>8, <2>9 DEF Step
<1>3. CASE HealthStep
  BY <1>3 DEF HealthStep, Read, ReadRow, ReadSync, ReadProgress, Answer, Story
<1>4. CASE Crash
  BY <1>4 DEF Crash, Story
<1>5. CASE UNCHANGED vars
  BY <1>5 DEF vars, Story
<1>6. QED
  BY <1>1, <1>2, <1>3, <1>4, <1>5 DEF Next

(***************************************************************************)
(* Theorems                                                                *)
(***************************************************************************)

\* A first start satisfies the inductive invariant.
LEMMA InitInv == Init => TypeOK /\ IngestInv /\ SyncInv /\ UnfinishedRowsAreExplained
<1> SUFFICES ASSUME Init PROVE IngestInv /\ SyncInv /\ UnfinishedRowsAreExplained
  BY InitTyped
<1> USE CallerAssumption DEF Init
<1>1. LockInv /\ RowInv
  BY DEF LockInv, RowInv, BeforeRow, WithRow, RowSettled
<1>2. ProgressInv /\ CacheInv
  BY DEF ProgressInv, CacheInv, IdleProgress
<1>3. StoryInv
  BY DEF StoryInv, Story, WithRow
<1>4. SyncInv /\ UnfinishedRowsAreExplained
  BY DEF SyncInv, SyncNamesNewestCommit, UnfinishedRowsAreExplained
<1>5. QED
  BY <1>1, <1>2, <1>3, <1>4 DEF IngestInv

\* Every step, crashes included, keeps the inductive invariant.
LEMMA NextInv ==
  TypeOK /\ IngestInv /\ SyncInv /\ UnfinishedRowsAreExplained /\ [Next]_vars
    => (TypeOK /\ IngestInv /\ SyncInv /\ UnfinishedRowsAreExplained)'
<1> SUFFICES ASSUME TypeOK, IngestInv, SyncInv, UnfinishedRowsAreExplained, [Next]_vars
             PROVE  (TypeOK /\ IngestInv /\ SyncInv /\ UnfinishedRowsAreExplained)'
  OBVIOUS
<1>1. TypeOK'
  BY NextTablesTyped, NextCallersTyped, NextReportsTyped DEF TypeOK, IngestInv
<1>2. IngestInv'
  BY NextLock, NextRow, NextProgress, NextCache, NextStory DEF IngestInv
<1>3. QED
  BY <1>1, <1>2, NextSync, NextUnfinished DEF IngestInv

\* Every reachable state satisfies the inductive invariant of run_ingest.
LEMMA Invariants == Spec => [](TypeOK /\ IngestInv /\ SyncInv /\ UnfinishedRowsAreExplained)
BY InitInv, NextInv, PTL DEF Spec

\* The tables, the callers' frames and what is published keep their types.
THEOREM TypeCorrect == Spec => []TypeOK
BY Invariants, PTL

\* Two callers are never inside run_ingest at once, not after a failure of any
\* statement and not after a crash, and the one inside writes to the newest row only.
OneRunAtATime ==
  /\ \A c, d \in Callers : pc[c] # "out" /\ pc[d] # "out" => c = d
  /\ \A c \in Callers : runId[c] # 0 => runId[c] = Len(runs)

\* _RUN_LOCK does what it is for, whatever fails while it is held: the hourly job,
\* the startup job and the admin endpoint never ingest together.
THEOREM OneRunAtATimeHolds == Spec => []OneRunAtATime
<1>1. TypeOK /\ IngestInv => OneRunAtATime
  BY DEF TypeOK, CallersTypeOK, IngestInv, LockInv, RowInv, OneRunAtATime
<1>2. QED
  BY <1>1, Invariants, PTL

\* /health never shows the progress of a run whose caller has left run_ingest.
THEOREM ProgressIsTheHoldersHolds == Spec => []ProgressIsTheHolders
<1>1. TypeOK /\ IngestInv => ProgressIsTheHolders
  BY DEF TypeOK, CallersTypeOK, IngestInv, LockInv, ProgressInv, ProgressIsTheHolders
<1>2. QED
  BY <1>1, Invariants, PTL

\* sync_state names the newest committed run, whatever failed or crashed since.
THEOREM SyncNamesNewestCommitHolds == Spec => []SyncNamesNewestCommit
<1>1. SyncInv => SyncNamesNewestCommit
  BY DEF SyncInv
<1>2. QED
  BY <1>1, Invariants, PTL

\* Only a crash, a lost acknowledgement or a failed record leaves a row of
\* ingest_runs unfinished when its run is over.
THEOREM UnfinishedRowsAreExplainedHolds == Spec => []UnfinishedRowsAreExplained
BY Invariants, PTL

\* Between two runs the event, the progress, sync_state and the cache agree on
\* how the last run ended.
THEOREM StoriesAgreeHolds == Spec => []StoriesAgree
<1>1. IngestInv => StoriesAgree
  BY DEF IngestInv, StoryInv, Story, StoriesAgree
<1>2. QED
  BY <1>1, Invariants, PTL

\* Every step of a run is a step of Publication or changes nothing it speaks of.
LEMMA NextPublishes == TypeOK /\ CacheInv /\ [Next]_vars => [P!Next]_P!vars
<1> SUFFICES ASSUME TypeOK, CacheInv, [Next]_vars PROVE [P!Next]_P!vars
  OBVIOUS
<1> USE DEF tables, history, P!Next, P!vars
<1>1. ASSUME NEW c \in Callers, Step(c) PROVE [P!Next]_P!vars
  <2>1. CASE Commit(c) \/ CommitFails(c)
    BY <2>1 DEF Commit, CommitFails, ApplySnapshot, P!Store
  <2>2. CASE Invalidate(c)
    BY <2>2 DEF Invalidate, Cover, P!Cover
  <2>3. CASE Broadcast(c)
    BY <2>3 DEF Broadcast, Move, CacheInv, P!Announce
  <2>4. CASE TellFailure(c)
    BY <2>4 DEF TellFailure, P!AnnounceFailure
  <2>5. CASE Announce(c) \/ OpenRun(c) \/ OpenRunFails(c) \/ NumberRun(c) \/ Acquire(c) \/ AcquireFails(c)
    BY <2>5 DEF Announce, OpenRun, OpenRunFails, NumberRun, Acquire, AcquireFails
  <2>6. CASE BeginCommit(c) \/ RecordFailure(c) \/ ResetWithError(c) \/ Finally(c) \/ Release(c)
    BY <2>6 DEF BeginCommit, RecordFailure, ResetWithError, Finally, Release
  <2> QED
    BY <1>1, <2>1, <2>2, <2>3, <2>4, <2>5, <2>6 DEF Step
<1>2. CASE Crash
  BY <1>2 DEF Crash, P!Restart, P!NoEvent
<1>3. CASE HealthStep \/ UNCHANGED vars \/ \E c \in Callers : Enter(c)
  BY <1>3 DEF HealthStep, Read, ReadRow, ReadSync, ReadProgress, Answer, vars, Enter
<1>4. QED
  BY <1>1, <1>2, <1>3 DEF Next

\* run_ingest implements Publication, from any callers and through crashes and
\* lost acknowledgements: nothing is announced that the cache does not cover.
THEOREM PublishesInOrderHolds == Spec => PublishesInOrder
<1>1. Init => P!Init
  BY DEF Init, P!Init, P!NoEvent
<1>2. TypeOK /\ IngestInv /\ [Next]_vars => [P!Next]_P!vars
  BY NextPublishes DEF IngestInv
<1>3. QED
  BY <1>1, <1>2, Invariants, PTL DEF Spec, PublishesInOrder, P!Spec

\* Whatever happens between the reads of /health, a failure is not hidden.
LEMMA NextHealth ==
  TypeOK /\ StoryInv /\ HealthNeverHidesFailure /\ [Next]_vars => HealthNeverHidesFailure'
<1> SUFFICES ASSUME TypeOK, StoryInv, HealthNeverHidesFailure, [Next]_vars
             PROVE  HealthNeverHidesFailure'
  OBVIOUS
<1> USE DEF HealthNeverHidesFailure
<1>0. health \in Health
  BY DEF TypeOK, ReportsTypeOK
<1>1. CASE UNCHANGED health
  BY <1>1
<1>2. ASSUME NEW what, NEW failed, NEW inFlight, Read(what, failed, inFlight), what # "progress"
      PROVE  HealthNeverHidesFailure'
  BY <1>0, <1>2 DEF Read, HealthOrder, Health
<1>3. CASE ReadProgress
  <2>1. health.reads = 2 /\ lock = NoCaller /\ ended = "failed" => progress.error
    BY DEF StoryInv, Story
  <2>2. QED
    BY <1>3, <2>1 DEF ReadProgress, Read
<1>4. CASE Answer \/ Crash
  BY <1>4 DEF Answer, Crash, NoHealth
<1>5. QED
  BY <1>1, <1>2, <1>3, <1>4
     DEF Next, vars, Enter, Step, Announce, OpenRun, OpenRunFails, NumberRun, Acquire, AcquireFails,
         BeginCommit, Commit, CommitFails, Invalidate, Broadcast, RecordFailure, TellFailure,
         ResetWithError, Finally, Release, HealthStep, ReadRow, ReadSync

\* /health never answers "not running, no error" at a moment when the last run
\* of this process has failed and no other is in flight.
THEOREM HealthNeverHidesFailureHolds == Spec => []HealthNeverHidesFailure
<1>1. Init => HealthNeverHidesFailure
  BY DEF Init, NoHealth, HealthNeverHidesFailure
<1>2. TypeOK /\ IngestInv /\ HealthNeverHidesFailure /\ [Next]_vars => HealthNeverHidesFailure'
  BY NextHealth DEF IngestInv
<1>3. QED
  BY <1>1, <1>2, Invariants, PTL DEF Spec

=============================================================================
