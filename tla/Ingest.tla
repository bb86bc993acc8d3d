------------------------------- MODULE Ingest -------------------------------
(***************************************************************************)
(* run_ingest of backend/ingest.py: one complete snapshot is acquired,     *)
(* applied in one transaction and announced, under a non-blocking process  *)
(* lock.  Several callers (the hourly job, the startup job, the admin      *)
(* endpoint) may call it at the same time; /health of backend/app.py reads *)
(* the durable rows and the live progress in separate steps; connections   *)
(* fail and the process may die between any two steps.                     *)
(*                                                                         *)
(* Current-state tables are abstracted to the version `store`; how one     *)
(* transaction replaces them is the subject of Reconcile.                  *)
(***************************************************************************)
EXTENDS Naturals, Sequences, FiniteSets

CONSTANTS
  Callers,     \* threads that may call run_ingest
  NoCaller,
  MaxRuns      \* bound: ingest_runs rows a behaviour contains

ASSUME CallerAssumption == NoCaller \notin Callers
ASSUME MaxRunsAssumption == MaxRuns \in Nat

VARIABLES
  runs,        \* table ingest_runs; the id is the position
  sync,        \* table sync_state; run stands for its last_committed_at
  store,       \* version of the current-state tables
  lock,        \* holder of _RUN_LOCK
  pc,          \* where each caller stands in run_ingest
  runId,       \* its local run_id, 0 for None
  progress,    \* _PROGRESS
  covered,     \* store version of the last response_cache.invalidate()
  event,       \* the last event handed to the broadcaster
  health,      \* the /health request being answered
  ended,       \* history: how the last run of this process ended
  recorded,    \* history: whether that run's failure reached the tables
  interrupted  \* history: runs that no code is left to finish

vars == <<runs, sync, store, lock, pc, runId, progress, covered, event,
          health, ended, recorded, interrupted>>

tables == <<runs, sync, store>>
history == <<ended, recorded, interrupted>>

RunIds == 1 .. MaxRuns
Row == [finished : BOOLEAN, committed : BOOLEAN, error : BOOLEAN]
Sync == [status : {"none", "success", "failure"}, run : 0 .. MaxRuns]
Phase == {"idle", "acquiring", "validated", "committing"}
Progress == [phase : Phase, run : 0 .. MaxRuns, error : BOOLEAN]
Event == [kind : {"none", "ingest_done", "ingest_failed"}, version : Nat]

(* Where a caller stands, named for what it does next:                     *)
(*   announce   it holds the lock and is about to publish "acquiring"      *)
(*   open       insert the audit row            number   publish its id    *)
(*   acquire    credentials, fetch, validation  begin    publish           *)
(*                                                       "committing"      *)
(*   commit     the transaction                 invalidate, broadcast      *)
(*   record     store the failure               tell     broadcast it      *)
(*   reset      publish it                      finally, release           *)
Location == {"out", "announce", "open", "number", "acquire", "begin", "commit",
             "invalidate", "broadcast", "record", "tell", "reset", "finally",
             "release"}

Health == [reads : 0 .. 3, running : BOOLEAN, error : BOOLEAN, failedNow : BOOLEAN]

IdleProgress == [phase |-> "idle", run |-> 0, error |-> FALSE]
FailedProgress == [phase |-> "idle", run |-> 0, error |-> TRUE]
NoHealth == [reads |-> 0, running |-> FALSE, error |-> FALSE, failedNow |-> FALSE]

TablesTypeOK ==
  /\ runs \in Seq(Row) /\ Len(runs) <= MaxRuns
  /\ sync \in Sync
  /\ store \in Nat

CallersTypeOK ==
  /\ lock \in Callers \cup {NoCaller}
  /\ pc \in [Callers -> Location]
  /\ runId \in [Callers -> 0 .. MaxRuns]
  /\ \A c \in Callers : pc[c] = "out" => runId[c] = 0

ReportsTypeOK ==
  /\ progress \in Progress
  /\ covered \in Nat
  /\ event \in Event
  /\ health \in Health
  /\ ended \in {"none", "committed", "failed"}
  /\ recorded \in BOOLEAN
  /\ interrupted \in SUBSET RunIds

\* Type invariant; callers outside run_ingest hold no row.
TypeOK == TablesTypeOK /\ CallersTypeOK /\ ReportsTypeOK

Init ==
  /\ runs = <<>>
  /\ sync = [status |-> "none", run |-> 0]
  /\ store = 0
  /\ lock = NoCaller
  /\ pc = [c \in Callers |-> "out"]
  /\ runId = [c \in Callers |-> 0]
  /\ progress = IdleProgress
  /\ covered = 0
  /\ event = [kind |-> "none", version |-> 0]
  /\ health = NoHealth
  /\ ended = "none"
  /\ recorded = TRUE
  /\ interrupted = {}

\* Caller c goes on from one location to another.
Move(c, from, to) == pc[c] = from /\ pc' = [pc EXCEPT ![c] = to]

-----------------------------------------------------------------------------
(* run_ingest up to the transaction *)

\* Mutant of LockFree: the result of the non-blocking acquire is ignored.
AlwaysFree == TRUE

\* _RUN_LOCK.acquire(blocking=False)
LockFree == lock = NoCaller

\* A caller that finds the lock taken
\* returns "skipped" and changes nothing.
Enter(c) ==
  /\ Move(c, "out", "announce")
  /\ LockFree
  /\ lock' = c
  /\ UNCHANGED <<tables, runId, progress, covered, event, health, history>>

\* _set_progress(phase="acquiring", ..., last_error=None)
Announce(c) ==
  /\ Move(c, "announce", "open")
  /\ progress' = [IdleProgress EXCEPT !.phase = "acquiring"]
  /\ UNCHANGED <<tables, lock, runId, covered, event, health, history>>

NewRow == [finished |-> FALSE, committed |-> FALSE, error |-> FALSE]

\* _open_run inserts and commits the audit row.
OpenRun(c) ==
  /\ Move(c, "open", "number")
  /\ Len(runs) < MaxRuns
  /\ runs' = Append(runs, NewRow)
  /\ runId' = [runId EXCEPT ![c] = Len(runs) + 1]
  /\ UNCHANGED <<sync, store, lock, progress, covered, event, health, history>>

\* _open_run raises: no row, or a row whose id the caller never learns.
OpenRunFails(c) ==
  /\ Move(c, "open", "record")
  /\ \/ UNCHANGED <<runs, interrupted>>
     \/ /\ Len(runs) < MaxRuns
        /\ runs' = Append(runs, NewRow)
        /\ interrupted' = interrupted \cup {Len(runs) + 1}
  /\ UNCHANGED <<sync, store, lock, runId, progress, covered, event, health, ended, recorded>>

\* _set_progress(run_id=run_id)
NumberRun(c) ==
  /\ Move(c, "number", "acquire")
  /\ progress' = [progress EXCEPT !.run = runId[c]]
  /\ UNCHANGED <<tables, lock, runId, covered, event, health, history>>

\* Credentials, fetch, validation and account check succeed;
\* _set_progress(phase="validated", ...)
Acquire(c) ==
  /\ Move(c, "acquire", "begin")
  /\ progress' = [progress EXCEPT !.phase = "validated"]
  /\ UNCHANGED <<tables, lock, runId, covered, event, health, history>>

\* One of them raises.
AcquireFails(c) ==
  /\ Move(c, "acquire", "record")
  /\ UNCHANGED <<tables, lock, runId, progress, covered, event, health, history>>

\* _commit_snapshot: _set_progress(phase="committing", ...)
BeginCommit(c) ==
  /\ Move(c, "begin", "commit")
  /\ progress' = [progress EXCEPT !.phase = "committing"]
  /\ UNCHANGED <<tables, lock, runId, covered, event, health, history>>

-----------------------------------------------------------------------------
(* The transaction of _commit_snapshot *)

\* Rows, sync_state and the audit row change together; an identical snapshot
\* leaves the current-state rows as they are.
ApplySnapshot(c) ==
  /\ store' \in {store, store + 1}
  /\ sync' = [status |-> "success", run |-> runId[c]]
  /\ runs' = [runs EXCEPT ![runId[c]] = [finished |-> TRUE, committed |-> TRUE, error |-> FALSE]]

Commit(c) ==
  /\ Move(c, "commit", "invalidate")
  /\ ApplySnapshot(c)
  /\ UNCHANGED <<lock, runId, progress, covered, event, health, history>>

\* A statement, or the commit itself, raises and everything is rolled back;
\* or the server committed and only the acknowledgement was lost.
CommitFails(c) ==
  /\ Move(c, "commit", "record")
  /\ \/ UNCHANGED tables
     \/ ApplySnapshot(c)
  /\ UNCHANGED <<lock, runId, progress, covered, event, health, history>>

-----------------------------------------------------------------------------
(* After the commit: _post_commit *)

\* Mutant of Cover: the cache is not told.
CoverNothing == UNCHANGED covered

\* response_cache.invalidate() makes every entry stale.
Cover == covered' = store

Invalidate(c) ==
  /\ Move(c, "invalidate", "broadcast")
  /\ Cover
  /\ UNCHANGED <<tables, lock, runId, progress, event, health, history>>

\* events.broadcast_threadsafe("ingest_done", summary)
Broadcast(c) ==
  /\ Move(c, "broadcast", "finally")
  /\ event' = [kind |-> "ingest_done", version |-> store]
  /\ ended' = "committed"
  /\ UNCHANGED <<tables, lock, runId, progress, covered, health, recorded, interrupted>>

-----------------------------------------------------------------------------
(* The except clause *)

\* Mutant of StoreFailure: the audit row of the failed run is not finished.
StoreAttemptOnly(c) ==
  /\ sync' = [sync EXCEPT !.status = "failure"]
  /\ UNCHANGED runs

\* What _finish_failed_run (the row is known) or _record_failed_attempt (it
\* is not) writes in one transaction of its own.
StoreFailure(c) ==
  /\ sync' = [sync EXCEPT !.status = "failure"]
  /\ runs' = IF runId[c] = 0 THEN runs
             ELSE [runs EXCEPT ![runId[c]].finished = TRUE, ![runId[c]].error = TRUE]

\* The exception of a failed write is logged and swallowed, whether or not
\* the write took effect.
RecordFailure(c) ==
  /\ Move(c, "record", "tell")
  /\ \/ /\ StoreFailure(c)
        /\ recorded' = TRUE
        /\ UNCHANGED interrupted
     \/ /\ UNCHANGED <<runs, sync>> \/ StoreFailure(c)
        /\ recorded' = FALSE
        /\ interrupted' = interrupted \cup ({runId[c]} \cap RunIds)
  /\ UNCHANGED <<store, lock, runId, progress, covered, event, health, ended>>

\* _post_failure
TellFailure(c) ==
  /\ Move(c, "tell", "reset")
  /\ event' = [event EXCEPT !.kind = "ingest_failed"]
  /\ ended' = "failed"
  /\ UNCHANGED <<tables, lock, runId, progress, covered, health, recorded, interrupted>>

\* _reset_progress(error), then the exception goes to the caller
ResetWithError(c) ==
  /\ Move(c, "reset", "finally")
  /\ progress' = FailedProgress
  /\ UNCHANGED <<tables, lock, runId, covered, event, health, history>>

-----------------------------------------------------------------------------
(* The finally clause, and the end of the lock's with block *)

\* Mutant of AfterRun: the progress is left as it is.
KeptProgress == progress

\* A phase other than "idle" is reset, which also forgets the error.
AfterRun == IF progress.phase # "idle" THEN IdleProgress ELSE progress

Finally(c) ==
  /\ Move(c, "finally", "release")
  /\ progress' = AfterRun
  /\ UNCHANGED <<tables, lock, runId, covered, event, health, history>>

\* Mutant of DropFrame: the next run of this thread starts with the old id.
KeepFrame(c) == UNCHANGED runId

DropFrame(c) == runId' = [runId EXCEPT ![c] = 0]

\* Leaving `with lock`, by return or by the exception; the frame is gone.
Release(c) ==
  /\ Move(c, "release", "out")
  /\ lock' = NoCaller
  /\ DropFrame(c)
  /\ UNCHANGED <<tables, progress, covered, event, health, history>>

-----------------------------------------------------------------------------
(* /health: the newest audit row, then sync_state, then the progress.  The *)
(* two queries run in one READ COMMITTED transaction, so each sees the     *)
(* commits before it; the progress is read after that connection is back.  *)

ProgressFirst == <<"progress", "row", "sync">>  \* mutant
HealthOrder == <<"row", "sync", "progress">>

\* The next read, which shows a failure or a run in flight.  failedNow is
\* history: when all is read, no run is in flight and the last one of this
\* process failed.
Read(what, failed, inFlight) ==
  /\ health.reads < 3
  /\ HealthOrder[health.reads + 1] = what
  /\ health' = [reads |-> health.reads + 1,
                running |-> health.running \/ inFlight,
                error |-> health.error \/ failed,
                failedNow |-> health.reads = 2 /\ lock = NoCaller /\ ended = "failed"]
  /\ UNCHANGED <<tables, lock, pc, runId, progress, covered, event, history>>

ReadRow == Read("row", runs # <<>> /\ runs[Len(runs)].error, FALSE)
ReadSync == Read("sync", sync.status = "failure", FALSE)
ReadProgress == Read("progress", progress.error, progress.phase # "idle")

Answer ==
  /\ health.reads = 3
  /\ health' = NoHealth
  /\ UNCHANGED <<tables, lock, pc, runId, progress, covered, event, history>>

-----------------------------------------------------------------------------
\* The process dies: the tables survive, an open transaction does not.  The
\* cache of the next process is empty, so it covers whatever is stored.
Crash ==
  /\ lock' = NoCaller
  /\ pc' = [c \in Callers |-> "out"]
  /\ runId' = [c \in Callers |-> 0]
  /\ progress' = IdleProgress
  /\ covered' = store
  /\ event' = [kind |-> "none", version |-> 0]
  /\ health' = NoHealth
  /\ ended' = "none"
  /\ recorded' = TRUE
  /\ interrupted' = interrupted \cup {i \in DOMAIN runs : ~runs[i].finished}
  /\ UNCHANGED tables

Step(c) ==
  \/ Announce(c) \/ OpenRun(c) \/ OpenRunFails(c) \/ NumberRun(c)
  \/ Acquire(c) \/ AcquireFails(c) \/ BeginCommit(c) \/ Commit(c) \/ CommitFails(c)
  \/ Invalidate(c) \/ Broadcast(c)
  \/ RecordFailure(c) \/ TellFailure(c) \/ ResetWithError(c)
  \/ Finally(c) \/ Release(c)

HealthStep == ReadRow \/ ReadSync \/ ReadProgress \/ Answer

Next ==
  \/ \E c \in Callers : Enter(c) \/ Step(c)
  \/ HealthStep
  \/ Crash

Spec == Init /\ [][Next]_vars

-----------------------------------------------------------------------------
(* Properties *)

\* _RUN_LOCK and the order "reset the progress, then release": what /health
\* shows as the current run is the run of the lock's holder.
ProgressIsTheHolders ==
  progress.phase # "idle" =>
    /\ lock # NoCaller
    /\ progress.run \in {0, runId[lock]}

\* sync_state names the newest committed run.
SyncNamesNewestCommit ==
  /\ sync.run # 0 => runs[sync.run].committed
  /\ \A i \in DOMAIN runs : runs[i].committed => i <= sync.run

\* A row without finished_at is the run in flight, or a run that a crash, a
\* lost acknowledgement or a failed record left behind: nothing else leaves one.
UnfinishedRowsAreExplained ==
  \A i \in DOMAIN runs :
    ~runs[i].finished => i \in interrupted \/ \E c \in Callers : lock = c /\ runId[c] = i

\* Between two runs the event, the live progress, sync_state and the cache tell
\* the same story about the last run.
StoriesAgree ==
  /\ lock = NoCaller /\ ended = "committed" =>
       /\ event.kind = "ingest_done" /\ ~progress.error
       /\ sync.status = "success" /\ covered = store
  /\ lock = NoCaller /\ ended = "failed" =>
       /\ event.kind = "ingest_failed" /\ progress.error
       /\ recorded => sync.status = "failure"

\* The run implements Publication: "ingest_done" is broadcast only after the
\* cache was invalidated for everything that is stored, so a client that
\* refetches on it cannot be handed an older entry that still reads as fresh;
\* lost acknowledgements and crashes included.
P == INSTANCE Publication WITH stored <- store
PublishesInOrder == P!Spec

\* Although /health reads the row, sync_state and the progress at different
\* moments, it never answers "not running, no error" when the last run failed.
HealthNeverHidesFailure ==
  health.reads = 3 /\ ~health.running /\ ~health.error => ~health.failedNow

=============================================================================
