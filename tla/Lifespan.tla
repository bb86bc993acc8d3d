------------------------------ MODULE Lifespan ------------------------------
(***************************************************************************)
(* The application's life: lifespan() and _IngestCoordinator of            *)
(* backend/app.py, the event streams of backend/app.py and                 *)
(* backend/events.py, the refresh workers of backend/cache.py and the      *)
(* connection pools of backend/db.py.  Ingest callbacks, refreshes,        *)
(* requests and streams run while the lifespan starts up and tears down.   *)
(*                                                                         *)
(* The ASGI server is external: it runs the startup part of lifespan(),    *)
(* serves, stops accepting when it is told to, waits for its open          *)
(* connections, perhaps no longer than a timeout, and only then runs the   *)
(* part after the yield.                                                   *)
(***************************************************************************)
EXTENDS Naturals, FiniteSets

CONSTANTS
  Jobs,      \* scheduler callbacks that may run an ingest
  Admins,    \* requests to /admin/ingest
  Readers,   \* other requests
  Streams,   \* browsers that may hold /api/events open
  ServerWaits \* whether the server waits for its connections however long it
              \* takes, as uvicorn does without a graceful-shutdown timeout

Callers == Jobs \cup Admins

ASSUME DistinctActors == Jobs \cap Admins = {}
ASSUME FiniteActors == IsFiniteSet(Jobs) /\ IsFiniteSet(Admins)

VARIABLES
  server,     \* "starting", "serving", "draining", "stopping" or "exited"
  step,       \* the statement of lifespan() that runs next
  pools,      \* both connection pools: "unopened", "open" or "closed"
  loop,       \* whether events._main_loop is set
  wakeUp,     \* whether the shutdown event of the streams is set
  scheduler,  \* "none", "created" (not started), "running" or "stopped"
  closing,    \* _IngestCoordinator._closing
  active,     \* _IngestCoordinator._active
  caller,     \* ingest callers: "out", "called", "admitted"
  request,    \* readers: "out", "running"
  accepting,  \* _REFRESH_ACCEPTING
  refreshes,  \* readers whose refresh is queued or running
  stream,     \* streams: "out", "open"
  late        \* history: readers that were running when the pools were closed

vars == <<server, step, pools, loop, wakeUp, scheduler, closing, active, caller,
          request, accepting, refreshes, stream, late>>

work == <<active, caller, request, refreshes, stream, late>>
serving == <<server, step, loop, wakeUp, scheduler, closing, accepting, late>>

\* The statements of lifespan(), in order; "yield" separates startup and teardown.
Steps == {"open_pools", "schema_check", "start_refresh_workers", "set_loop",
          "start_scheduler", "yield", "signal_shutdown", "begin_shutdown",
          "stop_scheduler", "wait_for_idle", "clear_loop", "stop_accepting",
          "drain_refreshes", "close_pools", "done"}

\* Type invariant; the coordinator counts exactly the admitted callers.
TypeOK ==
  /\ server \in {"starting", "serving", "draining", "stopping", "exited"}
  /\ step \in Steps
  /\ pools \in {"unopened", "open", "closed"}
  /\ {loop, wakeUp, closing, accepting} \subseteq BOOLEAN
  /\ scheduler \in {"none", "created", "running", "stopped"}
  /\ caller \in [Callers -> {"out", "called", "admitted"}]
  /\ active = Cardinality({c \in Callers : caller[c] = "admitted"})
  /\ request \in [Readers -> {"out", "running"}]
  /\ refreshes \subseteq Readers
  /\ stream \in [Streams -> {"out", "open"}]
  /\ late \subseteq Readers

Init ==
  /\ server = "starting"
  /\ step = "open_pools"
  /\ pools = "unopened"
  /\ loop = FALSE
  /\ wakeUp = FALSE
  /\ scheduler = "none"
  /\ closing = FALSE
  /\ active = 0
  /\ caller = [c \in Callers |-> "out"]
  /\ request = [r \in Readers |-> "out"]
  /\ accepting = TRUE
  /\ refreshes = {}
  /\ stream = [s \in Streams |-> "out"]
  /\ late = {}

-----------------------------------------------------------------------------
(* Startup *)

\* lifespan() goes on from one statement to another.
Statement(from, to) == step = from /\ step' = to

OpenPools ==
  /\ Statement("open_pools", "schema_check")
  /\ pools' = "open"
  /\ UNCHANGED <<server, loop, wakeUp, scheduler, closing, accepting, work>>

SchemaCheck ==
  /\ Statement("schema_check", "start_refresh_workers")
  /\ UNCHANGED <<server, pools, loop, wakeUp, scheduler, closing, accepting, work>>

\* A pool cannot be opened, perhaps only one of them, or the schema is wrong.
StartupFails ==
  /\ step \in {"open_pools", "schema_check"}
  /\ pools' \in {pools, "open"}
  /\ step' = "signal_shutdown"
  /\ UNCHANGED <<server, loop, wakeUp, scheduler, closing, accepting, work>>

StartRefreshWorkers ==
  /\ Statement("start_refresh_workers", "set_loop")
  /\ accepting' = TRUE
  /\ UNCHANGED <<server, pools, loop, wakeUp, scheduler, closing, work>>

SetLoop ==
  /\ Statement("set_loop", "start_scheduler")
  /\ loop' = TRUE
  /\ wakeUp' = FALSE
  /\ UNCHANGED <<server, pools, scheduler, closing, accepting, work>>

StartScheduler ==
  /\ Statement("start_scheduler", "yield")
  /\ scheduler' = "running"
  /\ UNCHANGED <<server, pools, loop, wakeUp, closing, accepting, work>>

\* add_job() or start() raises: the scheduler exists but does not run.
SchedulerFails ==
  /\ Statement("start_scheduler", "signal_shutdown")
  /\ scheduler' = "created"
  /\ UNCHANGED <<server, pools, loop, wakeUp, closing, accepting, work>>

-----------------------------------------------------------------------------
(* Teardown: the finally clause *)

\* Mutant of WakeStreams: the streams are not woken.
WakeNobody == UNCHANGED wakeUp

\* The shutdown event is set on the loop, while there is one.
WakeStreams == wakeUp' = loop

SignalShutdown ==
  /\ Statement("signal_shutdown", "begin_shutdown")
  /\ WakeStreams
  /\ UNCHANGED <<server, pools, loop, scheduler, closing, accepting, work>>

BeginShutdown ==
  /\ Statement("begin_shutdown", "stop_scheduler")
  /\ closing' = TRUE
  /\ UNCHANGED <<server, pools, loop, wakeUp, scheduler, accepting, work>>

\* scheduler.shutdown(wait=False); APScheduler raises SchedulerNotRunningError
\* for one that was never started, which ends the finally clause.
StopScheduler ==
  /\ step = "stop_scheduler"
  /\ IF scheduler = "created"
     THEN step' = "done" /\ UNCHANGED scheduler
     ELSE /\ step' = "wait_for_idle"
          /\ scheduler' = IF scheduler = "running" THEN "stopped" ELSE scheduler
  /\ UNCHANGED <<server, pools, loop, wakeUp, closing, accepting, work>>

Idle == active = 0

WaitForIdle ==
  /\ Statement("wait_for_idle", "clear_loop")
  /\ Idle
  /\ UNCHANGED <<server, pools, loop, wakeUp, scheduler, closing, accepting, work>>

\* A stream that captured the shutdown event keeps it, so wakeUp stays.
ClearLoop ==
  /\ Statement("clear_loop", "stop_accepting")
  /\ loop' = FALSE
  /\ UNCHANGED <<server, pools, wakeUp, scheduler, closing, accepting, work>>

StopAccepting ==
  /\ Statement("stop_accepting", "drain_refreshes")
  /\ accepting' = FALSE
  /\ UNCHANGED <<server, pools, loop, wakeUp, scheduler, closing, work>>

DrainRefreshes ==
  /\ Statement("drain_refreshes", "close_pools")
  /\ refreshes = {}
  /\ UNCHANGED <<server, pools, loop, wakeUp, scheduler, closing, accepting, work>>

ClosePools ==
  /\ Statement("close_pools", "done")
  /\ pools' = "closed"
  /\ late' = {r \in Readers : request[r] = "running"}
  /\ UNCHANGED <<server, loop, wakeUp, scheduler, closing, accepting,
                 active, caller, request, refreshes, stream>>

LifespanStep ==
  \/ OpenPools \/ SchemaCheck \/ StartupFails \/ StartRefreshWorkers \/ SetLoop
  \/ StartScheduler \/ SchedulerFails
  \/ SignalShutdown \/ BeginShutdown \/ StopScheduler \/ WaitForIdle \/ ClearLoop
  \/ StopAccepting \/ DrainRefreshes \/ ClosePools

-----------------------------------------------------------------------------
(* The server (external) *)

Serve ==
  /\ server = "starting"
  /\ step = "yield"
  /\ server' = "serving"
  /\ UNCHANGED <<step, pools, loop, wakeUp, scheduler, closing, accepting, work>>

\* SIGTERM: nothing new is accepted.
Stop ==
  /\ server = "serving"
  /\ server' = "draining"
  /\ UNCHANGED <<step, pools, loop, wakeUp, scheduler, closing, accepting, work>>

\* The open connections are done; the server resumes lifespan() after the yield.
ConnectionsClosed ==
  /\ server = "draining"
  /\ \A a \in Admins : caller[a] = "out"
  /\ \A r \in Readers : request[r] = "out"
  /\ \A s \in Streams : stream[s] = "out"
  /\ server' = "stopping"
  /\ step' = "signal_shutdown"
  /\ UNCHANGED <<pools, loop, wakeUp, scheduler, closing, accepting, work>>

\* The graceful-shutdown timeout: the server cancels its tasks and resumes
\* lifespan().  What was to run in a thread that has not started is dropped;
\* a thread goes on, be it of a sync endpoint or of asyncio.to_thread.
GracefulTimeout ==
  /\ ~ServerWaits
  /\ server = "draining"
  /\ server' = "stopping"
  /\ step' = "signal_shutdown"
  /\ \E dropped \in SUBSET {a \in Admins : caller[a] = "called"} :
       caller' = [c \in Callers |-> IF c \in dropped THEN "out" ELSE caller[c]]
  /\ \E dropped \in SUBSET {r \in Readers : request[r] = "running"} :
       request' = [r \in Readers |-> IF r \in dropped THEN "out" ELSE request[r]]
  /\ UNCHANGED <<pools, loop, wakeUp, scheduler, closing, accepting,
                 active, refreshes, stream, late>>

Exit ==
  /\ step = "done"
  /\ server # "exited"
  /\ server' = "exited"
  /\ UNCHANGED <<step, pools, loop, wakeUp, scheduler, closing, accepting, work>>

ServerStep == Serve \/ Stop \/ ConnectionsClosed \/ GracefulTimeout \/ Exit

-----------------------------------------------------------------------------
(* What runs meanwhile *)

\* viz_conn, by whoever takes a connection: in place of a closed pool viz_pool
\* makes a new one and _ensure_open opens it, and nobody closes that.
UsePools == pools' \in {pools, "open"}

\* The scheduler hands a due job to its executor.
Fire(j) ==
  /\ scheduler = "running"
  /\ caller[j] = "out"
  /\ caller' = [caller EXCEPT ![j] = "called"]
  /\ UNCHANGED <<serving, pools, active, request, refreshes, stream>>

PostAdminIngest(a) ==
  /\ server = "serving"
  /\ caller[a] = "out"
  /\ caller' = [caller EXCEPT ![a] = "called"]
  /\ UNCHANGED <<serving, pools, active, request, refreshes, stream>>

\* Mutant of Rejects: the closing test is dropped.
NeverRejects == FALSE

Rejects == closing

\* First block of _IngestCoordinator.run: counted, or rejected when closing.
Admit(c) ==
  /\ caller[c] = "called"
  /\ IF Rejects
     THEN caller' = [caller EXCEPT ![c] = "out"] /\ UNCHANGED active
     ELSE caller' = [caller EXCEPT ![c] = "admitted"] /\ active' = active + 1
  /\ UNCHANGED <<serving, pools, request, refreshes, stream>>

\* Mutant of Discount: a run that raises is not discounted.
DiscountReturned == active' \in {active, active - 1}

Discount == active' = active - 1

\* run_ingest has used the pools to its end, returned or raised.
Leave(c) ==
  /\ caller[c] = "admitted"
  /\ UsePools
  /\ caller' = [caller EXCEPT ![c] = "out"]
  /\ Discount
  /\ UNCHANGED <<serving, request, refreshes, stream>>

Ask(r) ==
  /\ server = "serving"
  /\ request[r] = "out"
  /\ request' = [request EXCEPT ![r] = "running"]
  /\ UNCHANGED <<serving, pools, active, caller, refreshes, stream>>

\* Mutant of Accepts: the test of _REFRESH_ACCEPTING is dropped.
AlwaysAccepts == TRUE

Accepts == accepting

\* The handler returns; it may have scheduled a refresh, which is accepted or,
\* once the workers are stopped, refused.
Respond(r) ==
  /\ request[r] = "running"
  /\ UsePools
  /\ request' = [request EXCEPT ![r] = "out"]
  /\ refreshes' \in {refreshes, IF Accepts THEN refreshes \cup {r} ELSE refreshes}
  /\ UNCHANGED <<serving, active, caller, stream>>

Refresh(r) ==
  /\ r \in refreshes
  /\ UsePools
  /\ refreshes' = refreshes \ {r}
  /\ UNCHANGED <<serving, active, caller, request, stream>>

Connect(s) ==
  /\ server = "serving"
  /\ stream[s] = "out"
  /\ stream' = [stream EXCEPT ![s] = "open"]
  /\ UNCHANGED <<serving, pools, active, caller, request, refreshes>>

\* The generator sees the shutdown event.
EndStream(s) ==
  /\ stream[s] = "open"
  /\ wakeUp
  /\ stream' = [stream EXCEPT ![s] = "out"]
  /\ UNCHANGED <<serving, pools, active, caller, request, refreshes>>

\* request.is_disconnected(), or the generator is cancelled.
Disconnect(s) ==
  /\ stream[s] = "open"
  /\ stream' = [stream EXCEPT ![s] = "out"]
  /\ UNCHANGED <<serving, pools, active, caller, request, refreshes>>

Next ==
  \/ LifespanStep
  \/ ServerStep
  \/ \E j \in Jobs : Fire(j)
  \/ \E a \in Admins : PostAdminIngest(a)
  \/ \E c \in Callers : Admit(c) \/ Leave(c)
  \/ \E r \in Readers : Ask(r) \/ Respond(r) \/ Refresh(r)
  \/ \E s \in Streams : Connect(s) \/ EndStream(s) \/ Disconnect(s)

Spec == Init /\ [][Next]_vars

(* What has begun goes on: the lifespan, the server, a caller, a request, a *)
(* refresh and a stream that is woken.  Nobody has to stop the server, and  *)
(* a browser may keep its stream for ever.                                  *)
Fairness ==
  /\ WF_vars(LifespanStep) /\ WF_vars(ConnectionsClosed \/ GracefulTimeout) /\ WF_vars(Exit)
  /\ \A c \in Callers : WF_vars(Admit(c) \/ Leave(c))
  /\ \A r \in Readers : WF_vars(Respond(r)) /\ WF_vars(Refresh(r))
  /\ \A s \in Streams : WF_vars(EndStream(s))

FairSpec == Spec /\ Fairness

-----------------------------------------------------------------------------
(* Properties *)

\* "Closing beneath [a worker] would trade a slow shutdown for corrupted
\* resource ownership" (lifespan): whichever way the lifespan ends no admitted
\* ingest and no refresh is left, and it has closed its pools.  One thing opens
\* them again: a handler whose thread outlived the timeout of the server and the
\* whole teardown.  And one way leaves them: a scheduler that did not start
\* raises in the teardown.
PoolsEndClosed ==
  step = "done" /\ scheduler # "created" =>
    /\ active = 0 /\ refreshes = {}
    /\ pools # "closed" => ~ServerWaits /\ \E r \in late : request[r] = "out"

\* clear_loop comes after wait_for_idle: whatever an admitted ingest has to
\* broadcast still finds the event loop.
CompletionsAreHeard == active > 0 => loop

\* signal_shutdown ends the streams that are still open.
StreamsAreWoken == server = "stopping" ~> \A s \in Streams : stream[s] = "out"

\* backend/events.py, shutdown_event: streams "exit promptly when the server is
\* shutting down", so that a graceful shutdown does not wait for ever.
StopEnds == server = "draining" ~> server = "exited"

=============================================================================
