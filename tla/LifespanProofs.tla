--------------------------- MODULE LifespanProofs ---------------------------
(***************************************************************************)
(* Theorems about the application's life, for any number of jobs, requests *)
(* and streams, and whether or not the server waits for its connections.   *)
(***************************************************************************)
EXTENDS Lifespan, FiniteSetTheorems, TLAPS

-----------------------------------------------------------------------------
(* Counting the admitted callers *)

Admitted == {c \in Callers : caller[c] = "admitted"}

\* Only finitely many jobs can be admitted, so they can be counted.
LEMMA AdmittedIsFinite == IsFiniteSet(Admitted) /\ Cardinality(Admitted) \in Nat
<1>1. IsFiniteSet(Callers)
  BY FiniteActors, FS_Union DEF Callers
<1> QED
  BY <1>1, FS_Subset, FS_CardinalityType DEF Admitted

\* One more is admitted.
LEMMA CountAdmission ==
  ASSUME NEW c \in Callers, caller[c] = "called",
         caller \in [Callers -> {"out", "called", "admitted"}],
         caller' = [caller EXCEPT ![c] = "admitted"]
  PROVE  Cardinality(Admitted') = Cardinality(Admitted) + 1
<1>1. Admitted' = Admitted \cup {c} /\ c \notin Admitted
  BY DEF Admitted
<1> QED
  BY <1>1, AdmittedIsFinite, FS_AddElement

\* One of those admitted goes out, and there was one.
LEMMA CountDeparture ==
  ASSUME NEW c \in Callers, caller[c] = "admitted",
         caller \in [Callers -> {"out", "called", "admitted"}],
         caller' = [caller EXCEPT ![c] = "out"]
  PROVE  /\ Cardinality(Admitted') = Cardinality(Admitted) - 1
         /\ Cardinality(Admitted) # 0
<1>1. Admitted' = Admitted \ {c} /\ c \in Admitted
  BY DEF Admitted
<1> QED
  BY <1>1, AdmittedIsFinite, FS_RemoveElement, FS_EmptySet

\* Nobody else's change of place matters to the count.
LEMMA CountOthers ==
  ASSUME NEW c \in Callers, NEW to \in {"out", "called"}, caller[c] # "admitted",
         caller \in [Callers -> {"out", "called", "admitted"}],
         caller' = [caller EXCEPT ![c] = to]
  PROVE  Admitted' = Admitted
BY DEF Admitted

\* What the timeout of the server drops was admitted by nobody.
LEMMA TimeoutDrops ==
  ASSUME GracefulTimeout,
         caller \in [Callers -> {"out", "called", "admitted"}],
         request \in [Readers -> {"out", "running"}]
  PROVE  /\ caller' \in [Callers -> {"out", "called", "admitted"}]
         /\ request' \in [Readers -> {"out", "running"}]
         /\ \A c \in Callers : caller'[c] # caller[c] => caller[c] = "called" /\ caller'[c] = "out"
         /\ \A r \in Readers : request'[r] # request[r] => request'[r] = "out"
         /\ Admitted' = Admitted
<1>1. PICK dropped \in SUBSET {a \in Admins : caller[a] = "called"} :
        caller' = [c \in Callers |-> IF c \in dropped THEN "out" ELSE caller[c]]
  BY DEF GracefulTimeout
<1>2. PICK cut \in SUBSET {r \in Readers : request[r] = "running"} :
        request' = [r \in Readers |-> IF r \in cut THEN "out" ELSE request[r]]
  BY DEF GracefulTimeout
<1>3. /\ caller' \in [Callers -> {"out", "called", "admitted"}]
      /\ \A c \in Callers : caller'[c] # caller[c] => caller[c] = "called" /\ caller'[c] = "out"
  BY <1>1
<1>4. /\ request' \in [Readers -> {"out", "running"}]
      /\ \A r \in Readers : request'[r] # request[r] => request'[r] = "out"
  BY <1>2
<1>5. Admitted' = Admitted
  BY <1>3 DEF Admitted
<1> QED
  BY <1>3, <1>4, <1>5

-----------------------------------------------------------------------------
(* Type correctness *)

\* The state is well formed, and the coordinator counts those it admitted.
THEOREM TypeCorrect == Spec => []TypeOK
<1> USE DEF Admitted
<1>1. Init => TypeOK
  <2>1. Init => Admitted = {}
    BY DEF Init
  <2> QED
    BY <2>1, FS_EmptySet DEF Init, TypeOK, Steps
<1>2. TypeOK /\ [Next]_vars => TypeOK'
  <2> SUFFICES ASSUME TypeOK, [Next]_vars PROVE TypeOK'
    OBVIOUS
  <2>1. CASE LifespanStep
    BY <2>1 DEF TypeOK, work, Steps, LifespanStep, Statement, OpenPools, SchemaCheck, StartupFails,
       StartRefreshWorkers, SetLoop, StartScheduler, SchedulerFails, SignalShutdown, WakeStreams,
       BeginShutdown, StopScheduler, WaitForIdle, ClearLoop, StopAccepting, DrainRefreshes, ClosePools
  <2>2. CASE ServerStep
    <3>1. CASE GracefulTimeout
      BY <3>1, TimeoutDrops DEF TypeOK, Steps, GracefulTimeout
    <3>2. CASE Serve \/ Stop \/ ConnectionsClosed \/ Exit
      BY <3>2 DEF TypeOK, work, Steps, Serve, Stop, ConnectionsClosed, Exit
    <3> QED
      BY <2>2, <3>1, <3>2 DEF ServerStep
  <2>3. ASSUME NEW c \in Callers, Admit(c) PROVE TypeOK'
    <3>1. CASE closing
      BY <2>3, <3>1, CountOthers DEF TypeOK, Admit, Rejects, serving
    <3>2. CASE ~closing
      BY <2>3, <3>2, CountAdmission DEF TypeOK, Admit, Rejects, serving
    <3> QED
      BY <3>1, <3>2
  <2>4. ASSUME NEW c \in Callers, Leave(c) PROVE TypeOK'
    BY <2>4, CountDeparture DEF TypeOK, Leave, UsePools, Discount, serving
  <2>5. ASSUME NEW c \in Callers, Fire(c) \/ PostAdminIngest(c) PROVE TypeOK'
    BY <2>5, CountOthers DEF TypeOK, Fire, PostAdminIngest, serving
  <2>6. ASSUME NEW r \in Readers, Ask(r) \/ Respond(r) \/ Refresh(r) PROVE TypeOK'
    BY <2>6 DEF TypeOK, Ask, Respond, Refresh, UsePools, serving
  <2>7. ASSUME NEW s \in Streams, Connect(s) \/ EndStream(s) \/ Disconnect(s) PROVE TypeOK'
    BY <2>7 DEF TypeOK, Connect, EndStream, Disconnect, serving
  <2>8. CASE UNCHANGED vars
    BY <2>8 DEF TypeOK, vars
  <2> QED
    BY <2>1, <2>2, <2>3, <2>4, <2>5, <2>6, <2>7, <2>8 DEF Next, Callers
<1> QED
  BY <1>1, <1>2, PTL DEF Spec

-----------------------------------------------------------------------------
(* The event loop outlives the admitted ingests *)

\* The server serves between the two halves of lifespan(); no request is under
\* way before that, nor after it if the server waits.
ServerInv ==
  /\ server \in {"serving", "draining"} => step = "yield"
  /\ server = "starting" => \A r \in Readers : request[r] = "out"
  /\ ServerWaits /\ server \in {"stopping", "exited"} =>
       \A r \in Readers : request[r] = "out"
  /\ server = "exited" => step = "done"

\* The loop is set while jobs can be started, and before the scheduler starts.
LoopInv ==
  /\ step \in {"start_scheduler", "yield"} => loop
  /\ scheduler = "running" =>
       loop /\ step \in {"yield", "signal_shutdown", "begin_shutdown", "stop_scheduler"}

\* Nobody is admitted when begin_shutdown has run and the count was seen at zero.
ClosingInv ==
  /\ step \in {"stop_scheduler", "wait_for_idle"} => closing
  /\ step \in {"clear_loop", "stop_accepting", "drain_refreshes", "close_pools"} =>
       closing /\ active = 0

\* Without a loop nobody is admitted, nor will be.
UnheardInv == ~loop => active = 0 /\ (closing \/ \A c \in Callers : caller[c] = "out")

HeardInv == ServerInv /\ LoopInv /\ ClosingInv /\ UnheardInv

\* Every step keeps the server inside the lifespan, and requests inside the server.
LEMMA NextServerInv == TypeOK /\ ServerInv /\ [Next]_vars => ServerInv'
<1> SUFFICES ASSUME TypeOK, ServerInv, [Next]_vars PROVE ServerInv'
  OBVIOUS
<1>1. CASE LifespanStep
  BY <1>1 DEF ServerInv, work, LifespanStep, Statement, OpenPools, SchemaCheck, StartupFails,
     StartRefreshWorkers, SetLoop, StartScheduler, SchedulerFails, SignalShutdown,
     BeginShutdown, StopScheduler, WaitForIdle, ClearLoop, StopAccepting, DrainRefreshes, ClosePools
<1>2. CASE ServerStep
  <2>1. CASE GracefulTimeout
    BY <2>1 DEF ServerInv, GracefulTimeout
  <2>2. CASE Serve \/ Stop \/ ConnectionsClosed \/ Exit
    BY <2>2 DEF TypeOK, ServerInv, work, Serve, Stop, ConnectionsClosed, Exit
  <2> QED
    BY <1>2, <2>1, <2>2 DEF ServerStep
<1>3. ASSUME NEW r \in Readers, Ask(r) \/ Respond(r) \/ Refresh(r) PROVE ServerInv'
  BY <1>3 DEF TypeOK, ServerInv, Ask, Respond, Refresh, serving
<1>4. CASE UNCHANGED <<server, step, request>>
  BY <1>4 DEF ServerInv
<1> QED
  BY <1>1, <1>2, <1>3, <1>4 DEF Next, Fire, PostAdminIngest, Admit, Leave, Connect, EndStream,
     Disconnect, serving, vars

\* Every step keeps an admitted ingest inside the time the loop is set.
LEMMA NextHeardInv == TypeOK /\ HeardInv /\ [Next]_vars => HeardInv'
<1> SUFFICES ASSUME TypeOK, HeardInv, [Next]_vars PROVE HeardInv'
  OBVIOUS
<1> USE DEF HeardInv, LoopInv, ClosingInv, UnheardInv
<1>0. ServerInv'
  BY NextServerInv
<1>1. CASE LifespanStep
  BY <1>0, <1>1 DEF ServerInv, work, LifespanStep, Statement, OpenPools, SchemaCheck, StartupFails,
     StartRefreshWorkers, SetLoop, StartScheduler, SchedulerFails, SignalShutdown,
     BeginShutdown, StopScheduler, WaitForIdle, Idle, ClearLoop, StopAccepting, DrainRefreshes,
     ClosePools
<1>2. CASE ServerStep
  <2>1. CASE GracefulTimeout
    <3>1. /\ \A c \in Callers : caller[c] = "out" => caller'[c] = "out"
          /\ UNCHANGED <<loop, scheduler, closing, active>>
          /\ step = "yield" /\ step' = "signal_shutdown"
      BY <2>1, TimeoutDrops DEF TypeOK, ServerInv, GracefulTimeout
    <3> QED
      BY <1>0, <3>1
  <2>2. CASE Serve \/ Stop \/ ConnectionsClosed \/ Exit
    BY <1>0, <2>2 DEF ServerInv, work, Serve, Stop, ConnectionsClosed, Exit
  <2> QED
    BY <1>2, <2>1, <2>2 DEF ServerStep
<1>3. ASSUME NEW c \in Callers, Admit(c) PROVE HeardInv'
  BY <1>0, <1>3 DEF TypeOK, Admit, Rejects, serving
<1>4. ASSUME NEW c \in Callers, Leave(c) PROVE HeardInv'
  BY <1>0, <1>4, CountDeparture DEF TypeOK, Leave, Admitted, serving
<1>5. ASSUME NEW c \in Callers, Fire(c) \/ PostAdminIngest(c) PROVE HeardInv'
  BY <1>0, <1>5 DEF TypeOK, ServerInv, Fire, PostAdminIngest, serving
<1>6. CASE UNCHANGED <<step, loop, scheduler, closing, active, caller>>
  BY <1>0, <1>6
<1> QED
  BY <1>1, <1>2, <1>3, <1>4, <1>5, <1>6 DEF Next, Callers, Ask, Respond, Refresh, Connect,
     EndStream, Disconnect, serving, vars

\* clear_loop comes when no admitted ingest is left to broadcast.
THEOREM CompletionsAreHeardHolds == Spec => []CompletionsAreHeard
<1>1. Init => HeardInv
  BY DEF Init, HeardInv, ServerInv, LoopInv, ClosingInv, UnheardInv
<1>2. TypeOK /\ HeardInv => CompletionsAreHeard
  BY DEF TypeOK, HeardInv, UnheardInv, CompletionsAreHeard
<1> QED
  BY <1>1, <1>2, TypeCorrect, NextHeardInv, PTL DEF Spec

-----------------------------------------------------------------------------
(* What is left when the pools are closed *)

\* A scheduler that could not be started ends the teardown early.
CreatedInv ==
  scheduler = "created" =>
    step \in {"signal_shutdown", "begin_shutdown", "stop_scheduler", "done"}

\* After the drain no refresh is left, and none is accepted.
DrainedInv ==
  /\ step \in {"drain_refreshes", "close_pools"} => ~accepting
  /\ step = "close_pools" => refreshes = {}

\* When the teardown is over nobody owned by the lifespan is left, and none can come.
OverInv ==
  step = "done" /\ scheduler # "created" =>
    closing /\ active = 0 /\ refreshes = {} /\ ~accepting

\* Whoever is still running was when the pools were closed, and a pool is open
\* again only after one of them has returned; a server that waits leaves nobody.
LateInv ==
  /\ ServerWaits => late = {}
  /\ step = "done" /\ scheduler # "created" =>
       /\ \A r \in Readers : request[r] = "running" => r \in late
       /\ pools # "closed" => \E r \in late : request[r] = "out"

ClosedInv == CreatedInv /\ DrainedInv /\ OverInv /\ LateInv

\* Every step keeps what has been drained drained.
LEMMA NextDrained ==
  TypeOK /\ HeardInv /\ CreatedInv /\ DrainedInv /\ OverInv /\ [Next]_vars =>
    CreatedInv' /\ DrainedInv' /\ OverInv'
<1> SUFFICES ASSUME TypeOK, HeardInv, CreatedInv, DrainedInv, OverInv, [Next]_vars
             PROVE  CreatedInv' /\ DrainedInv' /\ OverInv'
  OBVIOUS
<1> USE DEF CreatedInv, DrainedInv, OverInv
<1>1. CASE LifespanStep
  BY <1>1 DEF HeardInv, ClosingInv, work, LifespanStep, Statement, OpenPools, SchemaCheck,
     StartupFails, StartRefreshWorkers, SetLoop, StartScheduler, SchedulerFails, SignalShutdown,
     BeginShutdown, StopScheduler, WaitForIdle, ClearLoop, StopAccepting, DrainRefreshes, ClosePools
<1>2. CASE ServerStep
  BY <1>2 DEF HeardInv, ServerInv, work, ServerStep, Serve, Stop, ConnectionsClosed,
     GracefulTimeout, Exit
<1>3. ASSUME NEW c \in Callers, Admit(c) PROVE CreatedInv' /\ DrainedInv' /\ OverInv'
  BY <1>3 DEF Admit, Rejects, serving
<1>4. ASSUME NEW c \in Callers, Leave(c) PROVE CreatedInv' /\ DrainedInv' /\ OverInv'
  BY <1>4, CountDeparture DEF TypeOK, Leave, Admitted, serving
<1>5. ASSUME NEW r \in Readers, Ask(r) \/ Respond(r) \/ Refresh(r)
      PROVE  CreatedInv' /\ DrainedInv' /\ OverInv'
  BY <1>5 DEF Ask, Respond, Accepts, Refresh, serving
<1>6. CASE UNCHANGED <<step, scheduler, closing, active, accepting, refreshes>>
  BY <1>6
<1> QED
  BY <1>1, <1>2, <1>3, <1>4, <1>5, <1>6 DEF Next, Fire, PostAdminIngest, Connect, EndStream,
     Disconnect, serving, vars

\* Every step keeps account of who outlives the pools.
LEMMA NextLate == TypeOK /\ HeardInv /\ ClosedInv /\ [Next]_vars => LateInv'
<1> SUFFICES ASSUME TypeOK, HeardInv, ClosedInv, [Next]_vars PROVE LateInv'
  OBVIOUS
<1> USE DEF LateInv
<1>0. ClosedInv => LateInv
  BY DEF ClosedInv
<1>1. CASE ClosePools
  <2>1. /\ step = "close_pools" /\ pools' = "closed" /\ UNCHANGED <<server, request>>
        /\ late' = {r \in Readers : request[r] = "running"}
    BY <1>1 DEF ClosePools, Statement
  <2>2. server \in {"starting", "stopping", "exited"}
    BY <2>1 DEF TypeOK, HeardInv, ServerInv
  <2>3. ServerWaits => \A r \in Readers : request[r] = "out"
    BY <2>2 DEF HeardInv, ServerInv
  <2> QED
    BY <2>1, <2>3
<1>2. CASE LifespanStep /\ ~ClosePools
  <2>1. UNCHANGED <<late, request>>
    BY <1>2 DEF work, LifespanStep, OpenPools, SchemaCheck, StartupFails, StartRefreshWorkers,
       SetLoop, StartScheduler, SchedulerFails, SignalShutdown, BeginShutdown, StopScheduler,
       WaitForIdle, ClearLoop, StopAccepting, DrainRefreshes
  <2>2. step' = "done" => scheduler' = "created"
    BY <1>2 DEF LifespanStep, Statement, OpenPools, SchemaCheck, StartupFails, StartRefreshWorkers,
       SetLoop, StartScheduler, SchedulerFails, SignalShutdown, BeginShutdown, StopScheduler,
       WaitForIdle, ClearLoop, StopAccepting, DrainRefreshes
  <2> QED
    BY <1>0, <2>1, <2>2
<1>3. CASE ServerStep
  <2>1. UNCHANGED <<late, scheduler, pools>>
    BY <1>3 DEF work, ServerStep, Serve, Stop, ConnectionsClosed, GracefulTimeout, Exit
  <2>2. CASE step' = "done"
    <3>1. step = "done" /\ UNCHANGED request
      BY <1>3, <2>2 DEF HeardInv, ServerInv, work, ServerStep, Serve, Stop, ConnectionsClosed,
         GracefulTimeout, Exit
    <3> QED
      BY <1>0, <2>1, <3>1
  <2>3. CASE step' # "done"
    BY <1>0, <2>1, <2>3
  <2> QED
    BY <2>2, <2>3
<1>4. ASSUME NEW c \in Callers, Leave(c) PROVE LateInv'
  <2>1. active # 0
    BY <1>4, CountDeparture DEF TypeOK, Leave, Admitted
  <2>2. UNCHANGED <<late, request, step, scheduler>>
    BY <1>4 DEF Leave, serving
  <2> QED
    BY <1>0, <2>1, <2>2 DEF ClosedInv, OverInv
<1>5. ASSUME NEW r \in Readers, Ask(r) PROVE LateInv'
  BY <1>0, <1>5 DEF Ask, serving, HeardInv, ServerInv
<1>6. ASSUME NEW r \in Readers, Respond(r) PROVE LateInv'
  <2>1. /\ request[r] = "running" /\ request' = [request EXCEPT ![r] = "out"]
        /\ UNCHANGED <<late, step, scheduler>>
    BY <1>6 DEF Respond, serving
  <2>2. request'[r] = "out" /\ \A q \in Readers : request'[q] = "running" => request[q] = "running"
    BY <2>1 DEF TypeOK
  <2> QED
    BY <1>0, <2>1, <2>2
<1>7. ASSUME NEW r \in Readers, Refresh(r) PROVE LateInv'
  BY <1>0, <1>7 DEF Refresh, serving, ClosedInv, OverInv
<1>8. CASE UNCHANGED <<step, pools, scheduler, request, late>>
  BY <1>0, <1>8
<1> QED
  BY <1>1, <1>2, <1>3, <1>4, <1>5, <1>6, <1>7, <1>8 DEF Next, Fire, PostAdminIngest, Admit,
     Connect, EndStream, Disconnect, serving, vars

\* Every step keeps both.
LEMMA NextClosedInv == TypeOK /\ HeardInv /\ ClosedInv /\ [Next]_vars => ClosedInv'
BY NextDrained, NextLate DEF ClosedInv

\* Whichever way the lifespan ends no ingest and no refresh is left and the pools
\* are closed; under a server with a timeout a handler that outlived all of that
\* opens one again, and nothing else does.  Not where the scheduler could not be
\* started.
THEOREM PoolsEndClosedHolds == Spec => []PoolsEndClosed
<1>1. Init => HeardInv /\ ClosedInv
  BY DEF Init, HeardInv, ServerInv, LoopInv, ClosingInv, UnheardInv, ClosedInv, CreatedInv,
     DrainedInv, OverInv, LateInv
<1>2. ClosedInv => PoolsEndClosed
  BY DEF ClosedInv, OverInv, LateInv, PoolsEndClosed
<1> QED
  BY <1>1, <1>2, TypeCorrect, NextHeardInv, NextClosedInv, PTL DEF Spec

-----------------------------------------------------------------------------
(* What a stop waits for, and who wakes the streams *)

\* The event that ends the streams is set from signal_shutdown on, if any is open;
\* it is not while the server serves, and no stream is open before that.
WakeUpInv ==
  /\ step \in {"start_scheduler", "yield"} => ~wakeUp
  /\ server = "starting" => \A s \in Streams : stream[s] = "out"
  /\ server = "stopping" /\ step = "signal_shutdown" => loop
  /\ server \in {"stopping", "exited"} /\ step # "signal_shutdown" =>
       wakeUp \/ \A s \in Streams : stream[s] = "out"
  /\ server = "stopping" =>
       step \notin {"open_pools", "schema_check", "start_refresh_workers", "set_loop",
                    "start_scheduler", "yield"}

\* Once signal_shutdown has run, every open stream can end at once.
StreamsAreAwake ==
  server \in {"stopping", "exited"} /\ step # "signal_shutdown" =>
    \A s \in Streams : stream[s] = "open" => wakeUp

\* While the server waits for its connections no stream is told to end.
NobodyIsWokenYet == server = "draining" => ~wakeUp

OpenStreams == {s \in Streams : stream[s] = "open"}
BusyAdmins == {a \in Admins : caller[a] # "out"}
BusyReaders == {r \in Readers : request[r] # "out"}

\* Each wait of the stop is for a set that nothing is added to.
StopWaitsForLess ==
  [][/\ server = "draining" => BusyAdmins' \subseteq BusyAdmins /\ BusyReaders' \subseteq BusyReaders
     /\ server # "serving" => OpenStreams' \subseteq OpenStreams
     /\ step = "wait_for_idle" => Admitted' \subseteq Admitted
     /\ step = "drain_refreshes" => refreshes' \subseteq refreshes]_vars

\* Every step keeps the event of the streams in time with the server.
LEMMA NextWakeUpInv == TypeOK /\ HeardInv /\ WakeUpInv /\ [Next]_vars => WakeUpInv'
<1> SUFFICES ASSUME TypeOK, HeardInv, WakeUpInv, [Next]_vars PROVE WakeUpInv'
  OBVIOUS
<1> USE DEF WakeUpInv
<1>1. CASE LifespanStep
  <2>1. UNCHANGED <<server, stream>>
    BY <1>1 DEF work, LifespanStep, OpenPools, SchemaCheck, StartupFails, StartRefreshWorkers,
       SetLoop, StartScheduler, SchedulerFails, SignalShutdown, BeginShutdown, StopScheduler,
       WaitForIdle, ClearLoop, StopAccepting, DrainRefreshes, ClosePools
  <2>2. server = "exited" => step = "done"
    BY DEF HeardInv, ServerInv
  <2>3. CASE SignalShutdown
    BY <2>1, <2>2, <2>3 DEF SignalShutdown, Statement, WakeStreams
  <2>4. CASE OpenPools \/ SchemaCheck \/ StartupFails \/ StartRefreshWorkers \/ SetLoop
             \/ StartScheduler \/ SchedulerFails
    <3>1. step \notin {"yield", "done", "signal_shutdown"} /\ server \notin {"stopping", "exited"}
      BY <2>2, <2>4 DEF Statement, OpenPools, SchemaCheck, StartupFails, StartRefreshWorkers,
         SetLoop, StartScheduler, SchedulerFails
    <3>2. step' = "yield" => wakeUp' = wakeUp /\ step = "start_scheduler"
      BY <2>4 DEF Statement, OpenPools, SchemaCheck, StartupFails, StartRefreshWorkers,
         SetLoop, StartScheduler, SchedulerFails
    <3>3. step' = "start_scheduler" => ~wakeUp'
      BY <2>4 DEF Statement, OpenPools, SchemaCheck, StartupFails, StartRefreshWorkers,
         SetLoop, StartScheduler, SchedulerFails
    <3> QED
      BY <2>1, <3>1, <3>2, <3>3
  <2>5. CASE BeginShutdown \/ StopScheduler \/ WaitForIdle \/ ClearLoop \/ StopAccepting
             \/ DrainRefreshes \/ ClosePools
    <3>1. /\ step # "signal_shutdown" /\ wakeUp' = wakeUp
          /\ step' \in {"stop_scheduler", "wait_for_idle", "clear_loop", "stop_accepting",
                        "drain_refreshes", "close_pools", "done"}
      BY <2>5 DEF Statement, BeginShutdown, StopScheduler, WaitForIdle, ClearLoop,
         StopAccepting, DrainRefreshes, ClosePools
    <3> QED
      BY <2>1, <3>1
  <2> QED
    BY <1>1, <2>3, <2>4, <2>5 DEF LifespanStep
<1>2. CASE ServerStep
  <2>1. UNCHANGED <<loop, wakeUp, stream>>
    BY <1>2 DEF work, ServerStep, Serve, Stop, ConnectionsClosed, GracefulTimeout, Exit
  <2>2. CASE Serve \/ Stop
    BY <2>1, <2>2 DEF Serve, Stop
  <2>3. CASE ConnectionsClosed \/ GracefulTimeout
    BY <2>1, <2>3 DEF ConnectionsClosed, GracefulTimeout, HeardInv, ServerInv, LoopInv
  <2>4. CASE Exit
    <3>1. step = "done" /\ step' = "done" /\ server \notin {"serving", "draining"} /\ server' = "exited"
      BY <2>4 DEF Exit, HeardInv, ServerInv
    <3>2. server \in {"starting", "stopping"}
      BY <2>4, <3>1 DEF Exit, TypeOK
    <3> QED
      BY <2>1, <3>1, <3>2
  <2> QED
    BY <1>2, <2>2, <2>3, <2>4 DEF ServerStep
<1>3. ASSUME NEW s \in Streams, Connect(s) \/ EndStream(s) \/ Disconnect(s) PROVE WakeUpInv'
  BY <1>3 DEF TypeOK, Connect, EndStream, Disconnect, serving
<1>4. CASE UNCHANGED <<server, step, loop, wakeUp, stream>>
  BY <1>4
<1> QED
  BY <1>1, <1>2, <1>3, <1>4 DEF Next, Fire, PostAdminIngest, Admit, Leave, Ask, Respond, Refresh,
     serving, vars

\* WakeUpInv always holds.
LEMMA WakeUpInvHolds == Spec => []WakeUpInv
<1>1. Init => HeardInv /\ WakeUpInv
  BY DEF Init, HeardInv, ServerInv, LoopInv, ClosingInv, UnheardInv, WakeUpInv
<1> QED
  BY <1>1, TypeCorrect, NextHeardInv, NextWakeUpInv, PTL DEF Spec

\* The safety half of StreamsAreWoken: once signal_shutdown has run while the server
\* stops, a stream that is still open finds the shutdown event set, whatever else
\* the teardown has undone.
THEOREM StreamsAreAwakeHolds == Spec => []StreamsAreAwake
<1>1. TypeOK /\ WakeUpInv => StreamsAreAwake
  BY DEF WakeUpInv, StreamsAreAwake
<1> QED
  BY <1>1, WakeUpInvHolds, TypeCorrect, PTL

\* Why the run lifespan_stop finds StopEnds violated: as long as the server waits for its
\* open connections the event that ends the streams is not set, however many
\* streams there are.
THEOREM NobodyIsWokenYetHolds == Spec => []NobodyIsWokenYet
<1>1. HeardInv /\ WakeUpInv => NobodyIsWokenYet
  BY DEF HeardInv, ServerInv, WakeUpInv, NobodyIsWokenYet
<1>2. Init => HeardInv
  BY DEF Init, HeardInv, ServerInv, LoopInv, ClosingInv, UnheardInv
<1> QED
  BY <1>1, <1>2, WakeUpInvHolds, TypeCorrect, NextHeardInv, PTL DEF Spec

\* The safety half of StopEnds: connections while the server drains, streams from
\* then on, admitted ingests while wait_for_idle waits, refreshes while the workers
\* are drained: each only gets less, so the stop cannot be outrun by new work.
THEOREM StopWaitsForLessHolds == Spec => StopWaitsForLess
<1>1. ASSUME TypeOK, HeardInv, ClosedInv, [Next]_vars
      PROVE  /\ server = "draining" =>
                  BusyAdmins' \subseteq BusyAdmins /\ BusyReaders' \subseteq BusyReaders
             /\ server # "serving" => OpenStreams' \subseteq OpenStreams
             /\ step = "wait_for_idle" => Admitted' \subseteq Admitted
             /\ step = "drain_refreshes" => refreshes' \subseteq refreshes
  <2> USE <1>1 DEF BusyAdmins, BusyReaders, OpenStreams, Admitted
  <2>1. CASE LifespanStep
    BY <2>1 DEF work, LifespanStep, Statement, OpenPools, SchemaCheck, StartupFails,
       StartRefreshWorkers, SetLoop, StartScheduler, SchedulerFails, SignalShutdown,
       BeginShutdown, StopScheduler, WaitForIdle, ClearLoop, StopAccepting, DrainRefreshes,
       ClosePools
  <2>2. CASE ServerStep
    <3>1. CASE GracefulTimeout
      <4>1. /\ \A c \in Callers : caller[c] = "out" => caller'[c] = "out"
            /\ \A r \in Readers : request[r] = "out" => request'[r] = "out"
            /\ Admitted' = Admitted /\ UNCHANGED <<refreshes, stream>>
        BY <3>1, TimeoutDrops DEF TypeOK, GracefulTimeout
      <4> QED
        BY <4>1 DEF Callers
    <3>2. CASE Serve \/ Stop \/ ConnectionsClosed \/ Exit
      BY <3>2 DEF work, Serve, Stop, ConnectionsClosed, Exit
    <3> QED
      BY <2>2, <3>1, <3>2 DEF ServerStep
  <2>3. ASSUME NEW c \in Callers, Fire(c) \/ PostAdminIngest(c), c \in Jobs \/ server = "serving"
        PROVE  /\ BusyAdmins' \subseteq BusyAdmins \/ server # "draining"
               /\ Admitted' \subseteq Admitted
               /\ UNCHANGED <<request, refreshes, stream>>
    <3>1. /\ caller' = [caller EXCEPT ![c] = "called"] /\ caller \in [Callers -> {"out", "called", "admitted"}]
          /\ UNCHANGED <<request, refreshes, stream>>
      BY <2>3 DEF TypeOK, Fire, PostAdminIngest
    <3>2. \A d \in Callers : d # c => caller'[d] = caller[d]
      BY <3>1
    <3>3. caller'[c] = "called"
      BY <3>1
    <3> QED
      BY <2>3, <3>1, <3>2, <3>3, DistinctActors DEF Callers
  <2>4. ASSUME NEW c \in Callers, Admit(c) \/ Leave(c)
        PROVE  /\ BusyAdmins' \subseteq BusyAdmins
               /\ step = "wait_for_idle" => Admitted' \subseteq Admitted
               /\ UNCHANGED <<request, refreshes, stream>>
    <3>1. PICK to \in {"out", "admitted"} : /\ caller' = [caller EXCEPT ![c] = to]
                                            /\ caller[c] # "out"
                                            /\ closing => to = "out"
      <4>1. CASE Admit(c)
        <5>1. CASE closing
          BY <4>1, <5>1 DEF Admit, Rejects
        <5>2. CASE ~closing
          BY <4>1, <5>2 DEF Admit, Rejects
        <5> QED
          BY <5>1, <5>2
      <4>2. CASE Leave(c)
        BY <4>2 DEF Leave
      <4> QED
        BY <2>4, <4>1, <4>2
    <3>2. caller \in [Callers -> {"out", "called", "admitted"}]
      BY DEF TypeOK
    <3>3. step = "wait_for_idle" => closing
      BY DEF HeardInv, ClosingInv
    <3>4. UNCHANGED <<request, refreshes, stream>>
      BY <2>4 DEF Admit, Leave
    <3>5. \A d \in Callers : d # c => caller'[d] = caller[d]
      BY <3>1, <3>2
    <3>6. caller'[c] = to
      BY <3>1, <3>2
    <3>7. BusyAdmins' \subseteq BusyAdmins
      BY <3>1, <3>5 DEF Callers
    <3>8. step = "wait_for_idle" => Admitted' \subseteq Admitted
      BY <3>1, <3>3, <3>5, <3>6
    <3> QED
      BY <3>4, <3>7, <3>8
  <2>5. ASSUME NEW r \in Readers, Ask(r) \/ Respond(r) \/ Refresh(r)
        PROVE  /\ BusyReaders' \subseteq BusyReaders \/ server = "serving"
               /\ step = "drain_refreshes" => refreshes' \subseteq refreshes
               /\ UNCHANGED <<caller, stream>>
    BY <2>5 DEF TypeOK, ClosedInv, DrainedInv, Ask, Respond, Accepts, Refresh
  <2>6. ASSUME NEW s \in Streams, Connect(s) \/ EndStream(s) \/ Disconnect(s)
        PROVE  /\ OpenStreams' \subseteq OpenStreams \/ server = "serving"
               /\ UNCHANGED <<caller, request, refreshes>>
    BY <2>6 DEF TypeOK, Connect, EndStream, Disconnect
  <2>7. CASE UNCHANGED vars
    BY <2>7 DEF vars
  <2> QED
    BY <2>1, <2>2, <2>3, <2>4, <2>5, <2>6, <2>7 DEF Next, Callers, Fire, PostAdminIngest
<1>2. Init => HeardInv /\ ClosedInv
  BY DEF Init, HeardInv, ServerInv, LoopInv, ClosingInv, UnheardInv, ClosedInv, CreatedInv,
     DrainedInv, OverInv, LateInv
<1> QED
  BY <1>1, <1>2, TypeCorrect, NextHeardInv, NextClosedInv, PTL DEF Spec, StopWaitsForLess

=============================================================================
