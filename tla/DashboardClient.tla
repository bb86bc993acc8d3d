--------------------------- MODULE DashboardClient ---------------------------
(***************************************************************************)
(* The browser side of the dashboard, and the event stream that drives it: *)
(* createDashboardRequestCoordinator and the parts of App that use it in   *)
(* src/app.jsx, one subscriber of the broadcaster in backend/events.py and *)
(* its generator in backend/app.py.                                        *)
(*                                                                         *)
(* Requests are answered, fail and are handled in any order.  Data is      *)
(* abstracted to the version the answering query saw: a `fresh` request    *)
(* sees the committed version, any other may be answered with an older one *)
(* that the response cache still holds (module ResponseCache).             *)
(***************************************************************************)
EXTENDS Naturals, Sequences

CONSTANTS
  Selections,    \* pairs of range and repository
  Initial,       \* the selection the page is opened with
  QueueLimit,    \* maxsize of a subscriber's queue (16 in the code)
  MaxCommits, MaxFailures, MaxSelects   \* bounds: ingests, user's changes

ASSUME InitialAssumption == Initial \in Selections
ASSUME LimitAssumption == QueueLimit \in Nat \ {0}
ASSUME BoundsAssumption == {MaxCommits, MaxFailures, MaxSelects} \subseteq Nat

VARIABLES
  committed,   \* version the database holds
  unannounced, \* whether "ingest_done" of the last commit is still to be broadcast
  failures,    \* failed ingests so far
  selects,     \* clicks on a range or a repository so far
  stream,      \* "connected": the generator is subscribed; "reconnecting"; or
               \* "closed": EventSource has given up
  queue,       \* its asyncio.Queue of events
  owed,        \* history: version at the last event for this subscriber since
               \* the selection was last changed, 0 for none
  wanted,      \* App: activeRange and activeRepository
  effectDue,   \* App: the effect that calls load() has not run yet
  active,      \* coordinator: activeSelection (null while requestId is 0)
  data,        \* coordinator: activeData
  requestId,   \* coordinator: requestId
  pending,     \* requests whose promise is not settled, or not yet handled
  shown,       \* App: dashboardState
  reclicked,   \* history: the active range was clicked with no request under way,
               \* and nothing has been loaded since
  disposed     \* coordinator: disposed

vars == <<committed, unannounced, failures, selects, stream, queue, owed, wanted,
          effectDue, active, data, requestId, pending, shown, reclicked, disposed>>

server == <<committed, unannounced, failures>>
broker == <<stream, queue, owed>>
client == <<active, data, requestId, pending, shown, reclicked>>

Versions == 0 .. MaxCommits
NoData == [selection |-> Initial, version |-> 0, present |-> FALSE]
Data(s, v) == [selection |-> s, version |-> v, present |-> TRUE]
DataType == [selection : Selections, version : Versions, present : BOOLEAN]

\* Answered requests carry the version; "sent" ones are not answered yet.
Request == [id : Nat, selection : Selections, retain : BOOLEAN, fresh : BOOLEAN,
            status : {"sent", "answered", "failed", "aborted"}, version : Versions]

Phase == {"loading", "refreshing", "ready", "stale", "error"}
Shown == [phase : Phase, data : DataType]

\* Type invariant; a settled request was settled with what the server held.
TypeOK ==
  /\ committed \in Versions
  /\ unannounced \in BOOLEAN
  /\ failures \in 0 .. MaxFailures
  /\ selects \in 0 .. MaxSelects
  /\ stream \in {"connected", "reconnecting", "closed"}
  /\ queue \in Seq({"ingest_done", "ingest_failed"}) /\ Len(queue) <= QueueLimit
  /\ owed \in Versions
  /\ wanted \in Selections
  /\ active \in Selections
  /\ effectDue \in BOOLEAN
  /\ data \in DataType
  /\ requestId \in Nat
  /\ pending \subseteq Request
  /\ \A q \in pending : q.version <= committed /\ q.id <= requestId
  /\ shown \in Shown
  /\ reclicked \in BOOLEAN
  /\ disposed \in BOOLEAN

Init ==
  /\ committed = 0
  /\ unannounced = FALSE
  /\ failures = 0
  /\ selects = 0
  /\ stream = "reconnecting"
  /\ queue = <<>>
  /\ owed = 0
  /\ wanted = Initial
  /\ effectDue = TRUE
  /\ active = Initial
  /\ data = NoData
  /\ requestId = 0
  /\ pending = {}
  /\ shown = [phase |-> "loading", data |-> NoData]
  /\ reclicked = FALSE
  /\ disposed = FALSE

-----------------------------------------------------------------------------
(* Server: ingests, and the broadcaster *)

Commit ==
  /\ committed < MaxCommits
  /\ ~unannounced
  /\ committed' = committed + 1
  /\ unannounced' = TRUE
  /\ UNCHANGED <<failures, selects, broker, wanted, effectDue, client, disposed>>

\* Mutant of Full: the queue has no limit.
NeverFull == FALSE

Full == Len(queue) >= QueueLimit

\* put_nowait: an event that finds the queue full is dropped; what it spoke of
\* is owed all the same, to a page whose selection has been loaded.
Offer(event) ==
  /\ queue' = IF stream = "connected" /\ ~Full THEN Append(queue, event) ELSE queue
  /\ owed' = IF stream = "connected" /\ ~effectDue THEN committed ELSE owed

\* The acknowledgement of the commit arrives, and event_broker.broadcast is called.
AnnounceCommit ==
  /\ unannounced
  /\ unannounced' = FALSE
  /\ Offer("ingest_done")
  /\ UNCHANGED <<committed, failures, selects, stream, wanted, effectDue, client, disposed>>

\* A failed run; if there is a commit to announce its acknowledgement was lost.
AnnounceFailure ==
  /\ failures < MaxFailures
  /\ failures' = failures + 1
  /\ unannounced' = FALSE
  /\ Offer("ingest_failed")
  /\ UNCHANGED <<committed, selects, stream, wanted, effectDue, client, disposed>>

\* EventSource connects, and the generator subscribes a new queue; onOpen
\* only changes the stream indicator.  The effect that opens the EventSource
\* runs after the one that loads first.
Connect ==
  /\ stream = "reconnecting"
  /\ ~disposed
  /\ requestId # 0
  /\ stream' = "connected"
  /\ UNCHANGED <<server, selects, queue, owed, wanted, effectDue, client, disposed>>

\* Anything but 200 and an event stream: EventSource never tries again, and
\* onError calls it "reconnecting" all the same.
Refuse ==
  /\ stream = "reconnecting"
  /\ ~disposed
  /\ requestId # 0
  /\ stream' = "closed"
  /\ UNCHANGED <<server, selects, queue, owed, wanted, effectDue, client, disposed>>

\* The generator ends: the queue goes, and what was owed with it.
Unsubscribe ==
  /\ stream' = IF stream = "connected" THEN "reconnecting" ELSE stream
  /\ queue' = <<>>
  /\ owed' = 0

\* The connection breaks.
Disconnect ==
  /\ stream = "connected"
  /\ Unsubscribe
  /\ UNCHANGED <<server, selects, wanted, effectDue, client, disposed>>

\* The server dies between a commit and its broadcast, and is started again:
\* nobody is ever told of that commit.
Crash ==
  /\ unannounced
  /\ unannounced' = FALSE
  /\ Unsubscribe
  /\ UNCHANGED <<committed, failures, selects, wanted, effectDue, client, disposed>>

-----------------------------------------------------------------------------
(* Coordinator *)

\* activeData survives a load() of the same selection when it is to be retained.
Retained(s, retain) ==
  IF retain /\ data.present /\ data.selection = s THEN data ELSE NoData

\* abortCurrent: a request that is not settled yet rejects with an AbortError;
\* the handlers of a settled one still run.
Aborted == {IF q.status = "sent" THEN [q EXCEPT !.status = "aborted"] ELSE q : q \in pending}

\* load()
Load(s, retain, fresh) ==
  LET kept == Retained(s, retain)
  IN /\ active' = s
     /\ data' = kept
     /\ requestId' = requestId + 1
     /\ shown' = [phase |-> IF kept.present THEN "refreshing" ELSE "loading", data |-> kept]
     /\ reclicked' = FALSE
     /\ pending' = Aborted \cup {[id |-> requestId + 1, selection |-> s, retain |-> retain,
                                  fresh |-> fresh, status |-> "sent", version |-> 0]}

\* Mutant of Refetch: through the response cache.
RefetchCached == Load(active, TRUE, FALSE)

Refetch == Load(active, TRUE, TRUE)

\* onIngest and onIngestFailure: refetch what is active, past the cache.
HandleEvent ==
  /\ stream = "connected"
  /\ ~disposed
  /\ queue # <<>>
  /\ queue' = Tail(queue)
  /\ Refetch
  /\ UNCHANGED <<server, selects, stream, owed, wanted, effectDue, disposed>>

\* The server runs the query of a request.
Answer(q) ==
  /\ q.status = "sent"
  /\ \E v \in IF ~q.fresh THEN 0 .. committed ELSE {committed} :
       pending' = (pending \ {q}) \cup {[q EXCEPT !.status = "answered", !.version = v]}
  /\ UNCHANGED <<server, selects, broker, wanted, effectDue, active, data, requestId, shown, reclicked, disposed>>

\* Network error, error status or unreadable body.
Fail(q) ==
  /\ q.status = "sent"
  /\ pending' = (pending \ {q}) \cup {[q EXCEPT !.status = "failed"]}
  /\ UNCHANGED <<server, selects, broker, wanted, effectDue, active, data, requestId, shown, reclicked, disposed>>

\* Mutant of IsCurrent: only the selection is compared.
IsCurrentSelection(q) == ~disposed /\ active = q.selection

\* The guard of both handlers.
IsCurrent(q) == ~disposed /\ q.id = requestId /\ active = q.selection

Resolve(q) ==
  /\ q.status = "answered"
  /\ pending' = pending \ {q}
  /\ IF IsCurrent(q)
     THEN /\ data' = Data(q.selection, q.version)
          /\ shown' = [phase |-> "ready", data |-> Data(q.selection, q.version)]
     ELSE UNCHANGED <<data, shown>>
  /\ UNCHANGED <<server, selects, broker, wanted, effectDue, active, requestId, reclicked, disposed>>

\* Mutant of Reported: no failure is.
NeverReported(q) == FALSE

\* A current request; an AbortError is nobody's failure.
Reported(q) == IsCurrent(q) /\ q.status # "aborted"

\* The last good data of the same selection stays, marked stale.
Reject(q) ==
  /\ q.status \in {"failed", "aborted"}
  /\ pending' = pending \ {q}
  /\ IF Reported(q)
     THEN LET fallback == Retained(q.selection, q.retain)
          IN /\ data' = fallback
             /\ shown' = [phase |-> IF fallback.present THEN "stale" ELSE "error", data |-> fallback]
     ELSE UNCHANGED <<data, shown>>
  /\ UNCHANGED <<server, selects, broker, wanted, effectDue, active, requestId, reclicked, disposed>>

\* The page is closed.
Dispose ==
  /\ ~disposed
  /\ disposed' = TRUE
  /\ requestId' = requestId + 1
  /\ pending' = Aborted
  /\ Unsubscribe
  /\ UNCHANGED <<server, selects, wanted, effectDue, active, data, shown, reclicked>>

-----------------------------------------------------------------------------
(* App *)

\* Whether the coordinator has a request that will settle what is on the screen.
InFlight == \E q \in pending : q.id = requestId

\* onRangeChange, onRepositoryChange: the old data leaves the screen at once.
\* The button of the active range can be clicked too; nothing the effect depends
\* on changes then, so it does not run, and what was announced stays owed.
\* React runs the effect of one change before the next change is handled.
Select(s) ==
  /\ ~disposed
  /\ ~effectDue
  /\ selects < MaxSelects
  /\ selects' = selects + 1
  /\ wanted' = s
  /\ effectDue' = (s # wanted)
  /\ owed' = IF s = wanted THEN owed ELSE 0
  /\ shown' = [phase |-> "loading", data |-> NoData]
  /\ reclicked' = (s = wanted /\ ~InFlight)
  /\ UNCHANGED <<server, stream, queue, active, data, requestId, pending, disposed>>

\* The effect on [activeRange, activeRepository].
Effect ==
  /\ ~disposed
  /\ effectDue
  /\ effectDue' = FALSE
  /\ Load(wanted, TRUE, FALSE)
  /\ UNCHANGED <<server, selects, broker, wanted, disposed>>

Settle(q) == Answer(q) \/ Fail(q) \/ Resolve(q) \/ Reject(q)

Next ==
  \/ Commit \/ AnnounceCommit \/ AnnounceFailure \/ Crash
  \/ Connect \/ Refuse \/ Disconnect \/ HandleEvent
  \/ \E q \in pending : Settle(q)
  \/ \E s \in Selections : Select(s)
  \/ Effect
  \/ Dispose

Spec == Init /\ [][Next]_vars

(* The browser runs its handlers and effects and reconnects or gives up,   *)
(* the server answers or the connection fails, and a committed ingest is   *)
(* announced.                                                              *)
(* Connections need not last, and nobody has to select or commit anything. *)
Fairness ==
  /\ WF_vars(AnnounceCommit)
  /\ WF_vars(Connect \/ Refuse)
  /\ WF_vars(HandleEvent)
  /\ WF_vars(Effect)
  /\ WF_vars(\E q \in pending : q.id = requestId /\ Settle(q))

FairSpec == Spec /\ Fairness

-----------------------------------------------------------------------------
(* Properties *)

\* What DashboardView shows: dashboardState's data, if it is of the selection.
Visible == shown.data.present /\ shown.data.selection = wanted

\* "loading" and "refreshing" are taken off the screen again: while one is
\* shown, the request that will end it is under way or about to be made.  An
\* event or an answer that comes between a change of the selection and its
\* effect does not lose it, nor does a click on the active range while its
\* request is under way.  Such a click on a page at rest is the one exception:
\* it says "loading" and loads nothing, until an event or another selection does.
LoadingIsUnderWay ==
  shown.phase \in {"loading", "refreshing"} => disposed \/ effectDue \/ InFlight \/ reclicked

\* Late answers: while the user stays on a selection and its data stays on the
\* screen, it is never replaced by data of an earlier commit.
NeverGoesBack ==
  [][Visible /\ Visible' /\ wanted' = wanted => shown'.data.version >= shown.data.version]_vars

\* "The frontend re-fetches /api/dashboard on receipt" (backend/events.py):
\* what was stored when an event, of whatever kind, was broadcast to a connected
\* page is on its screen in the end, or the page shows that it could not be
\* fetched: an event dropped by a full queue is made up for by the one before
\* it, a commit whose acknowledgement was lost by the failure that is told
\* instead.  A broken connection, a crash of the server, another selection or
\* the end of the page calls it off (owed = 0).  A click on the active range of a
\* page at rest takes it off the screen again, until an event is queued.
AnnouncedIsShown ==
  owed > 0 ~>
    \/ Visible /\ shown.data.version >= owed
    \/ shown.phase \in {"stale", "error"}
    \/ owed = 0
    \/ reclicked /\ queue = <<>>

=============================================================================
