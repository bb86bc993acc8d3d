---------------------------- MODULE DashboardRead ----------------------------
(***************************************************************************)
(* GET /api/dashboard and GET /api/repositories against a database that    *)
(* ingests keep replacing: the queries of _dashboard_build and those       *)
(* before them, or of _repository_options, each a step of its own, in one  *)
(* REPEATABLE READ transaction, and the sync status that a second          *)
(* transaction lays over the dashboard's body (backend/api_dashboard.py,   *)
(* backend/api.py, read_transaction of backend/api_common.py).             *)
(*                                                                         *)
(* An issue and a pull request contribute events in the same way, so one   *)
(* kind of item stands for both.  How a window is cut into bins is the     *)
(* matter of module Timeline, when the response cache serves an earlier    *)
(* body that of module ResponseCache.                                      *)
(***************************************************************************)
EXTENDS Integers, FiniteSets, FiniteSetsExt

CONSTANTS
  Repositories,
  Contents,      \* what a snapshot may contain
  Clock,         \* bound: instants of a request
  Ranges,        \* lengths of the ranges other than "all"
  None,
  MaxAttempts    \* bound: ingests, whether they commit or fail

ASSUME BoundsAssumption == MaxAttempts \in Nat
\* None is no repository, and no database that a query may have seen.
ASSUME NoneAssumption ==
  /\ None \notin Repositories
  /\ \A c \in Contents, n \in 0 .. MaxAttempts : None # [content |-> c, committed |-> n]
\* What the tables hold (backend/schema.sql): items of stored repositories, with
\* an instant of creation, and one of closing where it is known to be complete.
ASSUME ContentsAssumption ==
  \A c \in Contents :
    /\ c.repositories \subseteq Repositories
    /\ IsFiniteSet(c.items)
    /\ \A i \in c.items : /\ i.repository \in c.repositories
                          /\ i.created \in Int
                          /\ i.state = "completed" => i.closed \in Int
ASSUME TimeAssumption == Clock \subseteq Nat /\ Ranges \subseteq Nat \ {0}

VARIABLES
  db,        \* contents, and last_committed_at of sync_state: the ingest, counted
             \* among all attempts, that committed them; 0 before the first
  sync,      \* the attempt marker of sync_state
  pc,        \* the query to come, or "idle"
  request,   \* endpoint, repository, range and clock
  snapshot,  \* what the transaction has seen, None before its first query
  window,
  body,      \* response under construction
  cached,    \* the body the cache may serve, None if there is none
  answer,    \* the last answer
  seen       \* history: databases and attempts current since the request began

\* The range "all"; no other has length 0.
All == 0

vars == <<db, sync, pc, request, snapshot, window, body, cached, answer, seen>>
world == <<db, sync>>

Steps == {"idle", "validate", "window", "events", "open", "ids", "names", "last", "overlay"}
Kinds == {"opened", "completed"}
Endpoints == {"dashboard", "repositories"}

Window == [start : Int, end : Int]
EmptyBody == [window |-> [start |-> 0, end |-> 0], totals |-> [k \in Kinds |-> 0],
              open |-> 0, repositories |-> {}, lastIngest |-> 0]
Body == [window : Window, totals : [Kinds -> Nat], open : Nat,
         repositories : SUBSET Repositories, lastIngest : Nat]
NoAnswer == [status |-> "none", body |-> EmptyBody, sync |-> [attempt |-> 0, result |-> "none"]]

\* Type invariant; no transaction outlives its request.
TypeOK ==
  /\ db.content \in Contents /\ db.committed \in 0 .. MaxAttempts
  /\ sync.attempt \in 0 .. MaxAttempts
  /\ sync.result \in {"none", "success", "failure"}
  /\ pc \in Steps
  /\ request.endpoint \in Endpoints /\ request.repository \in Repositories \cup {None}
  /\ pc \in {"idle", "overlay"} => snapshot = None
  /\ window \in Window
  /\ body \in Body
  /\ cached = None \/ cached \in [request : {cached.request}, body : Body]
  /\ answer.status \in {"none", "200", "404", "500"} /\ answer.body \in Body

Init ==
  /\ \E c \in Contents : db = [content |-> c, committed |-> 0]
  /\ sync = [attempt |-> 0, result |-> "none"]
  /\ pc = "idle"
  /\ request = [endpoint |-> "dashboard", repository |-> None, range |-> All, now |-> 0]
  /\ snapshot = None
  /\ window = [start |-> 0, end |-> 0]
  /\ body = EmptyBody
  /\ cached = None
  /\ answer = NoAnswer
  /\ seen = [dbs |-> {}, syncs |-> {}]

-----------------------------------------------------------------------------
(* Queries *)

Counted(item, repository) == repository \in {None, item.repository}

\* _event_union: a creation, and an outcome if the current state has a known one.
Events(d, repository) ==
  LET items == {i \in d.content.items : Counted(i, repository)}
  IN {[item |-> i, kind |-> "opened", at |-> i.created] : i \in items} \cup
     {[item |-> i, kind |-> "completed", at |-> i.closed] :
        i \in {j \in items : j.state = "completed"}}

In(at, w) == w.start <= at /\ at < w.end

EventsIn(d, repository, w) == {e \in Events(d, repository) : In(e.at, w)}

\* _event_bounds and build_window; without events "all" is empty.
WindowOf(d, repository, range, now) ==
  LET instants == {e.at : e \in Events(d, repository)}
  IN CASE range # All -> [start |-> now - range, end |-> now]
       [] range = All /\ instants = {} -> [start |-> now, end |-> now]
       [] OTHER -> [start |-> Min(instants), end |-> now]

\* _event_rows, folded.
Totals(d, repository, w) ==
  [k \in Kinds |-> Cardinality({e \in EventsIn(d, repository, w) : e.kind = k})]

\* Mutant of OpenCount: the open items of all time are counted.
OpenEver(d, repository, w) ==
  Cardinality({i \in d.content.items : Counted(i, repository) /\ i.state = "open"})

\* _summary_open_counts: open now, created inside the window.
OpenCount(d, repository, w) ==
  Cardinality({i \in d.content.items :
                 Counted(i, repository) /\ i.state = "open" /\ In(i.created, w)})

\* _event_repository_ids
RepositoryIds(d, repository, w) == {e.item.repository : e \in EventsIn(d, repository, w)}

-----------------------------------------------------------------------------
(* Ingest *)

Current ==
  IF pc = "idle" THEN seen ELSE [dbs |-> seen.dbs \cup {db'}, syncs |-> seen.syncs \cup {sync'}]

\* _commit_snapshot: contents and sync_state at once.
Commit ==
  /\ sync.attempt < MaxAttempts
  /\ \E c \in Contents : db' = [content |-> c, committed |-> sync.attempt + 1]
  /\ sync' = [attempt |-> sync.attempt + 1, result |-> "success"]
  /\ seen' = Current
  /\ UNCHANGED <<pc, request, snapshot, window, body, cached, answer>>

\* _finish_failed_run
FailedAttempt ==
  /\ sync.attempt < MaxAttempts
  /\ sync' = [attempt |-> sync.attempt + 1, result |-> "failure"]
  /\ db' = db
  /\ seen' = Current
  /\ UNCHANGED <<pc, request, snapshot, window, body, cached, answer>>

-----------------------------------------------------------------------------
(* Transaction *)

\* Mutant of Visible: READ COMMITTED.
VisibleNow == db

\* REPEATABLE READ: the first query fixes what the later ones see.
Visible == IF snapshot = None THEN db ELSE snapshot

Query(from, to) ==
  /\ pc = from
  /\ pc' = to
  /\ snapshot' = Visible
  /\ UNCHANGED <<world, request, cached, seen>>

\* Mutant of EndTransaction: the connection returns to its pool inside it.
StayInTransaction == UNCHANGED snapshot

\* read_transaction: the commit, or the rollback when a query raises.
EndTransaction == snapshot' = None

\* read_transaction: SET TRANSACTION takes no snapshot.  /api/repositories
\* asks for no repository.
Begin(endpoint, repository, range, now) ==
  /\ pc = "idle"
  /\ endpoint = "repositories" => repository = None
  /\ request' = [endpoint |-> endpoint, repository |-> repository, range |-> range, now |-> now]
  /\ pc' = IF repository = None THEN "window" ELSE "validate"
  /\ body' = EmptyBody
  /\ window' = EmptyBody.window
  /\ answer' = NoAnswer
  /\ seen' = [dbs |-> {db}, syncs |-> {sync}]
  /\ UNCHANGED <<world, snapshot, cached>>

\* @cache_response has the body of the same request.
BeginCached ==
  /\ pc = "idle"
  /\ cached # None
  /\ request' = cached.request
  /\ body' = cached.body
  /\ pc' = "overlay"
  /\ window' = EmptyBody.window
  /\ answer' = NoAnswer
  /\ seen' = [dbs |-> {db}, syncs |-> {sync}]
  /\ UNCHANGED <<world, snapshot, cached>>

\* A repository that is not there: 404, and a rollback.
NotFound ==
  /\ pc = "validate"
  /\ request.repository \notin Visible.content.repositories
  /\ answer' = [NoAnswer EXCEPT !.status = "404"]
  /\ pc' = "idle"
  /\ EndTransaction
  /\ UNCHANGED <<world, request, window, body, cached, seen>>

ValidateRepository ==
  /\ request.repository \in Visible.content.repositories
  /\ Query("validate", "window")
  /\ UNCHANGED <<window, body, answer>>

\* Only "all" asks the database; the clock was read on the way.
BuildWindow ==
  /\ pc = "window"
  /\ window' = WindowOf(Visible, request.repository, request.range, request.now)
  /\ snapshot' = IF request.range = All THEN Visible ELSE snapshot
  /\ pc' = IF request.endpoint = "dashboard" THEN "events" ELSE "ids"
  /\ UNCHANGED <<world, request, body, cached, answer, seen>>

EventRows ==
  /\ Query("events", "open")
  /\ body' = [body EXCEPT !.window = window,
                          !.totals = Totals(Visible, request.repository, window)]
  /\ UNCHANGED <<window, answer>>

SummaryOpenCounts ==
  /\ Query("open", "ids")
  /\ body' = [body EXCEPT !.open = OpenCount(Visible, request.repository, window)]
  /\ UNCHANGED <<window, answer>>

Ids == RepositoryIds(Visible, request.repository, window)
ListsRepositories == request.endpoint = "repositories"

EventRepositoryIds ==
  /\ ~(ListsRepositories /\ Ids = {})
  /\ Query("ids", "names")
  /\ body' = [body EXCEPT !.repositories = Ids]
  /\ UNCHANGED <<window, answer>>

\* _repository_options ends its transaction and answers.
Reply(list) ==
  /\ ListsRepositories
  /\ body' = [EmptyBody EXCEPT !.repositories = list]
  /\ answer' = [NoAnswer EXCEPT !.status = "200", !.body = body']
  /\ EndTransaction
  /\ pc' = "idle"
  /\ UNCHANGED <<world, request, window, cached, seen>>

\* Without ids _repository_options spares the second query.
NoOptions == pc = "ids" /\ Ids = {} /\ Reply({})

OptionRows == pc = "names" /\ Reply(body.repositories \cap Visible.content.repositories)

\* Ids without a row are left out.
RepositoryRows ==
  /\ ~ListsRepositories
  /\ Query("names", "last")
  /\ body' = [body EXCEPT !.repositories = @ \cap Visible.content.repositories]
  /\ UNCHANGED <<window, answer>>

\* last_committed_at; then the transaction ends, and the cache keeps the body.
LastIngest ==
  /\ pc = "last"
  /\ body' = [body EXCEPT !.lastIngest = Visible.committed]
  /\ cached' = [request |-> request, body |-> body']
  /\ EndTransaction
  /\ pc' = "overlay"
  /\ UNCHANGED <<world, request, window, answer, seen>>

\* Mutant of StatusNow: no second transaction asks for the status.
StatusKept == answer.sync

StatusNow == sync

\* _overlay_sync_status: a transaction of its own, for cached bodies too.
Overlay ==
  /\ pc = "overlay"
  /\ answer' = [status |-> "200", body |-> body, sync |-> StatusNow]
  /\ pc' = "idle"
  /\ UNCHANGED <<world, request, snapshot, window, body, cached, seen>>

\* A query raises: rollback, and an error response.
Fail ==
  /\ pc # "idle"
  /\ answer' = [NoAnswer EXCEPT !.status = "500"]
  /\ pc' = "idle"
  /\ EndTransaction
  /\ UNCHANGED <<world, request, window, body, cached, seen>>

Next ==
  \/ Commit \/ FailedAttempt
  \/ \E endpoint \in Endpoints, repository \in Repositories \cup {None},
        range \in Ranges \cup {All}, now \in Clock : Begin(endpoint, repository, range, now)
  \/ BeginCached
  \/ NotFound \/ ValidateRepository
  \/ BuildWindow \/ EventRows \/ SummaryOpenCounts
  \/ EventRepositoryIds \/ NoOptions \/ OptionRows \/ RepositoryRows \/ LastIngest
  \/ Overlay \/ Fail

Spec == Init /\ [][Next]_vars

-----------------------------------------------------------------------------
(* Properties *)

\* The response a database that stands still would give.
BodyOf(d, r) ==
  LET w == WindowOf(d, r.repository, r.range, r.now)
  IN [window |-> w, totals |-> Totals(d, r.repository, w),
      open |-> OpenCount(d, r.repository, w),
      repositories |-> RepositoryIds(d, r.repository, w) \cap d.content.repositories,
      lastIngest |-> d.committed]

\* "keeps the range edge, current rows, repository metadata, and sync marker
\* from crossing an ingest commit" (read_transaction): a body that has just
\* been computed is the one of a single database, current at some moment of
\* the request; and so is a list of repositories.
AnswerIsOneSnapshot ==
  [][/\ LastIngest => \E d \in seen.dbs : body' = BodyOf(d, request)
     /\ NoOptions \/ OptionRows =>
          \E d \in seen.dbs : body'.repositories = BodyOf(d, request).repositories]_vars

\* Four queries that must agree: what is open was opened, and the repositories
\* listed are those that anything was counted for.
SummaryAddsUp ==
  answer.status = "200" /\ request.endpoint = "dashboard" =>
    /\ answer.body.open <= answer.body.totals["opened"]
    /\ (answer.body.repositories = {}) <=> (\A k \in Kinds : answer.body.totals[k] = 0)

\* "Attach current operational status without mutating a cached body"
\* (_overlay_sync_status): however old the body, the sync status next to it was
\* current during the request, and never of an attempt before the one that
\* committed what the body shows, failed attempts before or after it included.
StatusIsCurrent ==
  pc = "idle" /\ answer.status = "200" /\ request.endpoint = "dashboard" =>
    /\ answer.sync \in seen.syncs
    /\ answer.sync.attempt >= answer.body.lastIngest

=============================================================================
