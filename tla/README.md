# GHPulse: specifications and proofs

GHPulse keeps, in PostgreSQL, the current state of one GitHub account's issues
and pull requests in other people's repositories, and shows it as a dashboard.
A FastAPI process ingests a complete snapshot every hour, serves the dashboard
from a small response cache, and tells open browsers when there is something
new. The modules here describe what happens inside that process, between it and
the database, and in the browser, wherever the order of steps matters.

A module `X` specifies, `MCX` gives TLC its values, `MCX*.cfg` are the runs,
`XProofs` holds proofs. `PROJECT.json` maps every definition to its lines of
source. Operators whose comment says *Mutant of Y* are plausible bugs of `Y`:
put in its place, they make TLC find the named property violated. They show
that a property says something, and are no part of the specification.

## 1. Inventory

| Part | State it keeps | Operations | Interacts with |
|---|---|---|---|
| Response cache, `backend/cache.py` | `_items`, `_generation`, `_key_locks`, `_refreshing`, worker pool | cached endpoint call, background refresh, `invalidate`, start and stop of the workers | called by request threads; `_post_commit` invalidates it; the lifespan starts and stops it |
| Ingest run, `backend/ingest.py` | `_RUN_LOCK`, `_PROGRESS`; tables `ingest_runs`, `sync_state` | `run_ingest`: open row, acquire, commit, invalidate, broadcast, record a failure | called by the hourly job, the startup job and `/admin/ingest`; `/health` reads it |
| Reconciliation, `_commit_snapshot` | tables `repositories`, `issues`, `pull_requests` | one transaction of upserts, a touch and deletes | inside the ingest run; the read model reads the tables |
| Validation, `_validate_snapshot` and `schema.sql` | what was accepted so far | accept or reject a record | before the transaction |
| Lifespan, `backend/app.py`, `db.py` | pools, scheduler, `_IngestCoordinator`, event loop, shutdown event | startup and teardown, statement by statement | owns everything above |
| Event broadcast, `backend/events.py` | subscribers' queues of 16 events | broadcast from a thread, subscribe, end | ingest to browser |
| Browser, `src/app.jsx` | request coordinator, selection, shown data; repository list, its nonce | load, event, late answers, reconnection; fetch of the list | `/api/dashboard`, `/api/repositories`, `/api/events` |
| Read model, `backend/api_dashboard.py`, `api.py`, `api_common.py` | none of its own | up to seven queries in one transaction, then the status overlay in another | the tables; behind the cache |
| Range and bins, same files | none | resolve a range, choose a width, lay out the bins | SQL groups by its own formula |
| Login and sessions, `backend/login.py`, `session.py` | `_LOGIN_FAILURES`, the guests' secret; `users.config` of another program's database | login, rate limit, first-login secret, token check | that program writes to the same row |
| Panels, `dashboard-charts.jsx` | none | normalise and check the bins, draw them as SVG | the answer of `/api/dashboard`; the drawing is not modelled |
| GitHub source adapter, `github_source.py` | none | calls a pinned submodule, checks what it returns | before the validation; the submodule's directory is empty here |
| Configuration, CI scripts, static files | none | | not modelled: no state |

What is hard about this code, and where each hazard bites, is the list `hazards`
of `PROJECT.json`. In short: threads that compute while an ingest commits;
events, answers and refreshes that arrive late, twice or never; a process that dies, or a
connection that fails, between any two statements; a commit whose
acknowledgement is lost; a teardown during which work is still running; two
programs writing one row; two languages stating one contract (Python and SQL,
twice: validation and bins), and a third of the bins in JavaScript.

## 2. The modules

**ResponseCache** (`cache.py`, plus `_post_commit`). A database holds version
`committed`; a response is the version its read transaction saw. Each block
under `_guard` or `_registry_guard` is one action, and everything between two
blocks interleaves. Request threads walk through `wrapper` (`Lookup`, `Recheck`
under the key's lock, `Compute`, `Put`) or, holding a stale entry, through
`_schedule_refresh` (`Register`, `ReadToken`, `Submit`, `Withdraw`); workers
through `_run` (`Take`, `Recompute`, `Publish`, `Discard`). Time is `Expire`,
the TTL of one entry. `StopBegin`/`StopEnd`/`StartWorkers` are the pool's life,
`Restart` that of the process. An ingest may lose its acknowledgement and then
never invalidates. `?fresh=1` bypasses the cache and touches no state.

**Ingest** (`run_ingest`, `_health_payload`). Callers stand at the location of
the statement they execute next. Tables survive a `Crash`, which can happen
anywhere; progress, lock and locals do not. Every write may fail, and a write
that failed may still have taken effect (lost acknowledgement). The content of
the tables is one version, `store`. `/health` reads row, sync state and
progress in three separate steps, in the order `HealthOrder`.

**Publication** is what an ingest promises to those who read its results:
`ingest_done` speaks of a version only when the cache no longer vouches for an
older one. `Ingest` implements it under `stored <- store`; module
DashboardClient relies on it when it says that a fetch after an event sees the
version the event spoke of.

**SnapshotShapes, SnapshotStore, Reconcile** (`_commit_snapshot`). `Reconcile`
executes the transaction row by row, in any order of rows, with `ON DELETE
CASCADE`, counters and failures in between. `SnapshotStore` is what the tables
promise: a run offers a valid snapshot, and the tables become exactly that
snapshot at once, `data_changed` being true exactly when that changed something,
or nothing happens. `Reconcile` implements it under the mapping
`content <- Content(db)` (drop the observation times), `offered <- snapshot`.

**SnapshotValidation** (`_validate_public_boundary`, `_validate_snapshot`, CHECK
and key constraints of `schema.sql`). Records are chosen freely as the loops
reach them, with every combination of the classes of values the checks
distinguish; what the boundary refuses ends the ingest before the first of them.

**Lifespan** (`lifespan`, `_IngestCoordinator`, `_event_stream`, pools). The
statements of `lifespan()` run in order, while callbacks fire, requests and
streams run, and refreshes are queued. The ASGI server is external: modelled by
the order in which it starts, drains and resumes the lifespan. `ServerWaits` says
which of two servers it is. One waits for its connections for ever and resumes the
lifespan by `ConnectionsClosed` only. The other has a graceful-shutdown timeout and
may resume it by `GracefulTimeout` at any time of the drain: tasks are cancelled, what
waited for a thread is dropped, and the threads of synchronous endpoints and of
`asyncio.to_thread` go on, during the teardown and after it. Such a handler is
refused its background refresh once `StopAccepting` has run, an admin request its
ingest once `BeginShutdown` has; and whoever takes a connection after `ClosePools`
opens a pool again (`UsePools`). The history variable `late` holds the handlers that
were running when the pools were closed.

**DashboardClient** (`app.jsx`, one subscriber of `events.py`). The coordinator
with its request ids, aborts and retained data, the two effects of `App` that
use it, the bounded queue, and a connection that breaks and returns, or is
refused and never tried again (an `EventSource` gives up on any answer but 200).
`Select` is a click on any range or repository. A click on the active range clears
the page like any other, but changes nothing that the loading effect depends on, so
that nothing is loaded; `reclicked` remembers that this happened to a page with no
request under way. Between a commit and its broadcast the server may crash, or lose the
acknowledgement and broadcast a failure instead.

**RepositoryList** (`app.jsx`, the effect that fetches `/api/repositories`). A
nonce counts the ingests the page was told of; the effect asks past the cache
while the nonce is not the one handled last. Changes of the range abort the
request under way, and a click on the active one empties the list and asks for
nothing; requests fail; answers may be as old as the cache.

**DashboardRead** (`api_dashboard.py`, `api.py`, `read_transaction`). Each query
of `/api/dashboard` and of `/api/repositories` is a step; ingests commit between
any two, or fail. The first query fixes the transaction's snapshot (REPEATABLE READ).
The overlay of the sync status is a second transaction, over a body that may come from
the cache. Ingests are numbered by attempt, failed ones included, and the stored data
carries the number of the ingest that committed it.

**Timeline** (`build_window`, `_bucket_seconds`, `dense_bucket_bounds`, the
`GROUP BY` of `_event_rows`). Instants are ticks, negative before 1970; the loop
that lays out the bins is one action per turn. A range longer than the calendar
ends in an error (`RangeTooLong`).

**Panel** (`dashboardToViewModel`, `normalizeBuckets`, `normalizedDenseIntervals`,
`boundedTimeIntervals`) extends Timeline: what a time-series panel makes of the
finished bins, whose microseconds it cuts to milliseconds. It is a function of
the answer and has no actions of its own. **Filtering** gives it, and Sessions, the
entries of a list that pass a test.

**Sessions** (`login_post`, `login_guest`, `ensure_user_session_secret`,
`resolve_session_user_id`). The owner of the users table sets passwords, logs
users in, revokes and deletes between any two statements of a login; the row
lock excludes it from `LockRow` to the end of the transaction.

Where modules meet, one abstracts the other: Ingest and ResponseCache see the
tables as a version, which Reconcile justifies (`ReplacesAtomically`);
DashboardClient and RepositoryList see a cached answer as any older version,
which ResponseCache justifies (`AnswersAreVersions`), and a fresh one as the committed
version, which DashboardRead justifies (`AnswerIsOneSnapshot`); the order of commit,
invalidation and event between them is `Publication`; Lifespan sees an ingest as
one use of the pools. Panel is the one module built on another's variables.

## 3. The runs

Where a run lists `TypeOK`, that includes the relations between control state and
data that the rest relies on.

| Run | Question | Bounds |
|---|---|---|
| `cache` | Do background refreshes never publish an outdated answer as fresh; has a key being refreshed exactly one owner; is a missing answer computed once; do outdated answers die out once ingests stop? | 1 key, 2 requests, 2 workers, 2 commits. Two threads on one key are what every race here needs: keys share nothing but the generation and the workers; the second commit is the one a refresh can straddle. The proofs are for every set of keys |
| `cache_stale` (violation) | Is a fresh entry current whoever stored it? No: finding 1 | 1 key, 1 commit |
| `ingest` | Is progress always the lock holder's; does `sync_state` name the newest committed run; is every unfinished row explained; do event, progress, sync state and cache agree; does `/health` ever hide a failure; is every step one of `Publication` or a stutter? | 2 callers (symmetric), 3 rows: one run, one after it, one after a crash |
| `reconcile` | Does the transaction implement `SnapshotStore`; do foreign keys hold within it; are the six counters exact; are first and last sightings true? | 2 repositories, an issue and a pull request that may move between them, 2 contents, 2 transactions: insert, update, keep, delete and cascade of every row |
| `lifespan` | Is no admitted ingest and no refresh left when the lifespan is over, and is a pool open then only because a handler outlived the timeout and the teardown; are completions of ingests heard by the loop; are streams woken; does a stop end? | 2 scheduled jobs, 1 admin request, 2 readers, 1 stream; a server with a graceful-shutdown timeout, which may strike with all of them at work |
| `lifespan_stop` (violation) | Does a stop end under a server that waits for its streams? No: finding 2 | 1 reader, 1 stream |
| `client` | Does the page never go back to older data; is a loading state always resolved; is what was announced shown in the end, also with a full queue or a lost acknowledgement? | 2 selections, 1 commit, 1 failed ingest, 2 clicks on either (there and back, or the active one), queue of 1 (so that it is full) |
| `repository_list` | Does the list never go back to an earlier ingest; does a refresh survive the request that was to bring it? | 2 ranges, 3 commits, 3 clicks on a range: there, back, and there again, with an ingest told of before each, or any of them on the active one |
| `validation` | Does the schema refuse nothing that was accepted? | 3 records of 3 ids: an item, its repository and one more id to collide with |
| `timeline` | Do the bins tile the range; is the width the widest that leaves enough bins; is every event in the one bin that covers it, after SQL, Python and the page have each calculated it? | every instant from 1.5 s before to 10 s after 1970, 4 ticks to a second and 2 to a millisecond (so that both roundings happen); widths 1, 2, 3 s; 3 bins at least (100 in the code) |
| `read` | Is every body that of one database state; does it add up; is the status next to it of now? | 4 contents, 3 ingests, any of which may fail, 2 repositories, range "all" and one that excludes old events |
| `sessions` | Do sessions hold until they expire or are revoked; are the owner's writes never lost; is the rate limit exact? | 1 user, 1 address, 2 passwords, limit 2 in a window of 2, 3 secrets, 2 tokens, 1 restart |

Deadlock is checked except where the system may really stop: Reconcile (all
transactions are done), SnapshotValidation (a verdict is given), Timeline (the
bins are returned), DashboardClient and RepositoryList (the page is closed),
Lifespan (the process has exited).

Bounds such as `MaxCommits` or `MaxRuns` limit how often the environment acts,
never what the code does in answer.

**Fairness.** ResponseCache: a thread that has begun goes on; workers take jobs;
TTLs run out. No ingest, request, stop or successful computation is assumed;
an endpoint may fail every time. RepositoryList: the effect runs, the server
answers or the connection fails, the handlers run. Lifespan: statements of the lifespan, admitted
ingests, requests, refreshes and woken streams go on (queries and HTTP calls
carry timeouts), and a server that drains goes on when its connections are closed or,
where there is one, at its timeout; nobody has to stop the server, and a browser may
hold its stream for ever. DashboardClient: events and effects are handled, the newest
request is answered or fails, a broken connection is retried or given up, a committed
ingest is announced; connections need not last. All other runs check safety only.

## 4. Findings

1. **An outdated answer stored as fresh** (`cache.py:250`). An inline computation
   that reads before an ingest and stores after the invalidation is stamped
   with the new generation, and is served as fresh for up to an hour. The
   background path guards against exactly this (`put_if_generation`), the inline
   path does not. `RefreshedFreshIsCurrent` is the part that holds;
   `Heals` shows that the TTL repairs the rest.
2. **Streams are woken too late** (`app.py:353`). `signal_shutdown` is called in
   the teardown, which uvicorn reaches after its connections are closed; without
   a graceful-shutdown timeout, one open stream keeps a stop from ending.

The specifications also record behaviour that no run isolates:

- Events missed while reconnecting (`app.jsx:263`): nothing is fetched when the
  stream reopens, so a page that reconnected over an ingest shows the older data
  until the next event. A stream that is refused once (a restart behind a proxy
  is enough) is never tried again, while the page says "reconnecting" for good.
  `AnnouncedIsShown` owes a page only what was announced to its own connection.
- A click on the range that is already active (`app.jsx:442`) sets "loading" and drops
  the data and the repository list, and nothing is fetched: the effects depend on the
  range, which did not change. If no request was under way the page says "loading"
  until the next event or the next selection. `LoadingIsUnderWay` and
  `AnnouncedIsShown` name the exception (`reclicked`); `NeverGoesBack` and the
  properties of RepositoryList hold with it.
- Under a server with a graceful-shutdown timeout a handler may outlive the teardown,
  and then opens a pool again that nobody closes (`db.py:121`). `PoolsEndClosed` allows
  it to such a handler and to nobody else.
- After an `ingest_failed` the dashboard is fetched again and the repository list
  is not (`app.jsx:424`): a commit whose acknowledgement was lost shows in one
  and not in the other. `RefreshIsNotLost` speaks of the ingests the page was
  told of as done.
- A scheduler that fails to start (`app.py:359`): `scheduler.shutdown()` then
  raises in the teardown and the pools stay open. `PoolsEndClosed` names the
  exception.
- A commit whose acknowledgement is lost (`ingest.py:628`) is recorded as a
  failed run although its snapshot is stored, and the cache is not invalidated;
  a failure also rewrites the attempt columns of `sync_state`. The design
  document says that a failed transaction preserves both. `Ingest` has these
  behaviours, and no property claims otherwise.
- `epoch_seconds` truncates where SQL rounds down (`api_common.py:178`): a range
  that begins before 1970 may miss up to a second at its left edge, and the panel
  then throws (`dashboard-charts.jsx:172`). `BinsTileTheWindow` says how much is
  missed; `PanelDrawsTheAnswer` is stated of ranges from 1970 on.
- A last bin thinner than a millisecond has no length on the page and is dropped
  with its events (`app.jsx:77`); the totals still count them.
  `PanelDrawsTheAnswer` names the exception.
- A range longer than the calendar makes `build_window` raise (`RangeTooLong`).
- A number beyond INTEGER passes validation and fails in the transaction;
  `AcceptedIsStorable` names it.

## 5. Proofs

`ResponseCacheProofs` proves, for every set of keys, requests and workers and
every `MaxCommits`, from `SentinelAssumption` (the sentinels are not values of
their types) and `BoundAssumption` (`MaxCommits` is a natural number) alone:

- `TypeCorrect`: `Spec => []TypeOK`. `TypeOK` is inductive; one lemma per group of
  actions (cache and ingest, requests, workers).
- `RefreshedFreshIsCurrentHolds`: a refresh never publishes, as fresh, data older
  than the last invalidation. The property is not inductive: it says nothing of
  what a worker carries. `FreshInv` adds that the last announced version is
  committed, that no entry, request, job or worker carries a generation from the
  future, and `CurrentTokenMeansCurrentValue`: a worker whose token is still the
  current generation read the database after the last invalidation. That is what
  "token, then query" buys: `Recompute` sees the committed version, any later
  `Invalidate` moves the generation past the token, and `Publish` compares the
  two. Inline entries are exempt, and finding 1 is why.
- `RefreshingHasOneOwnerHolds`: a key in `_refreshing` is one thread's, one queued
  job's or one worker's. `OneOwner` says it without cardinalities (no two owners, and
  one exactly when the key is registered), which is inductive step by step;
  `OwnersCounted` leads back to the property.
- `ComputesOnlyWhatIsMissingHolds`: whoever computes inline holds the key's lock
  (`LocksAreHeld`), and nothing servable is stored meanwhile but by a refresh.
- `StoppedMeansDrainedHolds`: once `stop_refresh_workers` has returned, no job is
  queued and no worker runs. It is inductive with `TypeOK`. No run checks it; the
  theorem covers it.
- `AnswersAreVersionsHolds`: an answer from the cache is a version the database has
  held. `ValuesArePast` says so of every entry, request and worker that carries one.
  This is what DashboardClient and RepositoryList assume of a request that does not
  ask past the cache (`0 .. committed`).
- `OutdatedDiesOutHolds`, the part of `Heals` that is about single steps: while nothing is
  committed, nobody becomes late (carries a version older than the committed one to
  a store), and an entry becomes outdated only when a late thread stores it, which is
  late no more. Late threads are finitely many, and so are those stores.

`IngestProofs` proves all seven properties of the run `ingest`, for every set of
callers and every `MaxRuns`, from `CallerAssumption` and `MaxRunsAssumption`.
Few of them are inductive. The invariant behind them has these parts:

- `LockInv`: the lock is held exactly by the caller that stands inside
  `run_ingest`. With it every step has one caller to speak of, the others being
  outside (`OthersAreOut`).
- `RowInv`: the caller's row, once it has one, is the newest of the table, and is
  finished or given up before the lock is released. `SyncNamesNewestCommit` needs
  it (what commits is the newest row), and so does `UnfinishedRowsAreExplained`
  (nothing is left behind at the release).
- `SyncInv`: `sync_state` names a row that exists, so that a new row cannot become
  the one it names.
- `ProgressInv`: progress is idle when nobody runs and before the release; while
  somebody runs it names his row or none. It gives `ProgressIsTheHolders`.
- `CacheInv`: the cache never covers more than is stored, and covers all of it from
  the invalidation to the broadcast.
- `StoryInv`: `Story`, what the end of a run leaves behind, holds from the step that
  completes it to the next run. It gives `StoriesAgree`; and because a failure
  stays in the progress, the last thing `/health` reads, it gives
  `HealthNeverHidesFailure` too, which the order of the reads is for.

`PublishesInOrderHolds` is the refinement: initial states map to initial states, and
every step to a step of `Publication` or a stutter. It needs `CacheInv`, in the
state in which `Broadcast` runs.

`OneRunAtATimeHolds` states what `LockInv` and `RowInv` mean together: no two callers are
inside `run_ingest`, and the one inside owns the newest row.

`UpdateRow`, `AppendRow`, `ApplyRow` and `FailRow` say what the statements do to the
table; the lemmas `Next...` take one part of the invariant each, with one step per
action.

`ReconcileProofs` proves all five properties of the run `reconcile`, for every set of
contents and every `MaxRuns`, from `FiniteIds` (finitely many node ids ever occur) and
`RunsAssumption`. `TransactionInv` has these parts:

- `RowsInv`: inside the transaction a table is the committed one, plus the rows
  upserted so far, minus, once it is purged, what was not seen. `Applied(t)` are
  the rows already upserted, in whatever order. The cascade takes nothing more: items
  of an unseen repository are unseen themselves (the snapshot is referential), and
  were deleted, and counted, before it.
- `CountsInv`: a counter is the cardinality of `News(t)`, the upserted rows that the
  committed table lacks or holds with other contents, or of what was deleted.
  `CountsAreExact` and the `data_changed` of the refinement follow from it.
- `TimesInv`, `SyncedInv`: first sightings are the committed ones; at the end every
  repository was seen by this run. They give `SeenTimesAreTrue`.
- `KeysInv`, `DoneInv`: foreign keys, and nothing is deleted before all is upserted.

`ReplacesAtomicallyAlways` is the refinement of `SnapshotStore` under `content <-
Content(db)`: statements within the transaction stutter, and at the commit `RowsInv`, with
everything applied and purged, says that the contents are those of the snapshot.

The second half of that module is about SnapshotValidation, which it extends as well (the
definitions of that module are named so that the two can stand together).
`AcceptedIsStorableAlways` is the
property of the run `validation` for any ids and any number of records: `CountInv`
says that the three tables together have as many rows as there are seen ids, and
`StorableInv` that each row passed its checks. `AcceptedIsASnapshotAlways` joins the
modules: the accepted rows, keyed by id, are an element of the `Snapshots` from which
Reconcile takes its input. `KeyInv` says why keying them is well defined. Its
hypotheses only embed one module's ids and rows into the other's constants.

`LifespanProofs` proves the invariants of the run `lifespan` from `DistinctActors` and
`FiniteActors`, which let `active` count the admitted ingests. `HeardInv` follows the
event loop: it is set before the scheduler starts (`LoopInv`), nobody is admitted once
`begin_shutdown` has run and the count was seen at zero (`ClosingInv`), and that is
when it is cleared (`UnheardInv`). `ClosedInv` follows the pools: after the drain no
refresh is left or accepted (`DrainedInv`), whatever handlers go on, and at the end no
ingest is left either (`OverInv`), but for the scheduler that never started
(`CreatedInv`). `LateInv` says whose connection it is if a pool is open again: that of
a handler that ran when the pools were closed and has returned since, under a server
with a timeout.
`WakeUpInv` follows the shutdown event of the streams. From it come
`NobodyIsWokenYetHolds`, which shows finding 2 for any number of streams (the event is not
set while the server waits for its connections), and `StreamsAreAwakeHolds`: after
`signal_shutdown` every open stream finds it set. `StopWaitsForLessHolds` says of each
wait of a stop that the set it waits for only shrinks; `ClosingInv` is why admitted
ingests do, `DrainedInv` why refreshes do.

`DashboardClientProofs` proves the safety properties of the run `client` for every set of
selections and all bounds. `LoadingIsUnderWay` is about the newest request only, and
what makes it so is `RequestInv`: ids are given out once, and the newest request is
for what is active and was not aborted. `SelectionInv` covers the moment between a
selection and its effect, and `ReclickedInv` that a page at rest whose active range
was clicked stays without a request until something is loaded. `NeverGoesBack` needs `FreshInv`: a request whose answer is
to replace retained data asks past the cache, so its answer is as new as the data.
`OwedIsUnderWayHolds` is the part of `AnnouncedIsShown` that is about single steps. Unless
the page was cleared by a click on the active range, whatever is owed to it is in one of
four places: on the screen, in a reported failure, in the
queue, or with the newest request, which asks past the cache or carries an answer at
least as new. `ListensInv` says that something is owed only to a page that is
connected and has loaded its selection, and never more than is committed;
`SettledInv` that a settled phase has no request that counts. The handler of an answer
needs `FreshInv` here too: what replaces a screen that already shows enough shows enough.

`DashboardReadProofs` proves all four properties of the run `read` for every set of
repositories, ranges, clocks and contents, from what the schema guarantees of contents
(`ContentsAssumption`: finitely many items, each of a stored repository, with an instant
of creation, and one of closing if completed) and from `NoneAssumption`.
`WindowInv` and `PartsInv` say that the window and every part of the body so far
answer for the one database the transaction has seen, `SeenInv` that it was current
during the request: `AnswerIsOneSnapshot`. `SummaryAddsUp` is `QueriesAgree`, a lemma
about the four queries alone: asked of one database and window they count the same
items. `ServedInv` carries it through the cache. `StatusIsCurrent` needs `StampInv`: the ingest
that committed the data is one of the attempts so far, so a status read now is of an
attempt no older than that of any body.

`PanelProofs` proves what the run `timeline` checks, and the type invariant of Timeline,
for every clock, range, resolution, length of a day and increasing list of widths
(`InstantsAssumption`, `ClockAssumption`, `RangesAssumption`, `TicksAssumption`,
`CandidatesAssumption`, `MinBinsAssumption`, `MilliAssumption`: a second is a whole
number of milliseconds; `DayAssumption`). `LoopInv` says that the bins laid out so far
are those of the epochs from the first on, so that the finished list has a closed
form (`LaidOut`). `BinsTileTheWindow` follows by where the edges lie
(`EpochSecondsBounds`: truncation is at most a second off, towards 1970), and
`WidestThatFits` by counting bins rather than dividing the range.
`EventsHaveTheirBinAlways` is a theorem no run lists: SQL's bin of an event is the
start of the one bin Python laid out that covers it. `PanelDrawsTheAnswerAlways` carries
this to the page: cutting to milliseconds keeps the edges apart (`BinsOnThePage`), all
bins but possibly the last can be drawn, and what is drawn fills the axis.

The last part of that module is about RepositoryList, for every set of ranges and both
bounds: `ListTypeCorrect` and `ListNeverGoesBackHolds`. `ListInv` says why a cached
answer can do no harm: while the list of the current range is shown, no request of
that range asks the cache (`NoCachedQuestion`), because only a change of the range,
which clears the list, or an ingest, whose request asks past the cache, runs the effect
again; and an answer past the cache is as new as anything shown
(`FreshAnswersAreNew`). `RefreshInv` adds that a request for the latest nonce was sent after
the page was told of it, and that the request goes only when its nonce is handled or
its failure shown. With it, `RefreshIsUnderWayHolds` is the part of `RefreshIsNotLost` that
is about single steps, and `HandledIsShownHolds` says that the nonce is handled only by
a list as new as what the page was told of.

`SessionsProofs` proves all properties of the run `sessions` for every set of users,
addresses and passwords, any limit, window and age, from `IpsAssumption` (there is an
address), `GuestAssumption`, `LimitAssumption` and bounds that are natural numbers.
`Rest` relates the pruned list of failures to the history of all rejections: the list
is the end of the history, and everything before it is out of the window.
Because times are in order, pruning cuts off a prefix (`CutExists`), so both hold the
same number of entries in a window (`CountsAgree`). With `LimitInv` (a login under way
left room for its failure) this is `RateLimitIsExact`. `SessionsHold` needs `TokensInv`:
a user's tokens are signed with the secret the user has, which `LockRow` keeps from
changing between the two statements of a first login.

`Recent` of Sessions and the filters of Panel are written with `Filtering!Entries`, the
entries at a set of indices in their order: `SelectSeq` is recursive, and nothing can
be proved of it. Module Filtering, like the rest, is evaluated by TLC as it stands.

Every invariant that a passing run checks is proved, for every value of the constants,
and so are the refinements (`PublishesInOrder`, `ReplacesAtomically`) and the action
properties (`SeenTimesAreTrue`, `NeverGoesBack`, `ListNeverGoesBack`,
`AnswerIsOneSnapshot`). Only model-checked are:

- the five liveness properties. The prover has no rule for `ENABLED`, so the step from
  fairness to progress is out of reach. What can be said without fairness is proved:
  either that what is awaited is always under way, or that what is waited for only
  gets less.

  | Liveness, checked by TLC | Proved of single steps |
  |---|---|
  | `Heals` | `OutdatedDiesOut` |
  | `StopEnds` | `StopWaitsForLess` |
  | `StreamsAreWoken` | `StreamsAreAwake` |
  | `AnnouncedIsShown` | `OwedIsUnderWay` |
  | `RefreshIsNotLost` | `RefreshIsUnderWay` |

- the two findings, whose runs show a counterexample.

The invariants above (`FreshInv`, `IngestInv`, `TransactionInv`, `LimitInv`, `OwedInv`,
`RefreshInv` and so on), and what the right column of the table names, have also been checked
by TLC on the configurations of their modules before they were proved.

## 6. Not modelled

- `warm()` of the cache, which nothing calls; growth of `_key_locks` and
  `_LOGIN_FAILURES`.
- The middleware's routing and origin checks, which are stateless; hashing.
- The browser's identity probe, URL state and history of repository names; the
  drawing of the panels from their intervals.
- The vendor module behind `github_source.py`: it is a submodule, empty here.
- `db.py`'s DSN parsing and `version.py`, which read the environment once; the CI
  scripts, which are sequential and no part of the running system; markup and
  styles.
- Several browsers: they share nothing but the broadcaster's set of queues.
- Formatting; logging.

## 7. Plan

The order followed: cache, ingest and its Publication, reconciliation, validation,
lifespan, client, read model, bins, sessions, repository list, panels; then the
theorems, and last those about how the modules rely on each other. What is left:

1. A composition of Ingest, ResponseCache and the two client modules over one
   database, in place of the abstractions by version: what a browser shows after
   `ingest_done`, and what a selection made right after it shows.
2. The remaining hazards without a property: passwords and secrets read from two
   versions of the users row, the growth of `_LOGIN_FAILURES`.
