---------------------------- MODULE ResponseCache ----------------------------
(***************************************************************************)
(* The process-local response cache of backend/cache.py: a TTL cache whose *)
(* entries an ingest marks stale by bumping a generation, request threads  *)
(* that serve stale entries and recompute missing ones inline, and a       *)
(* bounded pool of workers that recomputes stale ones in the background.   *)
(*                                                                         *)
(* Data is abstracted to versions.  The database holds version `committed` *)
(* and a computed response is the version its read transaction saw.        *)
(* Every block under _guard or _registry_guard is one action; everything   *)
(* between two such blocks can interleave with the other threads.          *)
(***************************************************************************)
EXTENDS Naturals, Sequences, FiniteSets

CONSTANTS
  Keys,        \* cache keys: endpoint and sorted arguments
  Requests,    \* request threads of the server's thread pool
  Workers,     \* threads of _REFRESH_POOL (max_workers=2 in the code)
  NoKey, NoRequest, NoItem,
  MaxCommits   \* bound: ingests that commit, with changes or without,
               \* in a behaviour; each counts as a version

ASSUME SentinelAssumption ==
  /\ NoKey \notin Keys
  /\ NoRequest \notin Requests
  /\ NoItem \notin [value : Nat, generation : Nat, expired : BOOLEAN, by : {"inline", "refresh"}]
ASSUME BoundAssumption == MaxCommits \in Nat

VARIABLES
  committed,   \* version of the data the database holds
  announced,   \* version of the last commit the cache was told of
  ingest,      \* "idle", or "committed": committed but not yet invalidated
  generation,  \* _TTLCache._generation
  items,       \* _TTLCache._items
  keyLock,     \* holder of _key_locks[key]
  refreshing,  \* _refreshing
  pool,        \* "accepting", "draining" or "stopped"
  jobs,        \* submitted refreshes no worker has taken yet
  request,     \* control state of each request thread
  worker       \* control state of each refresh worker

vars == <<committed, announced, ingest, generation, items, keyLock,
          refreshing, pool, jobs, request, worker>>

data == <<committed, announced, ingest>>

Item == [value : Nat, generation : Nat, expired : BOOLEAN,
         by : {"inline", "refresh"}]

Job == [key : Keys, token : Nat]

(* Where a request thread stands in `wrapper`, or in the _schedule_refresh *)
(* it calls:                                                               *)
(*   stale       it holds a stale value and is about to register the key   *)
(*   registered  the key is in _refreshing, the token is not read yet      *)
(*   tokened     the token is read, the job is not submitted yet           *)
(*   refused     submit_refresh refused, the key is still registered       *)
(*   missed      no servable entry: it wants the key's lock                *)
(*   locked      it holds the key's lock and re-reads the cache            *)
(*   computing   it missed again and runs the endpoint                     *)
(*   putting     it has the response and is about to store it              *)
RequestPC == {"idle", "stale", "registered", "tokened", "refused", "missed",
              "locked", "computing", "putting"}

(* A worker takes a job, runs the endpoint, publishes and discards the key *)
WorkerPC == {"idle", "running", "computed", "done"}

Idle == [pc |-> "idle", key |-> NoKey, token |-> 0, value |-> 0]

RequestState == [pc : RequestPC, key : Keys \cup {NoKey}, token : Nat, value : Nat]
WorkerState == [pc : WorkerPC, key : Keys \cup {NoKey}, token : Nat, value : Nat]

CacheTypeOK ==
  /\ committed \in 0 .. MaxCommits
  /\ announced \in Nat
  /\ ingest \in {"idle", "committed"}
  /\ generation \in Nat
  /\ items \in [Keys -> Item \cup {NoItem}]
  /\ keyLock \in [Keys -> Requests \cup {NoRequest}]
  /\ refreshing \in SUBSET Keys
  /\ pool \in {"accepting", "draining", "stopped"}
  /\ jobs \in Seq(Job)

RequestTypeOK ==
  /\ request \in [Requests -> RequestState]
  /\ \A r \in Requests : request[r].pc = "idle" <=> request[r].key = NoKey

WorkerTypeOK ==
  /\ worker \in [Workers -> WorkerState]
  /\ \A w \in Workers : worker[w].pc = "idle" <=> worker[w].key = NoKey

\* Type invariant; a thread names a key exactly while it works on one.
TypeOK == CacheTypeOK /\ RequestTypeOK /\ WorkerTypeOK

Init ==
  /\ committed = 0
  /\ announced = 0
  /\ ingest = "idle"
  /\ generation = 0
  /\ items = [k \in Keys |-> NoItem]
  /\ keyLock = [k \in Keys |-> NoRequest]
  /\ refreshing = {}
  /\ pool = "accepting"
  /\ jobs = <<>>
  /\ request = [r \in Requests |-> Idle]
  /\ worker = [w \in Workers |-> Idle]

-----------------------------------------------------------------------------
(* Operations of _TTLCache *)

\* Mutant of Servable: the TTL test of get_entry is dropped.
ServableForever(k) == items[k] # NoItem

\* get_entry finds an entry: there is one and it is not past the hard TTL.
Servable(k) == items[k] # NoItem /\ ~items[k].expired

\* The staleness bit get_entry returns with a servable entry.
IsStale(k) == items[k].generation # generation

\* get_entry pops the entry it finds expired.
PopExpired(k) ==
  items' = IF Servable(k) THEN items ELSE [items EXCEPT ![k] = NoItem]

\* What put stores: the value with the current generation and a new age.
Entry(v, origin) == [value |-> v, generation |-> generation,
                     expired |-> FALSE, by |-> origin]

\* An entry grows older than ttl_seconds.
Expire(k) ==
  /\ Servable(k)
  /\ items' = [items EXCEPT ![k].expired = TRUE]
  /\ UNCHANGED <<data, generation, keyLock, refreshing, pool, jobs, request, worker>>

-----------------------------------------------------------------------------
(* The ingest, as the cache sees it: commit, then invalidate *)

Commit ==
  /\ ingest = "idle"
  /\ committed < MaxCommits
  /\ committed' = committed + 1
  /\ ingest' = "committed"
  /\ UNCHANGED <<announced, generation, items, keyLock, refreshing, pool, jobs, request, worker>>

\* _post_commit reaches response_cache.invalidate().
Invalidate ==
  /\ ingest = "committed"
  /\ ingest' = "idle"
  /\ announced' = committed
  /\ generation' = generation + 1
  /\ UNCHANGED <<committed, items, keyLock, refreshing, pool, jobs, request, worker>>

\* connection.commit() raises although the server committed: the failure
\* path is taken and _post_commit is never called.
LoseAcknowledgement ==
  /\ ingest = "committed"
  /\ ingest' = "idle"
  /\ UNCHANGED <<committed, announced, generation, items, keyLock, refreshing, pool, jobs, request, worker>>

-----------------------------------------------------------------------------
(* Request threads: the wrapper of cache_response *)

Goto(r, pc) == request' = [request EXCEPT ![r].pc = pc]

At(r, pc) == request[r].pc = pc

Start(r, pc, k) == request' = [request EXCEPT ![r] = [Idle EXCEPT !.pc = pc, !.key = k]]

\* Mutant of Return: the thread ends without letting go of the key.
ReturnKeepsKey(r) == Goto(r, "idle")

\* The wrapper returns, or raises; the thread goes back to the server's pool.
Return(r) == request' = [request EXCEPT ![r] = Idle]

\* First get_entry of the wrapper: a fresh hit returns at once.
Lookup(r, k) ==
  /\ At(r, "idle")
  /\ IF Servable(k)
     THEN /\ IsStale(k)
          /\ Start(r, "stale", k)
     ELSE Start(r, "missed", k)
  /\ PopExpired(k)
  /\ UNCHANGED <<data, generation, keyLock, refreshing, pool, jobs, worker>>

\* Mutant of Registered: the test is dropped.
NeverRegistered(k) == FALSE

\* key in _refreshing
Registered(k) == k \in refreshing

\* _schedule_refresh: at most one refresh per key is registered.
Register(r) ==
  /\ At(r, "stale")
  /\ IF Registered(request[r].key)
     THEN Return(r) /\ UNCHANGED refreshing
     ELSE /\ Goto(r, "registered")
          /\ refreshing' = refreshing \cup {request[r].key}
  /\ UNCHANGED <<data, generation, items, keyLock, pool, jobs, worker>>

\* refresh_generation = response_cache.generation()
ReadToken(r) ==
  /\ At(r, "registered")
  /\ request' = [request EXCEPT ![r].pc = "tokened", ![r].token = generation]
  /\ UNCHANGED <<data, generation, items, keyLock, refreshing, pool, jobs, worker>>

\* submit_refresh queues the job, unless the workers are being stopped.
Submit(r) ==
  /\ At(r, "tokened")
  /\ IF pool = "accepting"
     THEN /\ jobs' = Append(jobs, [key |-> request[r].key, token |-> request[r].token])
          /\ Return(r)
     ELSE Goto(r, "refused") /\ UNCHANGED jobs
  /\ UNCHANGED <<data, generation, items, keyLock, refreshing, pool, worker>>

\* A refused refresh takes its key out of _refreshing again.
Withdraw(r) ==
  /\ At(r, "refused")
  /\ refreshing' = refreshing \ {request[r].key}
  /\ Return(r)
  /\ UNCHANGED <<data, generation, items, keyLock, pool, jobs, worker>>

\* `with _lock_for(key)`
AcquireKeyLock(r) ==
  /\ At(r, "missed")
  /\ keyLock[request[r].key] = NoRequest
  /\ keyLock' = [keyLock EXCEPT ![request[r].key] = r]
  /\ Goto(r, "locked")
  /\ UNCHANGED <<data, generation, items, refreshing, pool, jobs, worker>>

\* Leaving the `with` block, by return or by exception.
ReleaseKeyLock(r) ==
  /\ keyLock' = [keyLock EXCEPT ![request[r].key] = NoRequest]
  /\ Return(r)

\* Mutant of FoundAgain: what the second get_entry returns is ignored.
NeverFoundAgain(k) == FALSE

\* The second get_entry, under the lock, finds what another thread stored.
FoundAgain(k) == Servable(k)

\* Whatever is found under the lock is returned, stale or not.
Recheck(r) ==
  /\ At(r, "locked")
  /\ PopExpired(request[r].key)
  /\ IF FoundAgain(request[r].key)
     THEN ReleaseKeyLock(r)
     ELSE Goto(r, "computing") /\ UNCHANGED keyLock
  /\ UNCHANGED <<data, generation, refreshing, pool, jobs, worker>>

\* result = fn(**kwargs): the version its read transaction sees.
Compute(r) ==
  /\ At(r, "computing")
  /\ request' = [request EXCEPT ![r].pc = "putting", ![r].value = committed]
  /\ UNCHANGED <<data, generation, items, keyLock, refreshing, pool, jobs, worker>>

\* The endpoint raises; the exception leaves the `with` block.
ComputeFails(r) ==
  /\ At(r, "computing")
  /\ ReleaseKeyLock(r)
  /\ UNCHANGED <<data, generation, items, refreshing, pool, jobs, worker>>

\* response_cache.put(key, result): stored with the CURRENT generation.
Put(r) ==
  /\ At(r, "putting")
  /\ items' = [items EXCEPT ![request[r].key] = Entry(request[r].value, "inline")]
  /\ ReleaseKeyLock(r)
  /\ UNCHANGED <<data, generation, refreshing, pool, jobs, worker>>

-----------------------------------------------------------------------------
(* Refresh workers: the _run closure of _schedule_refresh *)

\* The job is over, but for the finally clause.
Finish(w) ==
  worker' = [worker EXCEPT ![w] = [Idle EXCEPT !.pc = "done", !.key = worker[w].key]]

Take(w) ==
  /\ worker[w].pc = "idle"
  /\ jobs # <<>>
  /\ worker' = [worker EXCEPT ![w] = [pc |-> "running", key |-> Head(jobs).key,
                                      token |-> Head(jobs).token, value |-> 0]]
  /\ jobs' = Tail(jobs)
  /\ UNCHANGED <<data, generation, items, keyLock, refreshing, pool, request>>

Recompute(w) ==
  /\ worker[w].pc = "running"
  /\ worker' = [worker EXCEPT ![w].pc = "computed", ![w].value = committed]
  /\ UNCHANGED <<data, generation, items, keyLock, refreshing, pool, jobs, request>>

\* A failed refresh is logged and leaves the stale entry in place.
RecomputeFails(w) ==
  /\ worker[w].pc = "running"
  /\ Finish(w)
  /\ UNCHANGED <<data, generation, items, keyLock, refreshing, pool, jobs, request>>

\* Mutant of Current: a plain put, without the generation test.
AlwaysCurrent(token) == TRUE

\* No invalidation since the token was read.
Current(token) == token = generation

\* put_if_generation: only when no newer invalidation has occurred.
Publish(w) ==
  /\ worker[w].pc = "computed"
  /\ items' = IF Current(worker[w].token)
              THEN [items EXCEPT ![worker[w].key] = Entry(worker[w].value, "refresh")]
              ELSE items
  /\ Finish(w)
  /\ UNCHANGED <<data, generation, keyLock, refreshing, pool, jobs, request>>

\* The finally clause of _run.
Discard(w) ==
  /\ worker[w].pc = "done"
  /\ refreshing' = refreshing \ {worker[w].key}
  /\ worker' = [worker EXCEPT ![w] = Idle]
  /\ UNCHANGED <<data, generation, items, keyLock, pool, jobs, request>>

-----------------------------------------------------------------------------
(* Lifecycle of the workers, and of the process *)

\* stop_refresh_workers: reject new refreshes, detach the pool.
StopBegin ==
  /\ pool = "accepting"
  /\ pool' = "draining"
  /\ UNCHANGED <<data, generation, items, keyLock, refreshing, jobs, request, worker>>

\* pool.shutdown(wait=True) returns: accepted work is done.
StopEnd ==
  /\ pool = "draining"
  /\ jobs = <<>>
  /\ \A w \in Workers : worker[w].pc = "idle"
  /\ pool' = "stopped"
  /\ UNCHANGED <<data, generation, items, keyLock, refreshing, jobs, request, worker>>

\* start_refresh_workers: another lifespan of the same process.
StartWorkers ==
  /\ pool = "stopped"
  /\ pool' = "accepting"
  /\ UNCHANGED <<data, generation, items, keyLock, refreshing, jobs, request, worker>>

\* The process dies at any point and is started again: only the database
\* survives, and an empty cache vouches for nothing older than it.
Restart ==
  /\ ingest' = "idle"
  /\ announced' = committed
  /\ generation' = 0
  /\ items' = [k \in Keys |-> NoItem]
  /\ keyLock' = [k \in Keys |-> NoRequest]
  /\ refreshing' = {}
  /\ pool' = "accepting"
  /\ jobs' = <<>>
  /\ request' = [r \in Requests |-> Idle]
  /\ worker' = [w \in Workers |-> Idle]
  /\ UNCHANGED committed

IngestStep == Commit \/ Invalidate \/ LoseAcknowledgement

RequestStep(r) ==
  \/ \E k \in Keys : Lookup(r, k)
  \/ Register(r) \/ ReadToken(r) \/ Submit(r) \/ Withdraw(r)
  \/ AcquireKeyLock(r) \/ Recheck(r) \/ Compute(r) \/ ComputeFails(r) \/ Put(r)

WorkerStep(w) ==
  Take(w) \/ Recompute(w) \/ RecomputeFails(w) \/ Publish(w) \/ Discard(w)

LifecycleStep == StopBegin \/ StopEnd \/ StartWorkers \/ Restart

Next ==
  \/ IngestStep
  \/ \E r \in Requests : RequestStep(r)
  \/ \E w \in Workers : WorkerStep(w)
  \/ \E k \in Keys : Expire(k)
  \/ LifecycleStep

Spec == Init /\ [][Next]_vars

(* Threads that have started something finish it, jobs are taken, and time *)
(* passes.  Nobody owes the cache a request, an ingest, a stop or a crash, *)
(* and an endpoint may always fail.                                        *)
RequestFinishes(r) ==
  /\ WF_vars(Register(r)) /\ WF_vars(ReadToken(r))
  /\ WF_vars(Submit(r)) /\ WF_vars(Withdraw(r))
  /\ WF_vars(Recheck(r)) /\ WF_vars(Compute(r) \/ ComputeFails(r)) /\ WF_vars(Put(r))

WorkerFinishes(w) == WF_vars(WorkerStep(w))

Fairness ==
  /\ \A r \in Requests : RequestFinishes(r)
  /\ \A w \in Workers : WorkerFinishes(w)
  /\ \A k \in Keys : WF_vars(Expire(k))

FairSpec == Spec /\ Fairness

-----------------------------------------------------------------------------
(* Properties *)

\* put_if_generation and the order "token, then query": an entry that a
\* background refresh published and that reads as fresh shows at least the
\* commit that the cache was last told of.
RefreshedFreshIsCurrent ==
  \A k \in Keys :
    Servable(k) /\ ~IsStale(k) /\ items[k].by = "refresh" => items[k].value >= announced

\* README.md, "successful complete commits [...] invalidates stale aggregate
\* responses": no entry that reads as fresh is older than the last commit the
\* cache was told of, whoever stored it.  The inline path breaks this.
FreshMeansCurrent ==
  \A k \in Keys : Servable(k) /\ ~IsStale(k) => items[k].value >= announced

\* Who is responsible for discarding k from _refreshing: a thread inside
\* _schedule_refresh, a queued job or a worker.
Owners(k) ==
  ({"request"} \X {r \in Requests : request[r].key = k
                                    /\ request[r].pc \in {"registered", "tokened", "refused"}})
  \cup ({"job"} \X {i \in DOMAIN jobs : jobs[i].key = k})
  \cup ({"worker"} \X {w \in Workers : worker[w].key = k})

\* "At most once concurrently" (_schedule_refresh), and never a key left
\* behind: a key is in _refreshing exactly while one owner will discard it.
RefreshingHasOneOwner ==
  \A k \in Keys : Cardinality(Owners(k)) = IF k \in refreshing THEN 1 ELSE 0

\* Single flight of the inline path: whoever computes holds the key's lock and
\* nobody stored a servable entry since it looked, except a refresh that was
\* already under way when the entry expired.
ComputesOnlyWhatIsMissing ==
  \A r \in Requests :
    request[r].pc \in {"computing", "putting"} =>
      /\ keyLock[request[r].key] = r
      /\ Servable(request[r].key) => items[request[r].key].by = "refresh"

\* stop_refresh_workers drains before the connection pools are closed: once it
\* has returned no refresh is queued or running (proved, not checked).
StoppedMeansDrained ==
  pool = "stopped" => jobs = <<>> /\ \A w \in Workers : worker[w].pc = "idle"

\* The hard TTL repairs what the two paths above may leave wrong: once ingests
\* stop, every entry that can still be served eventually shows the last commit,
\* even if every refresh fails and the workers are stopped.
Heals == <>[](\A k \in Keys : Servable(k) => items[k].value = committed)

=============================================================================
