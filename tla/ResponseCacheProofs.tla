------------------------- MODULE ResponseCacheProofs -------------------------
(***************************************************************************)
(* Proofs about ResponseCache for every set of keys, threads and workers   *)
(* and every bound on the number of commits.                               *)
(***************************************************************************)
EXTENDS ResponseCache, FiniteSetTheorems, TLAPS

(***************************************************************************)
(* Types                                                                   *)
(***************************************************************************)

\* The process starts with typed state.
LEMMA InitTyped == Init => TypeOK
BY SentinelAssumption, BoundAssumption
   DEF Init, TypeOK, CacheTypeOK, RequestTypeOK, WorkerTypeOK, RequestState, WorkerState,
       Idle, RequestPC, WorkerPC, Job

\* No step leaves the types of the cache, the registry and the pool.
LEMMA NextCacheTyped == TypeOK /\ [Next]_vars => CacheTypeOK'
<1> SUFFICES ASSUME TypeOK, [Next]_vars PROVE CacheTypeOK'
  OBVIOUS
<1> USE SentinelAssumption, BoundAssumption DEF TypeOK, CacheTypeOK, data
<1>1. CASE IngestStep
  BY <1>1 DEF IngestStep, Commit, Invalidate, LoseAcknowledgement
<1>2. ASSUME NEW k \in Keys, Expire(k) PROVE CacheTypeOK'
  BY <1>2 DEF Expire, Servable, Item
<1>3. ASSUME NEW r \in Requests, RequestStep(r) PROVE CacheTypeOK'
  <2>0. /\ request[r] \in RequestState
        /\ At(r, "idle") \/ request[r].key \in Keys
    BY DEF RequestTypeOK, RequestState, At
  <2> USE DEF RequestState, At
  <2>1. ASSUME NEW k \in Keys, Lookup(r, k) PROVE CacheTypeOK'
    BY <2>1 DEF Lookup, PopExpired
  <2>2. CASE Register(r)
    BY <2>0, <2>2 DEF Register
  <2>3. CASE ReadToken(r)
    BY <2>3 DEF ReadToken
  <2>4. CASE Submit(r)
    <3> DEFINE j == [key |-> request[r].key, token |-> request[r].token]
    <3>1. j \in Job
      BY <2>0, <2>4 DEF Submit, Job
    <3> HIDE DEF j
    <3>2. Append(jobs, j) \in Seq(Job)
      BY <3>1
    <3>3. jobs' \in {jobs, Append(jobs, j)}
      BY <2>4 DEF Submit, j
    <3> QED
      BY <2>4, <3>2, <3>3 DEF Submit
  <2>5. CASE Withdraw(r)
    BY <2>5 DEF Withdraw
  <2>6. CASE AcquireKeyLock(r)
    BY <2>6 DEF AcquireKeyLock
  <2>7. CASE Recheck(r)
    BY <2>7 DEF Recheck, PopExpired, ReleaseKeyLock
  <2>8. CASE Compute(r)
    BY <2>8 DEF Compute
  <2>9. CASE ComputeFails(r)
    BY <2>9 DEF ComputeFails, ReleaseKeyLock
  <2>10. CASE Put(r)
    <3>1. Entry(request[r].value, "inline") \in Item
      BY <2>0 DEF Entry, Item
    <3> QED
      BY <2>10, <3>1 DEF Put, ReleaseKeyLock
  <2>11. QED
    BY <1>3, <2>1, <2>2, <2>3, <2>4, <2>5, <2>6, <2>7, <2>8, <2>9, <2>10 DEF RequestStep
<1>4. ASSUME NEW w \in Workers, WorkerStep(w) PROVE CacheTypeOK'
  <2>1. CASE Take(w)
    BY <2>1 DEF Take
  <2>2. CASE Recompute(w) \/ RecomputeFails(w) \/ Discard(w)
    BY <2>2 DEF Recompute, RecomputeFails, Discard
  <2>3. CASE Publish(w)
    <3>1. Entry(worker[w].value, "refresh") \in Item
      BY DEF Entry, Item, WorkerTypeOK, WorkerState
    <3> QED
      BY <2>3, <3>1 DEF Publish
  <2>4. QED
    BY <1>4, <2>1, <2>2, <2>3 DEF WorkerStep
<1>5. CASE LifecycleStep
  <2>1. CASE Restart
    <3>1. announced' \in Nat /\ jobs' \in Seq(Job)
      BY <2>1 DEF Restart
    <3> QED
      BY <2>1, <3>1 DEF Restart
  <2>2. CASE StopBegin \/ StopEnd \/ StartWorkers
    BY <2>2 DEF StopBegin, StopEnd, StartWorkers
  <2> QED
    BY <1>5, <2>1, <2>2 DEF LifecycleStep
<1>6. CASE UNCHANGED vars
  BY <1>6 DEF vars
<1>7. QED
  BY <1>1, <1>2, <1>3, <1>4, <1>5, <1>6 DEF Next

\* A request thread's new state is well formed when it names a key exactly
\* if it is busy; every step of a request changes one thread in this way.
LEMMA RequestUpdate ==
  ASSUME RequestTypeOK, NEW r \in Requests, NEW s \in RequestState,
         s.pc = "idle" <=> s.key = NoKey,
         request' = [request EXCEPT ![r] = s]
  PROVE  RequestTypeOK'
BY DEF RequestTypeOK, RequestState

\* Every step leaves the request threads typed.
LEMMA NextRequestTyped == TypeOK /\ [Next]_vars => RequestTypeOK'
<1> SUFFICES ASSUME TypeOK, [Next]_vars PROVE RequestTypeOK'
  OBVIOUS
<1> USE SentinelAssumption DEF TypeOK, data
<1>1. ASSUME NEW r \in Requests, RequestStep(r) PROVE RequestTypeOK'
  <2> DEFINE s == request[r]
  <2>0. /\ s \in RequestState
        /\ s.pc # "idle" => s.key \in Keys
        /\ request \in [Requests -> RequestState]
    BY DEF RequestTypeOK, RequestState
  <2>1. Idle \in RequestState /\ Idle.pc = "idle" /\ Idle.key = NoKey
    BY DEF Idle, RequestState, RequestPC
  <2>2. ASSUME NEW k \in Keys, NEW pc \in RequestPC \ {"idle"},
               request' = [request EXCEPT ![r] = [Idle EXCEPT !.pc = pc, !.key = k]]
        PROVE  RequestTypeOK'
    <3> DEFINE t == [Idle EXCEPT !.pc = pc, !.key = k]
    <3>1. t \in RequestState /\ t.pc = pc /\ t.key = k
      BY DEF Idle, RequestState
    <3> QED
      BY <2>2, <3>1, RequestUpdate
  <2>3. ASSUME NEW pc \in RequestPC \ {"idle"}, Goto(r, pc), s.pc # "idle"
        PROVE  RequestTypeOK'
    <3> DEFINE t == [s EXCEPT !.pc = pc]
    <3>1. t \in RequestState /\ t.pc = pc /\ t.key = s.key
      BY <2>0 DEF RequestState
    <3>2. request' = [request EXCEPT ![r] = t]
      BY <2>0, <2>3 DEF Goto
    <3> QED
      BY <2>0, <2>3, <3>1, <3>2, RequestUpdate
  <2>4. CASE request' = [request EXCEPT ![r] = Idle]
    BY <2>1, <2>4, RequestUpdate
  <2>5. ASSUME NEW k \in Keys, Lookup(r, k) PROVE RequestTypeOK'
    BY <2>2, <2>5 DEF Lookup, Start, RequestPC
  <2>6. CASE ReadToken(r)
    <3> DEFINE t == [s EXCEPT !.pc = "tokened", !.token = generation]
    <3>1. t \in RequestState /\ t.pc = "tokened" /\ t.key = s.key
      BY <2>0 DEF RequestState, RequestPC, CacheTypeOK
    <3>2. request' = [request EXCEPT ![r] = t] /\ s.pc # "idle"
      BY <2>0, <2>6 DEF ReadToken, At
    <3> QED
      BY <2>0, <3>1, <3>2, RequestUpdate
  <2>7. CASE Compute(r)
    <3> DEFINE t == [s EXCEPT !.pc = "putting", !.value = committed]
    <3>0. committed \in Nat
      BY BoundAssumption DEF CacheTypeOK
    <3>1. t \in RequestState /\ t.pc = "putting" /\ t.key = s.key
      BY <2>0, <3>0 DEF RequestState, RequestPC
    <3>2. request' = [request EXCEPT ![r] = t] /\ s.pc # "idle"
      BY <2>0, <2>7 DEF Compute, At
    <3> QED
      BY <2>0, <3>1, <3>2, RequestUpdate
  <2>8. CASE \/ Register(r) \/ Submit(r) \/ AcquireKeyLock(r) \/ Recheck(r)
    BY <2>3, <2>4, <2>8
       DEF Register, Submit, AcquireKeyLock, Recheck, ReleaseKeyLock, Return, At, RequestPC
  <2>9. CASE Withdraw(r) \/ ComputeFails(r) \/ Put(r)
    BY <2>4, <2>9 DEF Withdraw, ComputeFails, Put, ReleaseKeyLock, Return
  <2>10. QED
    BY <1>1, <2>5, <2>6, <2>7, <2>8, <2>9 DEF RequestStep
<1>2. CASE Restart
  BY <1>2 DEF Restart, RequestTypeOK, RequestState, Idle, RequestPC
<1>3. CASE UNCHANGED request
  BY <1>3 DEF RequestTypeOK
<1>4. QED
  BY <1>1, <1>2, <1>3
     DEF Next, vars, IngestStep, Commit, Invalidate, LoseAcknowledgement, Expire, WorkerStep,
         Take, Recompute, RecomputeFails, Publish, Discard, LifecycleStep, StopBegin, StopEnd,
         StartWorkers

\* A worker in a typed state leaves the workers typed.
LEMMA WorkerUpdate ==
  ASSUME WorkerTypeOK, NEW w \in Workers, NEW s \in WorkerState,
         s.pc = "idle" <=> s.key = NoKey,
         worker' = [worker EXCEPT ![w] = s]
  PROVE  WorkerTypeOK'
BY DEF WorkerTypeOK, WorkerState

\* Every step leaves the refresh workers and their queue typed.
LEMMA NextWorkerTyped == TypeOK /\ [Next]_vars => WorkerTypeOK'
<1> SUFFICES ASSUME TypeOK, [Next]_vars PROVE WorkerTypeOK'
  OBVIOUS
<1> USE SentinelAssumption DEF TypeOK, data
<1>1. ASSUME NEW w \in Workers, WorkerStep(w) PROVE WorkerTypeOK'
  <2> DEFINE s == worker[w]
  <2>0. /\ s \in WorkerState
        /\ s.pc # "idle" => s.key \in Keys
        /\ worker \in [Workers -> WorkerState]
    BY DEF WorkerTypeOK, WorkerState
  <2>1. CASE Take(w)
    <3> DEFINE t == [pc |-> "running", key |-> Head(jobs).key, token |-> Head(jobs).token,
                     value |-> 0]
    <3>1. Head(jobs) \in Job
      BY <2>1 DEF Take, CacheTypeOK
    <3>2. t \in WorkerState /\ t.pc = "running" /\ t.key # NoKey
      BY <3>1 DEF Job, WorkerState, WorkerPC
    <3> QED
      BY <2>1, <3>2, WorkerUpdate DEF Take
  <2>2. CASE Recompute(w)
    <3> DEFINE t == [s EXCEPT !.pc = "computed", !.value = committed]
    <3>0. committed \in Nat
      BY BoundAssumption DEF CacheTypeOK
    <3>1. t \in WorkerState /\ t.pc = "computed" /\ t.key = s.key
      BY <2>0, <3>0 DEF WorkerState, WorkerPC
    <3>2. worker' = [worker EXCEPT ![w] = t] /\ s.pc # "idle"
      BY <2>0, <2>2 DEF Recompute
    <3> QED
      BY <2>0, <3>1, <3>2, WorkerUpdate
  <2>3. CASE RecomputeFails(w) \/ Publish(w)
    <3> DEFINE t == [Idle EXCEPT !.pc = "done", !.key = s.key]
    <3>1. t \in WorkerState /\ t.pc = "done" /\ t.key = s.key
      BY <2>0 DEF Idle, WorkerState, WorkerPC
    <3>2. worker' = [worker EXCEPT ![w] = t] /\ s.pc # "idle"
      BY <2>3 DEF RecomputeFails, Publish, Finish
    <3> QED
      BY <2>0, <3>1, <3>2, WorkerUpdate
  <2>4. CASE Discard(w)
    <3>1. Idle \in WorkerState /\ Idle.pc = "idle" /\ Idle.key = NoKey
      BY DEF Idle, WorkerState, WorkerPC
    <3> QED
      BY <2>4, <3>1, WorkerUpdate DEF Discard
  <2>5. QED
    BY <1>1, <2>1, <2>2, <2>3, <2>4 DEF WorkerStep
<1>2. CASE Restart
  BY <1>2 DEF Restart, WorkerTypeOK, WorkerState, Idle, WorkerPC
<1>3. CASE UNCHANGED worker
  BY <1>3 DEF WorkerTypeOK
<1>4. QED
  BY <1>1, <1>2, <1>3
     DEF Next, vars, IngestStep, Commit, Invalidate, LoseAcknowledgement, Expire, RequestStep,
         Lookup, Register, ReadToken, Submit, Withdraw, AcquireKeyLock, Recheck, Compute,
         ComputeFails, Put, LifecycleStep, StopBegin, StopEnd, StartWorkers

\* Every reachable state is well typed, and a thread names a key exactly while
\* it works on one.
THEOREM TypeCorrect == Spec => []TypeOK
<1>1. TypeOK /\ [Next]_vars => TypeOK'
  BY NextCacheTyped, NextRequestTyped, NextWorkerTyped DEF TypeOK
<1>2. QED
  BY InitTyped, <1>1, PTL DEF Spec

(***************************************************************************)
(* A refreshed entry that reads as fresh shows the last announced commit   *)
(***************************************************************************)

\* Generations only grow, so nothing carries one from the future.
GenerationsArePast ==
  /\ \A k \in Keys : items[k] # NoItem => items[k].generation <= generation
  /\ \A r \in Requests : request[r].token <= generation
  /\ \A i \in DOMAIN jobs : jobs[i].token <= generation
  /\ \A w \in Workers : worker[w].token <= generation

\* A worker whose token is still current ran its query after that token was
\* read, hence after the last invalidation.
CurrentTokenMeansCurrentValue ==
  \A w \in Workers :
    worker[w].pc = "computed" /\ worker[w].token = generation => worker[w].value >= announced

\* The property without the TTL: also of entries that have expired.
RefreshedIsCurrent ==
  \A k \in Keys :
    items[k] # NoItem /\ items[k].generation = generation /\ items[k].by = "refresh"
      => items[k].value >= announced

FreshInv ==
  /\ announced <= committed
  /\ GenerationsArePast
  /\ CurrentTokenMeansCurrentValue
  /\ RefreshedIsCurrent

\* An empty cache is not stale.
LEMMA InitFresh == Init => FreshInv
BY BoundAssumption
   DEF Init, FreshInv, GenerationsArePast, CurrentTokenMeansCurrentValue, RefreshedIsCurrent,
       Idle

\* Expire and PopExpired only drop entries or age them.
LEMMA PopExpiredKeeps ==
  ASSUME TypeOK, NEW k \in Keys, PopExpired(k)
  PROVE  /\ items' \in [Keys -> Item \cup {NoItem}]
         /\ \A j \in Keys : items'[j] # NoItem => items'[j] = items[j]
BY DEF TypeOK, CacheTypeOK, PopExpired

\* Every step keeps a value of the current generation at least as new as the last invalidation.
LEMMA NextFresh == TypeOK /\ FreshInv /\ [Next]_vars => FreshInv'
<1> SUFFICES ASSUME TypeOK, FreshInv, [Next]_vars PROVE FreshInv'
  OBVIOUS
<1> USE SentinelAssumption, BoundAssumption DEF data
<1> DEFINE KeepsRest == /\ announced' = announced /\ committed' = committed
                        /\ generation' = generation
<1>0. /\ committed \in Nat /\ announced \in Nat /\ generation \in Nat
      /\ announced <= committed
      /\ items \in [Keys -> Item \cup {NoItem}] /\ jobs \in Seq(Job)
      /\ request \in [Requests -> RequestState] /\ worker \in [Workers -> WorkerState]
      /\ \A k \in Keys : items[k] # NoItem => items[k].generation \in Nat /\ items[k].value \in Nat
      /\ \A r \in Requests : request[r].token \in Nat /\ request[r].value \in Nat
      /\ \A w \in Workers : worker[w].token \in Nat /\ worker[w].value \in Nat
  BY DEF TypeOK, CacheTypeOK, RequestTypeOK, WorkerTypeOK, Item, RequestState, WorkerState, FreshInv
<1>1. CASE Commit \/ LoseAcknowledgement
  BY <1>0, <1>1
     DEF Commit, LoseAcknowledgement, FreshInv, GenerationsArePast,
         CurrentTokenMeansCurrentValue, RefreshedIsCurrent
<1>2. CASE Invalidate
  <2>1. \A i \in DOMAIN jobs : jobs[i] \in Job /\ jobs[i].token \in Nat
    <3>1. \A i \in DOMAIN jobs : jobs[i] \in Job
      BY <1>0
    <3> QED
      BY <3>1 DEF Job
  <2> QED
    BY <1>0, <1>2, <2>1
       DEF Invalidate, FreshInv, GenerationsArePast, CurrentTokenMeansCurrentValue,
           RefreshedIsCurrent
<1>3. ASSUME NEW k \in Keys, Expire(k) PROVE FreshInv'
  <2>1. \A j \in Keys : /\ items'[j] # NoItem => items[j] # NoItem
                        /\ items'[j].generation = items[j].generation
                        /\ items'[j].value = items[j].value
                        /\ items'[j].by = items[j].by
    BY <1>0, <1>3 DEF Expire, Servable, Item
  <2> QED
    BY <1>3, <2>1
       DEF Expire, FreshInv, GenerationsArePast, CurrentTokenMeansCurrentValue, RefreshedIsCurrent
<1>4. ASSUME NEW r \in Requests, RequestStep(r) PROVE FreshInv'
  <2>1. KeepsRest /\ worker' = worker
    BY <1>4 DEF RequestStep, Lookup, Register, ReadToken, Submit, Withdraw, AcquireKeyLock,
                Recheck, Compute, ComputeFails, Put
  <2>2. \A q \in Requests : request'[q].token <= generation
    <3>1. \A q \in Requests : request[q].token <= generation
      BY DEF FreshInv, GenerationsArePast
    <3>2. \A q \in Requests \ {r} : request'[q] = request[q]
      BY <1>0, <1>4
         DEF RequestStep, Lookup, Register, ReadToken, Submit, Withdraw, AcquireKeyLock,
             Recheck, Compute, ComputeFails, Put, Goto, Start, ReleaseKeyLock, Return
    <3>3. request'[r].token \in {0, request[r].token, generation}
      <4>1. Idle.token = 0
        BY DEF Idle
      <4>2. CASE \E k \in Keys : Lookup(r, k)
        BY <1>0, <4>2 DEF Lookup, Start, Idle
      <4>3. ASSUME NEW pc \in RequestPC, Goto(r, pc) PROVE request'[r].token = request[r].token
        BY <1>0, <4>3 DEF Goto, RequestState
      <4>4. CASE request' = [request EXCEPT ![r] = Idle]
        BY <1>0, <4>1, <4>4
      <4>5. CASE ReadToken(r)
        BY <1>0, <4>5 DEF ReadToken, RequestState
      <4>6. CASE Compute(r)
        BY <1>0, <4>6 DEF Compute, RequestState
      <4>7. CASE Register(r) \/ Submit(r) \/ AcquireKeyLock(r) \/ Recheck(r)
        BY <4>3, <4>4, <4>7
           DEF Register, Submit, AcquireKeyLock, Recheck, ReleaseKeyLock, Return, RequestPC
      <4>8. CASE Withdraw(r) \/ ComputeFails(r) \/ Put(r)
        BY <4>4, <4>8 DEF Withdraw, ComputeFails, Put, ReleaseKeyLock, Return
      <4> QED
        BY <1>4, <4>2, <4>5, <4>6, <4>7, <4>8 DEF RequestStep
    <3> QED
      BY <1>0, <3>1, <3>2, <3>3
  <2>3. \A i \in DOMAIN jobs' : jobs'[i].token <= generation
    <3>1. \A i \in DOMAIN jobs : jobs[i].token <= generation
      BY DEF FreshInv, GenerationsArePast
    <3>2. CASE jobs' = jobs
      BY <3>1, <3>2
    <3>3. CASE Submit(r)
      <4> DEFINE j == [key |-> request[r].key, token |-> request[r].token]
      <4>1. j.token <= generation
        BY DEF FreshInv, GenerationsArePast
      <4> HIDE DEF j
      <4>2. CASE jobs' = Append(jobs, j)
        BY <1>0, <3>1, <4>1, <4>2
      <4> QED
        BY <3>2, <3>3, <4>2 DEF Submit, j
    <3> QED
      BY <1>4, <3>2, <3>3
         DEF RequestStep, Lookup, Register, ReadToken, Withdraw, AcquireKeyLock, Recheck,
             Compute, ComputeFails, Put
  <2>4. \A k \in Keys :
          \/ items'[k] # NoItem => items'[k] = items[k]
          \/ items'[k] = Entry(request[r].value, "inline")
    <3>1. CASE \E k \in Keys : Lookup(r, k)
      BY <3>1, PopExpiredKeeps DEF Lookup
    <3>2. CASE Recheck(r)
      <4>1. request[r].key \in Keys
        BY <3>2 DEF Recheck, At, TypeOK, RequestTypeOK, RequestState
      <4> QED
        BY <3>2, <4>1, PopExpiredKeeps DEF Recheck
    <3>3. CASE Put(r)
      BY <1>0, <3>3 DEF Put
    <3> QED
      BY <1>4, <3>1, <3>2, <3>3
         DEF RequestStep, Register, ReadToken, Submit, Withdraw, AcquireKeyLock, Compute,
             ComputeFails
  <2>5. \A k \in Keys : items'[k] # NoItem => items'[k].generation <= generation
    BY <1>0, <2>4 DEF Entry, FreshInv, GenerationsArePast
  <2>6. RefreshedIsCurrent'
    BY <1>0, <2>1, <2>4 DEF Entry, FreshInv, RefreshedIsCurrent
  <2> QED
    BY <1>0, <2>1, <2>2, <2>3, <2>5, <2>6
       DEF FreshInv, GenerationsArePast, CurrentTokenMeansCurrentValue
<1>5. ASSUME NEW w \in Workers, WorkerStep(w) PROVE FreshInv'
  <2>1. KeepsRest /\ request' = request
    BY <1>5 DEF WorkerStep, Take, Recompute, RecomputeFails, Publish, Discard
  <2>2. /\ \A v \in Workers : worker'[v].token <= generation
        /\ \A i \in DOMAIN jobs' : jobs'[i].token <= generation
    <3>1. /\ \A v \in Workers : worker[v].token <= generation
          /\ \A i \in DOMAIN jobs : jobs[i].token <= generation
      BY DEF FreshInv, GenerationsArePast
    <3>2. CASE Take(w)
      <4>1. jobs # <<>> /\ jobs' = Tail(jobs) /\ Head(jobs) = jobs[1] /\ 1 \in DOMAIN jobs
        BY <1>0, <3>2 DEF Take
      <4>2. \A i \in DOMAIN jobs' : i + 1 \in DOMAIN jobs /\ jobs'[i] = jobs[i + 1]
        BY <1>0, <4>1
      <4>3. \A v \in Workers : worker'[v].token \in {worker[v].token, jobs[1].token}
        BY <1>0, <3>2, <4>1 DEF Take
      <4> QED
        BY <3>1, <4>1, <4>2, <4>3
    <3>3. CASE Recompute(w)
      <4>1. \A v \in Workers : worker'[v].token = worker[v].token
        BY <1>0, <3>3 DEF Recompute, WorkerState
      <4>2. jobs' = jobs
        BY <3>3 DEF Recompute
      <4> QED
        BY <3>1, <4>1, <4>2
    <3>4. CASE RecomputeFails(w) \/ Publish(w)
      <4>1. jobs' = jobs /\ Finish(w)
        BY <3>4 DEF RecomputeFails, Publish
      <4>2. \A v \in Workers : worker'[v].token \in {worker[v].token, 0}
        BY <1>0, <4>1 DEF Finish, Idle
      <4> QED
        BY <1>0, <3>1, <4>1, <4>2
    <3>5. CASE Discard(w)
      BY <1>0, <3>1, <3>5 DEF Discard, Idle
    <3> QED
      BY <1>5, <3>2, <3>3, <3>4, <3>5 DEF WorkerStep
  <2>3. CurrentTokenMeansCurrentValue'
    <3>1. \A v \in Workers : \/ worker'[v] = worker[v]
                             \/ worker'[v].pc # "computed"
                             \/ worker'[v].value = committed
      <4>1. CASE Recompute(w)
        BY <1>0, <4>1 DEF Recompute, WorkerState
      <4>2. CASE Take(w)
        BY <1>0, <4>2 DEF Take
      <4>3. CASE RecomputeFails(w) \/ Publish(w)
        <5>1. Finish(w)
          BY <4>3 DEF RecomputeFails, Publish
        <5> QED
          BY <1>0, <5>1 DEF Finish, Idle
      <4>4. CASE Discard(w)
        BY <1>0, <4>4 DEF Discard, Idle
      <4> QED
        BY <1>5, <4>1, <4>2, <4>3, <4>4 DEF WorkerStep
    <3> QED
      BY <1>0, <2>1, <3>1 DEF FreshInv, CurrentTokenMeansCurrentValue
  <2>4. \A k \in Keys :
          \/ items'[k] = items[k]
          \/ /\ items'[k] = Entry(worker[w].value, "refresh")
             /\ worker[w].pc = "computed" /\ worker[w].token = generation
    BY <1>0, <1>5 DEF WorkerStep, Take, Recompute, RecomputeFails, Publish, Discard, Current
  <2>5. \A k \in Keys : items'[k] # NoItem => items'[k].generation <= generation
    BY <1>0, <2>4 DEF Entry, FreshInv, GenerationsArePast
  <2>6. RefreshedIsCurrent'
    BY <1>0, <2>1, <2>4 DEF Entry, FreshInv, RefreshedIsCurrent, CurrentTokenMeansCurrentValue
  <2> QED
    BY <1>0, <2>1, <2>2, <2>3, <2>5, <2>6 DEF FreshInv, GenerationsArePast
<1>6. CASE Restart
  BY <1>0, <1>6
     DEF Restart, FreshInv, GenerationsArePast, CurrentTokenMeansCurrentValue,
         RefreshedIsCurrent, Idle
<1>7. CASE StopBegin \/ StopEnd \/ StartWorkers \/ UNCHANGED vars
  BY <1>7
     DEF StopBegin, StopEnd, StartWorkers, vars, FreshInv, GenerationsArePast,
         CurrentTokenMeansCurrentValue, RefreshedIsCurrent
<1>8. QED
  BY <1>1, <1>2, <1>3, <1>4, <1>5, <1>6, <1>7 DEF Next, IngestStep, LifecycleStep

\* An entry a background refresh published and that reads as fresh is never
\* older than the last commit the cache was told of: put_if_generation and a
\* token read before the query are enough, for any number of threads, workers,
\* keys and ingests.
THEOREM RefreshedFreshIsCurrentHolds == Spec => []RefreshedFreshIsCurrent
<1>1. TypeOK /\ FreshInv => RefreshedFreshIsCurrent
  BY DEF FreshInv, RefreshedIsCurrent, RefreshedFreshIsCurrent, Servable, IsStale
<1>2. QED
  BY InitFresh, NextFresh, TypeCorrect, <1>1, PTL DEF Spec

(***************************************************************************)
(* What is served is a version the database had, and outdated data dies    *)
(* out                                                                     *)
(***************************************************************************)

\* Nobody holds data from the future.
ValuesArePast ==
  /\ \A k \in Keys : items[k] # NoItem => items[k].value <= committed
  /\ \A r \in Requests : request[r].value <= committed
  /\ \A w \in Workers : worker[w].value <= committed

\* What a thread returns: an entry it finds, or the result it is about to store.
AnswersAreVersions ==
  /\ \A k \in Keys : Servable(k) => items[k].value \in 0 .. committed
  /\ \A r \in Requests : request[r].pc = "putting" => request[r].value \in 0 .. committed

\* Who holds a version that is not the committed one, and may hand it on.
OutdatedEntries == {k \in Keys : Servable(k) /\ items[k].value < committed}
LateRequests == {r \in Requests : request[r].pc = "putting" /\ request[r].value < committed}
LateWorkers == {w \in Workers : worker[w].pc = "computed" /\ worker[w].value < committed}

\* Between commits nobody becomes late, and every entry that becomes outdated
\* uses up a late thread.
OutdatedDiesOut ==
  [][committed' = committed =>
       /\ LateRequests' \subseteq LateRequests
       /\ LateWorkers' \subseteq LateWorkers
       /\ \A k \in OutdatedEntries' \ OutdatedEntries :
            \/ \E r \in LateRequests \ LateRequests' : request[r].key = k
            \/ \E w \in LateWorkers \ LateWorkers' : worker[w].key = k]_vars

\* What a request thread does to results and entries: it computes one, or stores its own.
LEMMA RequestData ==
  ASSUME TypeOK, NEW r \in Requests, RequestStep(r)
  PROVE  /\ committed' = committed /\ worker' = worker
         /\ \A q \in Requests \ {r} : request'[q] = request[q]
         /\ \/ request'[r].pc # "putting" /\ request'[r].value \in {0, request[r].value}
            \/ request'[r].pc = "putting" /\ request'[r].value = committed
         /\ \A k \in Keys :
              \/ items'[k] \in {items[k], NoItem}
              \/ /\ request[r].pc = "putting" /\ request'[r].pc # "putting"
                 /\ request[r].key = k
                 /\ items'[k] = Entry(request[r].value, "inline")
<1> USE SentinelAssumption DEF data
<1>0. /\ request \in [Requests -> RequestState]
      /\ items \in [Keys -> Item \cup {NoItem}]
      /\ Idle.value = 0 /\ Idle.pc = "idle"
  BY DEF TypeOK, CacheTypeOK, RequestTypeOK, Idle
<1>1. committed' = committed /\ worker' = worker
  BY DEF RequestStep, Lookup, Register, ReadToken, Submit, Withdraw, AcquireKeyLock,
         Recheck, Compute, ComputeFails, Put
<1>2. \A q \in Requests \ {r} : request'[q] = request[q]
  BY <1>0 DEF RequestStep, Lookup, Register, ReadToken, Submit, Withdraw, AcquireKeyLock,
              Recheck, Compute, ComputeFails, Put, Goto, Start, ReleaseKeyLock, Return
<1>3. \/ request'[r].pc # "putting" /\ request'[r].value \in {0, request[r].value}
      \/ request'[r].pc = "putting" /\ request'[r].value = committed
  <2>1. CASE \E k \in Keys : Lookup(r, k)
    <3>1. request' = request \/ \E k \in Keys, pc \in {"stale", "missed"} : Start(r, pc, k)
      BY <2>1 DEF Lookup
    <3>2. At(r, "idle")
      BY <2>1 DEF Lookup
    <3> QED
      BY <1>0, <3>1, <3>2 DEF Start, At, Idle
  <2>2. ASSUME NEW pc \in RequestPC \ {"putting"}, Goto(r, pc)
        PROVE  request'[r].pc # "putting" /\ request'[r].value = request[r].value
    BY <1>0, <2>2 DEF Goto, RequestState
  <2>3. CASE request' = [request EXCEPT ![r] = Idle]
    BY <1>0, <2>3
  <2>4. CASE ReadToken(r)
    BY <1>0, <2>4 DEF ReadToken, RequestState
  <2>5. CASE Compute(r)
    BY <1>0, <2>5 DEF Compute, RequestState
  <2>6. CASE Register(r) \/ Submit(r) \/ AcquireKeyLock(r) \/ Recheck(r)
    BY <2>2, <2>3, <2>6
       DEF Register, Submit, AcquireKeyLock, Recheck, ReleaseKeyLock, Return, RequestPC
  <2>7. CASE Withdraw(r) \/ ComputeFails(r) \/ Put(r)
    BY <2>3, <2>7 DEF Withdraw, ComputeFails, Put, ReleaseKeyLock, Return
  <2> QED
    BY <2>1, <2>4, <2>5, <2>6, <2>7 DEF RequestStep
<1>4. ASSUME NEW k \in Keys
      PROVE  \/ items'[k] \in {items[k], NoItem}
             \/ /\ request[r].pc = "putting" /\ request'[r].pc # "putting"
                /\ request[r].key = k
                /\ items'[k] = Entry(request[r].value, "inline")
  <2>1. CASE Put(r)
    <3>1. request'[r].pc = "idle" /\ request[r].pc = "putting"
      BY <1>0, <2>1 DEF Put, At, ReleaseKeyLock, Return
    <3> QED
      BY <1>0, <2>1, <3>1 DEF Put
  <2>2. ASSUME NEW j \in Keys, PopExpired(j)
        PROVE  items'[k] \in {items[k], NoItem}
    BY <1>0, <2>2 DEF PopExpired
  <2>3. CASE Recheck(r)
    <3>1. request[r].key \in Keys
      BY <2>3 DEF Recheck, At, TypeOK, RequestTypeOK, RequestState
    <3> QED
      BY <2>2, <2>3, <3>1 DEF Recheck
  <2> QED
    BY <2>1, <2>2, <2>3
       DEF RequestStep, Lookup, Register, ReadToken, Submit, Withdraw, AcquireKeyLock,
           Compute, ComputeFails
<1> QED
  BY <1>1, <1>2, <1>3, <1>4

\* What a worker does to them.
LEMMA WorkerData ==
  ASSUME TypeOK, NEW w \in Workers, WorkerStep(w)
  PROVE  /\ committed' = committed /\ request' = request
         /\ \A v \in Workers \ {w} : worker'[v] = worker[v]
         /\ \/ worker'[w].pc # "computed" /\ worker'[w].value = 0
            \/ worker'[w].pc = "computed" /\ worker'[w].value = committed
         /\ \A k \in Keys :
              \/ items'[k] = items[k]
              \/ /\ worker[w].pc = "computed" /\ worker'[w].pc # "computed"
                 /\ worker[w].key = k
                 /\ items'[k] = Entry(worker[w].value, "refresh")
<1> USE DEF data
<1>0. /\ worker \in [Workers -> WorkerState]
      /\ items \in [Keys -> Item \cup {NoItem}]
      /\ Idle.value = 0 /\ Idle.pc = "idle"
  BY DEF TypeOK, CacheTypeOK, WorkerTypeOK, Idle
<1>1. committed' = committed /\ request' = request
  BY DEF WorkerStep, Take, Recompute, RecomputeFails, Publish, Discard
<1>2. \A v \in Workers \ {w} : worker'[v] = worker[v]
  BY <1>0 DEF WorkerStep, Take, Recompute, RecomputeFails, Publish, Discard, Finish
<1>3. ASSUME Finish(w)
      PROVE  worker'[w].pc = "done" /\ worker'[w].value = 0
  BY <1>0, <1>3 DEF Finish, Idle
<1>4. \/ worker'[w].pc # "computed" /\ worker'[w].value = 0
      \/ worker'[w].pc = "computed" /\ worker'[w].value = committed
  <2>1. CASE Take(w)
    BY <1>0, <2>1 DEF Take
  <2>2. CASE Recompute(w)
    BY <1>0, <2>2 DEF Recompute, WorkerState
  <2>3. CASE RecomputeFails(w) \/ Publish(w)
    BY <1>3, <2>3 DEF RecomputeFails, Publish
  <2>4. CASE Discard(w)
    BY <1>0, <2>4 DEF Discard
  <2> QED
    BY <2>1, <2>2, <2>3, <2>4 DEF WorkerStep
<1>5. ASSUME NEW k \in Keys
      PROVE  \/ items'[k] = items[k]
             \/ /\ worker[w].pc = "computed" /\ worker'[w].pc # "computed"
                /\ worker[w].key = k
                /\ items'[k] = Entry(worker[w].value, "refresh")
  <2>1. CASE Publish(w)
    BY <1>0, <1>3, <2>1 DEF Publish
  <2> QED
    BY <2>1 DEF WorkerStep, Take, Recompute, RecomputeFails, Discard
<1> QED
  BY <1>1, <1>2, <1>4, <1>5

\* Every other step drops or ages entries, and drops results; only Commit changes the version.
LEMMA OtherData ==
  ASSUME TypeOK, [Next]_vars,
         \A r \in Requests : ~RequestStep(r), \A w \in Workers : ~WorkerStep(w)
  PROVE  /\ committed' \in {committed, committed + 1}
         /\ request' = request \/ request' = [r \in Requests |-> Idle]
         /\ worker' = worker \/ worker' = [w \in Workers |-> Idle]
         /\ \A k \in Keys : \/ items'[k] \in {items[k], NoItem}
                             \/ /\ items[k] # NoItem /\ items'[k].expired
                                /\ items'[k].value = items[k].value
<1>1. ASSUME NEW k \in Keys, Expire(k)
      PROVE  \A j \in Keys : \/ items'[j] = items[j]
                             \/ /\ items[j] # NoItem /\ items'[j].expired
                                /\ items'[j].value = items[j].value
  BY <1>1 DEF Expire, Servable, TypeOK, CacheTypeOK, Item
<1>2. CASE \E k \in Keys : Expire(k)
  BY <1>1, <1>2 DEF Expire, data
<1>3. CASE IngestStep \/ LifecycleStep \/ UNCHANGED vars
  BY <1>3 DEF IngestStep, Commit, Invalidate, LoseAcknowledgement, LifecycleStep, StopBegin,
     StopEnd, StartWorkers, Restart, vars, data
<1> QED
  BY <1>2, <1>3 DEF Next

\* Values are numbers.
LEMMA ValueTypes ==
  ASSUME TypeOK
  PROVE  /\ committed \in Nat
         /\ \A k \in Keys : items[k] # NoItem => items[k].value \in Nat
         /\ \A r \in Requests : request[r].value \in Nat
         /\ \A w \in Workers : worker[w].value \in Nat
BY BoundAssumption
   DEF TypeOK, CacheTypeOK, RequestTypeOK, WorkerTypeOK, Item, RequestState, WorkerState

\* What an entry of the given value holds.
LEMMA EntryValue ==
  ASSUME TypeOK, NEW v \in Nat, NEW by \in {"inline", "refresh"}
  PROVE  Entry(v, by).value = v /\ ~Entry(v, by).expired /\ Entry(v, by) # NoItem
<1>1. generation \in Nat
  BY DEF TypeOK, CacheTypeOK
<1>2. Entry(v, by) \in [value : Nat, generation : Nat, expired : BOOLEAN, by : {"inline", "refresh"}]
  BY <1>1 DEF Entry
<1> QED
  BY <1>2, SentinelAssumption DEF Entry

\* A copy of a value is a copy of one somebody held.
LEMMA NextValues == TypeOK /\ ValuesArePast /\ [Next]_vars => ValuesArePast'
<1> SUFFICES ASSUME TypeOK, ValuesArePast, [Next]_vars PROVE ValuesArePast'
  OBVIOUS
<1>1. CASE \E r \in Requests : RequestStep(r)
  <2>1. PICK r \in Requests : RequestStep(r)
    BY <1>1
  <2> QED
    BY <2>1, RequestData, ValueTypes, EntryValue DEF ValuesArePast
<1>2. CASE \E w \in Workers : WorkerStep(w)
  <2>1. PICK w \in Workers : WorkerStep(w)
    BY <1>2
  <2> QED
    BY <2>1, WorkerData, ValueTypes, EntryValue DEF ValuesArePast
<1>3. CASE ~(\E r \in Requests : RequestStep(r)) /\ ~(\E w \in Workers : WorkerStep(w))
  <2>1. Idle.value = 0
    BY DEF Idle
  <2> QED
    BY <1>3, <2>1, OtherData, ValueTypes DEF ValuesArePast
<1> QED
  BY <1>1, <1>2, <1>3

\* Whatever the cached path returns is a version the database has held: what the
\* client modules assume of an answer.  Newer than committed is impossible, for
\* any interleaving of threads, workers, ingests and restarts.
THEOREM AnswersAreVersionsHolds == Spec => []AnswersAreVersions
<1>1. Init => ValuesArePast
  BY DEF Init, ValuesArePast, Idle
<1>2. TypeOK /\ ValuesArePast => AnswersAreVersions
  BY ValueTypes DEF ValuesArePast, AnswersAreVersions, Servable
<1> QED
  BY <1>1, <1>2, NextValues, TypeCorrect, PTL DEF Spec

\* The safety half of Heals.  While nothing is committed, outdated data is not
\* multiplied: a thread that is late was late before, and an entry that becomes
\* outdated was stored by a late thread, which is late no more.  So there are at
\* most as many such stores as threads were late at the commit, and the hard TTL
\* has only finitely many entries to outlive.
THEOREM OutdatedDiesOutHolds == Spec => OutdatedDiesOut
<1>1. ASSUME TypeOK, [Next]_vars, committed' = committed
      PROVE  /\ LateRequests' \subseteq LateRequests
             /\ LateWorkers' \subseteq LateWorkers
             /\ \A k \in OutdatedEntries' \ OutdatedEntries :
                  \/ \E r \in LateRequests \ LateRequests' : request[r].key = k
                  \/ \E w \in LateWorkers \ LateWorkers' : worker[w].key = k
  <2> USE <1>1 DEF LateRequests, LateWorkers, OutdatedEntries, Servable
  <2>1. CASE \E r \in Requests : RequestStep(r)
    <3>1. PICK r \in Requests : RequestStep(r)
      BY <2>1
    <3> QED
      BY <3>1, RequestData, ValueTypes, EntryValue
  <2>2. CASE \E w \in Workers : WorkerStep(w)
    <3>1. PICK w \in Workers : WorkerStep(w)
      BY <2>2
    <3> QED
      BY <3>1, WorkerData, ValueTypes, EntryValue
  <2>3. CASE ~(\E r \in Requests : RequestStep(r)) /\ ~(\E w \in Workers : WorkerStep(w))
    <3>1. Idle.pc = "idle"
      BY DEF Idle
    <3> QED
      BY <2>3, <3>1, OtherData
  <2> QED
    BY <2>1, <2>2, <2>3
<1> QED
  BY <1>1, TypeCorrect, PTL DEF Spec, OutdatedDiesOut

(***************************************************************************)
(* Stopping drains, and the inline path computes once                      *)
(***************************************************************************)

\* Between stop_refresh_workers and the next start no refresh is queued or
\* running: the pools may be closed.  The property is inductive.
THEOREM StoppedMeansDrainedHolds == Spec => []StoppedMeansDrained
<1>1. Init => StoppedMeansDrained
  BY DEF Init, StoppedMeansDrained
<1>2. ASSUME TypeOK, StoppedMeansDrained, [Next]_vars
      PROVE  StoppedMeansDrained'
  <2> SUFFICES ASSUME pool' = "stopped"
               PROVE  jobs' = <<>> /\ \A w \in Workers : worker'[w].pc = "idle"
    BY DEF StoppedMeansDrained
  <2>1. CASE StopEnd
    BY <2>1 DEF StopEnd
  <2>2. ASSUME NEW w \in Workers, WorkerStep(w)
        PROVE  FALSE
    <3>1. pool = "stopped"
      BY <2>2 DEF WorkerStep, Take, Recompute, RecomputeFails, Publish, Discard
    <3> QED
      BY <1>2, <2>2, <3>1
         DEF StoppedMeansDrained, WorkerStep, Take, Recompute, RecomputeFails, Publish, Discard
  <2>3. ASSUME NEW r \in Requests, RequestStep(r)
        PROVE  pool = "stopped" /\ UNCHANGED <<jobs, worker>>
    BY <2>3 DEF RequestStep, Lookup, Register, ReadToken, Submit, Withdraw, AcquireKeyLock,
                Recheck, Compute, ComputeFails, Put
  <2>4. CASE IngestStep \/ (\E k \in Keys : Expire(k)) \/ UNCHANGED vars
    BY <1>2, <2>4 DEF StoppedMeansDrained, IngestStep, Commit, Invalidate, LoseAcknowledgement,
                      Expire, vars
  <2>5. CASE StopBegin \/ StartWorkers \/ Restart
    BY <2>5 DEF StopBegin, StartWorkers, Restart
  <2> QED
    BY <1>2, <2>1, <2>2, <2>3, <2>4, <2>5 DEF Next, LifecycleStep, StoppedMeansDrained
<1> QED
  BY <1>1, <1>2, TypeCorrect, PTL DEF Spec

\* A thread inside the `with` block holds the lock of its key.
LocksAreHeld ==
  \A r \in Requests :
    request[r].pc \in {"locked", "computing", "putting"} => keyLock[request[r].key] = r

SingleFlight == LocksAreHeld /\ ComputesOnlyWhatIsMissing

\* A step of a thread that only moves outside the block disturbs nobody inside.
LEMMA OutsideTheLock ==
  ASSUME TypeOK, SingleFlight, NEW r \in Requests, UNCHANGED keyLock,
         \A q \in Requests \ {r} : request'[q] = request[q],
         request'[r].pc \notin {"locked", "computing", "putting"},
         \A k \in Keys : items'[k] # NoItem => items'[k] = items[k]
  PROVE  SingleFlight'
BY DEF SingleFlight, LocksAreHeld, ComputesOnlyWhatIsMissing, Servable, TypeOK, RequestTypeOK,
       RequestState

\* Every step keeps a key lock with one thread.
LEMMA NextSingleFlight == TypeOK /\ SingleFlight /\ [Next]_vars => SingleFlight'
<1> SUFFICES ASSUME TypeOK, SingleFlight, [Next]_vars PROVE SingleFlight'
  OBVIOUS
<1> USE SentinelAssumption DEF data
<1>0. /\ request \in [Requests -> RequestState]
      /\ keyLock \in [Keys -> Requests \cup {NoRequest}]
      /\ items \in [Keys -> Item \cup {NoItem}]
      /\ \A r \in Requests : request[r].pc # "idle" => request[r].key \in Keys
  BY DEF TypeOK, CacheTypeOK, RequestTypeOK, RequestState
<1>1. ASSUME NEW r \in Requests, RequestStep(r) PROVE SingleFlight'
  <2>1. \A q \in Requests \ {r} : request'[q] = request[q]
    BY <1>0, <1>1
       DEF RequestStep, Lookup, Register, ReadToken, Submit, Withdraw, AcquireKeyLock,
           Recheck, Compute, ComputeFails, Put, Goto, Start, ReleaseKeyLock, Return
  <2>2. ASSUME NEW k \in Keys, Lookup(r, k) PROVE SingleFlight'
    <3>1. PICK pc \in {"stale", "missed"} : Start(r, pc, k)
      BY <2>2 DEF Lookup
    <3>2. request'[r].pc = pc
      BY <1>0, <3>1 DEF Start, Idle
    <3> QED
      BY <2>1, <2>2, <3>2, PopExpiredKeeps, OutsideTheLock DEF Lookup
  <2>3. CASE Register(r) \/ ReadToken(r) \/ Submit(r) \/ Withdraw(r)
    <3>1. /\ request'[r].pc \in {"idle", "registered", "tokened", "refused"}
          /\ UNCHANGED <<keyLock, items>>
      BY <1>0, <2>3 DEF Register, ReadToken, Submit, Withdraw, Goto, Return, Idle, RequestState
    <3> QED
      BY <2>1, <3>1, OutsideTheLock
  <2>4. CASE AcquireKeyLock(r)
    <3>1. /\ request[r].key \in Keys /\ keyLock[request[r].key] = NoRequest
          /\ request'[r].pc = "locked" /\ request'[r].key = request[r].key
          /\ items' = items
      BY <1>0, <2>4 DEF AcquireKeyLock, At, Goto, RequestState
    <3>2. \A q \in Requests \ {r} :
            request[q].pc \in {"locked", "computing", "putting"} =>
              keyLock'[request[q].key] = q
      BY <1>0, <2>4, <3>1 DEF AcquireKeyLock, SingleFlight, LocksAreHeld
    <3>3. keyLock'[request[r].key] = r
      BY <1>0, <2>4, <3>1 DEF AcquireKeyLock
    <3> QED
      BY <2>1, <3>1, <3>2, <3>3 DEF SingleFlight, LocksAreHeld, ComputesOnlyWhatIsMissing, Servable
  <2>5. CASE Compute(r)
    <3>1. /\ request[r].pc = "computing" /\ request'[r].key = request[r].key
          /\ UNCHANGED <<items, keyLock>>
      BY <1>0, <2>5 DEF Compute, At, RequestState
    <3> QED
      BY <2>1, <3>1 DEF SingleFlight, LocksAreHeld, ComputesOnlyWhatIsMissing, Servable
  <2>6. ASSUME ReleaseKeyLock(r), request[r].pc \in {"locked", "computing", "putting"},
               \A k \in Keys \ {request[r].key} : items'[k] = items[k]
        PROVE  SingleFlight'
    <3>1. request[r].key \in Keys /\ request'[r].pc = "idle"
      BY <1>0, <2>6 DEF ReleaseKeyLock, Return, Idle
    <3>2. ASSUME NEW q \in Requests \ {r}, request[q].pc \in {"locked", "computing", "putting"}
          PROVE  /\ request[q].key \in Keys \ {request[r].key}
                 /\ keyLock'[request[q].key] = q
      BY <1>0, <2>6, <3>1, <3>2 DEF ReleaseKeyLock, SingleFlight, LocksAreHeld
    <3> QED
      BY <2>1, <2>6, <3>1, <3>2 DEF SingleFlight, LocksAreHeld, ComputesOnlyWhatIsMissing, Servable
  <2>7. CASE Recheck(r)
    <3> DEFINE k == request[r].key
    <3>1. k \in Keys /\ request[r].pc = "locked"
      BY <1>0, <2>7 DEF Recheck, At
    <3>2. CASE Servable(k)
      BY <2>6, <2>7, <3>1, <3>2 DEF Recheck, FoundAgain, PopExpired
    <3>3. CASE ~Servable(k)
      <4>1. /\ UNCHANGED keyLock /\ request'[r].pc = "computing" /\ request'[r].key = k
            /\ items' = [items EXCEPT ![k] = NoItem]
        BY <1>0, <2>7, <3>3 DEF Recheck, FoundAgain, PopExpired, Goto, RequestState
      <4>2. items'[k] = NoItem /\ \A j \in Keys \ {k} : items'[j] = items[j]
        BY <1>0, <3>1, <4>1
      <4>3. LocksAreHeld'
        BY <2>1, <3>1, <4>1 DEF SingleFlight, LocksAreHeld
      <4>4. \A q \in Requests \ {r} :
              request[q].pc \in {"computing", "putting"} => request[q].key \in Keys \ {k}
        BY <1>0, <3>1 DEF SingleFlight, LocksAreHeld
      <4>5. ComputesOnlyWhatIsMissing'
        BY <2>1, <3>1, <4>1, <4>2, <4>3, <4>4
           DEF SingleFlight, LocksAreHeld, ComputesOnlyWhatIsMissing, Servable
      <4> QED
        BY <4>3, <4>5 DEF SingleFlight
    <3> QED
      BY <3>2, <3>3
  <2>8. CASE ComputeFails(r)
    BY <2>6, <2>8 DEF ComputeFails, At
  <2>9. CASE Put(r)
    BY <1>0, <2>6, <2>9 DEF Put, At
  <2> QED
    BY <1>1, <2>2, <2>3, <2>4, <2>5, <2>7, <2>8, <2>9 DEF RequestStep
<1>2. ASSUME NEW w \in Workers, WorkerStep(w) PROVE SingleFlight'
  <2>1. /\ UNCHANGED <<request, keyLock>>
        /\ \A k \in Keys : items'[k] = items[k] \/ items'[k].by = "refresh"
    BY <1>0, <1>2 DEF WorkerStep, Take, Recompute, RecomputeFails, Publish, Discard, Entry
  <2> QED
    BY <1>0, <2>1 DEF SingleFlight, LocksAreHeld, ComputesOnlyWhatIsMissing, Servable
<1>3. ASSUME NEW k \in Keys, Expire(k) PROVE SingleFlight'
  <2>1. ~Servable(k)' /\ UNCHANGED <<request, keyLock>>
    BY <1>0, <1>3 DEF Expire, Servable, Item
  <2>2. \A j \in Keys \ {k} : items'[j] = items[j]
    BY <1>0, <1>3 DEF Expire
  <2> QED
    BY <1>0, <2>1, <2>2 DEF SingleFlight, LocksAreHeld, ComputesOnlyWhatIsMissing, Servable
<1>4. CASE Restart
  BY <1>4 DEF Restart, Idle, SingleFlight, LocksAreHeld, ComputesOnlyWhatIsMissing
<1>5. CASE UNCHANGED <<request, keyLock, items>>
  BY <1>5 DEF SingleFlight, LocksAreHeld, ComputesOnlyWhatIsMissing, Servable
<1> QED
  BY <1>1, <1>2, <1>3, <1>4, <1>5
     DEF Next, vars, IngestStep, Commit, Invalidate, LoseAcknowledgement, LifecycleStep,
         StopBegin, StopEnd, StartWorkers

\* Whoever computes a response inline holds the key's lock, and whatever can be
\* served meanwhile was stored by a refresh: two misses of a key never compute
\* one after the other what the first has stored.
THEOREM ComputesOnlyWhatIsMissingHolds == Spec => []ComputesOnlyWhatIsMissing
<1>1. Init => SingleFlight
  BY DEF Init, Idle, SingleFlight, LocksAreHeld, ComputesOnlyWhatIsMissing
<1>2. SingleFlight => ComputesOnlyWhatIsMissing
  BY DEF SingleFlight
<1> QED
  BY <1>1, <1>2, NextSingleFlight, TypeCorrect, PTL DEF Spec

(***************************************************************************)
(* A key in _refreshing has exactly one owner                              *)
(***************************************************************************)

\* The three kinds of owners of k.
Scheduling(r, k) ==
  request[r].key = k /\ request[r].pc \in {"registered", "tokened", "refused"}
Queued(i, k) == jobs[i].key = k
Running(w, k) == worker[w].key = k

\* The property without cardinalities: no two owners, and one iff k is registered.
OneOwner(k) ==
  /\ \A r, q \in Requests : Scheduling(r, k) /\ Scheduling(q, k) => r = q
  /\ \A i, j \in DOMAIN jobs : Queued(i, k) /\ Queued(j, k) => i = j
  /\ \A w, v \in Workers : Running(w, k) /\ Running(v, k) => w = v
  /\ \A r \in Requests, i \in DOMAIN jobs : ~(Scheduling(r, k) /\ Queued(i, k))
  /\ \A r \in Requests, w \in Workers : ~(Scheduling(r, k) /\ Running(w, k))
  /\ \A i \in DOMAIN jobs, w \in Workers : ~(Queued(i, k) /\ Running(w, k))
  /\ k \in refreshing <=>
       \/ \E r \in Requests : Scheduling(r, k)
       \/ \E i \in DOMAIN jobs : Queued(i, k)
       \/ \E w \in Workers : Running(w, k)

OwnersInv == \A k \in Keys : OneOwner(k)

\* One owner of a refresh is a count of one.
LEMMA OwnersCounted ==
  ASSUME OwnersInv
  PROVE  RefreshingHasOneOwner
<1> SUFFICES ASSUME NEW k \in Keys
             PROVE  Cardinality(Owners(k)) = IF k \in refreshing THEN 1 ELSE 0
  BY DEF RefreshingHasOneOwner
<1>0. OneOwner(k)
  BY DEF OwnersInv
<1>1. \A o : o \in Owners(k) <=>
        \/ \E r \in Requests : o = <<"request", r>> /\ Scheduling(r, k)
        \/ \E i \in DOMAIN jobs : o = <<"job", i>> /\ Queued(i, k)
        \/ \E w \in Workers : o = <<"worker", w>> /\ Running(w, k)
  BY DEF Owners, Scheduling, Queued, Running
<1>2. CASE k \notin refreshing
  <2>1. Owners(k) = {}
    BY <1>0, <1>1, <1>2 DEF OneOwner
  <2> QED
    BY <1>2, <2>1, FS_EmptySet
<1>3. CASE k \in refreshing
  <2>1. \E o : Owners(k) = {o}
    <3>1. CASE \E r \in Requests : Scheduling(r, k)
      <4>1. PICK r \in Requests : Scheduling(r, k)
        BY <3>1
      <4>2. Owners(k) = {<<"request", r>>}
        BY <1>0, <1>1, <4>1 DEF OneOwner
      <4> QED
        BY <4>2
    <3>2. CASE \E i \in DOMAIN jobs : Queued(i, k)
      <4>1. PICK i \in DOMAIN jobs : Queued(i, k)
        BY <3>2
      <4>2. Owners(k) = {<<"job", i>>}
        BY <1>0, <1>1, <4>1 DEF OneOwner
      <4> QED
        BY <4>2
    <3>3. CASE \E w \in Workers : Running(w, k)
      <4>1. PICK w \in Workers : Running(w, k)
        BY <3>3
      <4>2. Owners(k) = {<<"worker", w>>}
        BY <1>0, <1>1, <4>1 DEF OneOwner
      <4> QED
        BY <4>2
    <3> QED
      BY <1>0, <1>3, <3>1, <3>2, <3>3 DEF OneOwner
  <2> QED
    BY <1>3, <2>1, FS_Singleton
<1> QED
  BY <1>2, <1>3

\* A step that changes no owner keeps the invariant.
LEMMA OwnersStay ==
  ASSUME OwnersInv, UNCHANGED <<refreshing, jobs>>,
         \A r \in Requests, k \in Keys : Scheduling(r, k)' <=> Scheduling(r, k),
         \A w \in Workers, k \in Keys : Running(w, k)' <=> Running(w, k)
  PROVE  OwnersInv'
<1> SUFFICES ASSUME NEW k \in Keys PROVE OneOwner(k)'
  BY DEF OwnersInv
<1>1. \A i \in DOMAIN jobs : Queued(i, k)' <=> Queued(i, k)
  BY DEF Queued
<1>2. OneOwner(k)
  BY DEF OwnersInv
<1> QED
  BY <1>1, <1>2 DEF OneOwner

\* Steps of a request thread: it becomes the owner, hands its key to a job, or
\* takes it out again.
LEMMA RequestKeepsOwners ==
  ASSUME TypeOK, OwnersInv, NEW r \in Requests, RequestStep(r)
  PROVE  OwnersInv'
<1> DEFINE key == request[r].key
<1>0. /\ request \in [Requests -> RequestState] /\ jobs \in Seq(Job)
      /\ request[r].pc # "idle" => key \in Keys
      /\ NoKey \notin Keys
  BY SentinelAssumption DEF TypeOK, CacheTypeOK, RequestTypeOK, RequestState
<1>1. UNCHANGED worker /\ \A q \in Requests \ {r} : request'[q] = request[q]
  BY <1>0
     DEF RequestStep, Lookup, Register, ReadToken, Submit, Withdraw, AcquireKeyLock,
         Recheck, Compute, ComputeFails, Put, Goto, Start, ReleaseKeyLock, Return
<1>2. \A k \in Keys : OneOwner(k)
  BY DEF OwnersInv
<1>3. \A w \in Workers, k \in Keys : Running(w, k)' <=> Running(w, k)
  BY <1>1 DEF Running
<1>4. \A q \in Requests \ {r}, k \in Keys : Scheduling(q, k)' <=> Scheduling(q, k)
  BY <1>1 DEF Scheduling
<1>5. ASSUME UNCHANGED <<refreshing, jobs>>,
             \A k \in Keys : Scheduling(r, k)' <=> Scheduling(r, k)
      PROVE  OwnersInv'
  BY <1>3, <1>4, <1>5, OwnersStay
<1>6. ASSUME Return(r)
      PROVE  \A k \in Keys : ~Scheduling(r, k)'
  BY <1>0, <1>6 DEF Return, Idle, Scheduling
<1>7. ASSUME NEW pc \in RequestPC, Goto(r, pc)
      PROVE  request'[r].key = key /\ request'[r].pc = pc
  BY <1>0, <1>7 DEF Goto, RequestState
<1>8. ASSUME NEW k \in Keys, Lookup(r, k)
      PROVE  OwnersInv'
  <2>1. PICK pc \in {"stale", "missed"} : Start(r, pc, k)
    BY <1>8 DEF Lookup
  <2>2. request'[r].pc = pc /\ request[r].pc = "idle"
    BY <1>0, <1>8, <2>1 DEF Start, Idle, Lookup, At
  <2> QED
    BY <1>5, <1>8, <2>2 DEF Lookup, Scheduling
<1>9. CASE Register(r)
  <2>1. key \in Keys /\ request[r].pc = "stale" /\ UNCHANGED jobs
    BY <1>0, <1>9 DEF Register, At
  <2>2. \A k \in Keys : ~Scheduling(r, k)
    BY <2>1 DEF Scheduling
  <2>3. CASE key \in refreshing
    BY <1>5, <1>6, <1>9, <2>1, <2>2, <2>3 DEF Register, Registered
  <2>4. CASE key \notin refreshing
    <3>1. /\ request'[r].key = key /\ request'[r].pc = "registered"
          /\ refreshing' = refreshing \cup {key}
      BY <1>7, <1>9, <2>4 DEF Register, Registered, RequestPC
    <3>2. \A k \in Keys : Scheduling(r, k)' <=> k = key
      BY <3>1 DEF Scheduling
    <3>3. \A i \in DOMAIN jobs, k \in Keys : Queued(i, k)' <=> Queued(i, k)
      BY <2>1 DEF Queued
    <3> SUFFICES ASSUME NEW k \in Keys PROVE OneOwner(k)'
      BY DEF OwnersInv
    <3> QED
      BY <1>2, <1>3, <1>4, <2>1, <2>2, <2>4, <3>1, <3>2, <3>3 DEF OneOwner
  <2> QED
    BY <2>3, <2>4
<1>10. CASE ReadToken(r)
  <2>1. /\ request[r].pc = "registered" /\ request'[r].pc = "tokened" /\ request'[r].key = key
        /\ UNCHANGED <<refreshing, jobs>>
    BY <1>0, <1>10 DEF ReadToken, At, RequestState
  <2> QED
    BY <1>5, <2>1 DEF Scheduling
<1>11. CASE Submit(r)
  <2>1. key \in Keys /\ request[r].pc = "tokened" /\ UNCHANGED refreshing
    BY <1>0, <1>11 DEF Submit, At
  <2>2. \A k \in Keys : Scheduling(r, k) <=> k = key
    BY <2>1 DEF Scheduling
  <2>3. CASE pool # "accepting"
    <3>1. Goto(r, "refused") /\ UNCHANGED <<refreshing, jobs>>
      BY <1>11, <2>3 DEF Submit
    <3>2. request'[r].key = key /\ request'[r].pc = "refused"
      BY <1>7, <3>1 DEF RequestPC
    <3> QED
      BY <1>5, <2>2, <3>1, <3>2 DEF Scheduling
  <2>4. CASE pool = "accepting"
    <3> DEFINE j == [key |-> key, token |-> request[r].token]
    <3>1. j \in Job /\ j.key = key
      BY <1>0, <2>1 DEF Job, RequestState
    <3>2. jobs' = Append(jobs, j) /\ Return(r)
      BY <1>11, <2>4 DEF Submit
    <3> HIDE DEF j
    <3>3. PICK n \in Nat :
             /\ DOMAIN jobs' = DOMAIN jobs \cup {n} /\ n \notin DOMAIN jobs
             /\ \A i \in DOMAIN jobs : jobs'[i] = jobs[i]
             /\ jobs'[n] = j
      <4>1. LET m == Len(jobs) + 1
            IN /\ m \in Nat /\ DOMAIN jobs' = DOMAIN jobs \cup {m} /\ m \notin DOMAIN jobs
               /\ \A i \in DOMAIN jobs : jobs'[i] = jobs[i]
               /\ jobs'[m] = j
        BY <1>0, <3>1, <3>2
      <4> QED
        BY <4>1
    <3>4. /\ \A i \in DOMAIN jobs, k \in Keys : Queued(i, k)' <=> Queued(i, k)
          /\ \A k \in Keys : Queued(n, k)' <=> k = key
      BY <3>1, <3>3 DEF Queued
    <3> SUFFICES ASSUME NEW k \in Keys PROVE OneOwner(k)'
      BY DEF OwnersInv
    <3>5. CASE k = key
      BY <1>2, <1>3, <1>4, <1>6, <2>1, <2>2, <3>2, <3>3, <3>4, <3>5 DEF OneOwner
    <3>6. CASE k # key
      BY <1>2, <1>3, <1>4, <1>6, <2>1, <2>2, <3>2, <3>3, <3>4, <3>6 DEF OneOwner
    <3> QED
      BY <3>5, <3>6
  <2> QED
    BY <2>3, <2>4
<1>12. CASE Withdraw(r)
  <2>1. /\ key \in Keys /\ request[r].pc = "refused" /\ UNCHANGED jobs
        /\ Return(r) /\ refreshing' = refreshing \ {key}
    BY <1>0, <1>12 DEF Withdraw, At
  <2>2. \A k \in Keys : Scheduling(r, k) <=> k = key
    BY <2>1 DEF Scheduling
  <2>3. \A i \in DOMAIN jobs, k \in Keys : Queued(i, k)' <=> Queued(i, k)
    BY <2>1 DEF Queued
  <2> SUFFICES ASSUME NEW k \in Keys PROVE OneOwner(k)'
    BY DEF OwnersInv
  <2> QED
    BY <1>2, <1>3, <1>4, <1>6, <2>1, <2>2, <2>3 DEF OneOwner
<1>13. CASE AcquireKeyLock(r) \/ Recheck(r) \/ Compute(r) \/ ComputeFails(r) \/ Put(r)
  <2>1. request[r].pc \in {"missed", "locked", "computing", "putting"} /\ UNCHANGED <<refreshing, jobs>>
    BY <1>13 DEF AcquireKeyLock, Recheck, Compute, ComputeFails, Put, At
  <2>2. request'[r].pc \in {"idle", "locked", "computing", "putting"}
    BY <1>0, <1>13
       DEF AcquireKeyLock, Recheck, Compute, ComputeFails, Put, Goto, ReleaseKeyLock, Return,
           Idle, RequestState
  <2> QED
    BY <1>5, <2>1, <2>2 DEF Scheduling
<1> QED
  BY <1>8, <1>9, <1>10, <1>11, <1>12, <1>13 DEF RequestStep

\* Steps of a worker: it takes the key over with the job, and discards it last.
LEMMA WorkerKeepsOwners ==
  ASSUME TypeOK, OwnersInv, NEW w \in Workers, WorkerStep(w)
  PROVE  OwnersInv'
<1> DEFINE key == worker[w].key
<1>0. /\ worker \in [Workers -> WorkerState] /\ jobs \in Seq(Job)
      /\ worker[w].pc = "idle" <=> key = NoKey
      /\ NoKey \notin Keys
  BY SentinelAssumption DEF TypeOK, CacheTypeOK, WorkerTypeOK
<1>1. UNCHANGED request /\ \A v \in Workers \ {w} : worker'[v] = worker[v]
  BY <1>0 DEF WorkerStep, Take, Recompute, RecomputeFails, Publish, Discard, Finish
<1>2. \A k \in Keys : OneOwner(k)
  BY DEF OwnersInv
<1>3. \A r \in Requests, k \in Keys : Scheduling(r, k)' <=> Scheduling(r, k)
  BY <1>1 DEF Scheduling
<1>4. \A v \in Workers \ {w}, k \in Keys : Running(v, k)' <=> Running(v, k)
  BY <1>1 DEF Running
<1>5. CASE Take(w)
  <2>1. /\ jobs # <<>> /\ jobs' = Tail(jobs) /\ UNCHANGED refreshing
        /\ worker[w].pc = "idle" /\ worker'[w].key = jobs[1].key
    BY <1>0, <1>5 DEF Take
  <2>2. /\ 1 \in DOMAIN jobs /\ DOMAIN jobs \subseteq Nat
        /\ \A i \in DOMAIN jobs' : i \in Nat /\ i + 1 \in DOMAIN jobs /\ jobs'[i] = jobs[i + 1]
        /\ \A i \in DOMAIN jobs \ {1} : i - 1 \in DOMAIN jobs' /\ jobs'[i - 1] = jobs[i]
        /\ \A i \in DOMAIN jobs' : i + 1 # 1
    BY <1>0, <2>1
  <2>3. /\ \A k \in Keys : ~Running(w, k)
        /\ \A k \in Keys : Running(w, k)' <=> Queued(1, k)
    BY <1>0, <2>1 DEF Running, Queued
  <2>4. /\ \A i \in DOMAIN jobs', k \in Keys : Queued(i, k)' <=> Queued(i + 1, k)
        /\ \A i \in DOMAIN jobs \ {1}, k \in Keys : Queued(i, k) <=> Queued(i - 1, k)'
    BY <2>2 DEF Queued
  <2> SUFFICES ASSUME NEW k \in Keys PROVE OneOwner(k)'
    BY DEF OwnersInv
  <2>5. \A i, j \in DOMAIN jobs' : Queued(i, k)' /\ Queued(j, k)' => i = j
    <3> TAKE i, j \in DOMAIN jobs'
    <3> HAVE Queued(i, k)' /\ Queued(j, k)'
    <3>1. i + 1 = j + 1
      BY <1>2, <2>2, <2>4 DEF OneOwner
    <3> QED
      BY <2>2, <3>1
  <2>6. /\ \A i \in DOMAIN jobs' : Queued(i, k)' => ~Queued(1, k)
        /\ \A r \in Requests, i \in DOMAIN jobs' : ~(Scheduling(r, k)' /\ Queued(i, k)')
        /\ \A i \in DOMAIN jobs', v \in Workers \ {w} : ~(Queued(i, k)' /\ Running(v, k)')
    BY <1>2, <1>3, <1>4, <2>2, <2>4 DEF OneOwner
  <2>7. (\E i \in DOMAIN jobs : Queued(i, k))
          <=> (\E i \in DOMAIN jobs' : Queued(i, k)') \/ Queued(1, k)
    BY <2>2, <2>4
  <2> QED
    BY <1>2, <1>3, <1>4, <2>1, <2>2, <2>3, <2>5, <2>6, <2>7 DEF OneOwner
<1>6. CASE Recompute(w) \/ RecomputeFails(w) \/ Publish(w)
  <2>1. worker'[w].key = key /\ UNCHANGED <<refreshing, jobs>>
    BY <1>0, <1>6 DEF Recompute, RecomputeFails, Publish, Finish, Idle, WorkerState
  <2> QED
    BY <1>3, <1>4, <2>1, OwnersStay DEF Running
<1>7. CASE Discard(w)
  <2>1. /\ key # NoKey /\ worker'[w].key = NoKey /\ UNCHANGED jobs
        /\ refreshing' = refreshing \ {key}
    BY <1>0, <1>7 DEF Discard, Idle
  <2>2. /\ \A k \in Keys : Running(w, k) <=> k = key
        /\ \A k \in Keys : ~Running(w, k)'
    BY <1>0, <2>1 DEF Running
  <2>3. \A i \in DOMAIN jobs, k \in Keys : Queued(i, k)' <=> Queued(i, k)
    BY <2>1 DEF Queued
  <2> SUFFICES ASSUME NEW k \in Keys PROVE OneOwner(k)'
    BY DEF OwnersInv
  <2> QED
    BY <1>2, <1>3, <1>4, <2>1, <2>2, <2>3 DEF OneOwner
<1> QED
  BY <1>5, <1>6, <1>7 DEF WorkerStep

\* "At most once concurrently", and no key is left behind: refused, failing and
\* successful refreshes, stops and restarts included, a key is in _refreshing
\* exactly while one thread, job or worker will take it out.
THEOREM RefreshingHasOneOwnerHolds == Spec => []RefreshingHasOneOwner
<1>1. Init => OwnersInv
  BY SentinelAssumption DEF Init, Idle, OwnersInv, OneOwner, Scheduling, Queued, Running
<1>2. ASSUME TypeOK, OwnersInv, [Next]_vars
      PROVE  OwnersInv'
  <2>1. ASSUME NEW r \in Requests, RequestStep(r) PROVE OwnersInv'
    BY <1>2, <2>1, RequestKeepsOwners
  <2>2. ASSUME NEW w \in Workers, WorkerStep(w) PROVE OwnersInv'
    BY <1>2, <2>2, WorkerKeepsOwners
  <2>3. CASE Restart
    BY <2>3, SentinelAssumption DEF Restart, Idle, OwnersInv, OneOwner, Scheduling, Queued, Running
  <2>4. CASE UNCHANGED <<request, worker, jobs, refreshing>>
    BY <1>2, <2>4, OwnersStay DEF Scheduling, Running
  <2> QED
    BY <1>2, <2>1, <2>2, <2>3, <2>4
       DEF Next, vars, IngestStep, Commit, Invalidate, LoseAcknowledgement, Expire,
           LifecycleStep, StopBegin, StopEnd, StartWorkers
<1> QED
  BY <1>1, <1>2, OwnersCounted, TypeCorrect, PTL DEF Spec

=============================================================================
