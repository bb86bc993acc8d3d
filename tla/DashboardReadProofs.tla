------------------------- MODULE DashboardReadProofs -------------------------
(***************************************************************************)
(* Theorems about the dashboard's transactions, for any repositories,      *)
(* contents, clocks and ranges, and any number of ingests.                 *)
(***************************************************************************)
EXTENDS DashboardRead, FiniteSetTheorems, TLAPS

Database == [content : Contents, committed : 0 .. MaxAttempts]
Request == [endpoint : Endpoints, repository : Repositories \cup {None},
            range : Ranges \cup {All}, now : Clock \cup {0}]

-----------------------------------------------------------------------------
(* Queries *)

\* The earliest event exists: PostgreSQL's MIN over some rows is one of them.
LEMMA MinExists ==
  ASSUME NEW S \in SUBSET Int, IsFiniteSet(S), S # {}
  PROVE  Min(S) \in S /\ \A y \in S : Min(S) <= y
<1> DEFINE HasMin(T) == \E x \in T : \A y \in T : x <= y
           Bad == {T \in SUBSET S : T # {} /\ ~HasMin(T)}
<1>1. SUFFICES HasMin(S)
  BY DEF Min
<1>2. SUFFICES ASSUME Bad # {} PROVE FALSE
  OBVIOUS
<1>3. Bad \subseteq FiniteSubsetsOf(S)
  BY FS_Subset DEF FiniteSubsetsOf
<1>4. PICK T \in Bad : \A U \in Bad : ~(<<U, T>> \in StrictSubsetOrdering(S))
  BY <1>2, <1>3, FS_StrictSubsetOrderingWellFounded, WFMin
<1>5. PICK x \in T : TRUE
  BY <1>4
<1>6. T \ {x} \notin Bad
  BY <1>3, <1>4, <1>5, FS_Subset DEF StrictSubsetOrdering, FiniteSubsetsOf
<1>7. CASE T \ {x} = {}
  <2>1. T = {x} /\ x \in Int
    BY <1>4, <1>5, <1>7
  <2> QED
    BY <1>4, <2>1
<1>8. CASE T \ {x} # {}
  <2>1. PICK m \in T \ {x} : \A y \in T \ {x} : m <= y
    BY <1>4, <1>6, <1>8
  <2>2. T \subseteq Int /\ x \in Int /\ m \in Int
    BY <1>4, <1>5, <2>1
  <2>3. CASE m <= x
    BY <1>4, <2>1, <2>2, <2>3
  <2>4. CASE ~(m <= x)
    <3>1. \A y \in T : x <= y
      BY <2>1, <2>2, <2>4
    <3> QED
      BY <1>4, <1>5, <3>1
  <2> QED
    BY <2>3, <2>4
<1> QED
  BY <1>7, <1>8

\* Finitely many events, at instants, of items that the database holds.
LEMMA EventsAreFinite ==
  ASSUME NEW d \in Database, NEW r
  PROVE  /\ IsFiniteSet(Events(d, r))
         /\ \A e \in Events(d, r) :
              /\ e.at \in Int /\ e.kind \in Kinds
              /\ e.item \in d.content.items /\ e.item.repository \in d.content.repositories
<1> DEFINE items == {i \in d.content.items : Counted(i, r)}
           done == {j \in items : j.state = "completed"}
           Opened(i) == [item |-> i, kind |-> "opened", at |-> i.created]
           Completed(i) == [item |-> i, kind |-> "completed", at |-> i.closed]
           A == {Opened(i) : i \in items}
           B == {Completed(i) : i \in done}
           f == [i \in items |-> Opened(i)]
           g == [i \in done |-> Completed(i)]
<1>1. d.content \in Contents
  BY DEF Database
<1>2. IsFiniteSet(items) /\ IsFiniteSet(done)
  <2>1. IsFiniteSet(d.content.items)
    BY <1>1, ContentsAssumption
  <2>2. items \in SUBSET d.content.items /\ done \in SUBSET d.content.items
    OBVIOUS
  <2> QED
    BY <2>1, <2>2, FS_Subset
<1>3. f \in Surjection(items, A) /\ g \in Surjection(done, B)
  BY DEF Surjection
<1>4. IsFiniteSet(A) /\ IsFiniteSet(B)
  <2> HIDE DEF items, done, A, B, f, g
  <2> QED
    BY <1>2, <1>3, FS_Surjection
<1>5. Events(d, r) = A \cup B
  BY DEF Events
<1>6. IsFiniteSet(Events(d, r))
  <2> HIDE DEF A, B
  <2> QED
    BY <1>4, <1>5, FS_Union
<1>7. \A e \in Events(d, r) :
        /\ e.at \in Int /\ e.kind \in Kinds
        /\ e.item \in d.content.items /\ e.item.repository \in d.content.repositories
  BY <1>1, <1>5, ContentsAssumption DEF Kinds
<1> QED
  BY <1>6, <1>7

\* Whatever the range, its edges are instants.
LEMMA WindowType ==
  ASSUME NEW d \in Database, NEW q \in Request
  PROVE  WindowOf(d, q.repository, q.range, q.now) \in Window
<1> DEFINE E == Events(d, q.repository)
           instants == {e.at : e \in E}
<1>1. q.now \in Int /\ q.range \in Int
  <2>1. q.now \in Clock \cup {0} /\ q.range \in Ranges \cup {All}
    BY DEF Request
  <2>2. Clock \cup {0} \subseteq Int /\ Ranges \cup {All} \subseteq Int
    BY TimeAssumption DEF All
  <2> QED
    BY <2>1, <2>2
<1>2. IsFiniteSet(E) /\ \A e \in E : e.at \in Int
  BY EventsAreFinite
<1>3. IsFiniteSet(instants) /\ instants \in SUBSET Int
  <2>1. [e \in E |-> e.at] \in Surjection(E, instants)
    BY DEF Surjection
  <2>2. instants \in SUBSET Int
    BY <1>2
  <2> HIDE DEF E, instants
  <2> QED
    BY <1>2, <2>1, <2>2, FS_Surjection
<1>4. instants # {} => Min(instants) \in Int
  BY <1>3, MinExists
<1>5. \A s, t \in Int : [start |-> s, end |-> t] \in Window
  BY DEF Window
<1>6. CASE q.range # All
  BY <1>1, <1>5, <1>6 DEF WindowOf
<1>7. CASE q.range = All
  <2>1. WindowOf(d, q.repository, q.range, q.now) =
          [start |-> IF instants = {} THEN q.now ELSE Min(instants), end |-> q.now]
    BY <1>7 DEF WindowOf
  <2> HIDE DEF instants
  <2> QED
    BY <1>1, <1>4, <1>5, <2>1
<1> QED
  BY <1>6, <1>7

\* The counts of a window are numbers, and its repositories are stored ones.
LEMMA CountsType ==
  ASSUME NEW d \in Database, NEW r, NEW w
  PROVE  /\ Totals(d, r, w) \in [Kinds -> Nat]
         /\ OpenCount(d, r, w) \in Nat
         /\ RepositoryIds(d, r, w) \subseteq Repositories
         /\ RepositoryIds(d, r, w) \subseteq d.content.repositories
         /\ IsFiniteSet({i \in d.content.items :
                           Counted(i, r) /\ i.state = "open" /\ In(i.created, w)})
         /\ \A k \in Kinds : IsFiniteSet({e \in EventsIn(d, r, w) : e.kind = k})
<1>1. d.content \in Contents
  BY DEF Database
<1>2. IsFiniteSet(d.content.items) /\ d.content.repositories \subseteq Repositories
  BY <1>1, ContentsAssumption
<1>3. \A k \in Kinds : IsFiniteSet({e \in EventsIn(d, r, w) : e.kind = k})
  <2> TAKE k \in Kinds
  <2>1. {e \in EventsIn(d, r, w) : e.kind = k} \in SUBSET Events(d, r)
    BY DEF EventsIn
  <2> QED
    BY <2>1, EventsAreFinite, FS_Subset
<1>4. IsFiniteSet({i \in d.content.items :
                     Counted(i, r) /\ i.state = "open" /\ In(i.created, w)})
  BY <1>2, FS_Subset
<1>5. RepositoryIds(d, r, w) \subseteq d.content.repositories
  BY EventsAreFinite DEF RepositoryIds, EventsIn
<1> QED
  BY <1>2, <1>3, <1>4, <1>5, FS_CardinalityType DEF Totals, OpenCount

-----------------------------------------------------------------------------
(* The four queries agree *)

AddsUp(b) ==
  /\ b.open <= b.totals["opened"]
  /\ (b.repositories = {}) <=> (\A k \in Kinds : b.totals[k] = 0)

\* Asked of one database they count the same items: an open item inside the window
\* has an event there, and so has a repository of the list.
LEMMA QueriesAgree ==
  ASSUME NEW d \in Database, NEW r, NEW w
  PROVE  /\ OpenCount(d, r, w) <= Totals(d, r, w)["opened"]
         /\ RepositoryIds(d, r, w) \cap d.content.repositories = {} <=>
              \A k \in Kinds : Totals(d, r, w)[k] = 0
<1> DEFINE open == {i \in d.content.items :
                      Counted(i, r) /\ i.state = "open" /\ In(i.created, w)}
           Of(k) == {e \in EventsIn(d, r, w) : e.kind = k}
           Opened(i) == [item |-> i, kind |-> "opened", at |-> i.created]
           f == [i \in open |-> Opened(i)]
<1>1. f \in Injection(open, Of("opened"))
  <2>1. \A i \in open : Opened(i) \in Of("opened")
    BY DEF EventsIn, Events
  <2>2. \A i, j \in open : Opened(i) = Opened(j) => i = j
    <3> TAKE i, j \in open
    <3> HAVE Opened(i) = Opened(j)
    <3>1. Opened(i).item = i /\ Opened(j).item = j
      OBVIOUS
    <3> QED
      BY <3>1
  <2> HIDE DEF open, Of, Opened
  <2> QED
    BY <2>1, <2>2 DEF Injection, IsInjective
<1>2. IsFiniteSet(Of("opened")) /\ IsFiniteSet(Of("completed"))
  BY CountsType DEF Kinds
<1>3. OpenCount(d, r, w) <= Totals(d, r, w)["opened"]
  <2>1. Cardinality(open) <= Cardinality(Of("opened"))
    <3> HIDE DEF open, Of, f
    <3> QED
      BY <1>1, <1>2, FS_Injection
  <2> QED
    BY <2>1 DEF OpenCount, Totals, Kinds
<1>4. \A k \in Kinds : Totals(d, r, w)[k] = 0 <=> Of(k) = {}
  <2> TAKE k \in Kinds
  <2>1. Totals(d, r, w)[k] = Cardinality(Of(k))
    BY DEF Totals
  <2>2. IsFiniteSet(Of(k))
    BY <1>2 DEF Kinds
  <2> HIDE DEF Of
  <2> QED
    BY <2>1, <2>2, FS_EmptySet
<1>5. EventsIn(d, r, w) = {} <=> \A k \in Kinds : Of(k) = {}
  BY EventsAreFinite DEF EventsIn
<1>6. RepositoryIds(d, r, w) \cap d.content.repositories = {} <=> EventsIn(d, r, w) = {}
  BY EventsAreFinite DEF RepositoryIds, EventsIn
<1> QED
  BY <1>3, <1>4, <1>5, <1>6

-----------------------------------------------------------------------------
(* Type correctness *)

\* What is read, asked and kept are databases, requests and bodies.
DataInv ==
  /\ db \in Database /\ snapshot \in Database \cup {None}
  /\ request \in Request
  /\ cached # None => cached \in [request : Request, body : Body]

\* Every commit is an attempt; a transaction sees no later one than there is.
StampInv ==
  /\ sync.attempt \in Nat
  /\ db.committed <= sync.attempt /\ sync.attempt <= MaxAttempts
  /\ snapshot # None => snapshot.committed <= db.committed

\* A query sees a database, in a transaction or at its start.
LEMMA VisibleType ==
  ASSUME DataInv, StampInv
  PROVE  /\ Visible \in Database /\ Visible # None /\ Visible.committed <= db.committed
         /\ Visible.committed \in Nat /\ db.committed \in Nat
<1>1. /\ db.content \in Contents /\ db.committed \in 0 .. MaxAttempts
      /\ db = [content |-> db.content, committed |-> db.committed]
  BY DEF DataInv, Database
<1>2. db # None
  BY <1>1, NoneAssumption
<1>3. db.committed \in Nat
  BY <1>1, BoundsAssumption
<1>4. CASE snapshot = None
  BY <1>2, <1>3, <1>4 DEF Visible, DataInv
<1>5. CASE snapshot # None
  <2>1. Visible = snapshot /\ snapshot \in Database
    BY <1>5 DEF Visible, DataInv
  <2>2. snapshot.committed \in Nat
    BY <2>1, BoundsAssumption DEF Database
  <2> QED
    BY <1>3, <1>5, <2>1, <2>2 DEF StampInv
<1> QED
  BY <1>4, <1>5

\* What a request holds before it has read anything.
LEMMA EmptyBodyType == EmptyBody \in Body /\ NoAnswer.body = EmptyBody
<1>1. EmptyBody.window \in Window /\ EmptyBody.totals \in [Kinds -> Nat]
  BY DEF EmptyBody, Window
<1>2. EmptyBody.open \in Nat /\ EmptyBody.repositories \in SUBSET Repositories
      /\ EmptyBody.lastIngest \in Nat
  BY DEF EmptyBody
<1> QED
  BY <1>1, <1>2 DEF EmptyBody, Body, NoAnswer

\* The tables are only changed by an ingest, which the transaction does not see.
LEMMA IngestTypes ==
  ASSUME TypeOK, DataInv, StampInv, Commit \/ FailedAttempt
  PROVE  TypeOK' /\ DataInv' /\ StampInv'
<1>1. db.committed \in Nat /\ (snapshot # None => snapshot.committed \in Nat)
  <2>1. snapshot # None => snapshot = Visible
    BY DEF Visible
  <2> QED
    BY <2>1, VisibleType
<1>2. /\ db' \in Database /\ sync'.attempt \in Nat /\ sync'.result \in {"success", "failure"}
      /\ db.committed <= db'.committed /\ db'.committed \in Nat
      /\ db'.committed <= sync'.attempt /\ sync'.attempt <= MaxAttempts
  <2>0. sync.attempt \in Nat /\ db.committed <= sync.attempt /\ MaxAttempts \in Nat
    BY BoundsAssumption DEF StampInv
  <2>1. CASE Commit
    <3>1. PICK c \in Contents : db' = [content |-> c, committed |-> sync.attempt + 1]
      BY <2>1 DEF Commit
    <3>2. sync' = [attempt |-> sync.attempt + 1, result |-> "success"] /\ sync.attempt < MaxAttempts
      BY <2>1 DEF Commit
    <3>3. db' \in Database
      BY <2>0, <3>1, <3>2 DEF Database
    <3> QED
      BY <1>1, <2>0, <3>1, <3>2, <3>3
  <2>2. CASE FailedAttempt
    <3>1. /\ sync' = [attempt |-> sync.attempt + 1, result |-> "failure"] /\ db' = db
          /\ sync.attempt < MaxAttempts
      BY <2>2 DEF FailedAttempt
    <3>2. db' \in Database
      BY <3>1 DEF DataInv
    <3> QED
      BY <1>1, <2>0, <3>1, <3>2
  <2> QED
    BY <2>1, <2>2
<1>3. UNCHANGED <<pc, request, snapshot, window, body, cached, answer>>
  BY DEF Commit, FailedAttempt
<1>4. DataInv'
  BY <1>2, <1>3 DEF DataInv
<1>5. StampInv'
  BY <1>1, <1>2, <1>3 DEF StampInv
<1>6. db'.content \in Contents /\ db'.committed \in 0 .. MaxAttempts
  BY <1>2 DEF Database
<1>7. sync'.attempt \in 0 .. MaxAttempts
  BY <1>2, <1>6, BoundsAssumption
<1> QED
  BY <1>2, <1>3, <1>4, <1>5, <1>6, <1>7 DEF TypeOK

\* A request begins with nothing seen.
LEMMA BeginTypes ==
  ASSUME TypeOK, DataInv, StampInv,
         BeginCached \/ \E endpoint \in Endpoints, repository \in Repositories \cup {None},
                           range \in Ranges \cup {All}, now \in Clock :
                          Begin(endpoint, repository, range, now)
  PROVE  TypeOK' /\ DataInv' /\ StampInv'
<1>1. /\ UNCHANGED <<world, snapshot, cached>>
      /\ pc = "idle" /\ pc' \in {"window", "validate", "overlay"}
      /\ answer' = NoAnswer /\ window' = EmptyBody.window
  BY DEF Begin, BeginCached
<1>2. request' \in Request /\ body' \in Body
  <2>1. CASE BeginCached
    BY <2>1 DEF BeginCached, DataInv
  <2>2. CASE \E endpoint \in Endpoints, repository \in Repositories \cup {None},
               range \in Ranges \cup {All}, now \in Clock :
              Begin(endpoint, repository, range, now)
    BY <2>2, EmptyBodyType DEF Begin, Request
  <2> QED
    BY <2>1, <2>2
<1>3. DataInv' /\ StampInv'
  BY <1>1, <1>2 DEF DataInv, StampInv, world
<1>4. /\ request'.endpoint \in Endpoints /\ request'.repository \in Repositories \cup {None}
  BY <1>2 DEF Request
<1>5. window' \in Window
  BY <1>1, EmptyBodyType DEF Body
<1>6. answer'.status = "none" /\ answer'.body \in Body
  BY <1>1, EmptyBodyType DEF NoAnswer
<1> QED
  BY <1>1, <1>2, <1>3, <1>4, <1>5, <1>6 DEF TypeOK, Steps, world

Queries ==
  \/ ValidateRepository \/ BuildWindow \/ EventRows \/ SummaryOpenCounts
  \/ EventRepositoryIds \/ RepositoryRows

Ends == NotFound \/ NoOptions \/ OptionRows \/ LastIngest \/ Overlay \/ Fail

\* A query adds a part to the body, and the transaction has a snapshot.
LEMMA QueryTypes ==
  ASSUME TypeOK, DataInv, StampInv, Queries
  PROVE  TypeOK' /\ DataInv' /\ StampInv'
<1>1. UNCHANGED <<world, request, cached, answer>>
  BY DEF Queries, ValidateRepository, BuildWindow, EventRows, SummaryOpenCounts,
     EventRepositoryIds, RepositoryRows, Query
<1>2. pc' \in Steps \ {"idle", "overlay"} /\ snapshot' \in {snapshot, Visible}
  BY DEF Queries, ValidateRepository, BuildWindow, EventRows, SummaryOpenCounts,
     EventRepositoryIds, RepositoryRows, Query, Steps
<1>3. DataInv' /\ StampInv'
  BY <1>1, <1>2, VisibleType DEF DataInv, StampInv, world
<1>4. window' \in Window
  <2>1. CASE BuildWindow
    BY <2>1, VisibleType, WindowType DEF BuildWindow, DataInv
  <2>2. CASE ~BuildWindow
    BY <2>2 DEF Queries, ValidateRepository, EventRows, SummaryOpenCounts, EventRepositoryIds,
       RepositoryRows, TypeOK
  <2> QED
    BY <2>1, <2>2
<1>5. body' \in Body
  <2>1. body \in Body /\ window \in Window
    BY DEF TypeOK
  <2>2. CASE ValidateRepository \/ BuildWindow
    BY <2>1, <2>2 DEF ValidateRepository, BuildWindow
  <2>3. CASE EventRows
    <3>1. Totals(Visible, request.repository, window) \in [Kinds -> Nat]
      BY VisibleType, CountsType
    <3> QED
      BY <2>1, <2>3, <3>1 DEF EventRows, Body
  <2>4. CASE SummaryOpenCounts
    <3>1. OpenCount(Visible, request.repository, window) \in Nat
      BY VisibleType, CountsType
    <3> QED
      BY <2>1, <2>4, <3>1 DEF SummaryOpenCounts, Body
  <2>5. CASE EventRepositoryIds
    <3>1. Ids \in SUBSET Repositories
      BY VisibleType, CountsType DEF Ids
    <3> QED
      BY <2>1, <2>5, <3>1 DEF EventRepositoryIds, Body
  <2>6. CASE RepositoryRows
    <3>1. body.repositories \cap Visible.content.repositories \in SUBSET Repositories
      BY <2>1 DEF Body
    <3> QED
      BY <2>1, <2>6, <3>1 DEF RepositoryRows, Body
  <2> QED
    BY <2>2, <2>3, <2>4, <2>5, <2>6 DEF Queries
<1> QED
  BY <1>1, <1>2, <1>3, <1>4, <1>5 DEF TypeOK, world

\* However a transaction ends, it ends.
LEMMA EndTypes ==
  ASSUME TypeOK, DataInv, StampInv, Ends
  PROVE  TypeOK' /\ DataInv' /\ StampInv'
<1>1. UNCHANGED <<world, request, window>> /\ pc' \in {"idle", "overlay"}
  BY DEF Ends, NotFound, NoOptions, OptionRows, Reply, LastIngest, Overlay, Fail
<1>2. snapshot' = None
  <2>1. CASE Overlay
    BY <2>1 DEF Overlay, TypeOK
  <2>2. CASE ~Overlay
    BY <2>2 DEF Ends, NotFound, NoOptions, OptionRows, Reply, LastIngest, Fail, EndTransaction
  <2> QED
    BY <2>1, <2>2
<1>3. /\ body' \in Body /\ answer'.body \in Body
      /\ answer'.status \in {"none", "200", "404", "500"}
      /\ cached' # None => cached' = cached \/ cached' = [request |-> request, body |-> body']
  <2>1. body \in Body /\ answer.body \in Body /\ answer.status \in {"none", "200", "404", "500"}
    BY DEF TypeOK
  <2>2. CASE NotFound \/ Fail
    BY <2>1, <2>2, EmptyBodyType DEF NotFound, Fail, NoAnswer
  <2>3. ASSUME NEW list \in SUBSET Repositories, Reply(list)
        PROVE  body' \in Body /\ answer'.body = body' /\ answer'.status = "200" /\ cached' = cached
    <3>1. body' \in Body
      BY <2>3, EmptyBodyType DEF Reply, Body
    <3> QED
      BY <2>3, <3>1 DEF Reply, NoAnswer
  <2>4. CASE NoOptions \/ OptionRows
    <3>1. body.repositories \cap Visible.content.repositories \in SUBSET Repositories
      BY <2>1 DEF Body
    <3> QED
      BY <2>3, <2>4, <3>1 DEF NoOptions, OptionRows
  <2>5. CASE LastIngest
    <3>1. Visible.committed \in Nat
      BY VisibleType
    <3> QED
      BY <2>1, <2>5, <3>1 DEF LastIngest, Body
  <2>6. CASE Overlay
    BY <2>1, <2>6 DEF Overlay
  <2> QED
    BY <2>2, <2>4, <2>5, <2>6 DEF Ends
<1>4. cached' # None => cached' \in [request : Request, body : Body]
  BY <1>3 DEF DataInv
<1>5. DataInv' /\ StampInv'
  BY <1>1, <1>2, <1>4 DEF DataInv, StampInv, world
<1>6. cached' = None \/ cached' \in [request : {cached'.request}, body : Body]
  BY <1>4
<1> QED
  BY <1>1, <1>2, <1>3, <1>5, <1>6 DEF TypeOK, Steps, world

\* The types, and what they rest on, hold of every state.
LEMMA TypesHold == Spec => [](TypeOK /\ DataInv /\ StampInv)
<1>1. Init => TypeOK /\ DataInv /\ StampInv
  <2> SUFFICES ASSUME Init PROVE TypeOK /\ DataInv /\ StampInv
    OBVIOUS
  <2>1. PICK c \in Contents : db = [content |-> c, committed |-> 0]
    BY DEF Init
  <2>2. db \in Database /\ db.content \in Contents /\ db.committed = 0
    BY <2>1, BoundsAssumption DEF Database
  <2>3. request \in Request
    BY DEF Init, Request, Endpoints, All
  <2>4. body \in Body /\ answer.body \in Body /\ answer.status = "none" /\ window \in Window
    BY EmptyBodyType DEF Init, NoAnswer, Window
  <2>5. DataInv /\ StampInv
    BY <2>2, <2>3, BoundsAssumption DEF Init, DataInv, StampInv
  <2> QED
    BY <2>2, <2>4, <2>5, BoundsAssumption DEF Init, TypeOK, Steps, Endpoints
<1>2. TypeOK /\ DataInv /\ StampInv /\ [Next]_vars => (TypeOK /\ DataInv /\ StampInv)'
  <2> SUFFICES ASSUME TypeOK, DataInv, StampInv, [Next]_vars
               PROVE  (TypeOK /\ DataInv /\ StampInv)'
    OBVIOUS
  <2>1. CASE UNCHANGED vars
    BY <2>1 DEF vars, TypeOK, DataInv, StampInv
  <2> QED
    BY <2>1, IngestTypes, BeginTypes, QueryTypes, EndTypes DEF Next, Queries, Ends
<1> QED
  BY <1>1, <1>2, PTL DEF Spec

\* The state is well formed, and outside a request no transaction is open.
THEOREM TypeCorrect == Spec => []TypeOK
BY TypesHold, PTL

-----------------------------------------------------------------------------
(* One snapshot *)

\* What a request has seen was current since it began.
SeenInv ==
  pc # "idle" => /\ db \in seen.dbs /\ sync \in seen.syncs
                 /\ snapshot # None => snapshot \in seen.dbs

\* The window, and each part of the body that there is, answer for the one
\* database that the transaction has seen.
WindowInv ==
  /\ pc \in {"events", "open", "ids", "names", "last"} =>
       /\ window = WindowOf(Visible, request.repository, request.range, request.now)
       /\ request.range = All => snapshot # None
  /\ pc \in {"open", "names", "last"} => snapshot # None
  /\ pc = "ids" /\ request.endpoint = "dashboard" => snapshot # None
  /\ pc \in {"events", "open", "last"} => request.endpoint = "dashboard"

PartsInv ==
  /\ request.endpoint = "dashboard" =>
       /\ pc \in {"open", "ids", "names", "last"} =>
            /\ body.window = window
            /\ body.totals = Totals(snapshot, request.repository, window)
       /\ pc \in {"ids", "names", "last"} =>
            body.open = OpenCount(snapshot, request.repository, window)
  /\ pc = "names" => body.repositories = RepositoryIds(snapshot, request.repository, window)
  /\ pc = "last" => body.repositories = RepositoryIds(snapshot, request.repository, window)
                                          \cap snapshot.content.repositories

\* A body that is complete, in the cache or before the overlay, adds up, and is
\* of an ingest that has been.
Complete(b) == AddsUp(b) /\ b.lastIngest <= db.committed
ServedInv ==
  /\ cached # None => Complete(cached.body)
  /\ pc = "overlay" => Complete(body)

ReadInv == SeenInv /\ WindowInv /\ PartsInv /\ ServedInv
Types == TypeOK /\ DataInv /\ StampInv

\* A window that is not "all" asks no database.
LEMMA FixedWindows ==
  ASSUME NEW d, NEW e, NEW r, NEW range, NEW now, range # All
  PROVE  WindowOf(d, r, range, now) = WindowOf(e, r, range, now)
BY DEF WindowOf

\* An ingest changes what a later transaction sees, and nothing of this one.
LEMMA IngestKeeps ==
  ASSUME Types, ReadInv, Commit \/ FailedAttempt
  PROVE  ReadInv'
<1>1. UNCHANGED <<pc, request, snapshot, window, body, cached, answer>> /\ seen' = Current
  BY DEF Commit, FailedAttempt
<1>2. db.committed \in Nat /\ db'.committed \in Nat /\ db.committed <= db'.committed
  <2>1. db.committed \in Nat
    BY VisibleType DEF Types
  <2> QED
    BY <2>1 DEF Commit, FailedAttempt, Types, StampInv
<1>3. SeenInv'
  BY <1>1 DEF ReadInv, SeenInv, Current
<1>4. WindowInv'
  <2>1. CASE snapshot # None
    <3>1. Visible' = Visible
      BY <1>1, <2>1 DEF Visible
    <3> QED
      BY <1>1, <3>1 DEF ReadInv, WindowInv
  <2>2. CASE snapshot = None
    <3>1. pc \in {"events", "open", "ids", "names", "last"} => request.range # All
      BY <2>2 DEF ReadInv, WindowInv
    <3> QED
      BY <1>1, <2>2, <3>1, FixedWindows DEF ReadInv, WindowInv
  <2> QED
    BY <2>1, <2>2
<1>5. PartsInv'
  BY <1>1 DEF ReadInv, PartsInv
<1>6. ServedInv'
  <2>1. ASSUME NEW b \in Body, b.lastIngest <= db.committed
        PROVE  b.lastIngest <= db'.committed
    <3>1. b.lastIngest \in Nat
      BY DEF Body
    <3> QED
      BY <1>2, <2>1, <3>1
  <2>2. body \in Body /\ (cached # None => cached.body \in Body)
    BY DEF Types, TypeOK, DataInv
  <2> QED
    BY <1>1, <2>1, <2>2 DEF ReadInv, ServedInv, Complete
<1> QED
  BY <1>3, <1>4, <1>5, <1>6 DEF ReadInv

\* A request begins with the world as it is; a cached body is complete already.
LEMMA BeginKeeps ==
  ASSUME Types, ReadInv,
         BeginCached \/ \E endpoint \in Endpoints, repository \in Repositories \cup {None},
                           range \in Ranges \cup {All}, now \in Clock :
                          Begin(endpoint, repository, range, now)
  PROVE  ReadInv'
<1>1. /\ UNCHANGED <<db, sync, snapshot, cached>> /\ seen' = [dbs |-> {db}, syncs |-> {sync}]
      /\ pc = "idle" /\ pc' \in {"window", "validate", "overlay"}
      /\ pc' = "overlay" => cached # None /\ body' = cached.body
  BY DEF Begin, BeginCached, world
<1>2. snapshot = None
  BY <1>1 DEF Types, TypeOK
<1>3. SeenInv' /\ WindowInv' /\ PartsInv'
  BY <1>1, <1>2 DEF SeenInv, WindowInv, PartsInv
<1>4. ServedInv'
  BY <1>1 DEF ReadInv, ServedInv, Complete
<1> QED
  BY <1>3, <1>4 DEF ReadInv

\* Each query adds its part, asked of what the transaction has seen.
LEMMA QueryKeeps ==
  ASSUME Types, ReadInv, Queries
  PROVE  ReadInv'
<1>1. /\ UNCHANGED <<db, sync, request, cached, answer, seen>>
      /\ pc # "idle" /\ pc' \notin {"idle", "overlay"}
  BY DEF Queries, ValidateRepository, BuildWindow, EventRows, SummaryOpenCounts,
     EventRepositoryIds, RepositoryRows, Query, world
<1>2. Visible # None /\ snapshot' \in {snapshot, Visible} /\ (snapshot # None => snapshot' = snapshot)
  BY VisibleType DEF Queries, ValidateRepository, BuildWindow, EventRows, SummaryOpenCounts,
     EventRepositoryIds, RepositoryRows, Query, Visible, Types
<1>3. Visible' = Visible
  BY <1>1, <1>2 DEF Visible
<1>4. Visible \in seen.dbs
  BY <1>1 DEF Visible, ReadInv, SeenInv
<1>5. SeenInv'
  BY <1>1, <1>2, <1>4 DEF ReadInv, SeenInv
<1>6. ServedInv'
  BY <1>1 DEF ReadInv, ServedInv, Complete
<1>7. request.endpoint \in {"dashboard", "repositories"} /\ body \in Body
  BY DEF Types, TypeOK, Endpoints
<1>8. WindowInv' /\ PartsInv'
  <2>1. CASE ValidateRepository
    BY <2>1 DEF ValidateRepository, Query, WindowInv, PartsInv
  <2>2. CASE BuildWindow
    <3>1. /\ pc' = IF request.endpoint = "dashboard" THEN "events" ELSE "ids"
          /\ window' = WindowOf(Visible, request.repository, request.range, request.now)
          /\ request.range = All => snapshot' = Visible
      BY <2>2 DEF BuildWindow
    <3>2. WindowInv'
      BY <1>1, <1>2, <1>3, <3>1 DEF WindowInv
    <3> QED
      BY <1>1, <3>1, <3>2 DEF PartsInv
  <2>3. CASE EventRows
    <3>1. /\ pc = "events" /\ pc' = "open" /\ snapshot' = Visible /\ window' = window
          /\ body' = [body EXCEPT !.window = window,
                                  !.totals = Totals(Visible, request.repository, window)]
      BY <2>3 DEF EventRows, Query
    <3>2. WindowInv'
      BY <1>1, <1>2, <1>3, <3>1 DEF ReadInv, WindowInv
    <3>3. body'.window = window /\ body'.totals = Totals(Visible, request.repository, window)
      BY <1>7, <3>1 DEF Body
    <3> QED
      BY <1>1, <3>1, <3>2, <3>3 DEF PartsInv
  <2>4. CASE SummaryOpenCounts
    <3>1. /\ pc = "open" /\ pc' = "ids" /\ snapshot' = Visible /\ window' = window
          /\ body' = [body EXCEPT !.open = OpenCount(Visible, request.repository, window)]
      BY <2>4 DEF SummaryOpenCounts, Query
    <3>2. snapshot' = snapshot
      BY <1>2, <3>1 DEF ReadInv, WindowInv
    <3>3. WindowInv'
      BY <1>1, <1>2, <1>3, <3>1 DEF ReadInv, WindowInv
    <3>4. /\ body'.open = OpenCount(Visible, request.repository, window)
          /\ body'.window = body.window /\ body'.totals = body.totals
      BY <1>7, <3>1 DEF Body
    <3> QED
      BY <1>1, <3>1, <3>2, <3>3, <3>4 DEF ReadInv, PartsInv
  <2>5. CASE EventRepositoryIds
    <3>1. /\ pc = "ids" /\ pc' = "names" /\ snapshot' = Visible /\ window' = window
          /\ body' = [body EXCEPT !.repositories = Ids]
      BY <2>5 DEF EventRepositoryIds, Query
    <3>2. request.endpoint = "dashboard" => snapshot' = snapshot
      BY <1>2, <3>1 DEF ReadInv, WindowInv
    <3>3. WindowInv'
      BY <1>1, <1>2, <1>3, <3>1 DEF ReadInv, WindowInv
    <3>4. /\ body'.repositories = RepositoryIds(Visible, request.repository, window)
          /\ body'.window = body.window /\ body'.totals = body.totals /\ body'.open = body.open
      BY <1>7, <3>1 DEF Body, Ids
    <3> QED
      BY <1>1, <3>1, <3>2, <3>3, <3>4 DEF ReadInv, PartsInv
  <2>6. CASE RepositoryRows
    <3>1. /\ pc = "names" /\ pc' = "last" /\ snapshot' = Visible /\ window' = window
          /\ request.endpoint # "repositories"
          /\ body' = [body EXCEPT !.repositories = @ \cap Visible.content.repositories]
      BY <2>6 DEF RepositoryRows, Query, ListsRepositories
    <3>2. snapshot' = snapshot
      BY <1>2, <3>1 DEF ReadInv, WindowInv
    <3>3. WindowInv'
      BY <1>1, <1>2, <1>3, <1>7, <3>1 DEF ReadInv, WindowInv
    <3>4. /\ body'.repositories = body.repositories \cap Visible.content.repositories
          /\ body'.window = body.window /\ body'.totals = body.totals /\ body'.open = body.open
      BY <1>7, <3>1 DEF Body
    <3> QED
      BY <1>1, <3>1, <3>2, <3>3, <3>4 DEF ReadInv, PartsInv
  <2> QED
    BY <2>1, <2>2, <2>3, <2>4, <2>5, <2>6 DEF Queries
<1> QED
  BY <1>5, <1>6, <1>8 DEF ReadInv

\* The body that the last query completes is that of one database.
LEMMA BodyIsComplete ==
  ASSUME Types, ReadInv, LastIngest
  PROVE  /\ snapshot \in Database /\ snapshot \in seen.dbs
         /\ body' = BodyOf(snapshot, request)
         /\ Complete(body')
<1>1. /\ pc = "last" /\ body' = [body EXCEPT !.lastIngest = Visible.committed]
  BY DEF LastIngest
<1>2. /\ snapshot # None /\ Visible = snapshot /\ request.endpoint = "dashboard"
      /\ snapshot \in seen.dbs
      /\ window = WindowOf(snapshot, request.repository, request.range, request.now)
  BY <1>1 DEF ReadInv, WindowInv, SeenInv, Visible
<1>3. snapshot \in Database /\ snapshot.committed <= db.committed
  BY <1>2 DEF Types, DataInv, StampInv
<1>4. /\ body.window = window
      /\ body.totals = Totals(snapshot, request.repository, window)
      /\ body.open = OpenCount(snapshot, request.repository, window)
      /\ body.repositories = RepositoryIds(snapshot, request.repository, window)
                               \cap snapshot.content.repositories
  BY <1>1, <1>2 DEF ReadInv, PartsInv
<1>5. body' = [window |-> body.window, totals |-> body.totals, open |-> body.open,
               repositories |-> body.repositories, lastIngest |-> snapshot.committed]
  <2>1. body \in Body
    BY DEF Types, TypeOK
  <2> QED
    BY <1>1, <1>2, <2>1 DEF Body
<1>6. body' = BodyOf(snapshot, request)
  BY <1>2, <1>4, <1>5 DEF BodyOf
<1>7. AddsUp(body')
  BY <1>3, <1>4, <1>5, QueriesAgree DEF AddsUp
<1> QED
  BY <1>2, <1>3, <1>5, <1>6, <1>7 DEF Complete

\* Only the last query completes a body, and the cache keeps that one.
LEMMA EndKeeps ==
  ASSUME Types, ReadInv, Ends
  PROVE  ReadInv'
<1>1. UNCHANGED <<db, sync, seen>> /\ pc' \in {"idle", "overlay"}
  BY DEF Ends, NotFound, NoOptions, OptionRows, Reply, LastIngest, Overlay, Fail, world
<1>2. CASE LastIngest
  <2>1. /\ cached' = [request |-> request, body |-> body'] /\ snapshot' = None /\ pc' = "overlay"
        /\ pc = "last"
    BY <1>2 DEF LastIngest, EndTransaction
  <2>2. Complete(body')
    BY <1>2, BodyIsComplete
  <2>3. SeenInv'
    BY <1>1, <2>1 DEF ReadInv, SeenInv
  <2>4. WindowInv' /\ PartsInv'
    BY <2>1 DEF WindowInv, PartsInv
  <2>5. ServedInv'
    BY <1>1, <2>1, <2>2 DEF ServedInv, Complete
  <2> QED
    BY <2>3, <2>4, <2>5 DEF ReadInv
<1>3. CASE ~LastIngest
  <2>1. pc' = "idle" /\ cached' = cached
    BY <1>3 DEF Ends, NotFound, NoOptions, OptionRows, Reply, Overlay, Fail
  <2> QED
    BY <1>1, <2>1 DEF ReadInv, SeenInv, WindowInv, PartsInv, ServedInv, Complete
<1> QED
  BY <1>2, <1>3

\* The inductive invariant of the read model.
LEMMA ReadInvHolds == Spec => [](Types /\ ReadInv)
<1>1. Init => ReadInv
  BY DEF Init, ReadInv, SeenInv, WindowInv, PartsInv, ServedInv
<1>2. Types /\ ReadInv /\ [Next]_vars => ReadInv'
  <2> SUFFICES ASSUME Types, ReadInv, [Next]_vars PROVE ReadInv'
    OBVIOUS
  <2>1. CASE UNCHANGED vars
    <3>1. Visible' = Visible /\ SeenInv'
      BY <2>1 DEF vars, Visible, ReadInv, SeenInv
    <3> QED
      BY <2>1, <3>1 DEF vars, ReadInv, WindowInv, PartsInv, ServedInv, Complete
  <2> QED
    BY <2>1, IngestKeeps, BeginKeeps, QueryKeeps, EndKeeps DEF Next, Queries, Ends
<1> QED
  BY <1>1, <1>2, TypesHold, PTL DEF Spec, Types

-----------------------------------------------------------------------------
(* What the reader is told *)

\* A body, or a list of repositories, is the answer of a single database, and of
\* one that was current while the request ran.
THEOREM AnswerIsOneSnapshotHolds == Spec => AnswerIsOneSnapshot
<1> DEFINE Whole ==
      /\ LastIngest => \E d \in seen.dbs : body' = BodyOf(d, request)
      /\ NoOptions \/ OptionRows =>
           \E d \in seen.dbs : body'.repositories = BodyOf(d, request).repositories
<1>1. ASSUME Types, ReadInv PROVE Whole
  <2>1. LastIngest => \E d \in seen.dbs : body' = BodyOf(d, request)
    BY <1>1, BodyIsComplete
  <2>2. ASSUME NoOptions \/ OptionRows
        PROVE  \E d \in seen.dbs : body'.repositories = BodyOf(d, request).repositories
    <3>1. pc \in {"ids", "names"}
      BY <2>2 DEF NoOptions, OptionRows
    <3>2. /\ Visible \in seen.dbs
          /\ window = WindowOf(Visible, request.repository, request.range, request.now)
      BY <1>1, <3>1 DEF ReadInv, SeenInv, WindowInv, Visible
    <3>3. BodyOf(Visible, request).repositories =
            RepositoryIds(Visible, request.repository, window) \cap Visible.content.repositories
      BY <3>2 DEF BodyOf
    <3>4. CASE NoOptions
      <4>1. body'.repositories = {} /\ Ids = {}
        BY <3>4 DEF NoOptions, Reply, EmptyBody
      <4> QED
        BY <3>2, <3>3, <4>1 DEF Ids
    <3>5. CASE OptionRows
      <4>1. /\ pc = "names"
            /\ body'.repositories = body.repositories \cap Visible.content.repositories
        BY <3>5 DEF OptionRows, Reply, EmptyBody
      <4>2. /\ snapshot # None /\ Visible = snapshot
            /\ body.repositories = RepositoryIds(Visible, request.repository, window)
        BY <1>1, <4>1 DEF ReadInv, WindowInv, PartsInv, Visible
      <4> QED
        BY <3>2, <3>3, <4>1, <4>2
    <3> QED
      BY <2>2, <3>4, <3>5
  <2> QED
    BY <2>1, <2>2
<1> QED
  BY <1>1, ReadInvHolds, PTL DEF AnswerIsOneSnapshot

\* The summary of a dashboard never contradicts its panels, from the cache or not.
THEOREM SummaryAddsUpHolds == Spec => []SummaryAddsUp
<1>1. Init => SummaryAddsUp
  BY DEF Init, NoAnswer, SummaryAddsUp
<1>2. Types /\ ReadInv /\ SummaryAddsUp /\ [Next]_vars => SummaryAddsUp'
  <2> SUFFICES ASSUME Types, ReadInv, SummaryAddsUp, [Next]_vars PROVE SummaryAddsUp'
    OBVIOUS
  <2>1. CASE Commit \/ FailedAttempt \/ Queries \/ LastIngest \/ UNCHANGED vars
    <3>1. UNCHANGED <<answer, request>>
      BY <2>1 DEF Commit, FailedAttempt, Queries, ValidateRepository, BuildWindow, EventRows,
         SummaryOpenCounts, EventRepositoryIds, RepositoryRows, Query, LastIngest, vars
    <3> QED
      BY <3>1 DEF SummaryAddsUp
  <2>2. CASE BeginCached \/ \E endpoint \in Endpoints, repository \in Repositories \cup {None},
                              range \in Ranges \cup {All}, now \in Clock :
                             Begin(endpoint, repository, range, now)
    <3>1. answer'.status = "none"
      BY <2>2 DEF Begin, BeginCached, NoAnswer
    <3> QED
      BY <3>1 DEF SummaryAddsUp
  <2>3. CASE NotFound \/ Fail
    <3>1. answer'.status # "200"
      BY <2>3 DEF NotFound, Fail, NoAnswer
    <3> QED
      BY <3>1 DEF SummaryAddsUp
  <2>4. CASE NoOptions \/ OptionRows
    <3>1. request'.endpoint # "dashboard"
      BY <2>4 DEF NoOptions, OptionRows, Reply, ListsRepositories
    <3> QED
      BY <3>1 DEF SummaryAddsUp
  <2>5. CASE Overlay
    <3>1. pc = "overlay" /\ answer'.body = body
      BY <2>5 DEF Overlay
    <3>2. AddsUp(answer'.body)
      BY <3>1 DEF ReadInv, ServedInv, Complete
    <3> QED
      BY <3>2 DEF SummaryAddsUp, AddsUp
  <2> QED
    BY <2>1, <2>2, <2>3, <2>4, <2>5 DEF Next, Queries
<1> QED
  BY <1>1, <1>2, ReadInvHolds, PTL DEF Spec

\* The status next to a body of any age is one of this request, and not older than
\* the ingest that the body shows.
THEOREM StatusIsCurrentHolds == Spec => []StatusIsCurrent
<1>1. Init => StatusIsCurrent
  BY DEF Init, NoAnswer, StatusIsCurrent
<1>2. Types /\ ReadInv /\ StatusIsCurrent /\ [Next]_vars => StatusIsCurrent'
  <2> SUFFICES ASSUME Types, ReadInv, StatusIsCurrent, [Next]_vars PROVE StatusIsCurrent'
    OBVIOUS
  <2>1. CASE Commit \/ FailedAttempt \/ UNCHANGED vars
    <3>1. UNCHANGED <<pc, answer, request>> /\ (pc = "idle" => seen' = seen)
      BY <2>1 DEF Commit, FailedAttempt, Current, vars
    <3> QED
      BY <3>1 DEF StatusIsCurrent
  <2>2. CASE Queries \/ LastIngest \/ BeginCached
             \/ \E endpoint \in Endpoints, repository \in Repositories \cup {None},
                   range \in Ranges \cup {All}, now \in Clock :
                  Begin(endpoint, repository, range, now)
    <3>1. pc' # "idle"
      BY <2>2 DEF Queries, ValidateRepository, BuildWindow, EventRows, SummaryOpenCounts,
         EventRepositoryIds, RepositoryRows, Query, LastIngest, BeginCached, Begin
    <3> QED
      BY <3>1 DEF StatusIsCurrent
  <2>3. CASE NotFound \/ Fail
    <3>1. answer'.status # "200"
      BY <2>3 DEF NotFound, Fail, NoAnswer
    <3> QED
      BY <3>1 DEF StatusIsCurrent
  <2>4. CASE NoOptions \/ OptionRows
    <3>1. request'.endpoint # "dashboard"
      BY <2>4 DEF NoOptions, OptionRows, Reply, ListsRepositories
    <3> QED
      BY <3>1 DEF StatusIsCurrent
  <2>5. CASE Overlay
    <3>1. pc = "overlay" /\ answer' = [status |-> "200", body |-> body, sync |-> sync]
          /\ seen' = seen
      BY <2>5 DEF Overlay, StatusNow
    <3>2. sync \in seen.syncs /\ body.lastIngest <= db.committed /\ db.committed <= sync.attempt
      BY <3>1 DEF Types, ReadInv, SeenInv, ServedInv, Complete, StampInv
    <3>3. body.lastIngest \in Nat /\ db.committed \in Nat /\ sync.attempt \in Nat
      BY VisibleType DEF Types, TypeOK, Body, StampInv
    <3>4. sync.attempt >= body.lastIngest
      BY <3>2, <3>3
    <3> QED
      BY <3>1, <3>2, <3>4 DEF StatusIsCurrent
  <2> QED
    BY <2>1, <2>2, <2>3, <2>4, <2>5 DEF Next, Queries
<1> QED
  BY <1>1, <1>2, ReadInvHolds, PTL DEF Spec

=============================================================================
