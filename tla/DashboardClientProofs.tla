------------------------ MODULE DashboardClientProofs ------------------------
(***************************************************************************)
(* Theorems about the browser side of the dashboard, for any selections,   *)
(* any queue limit and any number of ingests and changes of selection.     *)
(***************************************************************************)
EXTENDS DashboardClient, TLAPS

-----------------------------------------------------------------------------
(* Type correctness *)

\* abortCurrent changes nothing of a request but its status.
LEMMA AbortKeepsRequests ==
  ASSUME TypeOK
  PROVE  /\ Aborted \subseteq Request
         /\ \A a \in Aborted : \E q \in pending :
              /\ a.id = q.id /\ a.selection = q.selection
              /\ a.version = q.version /\ a.fresh = q.fresh
BY DEF TypeOK, Aborted, Request

\* What the page holds before any answer.
LEMMA NoDataType == NoData \in DataType
BY InitialAssumption, BoundsAssumption DEF NoData, DataType, Versions

\* The request a load sends, and what it leaves of the data.
LEMMA LoadTypes ==
  ASSUME TypeOK, NEW s \in Selections, NEW retain \in BOOLEAN, NEW fresh \in BOOLEAN,
         Load(s, retain, fresh), committed' = committed
  PROVE  /\ active' \in Selections
         /\ data' \in DataType
         /\ requestId' \in Nat
         /\ pending' \subseteq Request
         /\ \A q \in pending' : q.version <= committed' /\ q.id <= requestId'
         /\ shown' \in Shown
         /\ reclicked' \in BOOLEAN
<1> DEFINE new == [id |-> requestId + 1, selection |-> s, retain |-> retain,
                   fresh |-> fresh, status |-> "sent", version |-> 0]
<1>1. new \in Request /\ new.id = requestId + 1 /\ new.version = 0
  BY BoundsAssumption DEF TypeOK, Request, Versions
<1>2. pending' = Aborted \cup {new} /\ requestId' = requestId + 1
  BY DEF Load
<1>3. \A a \in Aborted : a.version <= committed /\ a.id <= requestId + 1
  BY AbortKeepsRequests DEF TypeOK, Request
<1>4. pending' \subseteq Request
  BY <1>1, <1>2, AbortKeepsRequests
<1>5. \A q \in pending' : q.version <= committed' /\ q.id <= requestId'
  BY <1>1, <1>2, <1>3, BoundsAssumption DEF TypeOK, Versions
<1>6. Retained(s, retain) \in DataType
  BY NoDataType DEF TypeOK, Retained
<1>7. active' \in Selections /\ data' \in DataType /\ shown' \in Shown /\ requestId' \in Nat
  BY <1>6 DEF TypeOK, Load, Shown, Phase
<1>8. reclicked' \in BOOLEAN
  BY DEF Load
<1> QED
  BY <1>4, <1>5, <1>7, <1>8

\* Events are queued up to the limit.
LEMMA OfferTypes ==
  ASSUME TypeOK, NEW event \in {"ingest_done", "ingest_failed"}, Offer(event)
  PROVE  /\ queue' \in Seq({"ingest_done", "ingest_failed"})
         /\ Len(queue') <= QueueLimit
         /\ owed' \in Versions
<1>1. CASE queue' = queue
  BY <1>1 DEF TypeOK, Offer
<1>2. CASE queue' = Append(queue, event) /\ ~Full
  BY <1>2, LimitAssumption DEF TypeOK, Offer, Full
<1> QED
  BY <1>1, <1>2 DEF Offer

\* No handler leaves the queue over its limit, an answer of a version that is
\* not committed, or a request with an id that is not given out.
THEOREM TypeCorrect == Spec => []TypeOK
<1>1. Init => TypeOK
  <2> SUFFICES ASSUME Init PROVE TypeOK
    OBVIOUS
  <2>1. data \in DataType /\ shown \in Shown
    BY NoDataType DEF Init, Shown, Phase
  <2>2. unannounced \in BOOLEAN /\ effectDue \in BOOLEAN /\ disposed \in BOOLEAN /\ reclicked \in BOOLEAN
    BY DEF Init
  <2>3. queue \in Seq({"ingest_done", "ingest_failed"}) /\ Len(queue) <= QueueLimit
    BY LimitAssumption DEF Init
  <2>4. /\ committed \in Versions /\ failures \in 0 .. MaxFailures /\ selects \in 0 .. MaxSelects
        /\ stream \in {"connected", "reconnecting", "closed"} /\ owed \in Versions
        /\ wanted \in Selections /\ active \in Selections /\ requestId \in Nat
    BY InitialAssumption, BoundsAssumption DEF Init, Versions
  <2>5. pending = {}
    BY DEF Init
  <2> QED
    BY <2>1, <2>2, <2>3, <2>4, <2>5 DEF TypeOK
<1>2. TypeOK /\ [Next]_vars => TypeOK'
  <2> SUFFICES ASSUME TypeOK, [Next]_vars PROVE TypeOK'
    OBVIOUS
  <2> USE DEF server, broker, client
  <2>1. CASE Commit
    BY <2>1, BoundsAssumption DEF TypeOK, Commit, Versions, DataType, Request, Shown
  <2>2. CASE AnnounceCommit
    BY <2>2, OfferTypes DEF TypeOK, AnnounceCommit
  <2>3. CASE AnnounceFailure
    <3>1. unannounced' \in BOOLEAN
      BY <2>3 DEF AnnounceFailure
    <3>2. failures' \in 0 .. MaxFailures
      BY <2>3, BoundsAssumption DEF TypeOK, AnnounceFailure
    <3> QED
      BY <2>3, <3>1, <3>2, OfferTypes DEF TypeOK, AnnounceFailure
  <2>4. CASE Crash \/ Connect \/ Refuse \/ Disconnect
    <3>1. unannounced' \in BOOLEAN
      BY <2>4 DEF TypeOK, Crash, Connect, Refuse, Disconnect
    <3>2. /\ stream' \in {"connected", "reconnecting", "closed"}
          /\ queue' \in Seq({"ingest_done", "ingest_failed"}) /\ Len(queue') <= QueueLimit
          /\ owed' \in Versions
      <4>1. CASE Crash \/ Disconnect
        <5>1. queue' = <<>> /\ owed' = 0 /\ stream' \in {stream, "reconnecting"}
          BY <4>1 DEF Crash, Disconnect, Unsubscribe
        <5> QED
          BY <5>1, LimitAssumption, BoundsAssumption DEF TypeOK, Versions
      <4>2. CASE Connect \/ Refuse
        BY <4>2 DEF TypeOK, Connect, Refuse
      <4> QED
        BY <2>4, <4>1, <4>2
    <3> QED
      BY <2>4, <3>1, <3>2 DEF TypeOK, Crash, Connect, Refuse, Disconnect
  <2>5. CASE HandleEvent
    <3>1. queue' \in Seq({"ingest_done", "ingest_failed"}) /\ Len(queue') <= QueueLimit
      BY <2>5, LimitAssumption DEF TypeOK, HandleEvent
    <3> QED
      BY <2>5, <3>1, LoadTypes DEF TypeOK, HandleEvent, Refetch
  <2>6. ASSUME NEW q \in pending, Answer(q) PROVE TypeOK'
    <3>1. PICK v \in Versions : /\ v <= committed
                                /\ pending' = (pending \ {q}) \cup
                                     {[q EXCEPT !.status = "answered", !.version = v]}
      <4>1. 0 .. committed \subseteq {v \in Versions : v <= committed} /\ committed <= committed
        BY BoundsAssumption DEF TypeOK, Versions
      <4>2. \E v \in 0 .. committed \cup {committed} :
              pending' = (pending \ {q}) \cup {[q EXCEPT !.status = "answered", !.version = v]}
        BY <2>6 DEF Answer
      <4> QED
        BY <4>1, <4>2 DEF TypeOK
    <3>2. /\ [q EXCEPT !.status = "answered", !.version = v] \in Request
          /\ [q EXCEPT !.status = "answered", !.version = v].version = v
          /\ [q EXCEPT !.status = "answered", !.version = v].id = q.id
      BY DEF TypeOK, Request
    <3> QED
      BY <2>6, <3>1, <3>2 DEF TypeOK, Answer
  <2>7. ASSUME NEW q \in pending, Fail(q) PROVE TypeOK'
    BY <2>7 DEF TypeOK, Fail, Request
  <2>8. ASSUME NEW q \in pending, Resolve(q) PROVE TypeOK'
    <3>1. Data(q.selection, q.version) \in DataType
      BY DEF TypeOK, Request, Data, DataType
    <3>2. data' \in DataType /\ shown' \in Shown
      BY <2>8, <3>1 DEF TypeOK, Resolve, Shown, Phase
    <3> QED
      BY <2>8, <3>2 DEF TypeOK, Resolve
  <2>9. ASSUME NEW q \in pending, Reject(q) PROVE TypeOK'
    <3>1. Retained(q.selection, q.retain) \in DataType
      BY NoDataType DEF TypeOK, Retained
    <3>2. data' \in DataType /\ shown' \in Shown
      BY <2>9, <3>1 DEF TypeOK, Reject, Shown, Phase
    <3> QED
      BY <2>9, <3>2 DEF TypeOK, Reject
  <2>10. CASE Dispose
    BY <2>10, AbortKeepsRequests, LimitAssumption, BoundsAssumption
    DEF TypeOK, Dispose, Unsubscribe, Versions, Request
  <2>11. ASSUME NEW s \in Selections, Select(s) PROVE TypeOK'
    BY <2>11, InitialAssumption, BoundsAssumption
    DEF TypeOK, Select, NoData, DataType, Versions, Shown, Phase
  <2>12. CASE Effect
    BY <2>12, LoadTypes DEF TypeOK, Effect
  <2>13. CASE UNCHANGED vars
    BY <2>13 DEF TypeOK, vars
  <2> QED
    BY <2>1, <2>2, <2>3, <2>4, <2>5, <2>6, <2>7, <2>8, <2>9, <2>10, <2>11, <2>12, <2>13
    DEF Next, Settle
<1> QED
  BY <1>1, <1>2, PTL DEF Spec

-----------------------------------------------------------------------------
(* The request that counts *)

Current(q) == q \in pending /\ q.id = requestId

\* Ids are given out once, and the latest request is for what is active and
\* has not been aborted.
RequestInv ==
  /\ \A q, r \in pending : q.id = r.id => q = r
  /\ \A q \in pending : Current(q) => q.selection = active /\ q.status # "aborted"

\* The selection and the coordinator agree, unless the effect is still to run.
SelectionInv ==
  /\ requestId = 0 => pending = {} /\ effectDue
  /\ stream = "connected" => requestId # 0
  /\ ~disposed /\ requestId # 0 => (effectDue <=> active # wanted)

\* What is on the screen is the coordinator's data, and nothing newer than it
\* is committed.
DataInv ==
  /\ data.version <= committed
  /\ data.present => data.selection = active /\ requestId # 0
  /\ shown.data.present => shown.data = data

\* The latest request brings nothing older than the data it will replace: it
\* passes the cache, or there is no data to replace.
FreshInv ==
  \A q \in pending : Current(q) /\ data.present =>
    /\ q.fresh
    /\ q.status = "answered" => q.version >= data.version

ClientInv == RequestInv /\ SelectionInv /\ DataInv /\ FreshInv

\* After a load its request is the one that counts.
LEMMA LoadSendsTheLatest ==
  ASSUME TypeOK, RequestInv, NEW s \in Selections, NEW fresh \in BOOLEAN, Load(s, TRUE, fresh)
  PROVE  /\ RequestInv'
         /\ requestId' # 0
         /\ \E q \in pending' : Current(q)'
         /\ \A q \in pending' : Current(q)' => q.status = "sent" /\ (q.fresh <=> fresh)
<1> DEFINE new == [id |-> requestId + 1, selection |-> s, retain |-> TRUE,
                   fresh |-> fresh, status |-> "sent", version |-> 0]
<1>1. /\ pending' = Aborted \cup {new} /\ requestId' = requestId + 1 /\ active' = s
      /\ requestId \in Nat
  BY DEF Load, TypeOK
<1>2. new.id = requestId + 1 /\ new.selection = s /\ new.status = "sent" /\ (new.fresh <=> fresh)
  OBVIOUS
<1>3. \A a \in Aborted : a.id \in Nat /\ a.id <= requestId
  BY AbortKeepsRequests DEF TypeOK, Request
<1>4. \A a, b \in Aborted : a.id = b.id => a = b
  BY DEF RequestInv, Aborted, TypeOK, Request
<1> HIDE DEF new
<1>5. \A q \in pending' : Current(q)' <=> q = new
  BY <1>1, <1>2, <1>3 DEF Current
<1>6. \A q, r \in pending' : q.id = r.id => q = r
  BY <1>1, <1>2, <1>3, <1>4
<1>7. RequestInv'
  BY <1>1, <1>2, <1>5, <1>6 DEF RequestInv
<1> QED
  BY <1>1, <1>2, <1>5, <1>7

\* A refetch keeps the data, and so the screen, of the active selection.
LEMMA RefetchInv ==
  ASSUME TypeOK, ClientInv, HandleEvent
  PROVE  /\ ClientInv'
         /\ data' = data \/ data' = NoData
         /\ \E q \in pending' : Current(q)'
<1>1. /\ Load(active, TRUE, TRUE)
      /\ UNCHANGED <<committed, stream, wanted, effectDue, disposed>>
      /\ ~disposed /\ requestId # 0
  BY DEF HandleEvent, Refetch, server, ClientInv, SelectionInv
<1>2. active \in Selections /\ TRUE \in BOOLEAN
  BY DEF TypeOK
<1>3. /\ RequestInv' /\ requestId' # 0
      /\ \E q \in pending' : Current(q)'
      /\ \A q \in pending' : Current(q)' => q.status = "sent" /\ q.fresh
  BY <1>1, <1>2, LoadSendsTheLatest DEF ClientInv
<1>4. /\ active' = active /\ shown'.data = data'
      /\ data' = data \/ data' = NoData
  BY <1>1 DEF Load, Retained
<1>5. SelectionInv'
  BY <1>1, <1>3, <1>4 DEF ClientInv, SelectionInv
<1>6. DataInv'
  BY <1>1, <1>3, <1>4 DEF TypeOK, ClientInv, DataInv, NoData, Versions
<1>7. FreshInv'
  BY <1>3 DEF FreshInv
<1> QED
  BY <1>3, <1>4, <1>5, <1>6, <1>7 DEF ClientInv

\* The effect of a changed selection finds no data of the new one.
LEMMA EffectInv ==
  ASSUME TypeOK, ClientInv, Effect
  PROVE  /\ ClientInv'
         /\ data' = NoData /\ shown'.data = NoData
         /\ \E q \in pending' : Current(q)'
<1>1. /\ Load(wanted, TRUE, FALSE)
      /\ UNCHANGED <<committed, stream, wanted, disposed>>
      /\ ~disposed /\ effectDue /\ ~effectDue'
  BY DEF Effect, server, broker
<1>2. wanted \in Selections /\ FALSE \in BOOLEAN
  BY DEF TypeOK
<1>3. /\ RequestInv' /\ requestId' # 0
      /\ \E q \in pending' : Current(q)'
  BY <1>1, <1>2, LoadSendsTheLatest DEF ClientInv
<1>4. ~(data.present /\ data.selection = wanted)
  BY <1>1 DEF ClientInv, SelectionInv, DataInv
<1>5. active' = wanted /\ data' = NoData /\ shown'.data = data'
  BY <1>1, <1>4 DEF Load, Retained
<1>6. SelectionInv'
  BY <1>1, <1>3, <1>5 DEF SelectionInv
<1>7. DataInv' /\ FreshInv'
  BY <1>1, <1>5, BoundsAssumption DEF TypeOK, DataInv, FreshInv, NoData, Versions
<1> QED
  BY <1>3, <1>5, <1>6, <1>7 DEF ClientInv

\* The server's answer or failure reaches one request.
LEMMA OutcomeOfOne ==
  ASSUME TypeOK, NEW q \in pending, Answer(q) \/ Fail(q)
  PROVE  \E a : /\ pending' = (pending \ {q}) \cup {a}
                /\ a.id = q.id /\ a.selection = q.selection /\ a.fresh = q.fresh
                /\ a.status \in {"answered", "failed"}
                /\ a.status = "answered" /\ q.fresh => a.version = committed
<1>1. CASE Answer(q)
  <2>1. PICK v \in IF ~q.fresh THEN 0 .. committed ELSE {committed} :
          pending' = (pending \ {q}) \cup {[q EXCEPT !.status = "answered", !.version = v]}
    BY <1>1 DEF Answer
  <2> DEFINE a == [q EXCEPT !.status = "answered", !.version = v]
  <2>2. /\ a.id = q.id /\ a.selection = q.selection /\ a.fresh = q.fresh
        /\ a.status = "answered" /\ a.version = v
    BY DEF TypeOK, Request
  <2>3. q.fresh => v = committed
    OBVIOUS
  <2> HIDE DEF a
  <2> QED
    BY <2>1, <2>2, <2>3 DEF a
<1>2. CASE Fail(q)
  <2> DEFINE a == [q EXCEPT !.status = "failed"]
  <2>1. /\ a.id = q.id /\ a.selection = q.selection /\ a.fresh = q.fresh
        /\ a.status = "failed"
    BY DEF TypeOK, Request
  <2>2. pending' = (pending \ {q}) \cup {a}
    BY <1>2 DEF Fail
  <2> HIDE DEF a
  <2> QED
    BY <2>1, <2>2
<1> QED
  BY <1>1, <1>2

\* An answer or a failure leaves the screen and the latest request in place.
LEMMA AnswerInv ==
  ASSUME TypeOK, ClientInv, NEW q \in pending, Answer(q) \/ Fail(q)
  PROVE  /\ ClientInv'
         /\ (\E r \in pending : Current(r)) => \E r \in pending' : Current(r)'
<1>1. PICK a : /\ pending' = (pending \ {q}) \cup {a}
               /\ a.id = q.id /\ a.selection = q.selection /\ a.fresh = q.fresh
               /\ a.status \in {"answered", "failed"}
               /\ a.status = "answered" /\ q.fresh => a.version = committed
  BY OutcomeOfOne
<1>2. UNCHANGED <<committed, stream, wanted, effectDue, active, data, requestId, shown, disposed>>
  BY DEF Answer, Fail, server, broker
<1>3. RequestInv'
  BY <1>1, <1>2 DEF ClientInv, RequestInv, Current
<1>4. SelectionInv'
  BY <1>1, <1>2 DEF ClientInv, SelectionInv
<1>5. DataInv'
  BY <1>2 DEF ClientInv, DataInv
<1>6. FreshInv'
  BY <1>1, <1>2 DEF ClientInv, FreshInv, DataInv, Current
<1>7. (\E r \in pending : Current(r)) => \E r \in pending' : Current(r)'
  BY <1>1, <1>2 DEF Current
<1> QED
  BY <1>3, <1>4, <1>5, <1>6, <1>7 DEF ClientInv

\* A handler of the page takes the answer of the latest request, if it is not
\* older than the data, or keeps what there is, or shows nothing.
LEMMA HandlerInv ==
  ASSUME TypeOK, ClientInv, NEW q \in pending, Resolve(q) \/ Reject(q)
  PROVE  /\ ClientInv'
         /\ \/ UNCHANGED shown
            \/ shown'.data.present /\ data.present => shown'.data.version >= data.version
<1>1. /\ pending' = pending \ {q}
      /\ UNCHANGED <<committed, stream, wanted, effectDue, active, requestId, disposed>>
  BY DEF Resolve, Reject, server, broker
<1>2. RequestInv' /\ SelectionInv'
  BY <1>1 DEF ClientInv, RequestInv, SelectionInv, Current
<1>3. CASE UNCHANGED <<data, shown>>
  BY <1>1, <1>2, <1>3 DEF ClientInv, DataInv, FreshInv, Current
<1>4. CASE Resolve(q) /\ IsCurrent(q)
  <2>1. /\ data' = Data(q.selection, q.version) /\ shown'.data = data' /\ q.status = "answered"
        /\ Current(q) /\ active = q.selection
    BY <1>4 DEF Resolve, IsCurrent, Current
  <2>2. data'.present /\ data'.version = q.version /\ data'.selection = q.selection
    BY <2>1 DEF Data
  <2>3. data.present => q.version >= data.version
    BY <2>1 DEF ClientInv, FreshInv
  <2>4. DataInv'
    BY <1>1, <2>1, <2>2 DEF ClientInv, DataInv, SelectionInv, TypeOK
  <2>5. FreshInv'
    BY <1>1, <2>1 DEF ClientInv, FreshInv, RequestInv, Current
  <2> QED
    BY <1>2, <2>1, <2>2, <2>3, <2>4, <2>5 DEF ClientInv
<1>5. CASE Reject(q) /\ Reported(q)
  <2>1. shown'.data = data' /\ (data' = data \/ data' = NoData)
    BY <1>5 DEF Reject, Retained
  <2>2. DataInv'
    BY <1>1, <2>1, BoundsAssumption DEF ClientInv, DataInv, NoData, TypeOK, Versions
  <2>3. FreshInv'
    BY <1>1, <2>1 DEF ClientInv, FreshInv, NoData, Current
  <2> QED
    BY <1>2, <2>1, <2>2, <2>3 DEF ClientInv, NoData, TypeOK, DataType, Versions
<1> QED
  BY <1>3, <1>4, <1>5 DEF Resolve, Reject

\* Closing the page makes every request an old one.
LEMMA DisposeInv ==
  ASSUME TypeOK, ClientInv, Dispose
  PROVE  ClientInv'
<1>1. /\ disposed' /\ requestId' = requestId + 1 /\ requestId \in Nat /\ pending' = Aborted
      /\ stream' # "connected"
      /\ UNCHANGED <<committed, wanted, effectDue, active, data, shown>>
  BY DEF Dispose, Unsubscribe, TypeOK, server
<1>2. /\ \A a \in Aborted : a.id \in Nat /\ a.id <= requestId
      /\ \A a, b \in Aborted : a.id = b.id => a = b
  <2>1. \A a, b \in Aborted : a.id = b.id => a = b
    BY DEF ClientInv, RequestInv, Aborted, TypeOK, Request
  <2> QED
    BY <2>1, AbortKeepsRequests DEF TypeOK, Request
<1>3. \A q \in pending' : ~Current(q)'
  BY <1>1, <1>2 DEF Current
<1> QED
  BY <1>1, <1>2, <1>3 DEF ClientInv, RequestInv, SelectionInv, DataInv, FreshInv

\* A click takes the data off the screen and leaves the coordinator.
LEMMA SelectInv ==
  ASSUME TypeOK, ClientInv, NEW s \in Selections, Select(s)
  PROVE  ClientInv'
<1>1. /\ ~disposed /\ ~effectDue /\ wanted' = s /\ (effectDue' <=> s # wanted) /\ shown'.data = NoData
      /\ UNCHANGED <<committed, stream, active, data, requestId, pending, disposed>>
  BY DEF Select, server
<1>2. RequestInv' /\ FreshInv'
  BY <1>1 DEF ClientInv, RequestInv, FreshInv, Current
<1>3. requestId # 0 /\ active = wanted
  BY <1>1 DEF ClientInv, SelectionInv
<1>4. SelectionInv'
  BY <1>1, <1>3 DEF SelectionInv
<1>5. DataInv'
  BY <1>1 DEF ClientInv, DataInv, NoData
<1> QED
  BY <1>2, <1>4, <1>5 DEF ClientInv

\* Steps of the server and of the stream.
LEMMA StreamInv ==
  ASSUME TypeOK, ClientInv,
         \/ Commit \/ AnnounceCommit \/ AnnounceFailure \/ Crash
         \/ Connect \/ Refuse \/ Disconnect
  PROVE  ClientInv' /\ UNCHANGED <<client, wanted, effectDue, disposed>>
<1>1. /\ UNCHANGED <<active, data, requestId, pending, shown, reclicked, wanted, effectDue, disposed>>
      /\ stream' = "connected" => requestId # 0
  BY DEF ClientInv, SelectionInv, Commit, AnnounceCommit, AnnounceFailure, Crash, Connect,
         Refuse, Disconnect, Offer, Unsubscribe, server, broker, client
<1>2. committed' \in Nat /\ committed' >= committed /\ committed \in Nat
  BY DEF TypeOK, Versions, Commit, AnnounceCommit, AnnounceFailure, Crash, Connect,
         Refuse, Disconnect, server
<1>3. RequestInv' /\ SelectionInv' /\ FreshInv'
  BY <1>1 DEF ClientInv, RequestInv, SelectionInv, FreshInv, Current
<1>4. DataInv'
  BY <1>1, <1>2 DEF ClientInv, DataInv, TypeOK, DataType, Versions
<1> QED
  BY <1>1, <1>3, <1>4 DEF ClientInv, client

\* Every handler and effect of the page keeps the relation of its state to the requests.
LEMMA NextClientInv == TypeOK /\ ClientInv /\ [Next]_vars => ClientInv'
<1> SUFFICES ASSUME TypeOK, ClientInv, [Next]_vars PROVE ClientInv'
  OBVIOUS
<1>1. CASE UNCHANGED vars
  BY <1>1 DEF vars, ClientInv, RequestInv, SelectionInv, DataInv, FreshInv, Current
<1>2. ASSUME NEW q \in pending, Settle(q) PROVE ClientInv'
  BY <1>2, AnswerInv, HandlerInv DEF Settle
<1> QED
  BY <1>1, <1>2, StreamInv, RefetchInv, SelectInv, EffectInv, DisposeInv DEF Next

\* The inductive invariant of the page.
LEMMA ClientInvHolds == Spec => [](TypeOK /\ ClientInv)
<1>1. Init => ClientInv
  BY DEF Init, ClientInv, RequestInv, SelectionInv, DataInv, FreshInv, Current, NoData
<1> QED
  BY <1>1, TypeCorrect, NextClientInv, PTL DEF Spec

-----------------------------------------------------------------------------
(* What the reader of the page sees *)

\* A spinner is never orphaned: whatever arrives late, is aborted or comes
\* between a selection and its effect, "loading" and "refreshing" have a request
\* that will end them, or are about to have one; unless the active range was
\* clicked while nothing was under way.
THEOREM LoadingIsUnderWayHolds == Spec => []LoadingIsUnderWay
<1>1. Init => LoadingIsUnderWay
  BY DEF Init, LoadingIsUnderWay
<1>2. TypeOK /\ ClientInv /\ LoadingIsUnderWay /\ [Next]_vars => LoadingIsUnderWay'
  <2> SUFFICES ASSUME TypeOK, ClientInv, LoadingIsUnderWay, [Next]_vars
               PROVE  LoadingIsUnderWay'
    OBVIOUS
  <2> USE DEF LoadingIsUnderWay, InFlight, Current
  <2>1. CASE \/ Commit \/ AnnounceCommit \/ AnnounceFailure \/ Crash
             \/ Connect \/ Refuse \/ Disconnect
    BY <2>1, StreamInv DEF client
  <2>2. CASE HandleEvent \/ Effect
    BY <2>2, RefetchInv, EffectInv
  <2>3. ASSUME NEW q \in pending, Answer(q) \/ Fail(q) PROVE LoadingIsUnderWay'
    BY <2>3, AnswerInv DEF Answer, Fail
  <2>4. ASSUME NEW q \in pending, Resolve(q) \/ Reject(q) PROVE LoadingIsUnderWay'
    <3>1. /\ pending' = pending \ {q}
          /\ UNCHANGED <<effectDue, requestId, reclicked, disposed>>
      BY <2>4 DEF Resolve, Reject, server, broker
    <3>2. CASE Current(q) /\ ~disposed
      <4>1. IsCurrent(q) /\ q.status # "aborted"
        BY <3>2 DEF ClientInv, RequestInv, IsCurrent
      <4>2. shown'.phase \in {"ready", "stale", "error"}
        BY <2>4, <4>1 DEF Resolve, Reject, Reported
      <4> QED
        BY <4>2
    <3>3. CASE ~Current(q) /\ ~disposed
      <4>1. UNCHANGED shown
        BY <2>4, <3>3 DEF Resolve, Reject, Reported, IsCurrent
      <4> QED
        BY <3>1, <3>3, <4>1
    <3>4. CASE disposed
      BY <3>1, <3>4
    <3> QED
      BY <3>2, <3>3, <3>4
  <2>5. ASSUME NEW s \in Selections, Select(s) PROVE LoadingIsUnderWay'
    BY <2>5 DEF Select
  <2>6. CASE Dispose
    BY <2>6 DEF Dispose
  <2>7. CASE UNCHANGED vars
    BY <2>7 DEF vars
  <2> QED
    BY <2>1, <2>2, <2>3, <2>4, <2>5, <2>6, <2>7 DEF Next, Settle
<1> QED
  BY <1>1, <1>2, ClientInvHolds, PTL DEF Spec

\* Data on the screen is only ever replaced by data at least as new, in whatever
\* order requests are answered and their handlers run.
THEOREM NeverGoesBackHolds == Spec => NeverGoesBack
<1> DEFINE Newer == Visible /\ Visible' /\ wanted' = wanted =>
                      shown'.data.version >= shown.data.version
<1>1. TypeOK /\ ClientInv /\ [Next]_vars => Newer
  <2> SUFFICES ASSUME TypeOK, ClientInv, [Next]_vars, Visible, Visible', wanted' = wanted
               PROVE  shown'.data.version >= shown.data.version
    OBVIOUS
  <2>1. /\ shown.data = data /\ data.present /\ data.version \in Nat
        /\ shown.data.version >= shown.data.version
    BY DEF Visible, ClientInv, DataInv, TypeOK, DataType, Versions
  <2>2. CASE UNCHANGED shown
    BY <2>1, <2>2
  <2>3. CASE HandleEvent
    <3>1. ClientInv' /\ (data' = data \/ data' = NoData)
      BY <2>3, RefetchInv
    <3> QED
      BY <2>1, <3>1 DEF Visible, ClientInv, DataInv, NoData
  <2>4. CASE Effect
    BY <2>4, EffectInv DEF Visible, NoData
  <2>5. ASSUME NEW q \in pending, Resolve(q) \/ Reject(q)
        PROVE  shown'.data.version >= shown.data.version
    BY <2>1, <2>5, HandlerInv DEF Visible
  <2>6. ASSUME NEW q \in pending, Answer(q) \/ Fail(q)
        PROVE  UNCHANGED shown
    BY <2>6 DEF Answer, Fail
  <2>7. ASSUME NEW s \in Selections, Select(s) PROVE FALSE
    BY <2>7 DEF Select, Visible, NoData
  <2>8. CASE Dispose \/ UNCHANGED vars
    BY <2>2, <2>8 DEF Dispose, vars
  <2>9. CASE \/ Commit \/ AnnounceCommit \/ AnnounceFailure \/ Crash
             \/ Connect \/ Refuse \/ Disconnect
    BY <2>2, <2>9, StreamInv DEF client
  <2> QED
    BY <2>2, <2>3, <2>4, <2>5, <2>6, <2>7, <2>8, <2>9 DEF Next, Settle
<1> QED
  BY <1>1, ClientInvHolds, PTL DEF Spec, NeverGoesBack

-----------------------------------------------------------------------------
(* What an event owes is under way until it is shown *)

\* Something is owed only to a page that listens and has loaded its selection,
\* and never more than was committed.
ListensInv ==
  /\ stream = "connected" => ~disposed
  /\ owed > 0 => stream = "connected" /\ ~effectDue
  /\ owed <= committed

\* A phase in which nothing happens has no request that counts.
SettledInv ==
  ~disposed /\ shown.phase \in {"ready", "stale", "error"} =>
    \A q \in pending : ~Current(q)

\* Whoever clicked on a page at rest finds it at rest, until something is loaded.
ReclickedInv == ~disposed /\ reclicked => ~InFlight

\* The request will show what is owed, or that it could not be fetched.
Brings(q) ==
  \/ q.status = "sent" /\ q.fresh
  \/ q.status = "answered" /\ q.version >= owed
  \/ q.status = "failed"

\* Whatever was owed is on the screen, or known to be missing; or an event waits
\* that will have it fetched past the cache; or the request that counts brings it;
\* or the active range was clicked while none was under way.
OwedIsUnderWay ==
  owed > 0 =>
    \/ Visible /\ shown.data.version >= owed
    \/ shown.phase \in {"stale", "error"}
    \/ queue # <<>>
    \/ \E q \in pending : Current(q) /\ Brings(q)
    \/ reclicked

OwedInv == ListensInv /\ SettledInv /\ ReclickedInv /\ OwedIsUnderWay

\* Every step: only events make something owed, and whoever stops listening forgets it.
LEMMA NextListens == TypeOK /\ ListensInv /\ [Next]_vars => ListensInv'
<1> SUFFICES ASSUME TypeOK, ListensInv, [Next]_vars PROVE ListensInv'
  OBVIOUS
<1> USE DEF ListensInv
<1>0. owed \in Nat /\ committed \in Nat
  BY DEF TypeOK, Versions
<1>1. CASE AnnounceCommit \/ AnnounceFailure
  BY <1>0, <1>1 DEF AnnounceCommit, AnnounceFailure, Offer
<1>2. CASE Disconnect \/ Crash \/ Dispose
  BY <1>0, <1>2 DEF Disconnect, Crash, Dispose, Unsubscribe, server
<1>3. CASE Connect \/ Refuse
  BY <1>0, <1>3 DEF Connect, Refuse, server
<1>4. CASE Effect
  BY <1>4 DEF Effect, broker, server
<1>5. ASSUME NEW s \in Selections, Select(s) PROVE ListensInv'
  <2>1. CASE s = wanted
    BY <1>5, <2>1 DEF Select, server
  <2>2. CASE s # wanted
    BY <1>0, <1>5, <2>2 DEF Select, server
  <2> QED
    BY <2>1, <2>2
<1>6. CASE Commit
  BY <1>0, <1>6 DEF Commit, broker
<1>7. CASE UNCHANGED <<committed, stream, owed, effectDue, disposed>>
  BY <1>7
<1> QED
  BY <1>1, <1>2, <1>3, <1>4, <1>5, <1>6, <1>7
     DEF Next, Settle, HandleEvent, Answer, Fail, Resolve, Reject, broker, server, vars

\* The handlers of the request that counts put an end to the spinner; those of
\* any other leave the screen alone.
LEMMA HandledEnds ==
  ASSUME TypeOK, ClientInv, NEW q \in pending, Resolve(q) \/ Reject(q), ~disposed
  PROVE  /\ pending' = pending \ {q} /\ UNCHANGED <<broker, wanted, effectDue, requestId, reclicked, disposed>>
         /\ Current(q) => \/ /\ q.status = "answered" /\ q.selection = active
                             /\ shown' = [phase |-> "ready", data |-> Data(q.selection, q.version)]
                          \/ shown'.phase \in {"stale", "error"}
         /\ ~Current(q) => UNCHANGED shown
<1>1. pending' = pending \ {q} /\ UNCHANGED <<broker, wanted, effectDue, requestId, reclicked, disposed>>
  BY DEF Resolve, Reject
<1>2. Current(q) => IsCurrent(q) /\ q.status # "aborted" /\ q.selection = active
  BY DEF ClientInv, RequestInv, IsCurrent, Current
<1>3. ~Current(q) => ~IsCurrent(q)
  BY DEF IsCurrent, Current
<1>4. CASE Resolve(q)
  BY <1>1, <1>2, <1>3, <1>4 DEF Resolve
<1>5. CASE Reject(q)
  <2>1. Current(q) => shown'.phase \in {"stale", "error"}
    BY <1>2, <1>5 DEF Reject, Reported
  <2>2. ~Current(q) => UNCHANGED shown
    BY <1>3, <1>5 DEF Reject, Reported
  <2> QED
    BY <1>1, <2>1, <2>2
<1> QED
  BY <1>4, <1>5

\* A load shows a spinner.
LEMMA LoadSpins ==
  ASSUME NEW s, NEW retain, NEW fresh, Load(s, retain, fresh)
  PROVE  shown'.phase \in {"loading", "refreshing"}
BY DEF Load

\* Every step: a load puts the spinner up, a handler takes it down.
LEMMA NextSettled == TypeOK /\ ClientInv /\ SettledInv /\ [Next]_vars => SettledInv'
<1> SUFFICES ASSUME TypeOK, ClientInv, SettledInv, [Next]_vars, ~disposed',
                    shown'.phase \in {"ready", "stale", "error"}
             PROVE  \A q \in pending' : ~Current(q)'
  BY DEF SettledInv
<1>1. CASE HandleEvent
  <2>1. Load(active, TRUE, TRUE)
    BY <1>1 DEF HandleEvent, Refetch
  <2> QED
    BY <2>1, LoadSpins
<1>2. CASE Effect
  <2>1. Load(wanted, TRUE, FALSE)
    BY <1>2 DEF Effect
  <2> QED
    BY <2>1, LoadSpins
<1>3. ASSUME NEW q \in pending, Answer(q) \/ Fail(q) PROVE \A r \in pending' : ~Current(r)'
  <2>1. PICK a : pending' = (pending \ {q}) \cup {a} /\ a.id = q.id
    BY <1>3, OutcomeOfOne
  <2>2. UNCHANGED <<shown, requestId, disposed>>
    BY <1>3 DEF Answer, Fail
  <2> QED
    BY <2>1, <2>2 DEF SettledInv, Current
<1>4. ASSUME NEW q \in pending, Resolve(q) \/ Reject(q) PROVE \A r \in pending' : ~Current(r)'
  <2>1. UNCHANGED disposed
    BY <1>4 DEF Resolve, Reject
  <2>2. CASE Current(q)
    BY <1>4, <2>1, <2>2, HandledEnds DEF ClientInv, RequestInv, Current
  <2>3. CASE ~Current(q)
    BY <1>4, <2>1, <2>3, HandledEnds DEF SettledInv, Current
  <2> QED
    BY <2>2, <2>3
<1>5. CASE \/ Commit \/ AnnounceCommit \/ AnnounceFailure \/ Crash
           \/ Connect \/ Refuse \/ Disconnect
  BY <1>5, StreamInv DEF client, SettledInv, Current
<1>6. ASSUME NEW s \in Selections, Select(s) PROVE FALSE
  BY <1>6 DEF Select
<1>7. CASE Dispose
  BY <1>7 DEF Dispose
<1>8. CASE UNCHANGED vars
  BY <1>8 DEF vars, SettledInv, Current
<1> QED
  BY <1>1, <1>2, <1>3, <1>4, <1>5, <1>6, <1>7, <1>8 DEF Next, Settle

\* Every step: only a load ends the rest, and forgets the click with it.
LEMMA NextReclicked == TypeOK /\ ReclickedInv /\ [Next]_vars => ReclickedInv'
<1> SUFFICES ASSUME TypeOK, ReclickedInv, [Next]_vars PROVE ReclickedInv'
  OBVIOUS
<1> USE DEF ReclickedInv, InFlight
<1>1. CASE HandleEvent \/ Effect
  BY <1>1 DEF HandleEvent, Refetch, Effect, Load
<1>2. ASSUME NEW q \in pending, Answer(q) \/ Fail(q) PROVE ReclickedInv'
  <2>1. PICK a : pending' = (pending \ {q}) \cup {a} /\ a.id = q.id
    BY <1>2, OutcomeOfOne
  <2>2. UNCHANGED <<requestId, reclicked, disposed>>
    BY <1>2 DEF Answer, Fail
  <2> QED
    BY <2>1, <2>2
<1>3. ASSUME NEW q \in pending, Resolve(q) \/ Reject(q) PROVE ReclickedInv'
  BY <1>3 DEF Resolve, Reject
<1>4. ASSUME NEW s \in Selections, Select(s) PROVE ReclickedInv'
  BY <1>4 DEF Select
<1>5. CASE Dispose
  BY <1>5 DEF Dispose
<1>6. CASE UNCHANGED <<requestId, pending, reclicked, disposed>>
  BY <1>6
<1> QED
  BY <1>1, <1>2, <1>3, <1>4, <1>5, <1>6
     DEF Next, Settle, Commit, AnnounceCommit, AnnounceFailure, Crash, Connect, Refuse,
         Disconnect, client, vars

\* A queue that is offered an event holds one: that event, or those it is full of.
LEMMA OfferedIsQueued ==
  ASSUME TypeOK, NEW event \in {"ingest_done", "ingest_failed"}, Offer(event),
         stream = "connected"
  PROVE  queue' # <<>>
<1>1. CASE Full
  <2>1. Len(queue) >= QueueLimit /\ QueueLimit \in Nat \ {0}
    BY <1>1, LimitAssumption DEF Full
  <2>2. queue # <<>>
    BY <2>1
  <2> QED
    BY <1>1, <2>2 DEF Offer
<1>2. CASE ~Full
  BY <1>2 DEF Offer, TypeOK
<1> QED
  BY <1>1, <1>2

\* The server's answer to the request that counts brings what is owed, or says it failed.
LEMMA AnswerBrings ==
  ASSUME TypeOK, OwedInv, NEW q \in pending, Answer(q) \/ Fail(q)
  PROVE  OwedIsUnderWay'
<1>1. PICK a : /\ pending' = (pending \ {q}) \cup {a}
               /\ a.id = q.id /\ a.fresh = q.fresh
               /\ a.status \in {"answered", "failed"}
               /\ a.status = "answered" /\ q.fresh => a.version = committed
  BY OutcomeOfOne
<1>2. /\ q.status = "sent"
      /\ UNCHANGED <<committed, queue, owed, wanted, requestId, shown, reclicked>>
  BY DEF Answer, Fail, server, broker
<1>3. owed \in Nat /\ committed \in Nat /\ owed <= committed
  BY DEF TypeOK, Versions, OwedInv, ListensInv
<1>4. ASSUME NEW r \in pending, Current(r), Brings(r)
      PROVE  \E b \in pending' : Current(b)' /\ Brings(b)'
  <2>1. CASE r = q
    <3>1. Current(a)'
      BY <1>1, <1>2, <1>4, <2>1 DEF Current
    <3>2. q.fresh
      BY <1>2, <1>4, <2>1 DEF Brings
    <3>3. Brings(a)'
      BY <1>1, <1>2, <1>3, <3>2 DEF Brings
    <3> QED
      BY <1>1, <3>1, <3>3
  <2>2. CASE r # q
    BY <1>1, <1>2, <1>4, <2>2 DEF Current, Brings
  <2> QED
    BY <2>1, <2>2
<1> QED
  BY <1>2, <1>4 DEF OwedInv, OwedIsUnderWay, Visible

\* The handlers of the request that counts show what is owed, or that it is missing.
LEMMA HandlerShows ==
  ASSUME TypeOK, ClientInv, OwedInv, NEW q \in pending, Resolve(q) \/ Reject(q), owed > 0
  PROVE  OwedIsUnderWay'
<1>1. ~disposed /\ ~effectDue /\ owed \in Nat
  BY DEF OwedInv, ListensInv, TypeOK, Versions
<1>2. /\ pending' = pending \ {q}
      /\ UNCHANGED <<queue, owed, wanted, requestId, reclicked>>
  BY <1>1, HandledEnds DEF broker
<1>3. CASE Current(q) /\ ~(shown'.phase \in {"stale", "error"})
  <2>1. /\ q.status = "answered" /\ q.selection = active
        /\ shown' = [phase |-> "ready", data |-> Data(q.selection, q.version)]
    BY <1>1, <1>3, HandledEnds
  <2>2. active = wanted
    BY <1>1 DEF ClientInv, SelectionInv
  <2>3. Visible' /\ shown'.data.version = q.version
    BY <1>2, <2>1, <2>2 DEF Visible, Data
  <2>4. CASE Visible /\ shown.data.version >= owed
    <3>1. data.present /\ data.version >= owed /\ data.version \in Nat /\ q.version \in Nat
      BY <2>4 DEF Visible, ClientInv, DataInv, TypeOK, DataType, Request, Versions
    <3>2. q.version >= data.version
      BY <1>3, <2>1, <3>1 DEF ClientInv, FreshInv
    <3>3. q.version >= owed
      BY <1>1, <3>1, <3>2
    <3> QED
      BY <1>2, <2>3, <3>3 DEF OwedIsUnderWay
  <2>5. CASE shown.phase \in {"stale", "error"}
    BY <1>1, <1>3, <2>5 DEF OwedInv, SettledInv
  <2>6. CASE queue # <<>>
    BY <1>2, <2>6 DEF OwedIsUnderWay
  <2>7. ASSUME NEW r \in pending, Current(r), Brings(r) PROVE OwedIsUnderWay'
    <3>1. r = q
      BY <1>3, <2>7 DEF ClientInv, RequestInv, Current
    <3>2. q.version >= owed
      BY <2>1, <2>7, <3>1 DEF Brings
    <3> QED
      BY <1>2, <2>3, <3>2 DEF OwedIsUnderWay
  <2>8. CASE reclicked
    BY <1>2, <2>8 DEF OwedIsUnderWay
  <2> QED
    BY <2>4, <2>5, <2>6, <2>7, <2>8 DEF OwedInv, OwedIsUnderWay
<1>4. CASE shown'.phase \in {"stale", "error"}
  BY <1>4 DEF OwedIsUnderWay
<1>5. CASE ~Current(q)
  <2>1. UNCHANGED shown
    BY <1>1, <1>5, HandledEnds
  <2>2. ASSUME NEW r \in pending, Current(r), Brings(r)
        PROVE  \E b \in pending' : Current(b)' /\ Brings(b)'
    BY <1>2, <1>5, <2>2 DEF Current, Brings
  <2> QED
    BY <1>2, <2>1, <2>2 DEF OwedInv, OwedIsUnderWay, Visible
<1> QED
  BY <1>3, <1>4, <1>5

\* Every step that ends one way of being under way begins the next.
LEMMA NextOwed == TypeOK /\ ClientInv /\ OwedInv /\ [Next]_vars => OwedIsUnderWay'
<1> SUFFICES ASSUME TypeOK, ClientInv, OwedInv, [Next]_vars, owed' > 0
             PROVE  OwedIsUnderWay'
  BY DEF OwedIsUnderWay
<1>1. CASE AnnounceCommit \/ AnnounceFailure
  <2>1. ListensInv' /\ UNCHANGED stream
    BY <1>1, NextListens DEF OwedInv, AnnounceCommit, AnnounceFailure
  <2>2. stream = "connected"
    BY <2>1 DEF ListensInv
  <2>3. queue' # <<>>
    BY <1>1, <2>2, OfferedIsQueued DEF AnnounceCommit, AnnounceFailure
  <2> QED
    BY <2>3 DEF OwedIsUnderWay
<1>2. CASE Commit \/ Connect \/ Refuse
  <2>1. UNCHANGED <<queue, owed, wanted, requestId, pending, shown, reclicked>>
    BY <1>2 DEF Commit, Connect, Refuse, broker, client
  <2> QED
    BY <2>1 DEF OwedInv, OwedIsUnderWay, Visible, Current, Brings
<1>3. CASE Disconnect \/ Crash \/ Dispose
  BY <1>3 DEF Disconnect, Crash, Dispose, Unsubscribe
<1>4. ASSUME NEW s \in Selections, Select(s) PROVE OwedIsUnderWay'
  <2>1. /\ ~disposed /\ owed' = owed /\ owed > 0 /\ (reclicked' <=> ~InFlight)
        /\ UNCHANGED <<queue, requestId, pending>>
    <3>1. s = wanted
      BY <1>4 DEF Select
    <3> QED
      BY <1>4, <3>1 DEF Select
  <2>2. CASE ~InFlight
    BY <2>1, <2>2 DEF OwedIsUnderWay
  <2>3. CASE InFlight
    <3>1. PICK q \in pending : Current(q)
      BY <2>3 DEF InFlight, Current
    <3>2. CASE Visible /\ shown.data.version >= owed
      <4>1. data.present /\ data.version >= owed /\ data.version \in Nat /\ owed \in Nat
        BY <3>2 DEF Visible, ClientInv, DataInv, TypeOK, DataType, Versions
      <4>2. q.fresh /\ (q.status = "answered" => q.version >= data.version)
        BY <3>1, <4>1 DEF ClientInv, FreshInv
      <4>3. q.version \in Nat /\ q.status \in {"sent", "answered", "failed"}
        BY <3>1 DEF ClientInv, RequestInv, TypeOK, Request, Versions
      <4>4. q.status = "answered" => q.version >= owed
        BY <4>1, <4>2, <4>3
      <4>5. Brings(q)
        BY <4>2, <4>3, <4>4 DEF Brings
      <4> QED
        BY <2>1, <3>1, <4>5 DEF OwedIsUnderWay, Current, Brings
    <3>3. ~(shown.phase \in {"stale", "error"})
      BY <2>1, <3>1 DEF OwedInv, SettledInv
    <3>4. ~reclicked
      BY <2>1, <2>3 DEF OwedInv, ReclickedInv
    <3> QED
      BY <2>1, <3>2, <3>3, <3>4 DEF OwedInv, OwedIsUnderWay, Current, Brings
  <2> QED
    BY <2>2, <2>3
<1>5. CASE HandleEvent
  <2>1. Load(active, TRUE, TRUE) /\ active \in Selections
    BY <1>5 DEF HandleEvent, Refetch, TypeOK
  <2>2. PICK q \in pending' : Current(q)' /\ q.status = "sent" /\ q.fresh
    BY <2>1, LoadSendsTheLatest DEF ClientInv
  <2> QED
    BY <2>2 DEF OwedIsUnderWay, Brings
<1>6. CASE Effect
  BY <1>6 DEF Effect, broker, OwedInv, ListensInv
<1>7. ASSUME NEW q \in pending, Answer(q) \/ Fail(q) PROVE OwedIsUnderWay'
  BY <1>7, AnswerBrings
<1>8. ASSUME NEW q \in pending, Resolve(q) \/ Reject(q) PROVE OwedIsUnderWay'
  <2>1. owed' = owed
    BY <1>8 DEF Resolve, Reject, broker
  <2> QED
    BY <1>8, <2>1, HandlerShows
<1>9. CASE UNCHANGED vars
  BY <1>9 DEF vars, OwedInv, OwedIsUnderWay, Visible, Current, Brings
<1> QED
  BY <1>1, <1>2, <1>3, <1>4, <1>5, <1>6, <1>7, <1>8, <1>9 DEF Next, Settle

\* What an event told a listening page of is never forgotten: it is on the
\* screen, or the page says it could not be fetched, or the event is still in the
\* queue, or the request that counts asks for it past the cache; a full queue, a
\* late answer or a failed one leaves no gap between them.  Only a click on the
\* active range of a page at rest does.  With the fairness of FairSpec each of
\* the others ends in the first two, which is AnnouncedIsShown.
THEOREM OwedIsUnderWayHolds == Spec => []OwedIsUnderWay
<1>1. Init => OwedInv
  BY BoundsAssumption DEF Init, OwedInv, ListensInv, SettledInv, ReclickedInv, OwedIsUnderWay
<1>2. TypeOK /\ ClientInv /\ OwedInv /\ [Next]_vars => OwedInv'
  BY NextListens, NextSettled, NextReclicked, NextOwed DEF OwedInv
<1> QED
  BY <1>1, <1>2, ClientInvHolds, PTL DEF Spec, OwedInv

=============================================================================
