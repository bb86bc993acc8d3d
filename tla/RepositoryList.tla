--------------------------- MODULE RepositoryList ---------------------------
(***************************************************************************)
(* The repository list of the page: the effect of App in src/app.jsx that  *)
(* fetches /api/repositories, and the two callbacks that make it run.      *)
(*                                                                         *)
(* A nonce counts the ingests the page was told of; the effect asks past   *)
(* the response cache while the nonce is not the one handled last.  As in  *)
(* module DashboardClient an answer is the version it was computed from:   *)
(* the committed one if it was asked for `fresh`, else perhaps an older.   *)
(***************************************************************************)
EXTENDS Naturals

CONSTANTS
  ListRanges,  \* ranges to select from
  Initial,     \* the range the page is opened with
  MaxCommits, MaxSelects   \* bounds: ingests, user's changes

ASSUME InitialAssumption == Initial \in ListRanges
ASSUME BoundsAssumption == MaxCommits \in Nat /\ MaxSelects \in Nat

VARIABLES
  committed,   \* version the database holds
  told,        \* history: version when the last "ingest_done" was handled
  selects,     \* clicks on a range so far
  range,       \* activeRange
  nonce,       \* repositoryRefreshNonce
  handled,     \* repositoryRefreshHandled.current
  effectDue,   \* the effect on [activeRange, repositoryRefreshNonce] has not run yet
  request,     \* the request of the last run of the effect, with its closure
  list,        \* repositories
  failed,      \* repositoryError is shown
  closed       \* App is unmounted

listVars == <<committed, told, selects, range, nonce, handled, effectDue, request,
          list, failed, closed>>
outside == <<committed, told, selects>>
shown == <<list, failed>>

Versions == 0 .. MaxCommits
Request == [status : {"none", "sent", "answered", "failed"}, range : ListRanges,
            nonce : Nat, fresh : BOOLEAN, version : Versions]
List == [present : BOOLEAN, range : ListRanges, version : Versions]
NoList == [present |-> FALSE, range |-> Initial, version |-> 0]

\* Type invariant; nothing is handled or answered before it happened.
ListTypeOK ==
  /\ committed \in Versions
  /\ told \in 0 .. committed
  /\ selects \in 0 .. MaxSelects
  /\ range \in ListRanges
  /\ nonce \in Nat /\ handled \in 0 .. nonce
  /\ effectDue \in BOOLEAN
  /\ request \in Request /\ request.nonce <= nonce /\ request.version <= committed
  /\ list \in List
  /\ failed \in BOOLEAN /\ closed \in BOOLEAN

ListInit ==
  /\ committed = 0 /\ told = 0 /\ selects = 0
  /\ range = Initial
  /\ nonce = 0 /\ handled = 0
  /\ effectDue = TRUE
  /\ request = [status |-> "none", range |-> Initial, nonce |-> 0, fresh |-> FALSE, version |-> 0]
  /\ list = NoList
  /\ failed = FALSE
  /\ closed = FALSE

-----------------------------------------------------------------------------

Commit ==
  /\ committed < MaxCommits
  /\ committed' = committed + 1
  /\ UNCHANGED <<told, selects, range, nonce, handled, effectDue, request, shown, closed>>

\* onIngest, once for a commit at most; events may be lost, and come late.
IngestDone ==
  /\ ~closed
  /\ nonce < committed
  /\ told' = committed
  /\ nonce' = nonce + 1
  /\ effectDue' = TRUE
  /\ UNCHANGED <<committed, selects, range, handled, request, shown, closed>>

\* onRangeChange: the list of the old range goes at once.  So does that of the
\* active range when its own button is clicked, and the effect does not run then.
\* React runs the effect of one change before the next change is handled.
SelectRange(r) ==
  /\ ~closed
  /\ ~effectDue
  /\ selects < MaxSelects
  /\ selects' = selects + 1
  /\ range' = r
  /\ list' = NoList
  /\ effectDue' = (r # range)
  /\ UNCHANGED <<committed, told, nonce, handled, request, failed, closed>>

\* Mutant of IsFresh: no request is.
NeverFresh == FALSE

IsFresh == nonce # handled

\* Mutant of HandledByRequest: a nonce is handled when it is asked for.
HandledAtOnce == nonce

\* Sending a request handles nothing.
HandledByRequest == handled

\* The effect; its cleanup has aborted the request before, and muted its handlers.
Effect ==
  /\ ~closed
  /\ effectDue
  /\ effectDue' = FALSE
  /\ request' = [status |-> "sent", range |-> range, nonce |-> nonce,
                 fresh |-> IsFresh, version |-> 0]
  /\ handled' = HandledByRequest
  /\ failed' = FALSE
  /\ UNCHANGED <<outside, range, nonce, list, closed>>

\* The server runs the query.
Answer ==
  /\ request.status = "sent"
  /\ \E v \in IF request.fresh THEN {committed} ELSE 0 .. committed :
       request' = [request EXCEPT !.status = "answered", !.version = v]
  /\ UNCHANGED <<outside, range, nonce, handled, effectDue, shown, closed>>

\* Network error, error status or unreadable body.
Fail ==
  /\ request.status = "sent"
  /\ request' = [request EXCEPT !.status = "failed"]
  /\ UNCHANGED <<outside, range, nonce, handled, effectDue, shown, closed>>

Resolve ==
  /\ ~closed
  /\ request.status = "answered"
  /\ request' = [request EXCEPT !.status = "none"]
  /\ list' = [present |-> TRUE, range |-> request.range, version |-> request.version]
  /\ handled' = IF request.fresh THEN request.nonce ELSE handled
  /\ UNCHANGED <<outside, range, nonce, effectDue, failed, closed>>

\* The list stays, with the error; the nonce is not handled.
Reject ==
  /\ ~closed
  /\ request.status = "failed"
  /\ request' = [request EXCEPT !.status = "none"]
  /\ failed' = TRUE
  /\ UNCHANGED <<outside, range, nonce, handled, effectDue, list, closed>>

\* The page is closed.
Close ==
  /\ ~closed
  /\ closed' = TRUE
  /\ UNCHANGED <<outside, range, nonce, handled, effectDue, request, shown>>

ListNext ==
  \/ Commit \/ IngestDone
  \/ \E r \in ListRanges : SelectRange(r)
  \/ Effect
  \/ Answer \/ Fail \/ Resolve \/ Reject
  \/ Close

ListSpec == ListInit /\ [][ListNext]_listVars

\* The browser runs the effect and the handlers, the server answers or the
\* connection fails.  Nobody has to commit or select.
FairSpec ==
  /\ ListSpec
  /\ WF_listVars(Effect)
  /\ WF_listVars(Answer \/ Fail)
  /\ WF_listVars(Resolve \/ Reject)

-----------------------------------------------------------------------------
(* Properties *)

\* A refresh survives the request that was to bring it: while an ingest the page
\* was told of is not handled, be its request aborted by a change of the range,
\* the list shows that ingest in the end, or that it could not be fetched.
RefreshIsNotLost ==
  nonce # handled ~>
    \/ list.present /\ list.version >= told
    \/ failed
    \/ closed

\* While the user stays on a range, its list is never replaced by one of an
\* earlier commit: from the first ingest told of a page asks past the cache,
\* in every range, until an answer to that question was shown.
ListNeverGoesBack ==
  [][ list.present /\ list.range = range /\ list'.present /\ list'.range = range' /\ range' = range
      => list'.version >= list.version ]_listVars

=============================================================================
