------------------------- MODULE SnapshotValidation -------------------------
(***************************************************************************)
(* _validate_snapshot of backend/ingest.py, record by record, and the      *)
(* schema of backend/schema.sql that the accepted rows are inserted into.  *)
(* A snapshot is any sequence of repositories, issues and pull requests;   *)
(* each record is chosen freely as the loops reach it.                     *)
(*                                                                         *)
(* Fields are abstracted to what the checks tell apart: a timestamp to     *)
(* whether it is there, a name to whose it is, a number or a reason to the *)
(* class of values that is treated alike.  `wellFormed` stands for the     *)
(* exact set of fields, their types and parseable timestamps.              *)
(*                                                                         *)
(* The snapshot has passed _validate_public_boundary of                    *)
(* backend/github_source.py, which looks at all records before.            *)
(***************************************************************************)
EXTENDS Naturals, FiniteSets

CONSTANTS
  Ids,          \* node ids
  MaxRecords    \* bound: accepted records of a snapshot

ASSUME RecordsAssumption == MaxRecords \in Nat

VARIABLES
  phase,         \* "repositories", "issues", "pull_requests", then the verdict
  seenIds,       \* seen_ids
  repositories,  \* repositories_by_id: node id to owner
  issues,        \* accepted rows
  pulls

validationVars == <<phase, seenIds, repositories, issues, pulls>>

\* How owner and account compare: equal, equal but for case, or different.
\* "other" is one external owner, "another" a second one.
Owners == {"account", "ACCOUNT", "other", "another"}

\* Below 1; an INTEGER of PostgreSQL; above it.
Numbers == {"nonpositive", "fits", "too_large"}

\* None; the reasons the code names; a future one; only blanks; over 64 characters.
Reasons == {"none", "COMPLETED", "NOT_PLANNED", "REOPENED", "future", "blank", "long"}
States == {"OPEN", "CLOSED", "MERGED", "other"}

RawRepository == [id : Ids, wellFormed : BOOLEAN, private : BOOLEAN, owner : Owners]

RawItem == [id : Ids, wellFormed : BOOLEAN, private : BOOLEAN, repository : Ids,
            owner : Owners, named : BOOLEAN, number : Numbers, state : States,
            closed : BOOLEAN]
Issue == [id : Ids, repository : Ids, number : Numbers, state : States,
          closed : BOOLEAN, reason : Reasons]
Pull == [id : Ids, repository : Ids, number : Numbers, state : States,
         closed : BOOLEAN, merged : BOOLEAN, mergedAt : BOOLEAN]

ValidationTypeOK ==
  /\ phase \in {"repositories", "issues", "pull_requests", "accepted", "rejected"}
  /\ seenIds \subseteq Ids
  /\ DOMAIN repositories \subseteq seenIds
  /\ \A r \in DOMAIN repositories : repositories[r] \in Owners
  /\ issues \subseteq Issue
  /\ pulls \subseteq Pull

ValidationInit ==
  /\ phase = "repositories"
  /\ seenIds = {}
  /\ repositories = [r \in {} |-> "other"]
  /\ issues = {}
  /\ pulls = {}

-----------------------------------------------------------------------------
(* Checks *)

\* casefold() equality with the snapshot's account.
IsAccount(owner) == owner \in {"account", "ACCOUNT"}

\* _validate_public_boundary: what the source adapter lets through.
BoundaryAllowsRepository(raw) == ~raw.private /\ ~IsAccount(raw.owner)
BoundaryAllowsItem(raw) == ~raw.private

\* node_id in seen_ids: one set for all three collections.
IsNew(id) == id \notin seenIds

RepositoryIsValid(raw) ==
  /\ raw.wellFormed
  /\ IsNew(raw.id)
  /\ ~raw.private
  /\ ~IsAccount(raw.owner)

\* Checks of validate_item that both kinds share; `named` says whether name
\* and url are the repository's.
ItemIsValid(raw) ==
  /\ raw.wellFormed
  /\ IsNew(raw.id)
  /\ raw.repository \in DOMAIN repositories
  /\ ~raw.private
  /\ ~IsAccount(raw.owner)
  /\ raw.owner = repositories[raw.repository]
  /\ raw.named
  /\ raw.number # "nonpositive"

\* Mutant of OpenReasonIsValid: an open issue may keep a final reason.
AnyReasonIsValid(reason) == TRUE

OpenReasonIsValid(reason) == reason \notin {"COMPLETED", "NOT_PLANNED"}

IssueStateIsValid(raw, reason) ==
  /\ reason \notin {"blank", "long"}
  /\ raw.state \in {"OPEN", "CLOSED"}
  /\ raw.state = "OPEN" => ~raw.closed /\ OpenReasonIsValid(reason)
  /\ raw.state = "CLOSED" => raw.closed /\ reason \notin {"none", "REOPENED"}

PullStateIsValid(raw, merged, mergedAt) ==
  /\ raw.state \in {"OPEN", "CLOSED", "MERGED"}
  /\ raw.state = "OPEN" => ~merged /\ ~raw.closed /\ ~mergedAt
  /\ raw.state = "CLOSED" => ~merged /\ raw.closed /\ ~mergedAt
  /\ raw.state = "MERGED" => merged /\ raw.closed /\ mergedAt

-----------------------------------------------------------------------------
(* The loops *)

Accepted == Cardinality(DOMAIN repositories) + Cardinality(issues) + Cardinality(pulls)
MoreRecords == Accepted < MaxRecords

\* Any failed check raises SourceError: nothing of the snapshot is kept.
Reject ==
  /\ phase' = "rejected"
  /\ seenIds' = {}
  /\ repositories' = [r \in {} |-> "other"]
  /\ issues' = {}
  /\ pulls' = {}

\* One record the boundary does not allow refuses the whole snapshot, before
\* _validate_snapshot sees any of it.
BoundaryRefuses ==
  /\ phase = "repositories"
  /\ seenIds = {}
  /\ Reject

ValidateRepository ==
  /\ phase = "repositories"
  /\ MoreRecords
  /\ \E raw \in {r \in RawRepository : BoundaryAllowsRepository(r)} :
       IF RepositoryIsValid(raw)
       THEN /\ seenIds' = seenIds \cup {raw.id}
            /\ repositories' = [r \in DOMAIN repositories \cup {raw.id} |->
                                  IF r = raw.id THEN raw.owner ELSE repositories[r]]
            /\ UNCHANGED <<phase, issues, pulls>>
       ELSE Reject

ValidateIssue ==
  /\ phase = "issues"
  /\ MoreRecords
  /\ \E raw \in {r \in RawItem : BoundaryAllowsItem(r)}, reason \in Reasons :
       IF ItemIsValid(raw) /\ IssueStateIsValid(raw, reason)
       THEN /\ seenIds' = seenIds \cup {raw.id}
            /\ issues' = issues \cup
                 {[id |-> raw.id, repository |-> raw.repository, number |-> raw.number,
                   state |-> raw.state, closed |-> raw.closed, reason |-> reason]}
            /\ UNCHANGED <<phase, repositories, pulls>>
       ELSE Reject

ValidatePull ==
  /\ phase = "pull_requests"
  /\ MoreRecords
  /\ \E raw \in {r \in RawItem : BoundaryAllowsItem(r)}, merged \in BOOLEAN, mergedAt \in BOOLEAN :
       IF ItemIsValid(raw) /\ PullStateIsValid(raw, merged, mergedAt)
       THEN /\ seenIds' = seenIds \cup {raw.id}
            /\ pulls' = pulls \cup
                 {[id |-> raw.id, repository |-> raw.repository, number |-> raw.number,
                   state |-> raw.state, closed |-> raw.closed, merged |-> merged,
                   mergedAt |-> mergedAt]}
            /\ UNCHANGED <<phase, repositories, issues>>
       ELSE Reject

\* A collection is exhausted; the last one accepts the snapshot.
NextCollection ==
  /\ phase' = CASE phase = "repositories" -> "issues"
                [] phase = "issues" -> "pull_requests"
                [] phase = "pull_requests" -> "accepted"
  /\ UNCHANGED <<seenIds, repositories, issues, pulls>>

ValidationNext ==
  \/ BoundaryRefuses
  \/ ValidateRepository \/ ValidateIssue \/ ValidatePull
  \/ phase \in {"repositories", "issues", "pull_requests"} /\ NextCollection

ValidationSpec == ValidationInit /\ [][ValidationNext]_validationVars

-----------------------------------------------------------------------------
(* The schema *)

\* CHECK constraints of issues.
StorableIssue(row) ==
  /\ row.number = "fits"
  /\ row.state \in {"OPEN", "CLOSED"}
  /\ row.reason \notin {"blank", "long"}
  /\ \/ row.state = "OPEN" /\ ~row.closed /\ row.reason \notin {"COMPLETED", "NOT_PLANNED"}
     \/ row.state = "CLOSED" /\ row.closed /\ row.reason \notin {"none", "REOPENED"}

\* CHECK constraints of pull_requests.
StorablePull(row) ==
  /\ row.number = "fits"
  /\ row.state \in {"OPEN", "CLOSED", "MERGED"}
  /\ \/ row.state = "OPEN" /\ ~row.merged /\ ~row.closed /\ ~row.mergedAt
     \/ row.state = "CLOSED" /\ ~row.merged /\ row.closed
     \/ row.state = "MERGED" /\ row.merged /\ row.closed /\ row.mergedAt

-----------------------------------------------------------------------------
(* Properties *)

\* Two independent statements of the same contract, in Python and in SQL: the
\* schema refuses no row the validator accepted.  No CHECK fails, save for a
\* number beyond INTEGER, which the validator does not bound, and no key: every
\* accepted row has an id of its own, in all three tables together, and its
\* repository is among the accepted ones.
AcceptedIsStorable ==
  /\ \A row \in issues : StorableIssue(row) \/ row.number = "too_large"
  /\ \A row \in pulls : StorablePull(row) \/ row.number = "too_large"
  /\ Cardinality(seenIds) = Accepted
  /\ \A row \in issues \cup pulls : row.repository \in DOMAIN repositories

=============================================================================
