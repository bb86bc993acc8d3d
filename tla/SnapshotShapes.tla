--------------------------- MODULE SnapshotShapes ---------------------------
(***************************************************************************)
(* The shape of a validated snapshot (_validate_snapshot of                *)
(* backend/ingest.py) and of the tables it is applied to: per table a      *)
(* partial function from node ids to rows, every item naming a repository  *)
(* of the same snapshot.                                                   *)
(***************************************************************************)
EXTENDS Naturals

CONSTANTS
  Repositories, Issues, PullRequests,   \* node ids
  Bodies                                \* contents of the compared columns

Tables == {"repositories", "issues", "pull_requests"}
ItemTables == {"issues", "pull_requests"}

\* Rows for some of the ids.
Table(ids, rows) == UNION {[seen -> rows] : seen \in SUBSET ids}

ItemRow == [repository : Repositories, body : Bodies]

\* Foreign keys: the repository of every item is there.
Referential(s) ==
  \A t \in ItemTables : \A n \in DOMAIN s[t] : s[t][n].repository \in DOMAIN s.repositories

Snapshots ==
  {s \in [repositories : Table(Repositories, [body : Bodies]),
          issues : Table(Issues, ItemRow),
          pull_requests : Table(PullRequests, ItemRow)] : Referential(s)}

NoRows == [n \in {} |-> n]
EmptySnapshot == [t \in Tables |-> NoRows]

=============================================================================
