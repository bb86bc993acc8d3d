-------------------------- MODULE MCRepositoryList --------------------------
(* Model values for checking RepositoryList with TLC. *)
EXTENDS RepositoryList

CONSTANTS month, week

TwoRanges == {month, week}

=============================================================================
