----------------------------- MODULE MCReconcile -----------------------------
(* Model values for checking Reconcile with TLC. *)
EXTENDS Reconcile

CONSTANTS repo1, repo2, issue1, pull1, old, new

TwoRepositories == {repo1, repo2}
TwoBodies == {old, new}

=============================================================================
