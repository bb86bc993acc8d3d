------------------------------ MODULE MCIngest ------------------------------
(* Model values and symmetry for checking Ingest with TLC. *)
EXTENDS Ingest, TLC

CONSTANTS scheduled, manual

TwoCallers == {scheduled, manual}
Symmetric == Permutations(TwoCallers)

=============================================================================
