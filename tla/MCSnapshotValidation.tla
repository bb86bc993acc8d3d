------------------------ MODULE MCSnapshotValidation ------------------------
(* Model values for checking SnapshotValidation with TLC. *)
EXTENDS SnapshotValidation, TLC

CONSTANTS n1, n2, n3

ThreeIds == {n1, n2, n3}
Symmetric == Permutations(ThreeIds)

=============================================================================
