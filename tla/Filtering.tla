------------------------------ MODULE Filtering ------------------------------
(***************************************************************************)
(* The entries of a sequence that pass a test, in their order, as a list   *)
(* comprehension or Array.filter gives them.  SelectSeq of the standard    *)
(* module computes the same by recursion, of which the provers know        *)
(* nothing; here the indices that pass are given, and each is put at its   *)
(* rank among them.                                                        *)
(***************************************************************************)
EXTENDS Naturals, FiniteSets

Rank(k, indices) == Cardinality({j \in indices : j <= k})

Entries(s, indices) ==
  [n \in 1 .. Cardinality(indices) |-> s[CHOOSE k \in indices : Rank(k, indices) = n]]

=============================================================================
