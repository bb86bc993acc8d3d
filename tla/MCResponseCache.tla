--------------------------- MODULE MCResponseCache ---------------------------
(* Model values for checking ResponseCache with TLC. *)
EXTENDS ResponseCache

CONSTANTS r1, r2, w1, w2

TwoRequests == {r1, r2}
TwoWorkers == {w1, w2}

=============================================================================
