----------------------------- MODULE MCLifespan -----------------------------
(* Model values for checking Lifespan with TLC. *)
EXTENDS Lifespan

CONSTANTS hourly, startup, admin, reader1, reader2, browser

TwoJobs == {hourly, startup}
TwoReaders == {reader1, reader2}

=============================================================================
