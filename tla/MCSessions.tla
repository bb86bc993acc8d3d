------------------------------ MODULE MCSessions ------------------------------
(* Model values for checking Sessions with TLC. *)
EXTENDS Sessions

CONSTANTS alice, home

OneUser == {alice}
OneIp == {home}

=============================================================================
