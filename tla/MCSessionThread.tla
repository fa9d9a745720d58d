-------------------------- MODULE MCSessionThread --------------------------
(* SessionThread with the values of its constants for model checking. *)
EXTENDS SessionThread

SomeTargets == {CS_ROUTING, CS_HIBERNATE}
OneTarget == {CS_HIBERNATE}
Quietly == {"done", "fail"}
Anything == AllResults
=============================================================================
