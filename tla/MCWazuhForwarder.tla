-------------------------- MODULE MCWazuhForwarder --------------------------
(* Instances of WazuhForwarder for TLC. *)
EXTENDS WazuhForwarder

CONSTANTS h1, h2

FourAlerts == 1..4
OneOfEach == <<"selected", "refused", "selected", "filtered">>
=============================================================================
