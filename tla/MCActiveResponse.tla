-------------------------- MODULE MCActiveResponse --------------------------
(* Instances of ActiveResponse for TLC. *)
EXTENDS ActiveResponse, TLC

CONSTANTS k1, e1

OneKey == [r \in Requests |-> k1]
OneTarget == [r \in Requests |-> e1]

SessionSymmetry == Permutations(Sessions)
=============================================================================
