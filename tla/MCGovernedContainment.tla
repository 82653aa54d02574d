----------------------- MODULE MCGovernedContainment -----------------------
(* Instances of GovernedContainment for TLC. *)
EXTENDS GovernedContainment, TLC

CONSTANTS r1, r2, k1, k2

OwnKey == (r1 :> k1) @@ (r2 :> k2)
SameKey == (r1 :> k1) @@ (r2 :> k1)
KeyOfOne == r1 :> k1
OwnTarget == [r \in Requests |-> r]

SessionSymmetry == Permutations(Sessions)
=============================================================================
