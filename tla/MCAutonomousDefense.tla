------------------------ MODULE MCAutonomousDefense ------------------------
(* Instances of AutonomousDefense for TLC. *)
EXTENDS AutonomousDefense, TLC

CONSTANTS d1, d2, o1, a1

(* An advisory policy that pauses between decisions, and one that proposes, *)
(* asks for evidence and may decide once an hour. *)
Pausing == [proposes |-> FALSE, minEvidence |-> 0, cooldown |-> 1, perHour |-> 2]
Asking == [proposes |-> TRUE, minEvidence |-> 1, cooldown |-> 0, perHour |-> 1]
Either == {Pausing, Asking}
Interchangeable == Permutations(Detections) \cup Permutations(Callers)
=============================================================================
