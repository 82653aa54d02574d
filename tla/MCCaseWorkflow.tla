--------------------------- MODULE MCCaseWorkflow ---------------------------
(* Instances of CaseWorkflow for TLC. *)
EXTENDS CaseWorkflow, TLC

CONSTANT k1

OneKey == [d \in Detections |-> k1]
Interchangeable == Permutations(Desks)
=============================================================================
