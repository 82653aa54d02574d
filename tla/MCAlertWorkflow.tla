-------------------------- MODULE MCAlertWorkflow --------------------------
(* Instances of AlertWorkflow for TLC. *)
EXTENDS AlertWorkflow, TLC

CONSTANT k1

OneKey == [d \in Detections |-> k1]
Interchangeable == Permutations(Detections) \cup Permutations(Sessions)
=============================================================================
