-------------------------- MODULE TelemetryHandoff --------------------------
(***************************************************************************)
(* What the Wazuh telemetry pilot promises of an alert: the manager's side *)
(* holds it until PhantomNet has it.  Handing over may be repeated and may *)
(* lag behind, giving up an alert that has not arrived is no step.         *)
(***************************************************************************)
CONSTANTS Alerts
VARIABLES
    held,       \* alerts the forwarder still has to deliver
    delivered   \* alerts PhantomNet has stored evidence of

vars == <<held, delivered>>

Init == held = {} /\ delivered = {}

Raise(a) ==
    /\ a \notin held \cup delivered
    /\ held' = held \cup {a}
    /\ UNCHANGED delivered

Deliver(a) ==
    /\ a \in held
    /\ delivered' = delivered \cup {a}
    /\ UNCHANGED held

Release(S) ==
    /\ S \subseteq held \cap delivered
    /\ held' = held \ S
    /\ UNCHANGED delivered

Next ==
    \/ \E a \in Alerts : Raise(a) \/ Deliver(a)
    \/ \E S \in SUBSET Alerts : Release(S)

Spec == Init /\ [][Next]_vars
=============================================================================
