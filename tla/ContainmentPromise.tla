------------------------- MODULE ContainmentPromise -------------------------
(***************************************************************************)
(* What governed containment promises about one request, whatever races,   *)
(* fails or restarts: a human decides once; only an approved request is    *)
(* ever enforced; evidence appears once, after an enforcement; and only    *)
(* evidence of a reversible, verified enforcement is ever rewritten, by a  *)
(* release of the endpoint.  GovernedContainment implements it.            *)
(***************************************************************************)
CONSTANT Requests

VARIABLES
    decision,   \* the human decision, "none" until it is taken
    enforced,   \* has enforcement been attempted?
    outcome,    \* the recorded outcome, "none" until there is evidence
    reversible  \* may the recorded enforcement be released?

promise == <<decision, enforced, outcome, reversible>>

Init ==
    /\ decision = [r \in Requests |-> "none"]
    /\ enforced = [r \in Requests |-> FALSE]
    /\ outcome = [r \in Requests |-> "none"]
    /\ reversible = [r \in Requests |-> FALSE]

Decide(r) ==
    /\ decision[r] = "none"
    /\ \E d \in {"approved", "rejected"} : decision' = [decision EXCEPT ![r] = d]
    /\ UNCHANGED <<enforced, outcome, reversible>>

Enforce(r) ==
    /\ decision[r] = "approved"
    /\ enforced' = [enforced EXCEPT ![r] = TRUE]
    /\ UNCHANGED <<decision, outcome, reversible>>

Conclude(r) ==
    /\ enforced[r]
    /\ outcome[r] = "none"
    /\ \E o \in {"verified", "failed"}, b \in BOOLEAN :
         /\ b => o = "verified"
         /\ outcome' = [outcome EXCEPT ![r] = o]
         /\ reversible' = [reversible EXCEPT ![r] = b]
    /\ UNCHANGED <<decision, enforced>>

Release(r) ==
    /\ reversible[r]
    /\ \E o \in {"rolled_back", "failed"} : outcome' = [outcome EXCEPT ![r] = o]
    /\ UNCHANGED <<decision, enforced, reversible>>

Next == \E r \in Requests : Decide(r) \/ Enforce(r) \/ Conclude(r) \/ Release(r)

Spec == Init /\ [][Next]_promise
=============================================================================
