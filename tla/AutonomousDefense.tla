-------------------------- MODULE AutonomousDefense --------------------------
(***************************************************************************)
(* AutonomousDefenseDecisionService (soar_engine/autonomous_defense.py):   *)
(* a detection is evaluated against the tenant's policies, one after the   *)
(* other.  Each evaluation leaves an immutable decision, and a policy that *)
(* proposes containment also makes a request for human approval.           *)
(*                                                                         *)
(* evaluate_detection() is called by the observer of the ingestion and by  *)
(* two routes of the API; a call is a coroutine that reads in one session  *)
(* and writes in another.  One tenant.                                     *)
(***************************************************************************)
EXTENDS Naturals, FiniteSets

CONSTANTS
    LastPolicy,   \* how many enabled policies match, in the order of their names
    Settings,     \* what a policy may ask for: its decision_mode, the evidence it
                  \* needs, its cooldown_seconds and its max_decisions_per_hour
    Hour,         \* the length of an hour
    Detections,
    Callers,      \* calls that can be in flight together
    CanFail,      \* do awaits raise, and processes stop, half way?
    MaxTime,      \* bound on the clock
    MaxIds,       \* bound: proposals attempted
    None

Policies == 1..LastPolicy

ASSUME DefenseAssumption ==
    /\ LastPolicy \in Nat \ {0}
    /\ Settings \subseteq [proposes : BOOLEAN, minEvidence : Nat, cooldown : Nat, perHour : Nat]
    /\ Hour \in Nat /\ MaxTime \in Nat /\ MaxIds \in Nat
    /\ CanFail \in BOOLEAN
    /\ None \notin Detections

VARIABLES
    policy,     \* AutonomousDefensePolicyRow of an enabled policy
    signing,    \* is the signed audit configured in the processes?
    decisions,  \* AutonomousDefenseDecisionRow
    requests,   \* the containment request of a policy and a detection, 0 if none
    ids,        \* identifiers given out to proposals
    evidence,   \* how much integrated evidence is linked to a detection
    clock,
    pc, job,    \* where a call is, what it has read and decided
    overlapped  \* history: was there ever a call while another was in flight?

store == <<policy, signing, evidence, clock>>
vars == <<store, decisions, requests, ids, pc, job, overlapped>>

Outcomes == {"cooldown", "hourly",  \* "rate_limited", for two reasons
             "refused", "decision_recorded", "containment_proposed"}
Limited == {"cooldown", "hourly"}
NoJob == [detection |-> None, policy |-> 0, evidence |-> 0, now |-> 0,
          outcome |-> None, id |-> 0, request |-> 0, at |-> 0]

Init ==
    /\ policy \in [Policies -> Settings] /\ signing \in BOOLEAN
    /\ decisions = {}
    /\ requests = [pair \in Policies \X Detections |-> 0]
    /\ ids = 0
    /\ evidence = [d \in Detections |-> 0]
    /\ clock = 0
    /\ pc = [c \in Callers |-> "idle"]
    /\ job = [c \in Callers |-> NoJob]
    /\ overlapped = FALSE

At(c, step) == pc[c] = step
Goto(c, step, j) == pc' = [pc EXCEPT ![c] = step] /\ job' = [job EXCEPT ![c] = j]
Return(c) == Goto(c, "idle", NoJob)

(* The loop of evaluate_detection().                                       *)
NextPolicy(c) ==
    LET p == job[c].policy + 1 IN
      IF p \in Policies
        THEN Goto(c, "existing", [NoJob EXCEPT !.detection = job[c].detection,
                                               !.evidence = job[c].evidence, !.policy = p])
        ELSE Return(c)

Of(p) == {x \in decisions : x.policy = p}
Pair(c) == <<job[c].policy, job[c].detection>>
----------------------------------------------------------------------------
(* evaluate_detection(): the policies and the evidence are read first.     *)
Evaluate(c, d) ==
    /\ At(c, "idle")
    /\ Goto(c, "existing", [NoJob EXCEPT !.detection = d, !.evidence = evidence[d], !.policy = 1])
    /\ overlapped' = (overlapped \/ \E b \in Callers : ~At(b, "idle"))
    /\ UNCHANGED <<store, decisions, requests, ids>>

(* Mutant: a decision that was limited is taken again.                     *)
CheckExisting_Acting(c) ==
    /\ At(c, "existing")
    /\ IF \E x \in Of(job[c].policy) : x.detection = job[c].detection /\ x.outcome \notin Limited
         THEN NextPolicy(c)
         ELSE Goto(c, "cooldown", [job[c] EXCEPT !.now = clock])
    /\ UNCHANGED <<store, decisions, requests, ids, overlapped>>

(* get_existing_for_detection(): a decision, of any outcome, stands.       *)
CheckExisting(c) ==
    /\ At(c, "existing")
    /\ IF \E x \in Of(job[c].policy) : x.detection = job[c].detection
         THEN NextPolicy(c)
         ELSE Goto(c, "cooldown", [job[c] EXCEPT !.now = clock])
    /\ UNCHANGED <<store, decisions, requests, ids, overlapped>>

Decide(c, outcome) ==
    Goto(c, "persist", [job[c] EXCEPT !.outcome = outcome, !.at = clock])

(* Mutant: the latest decision about the same detection.                   *)
CheckCooldown_SameDetection(c) ==
    /\ At(c, "cooldown")
    /\ LET p == job[c].policy IN
         IF \E x \in Of(p) : x.detection = job[c].detection /\ job[c].now < x.at + policy[p].cooldown
           THEN Decide(c, "cooldown")
           ELSE Goto(c, "window", job[c])
    /\ UNCHANGED <<store, decisions, requests, ids, overlapped>>

(* latest_for_policy(): the latest decision, a limited one included, must  *)
(* be as old as the cooldown.                                              *)
CheckCooldown(c) ==
    /\ At(c, "cooldown")
    /\ LET p == job[c].policy IN
         IF \E x \in Of(p) : job[c].now < x.at + policy[p].cooldown
           THEN Decide(c, "cooldown")
           ELSE Goto(c, "window", job[c])
    /\ UNCHANGED <<store, decisions, requests, ids, overlapped>>

InWindow(p, now) == {x \in Of(p) : x.at + Hour >= now}

(* Mutant: the window holds one decision too many.                         *)
Exhausted_OneMore(p, now) == Cardinality(InWindow(p, now)) > policy[p].perHour

(* decisions_in_window()                                                   *)
Exhausted(p, now) == Cardinality(InWindow(p, now)) >= policy[p].perHour

(* The hourly limit, then the evidence and the mode of the policy.  A      *)
(* proposal needs the signed audit and draws its identifiers first.        *)
CheckWindow(c) ==
    /\ At(c, "window")
    /\ LET p == job[c].policy IN
         \/ /\ Exhausted(p, job[c].now)
            /\ Decide(c, "hourly") /\ UNCHANGED ids
         \/ /\ ~Exhausted(p, job[c].now)
            /\ job[c].evidence < policy[p].minEvidence
            /\ Decide(c, "refused") /\ UNCHANGED ids
         \/ /\ ~Exhausted(p, job[c].now)
            /\ job[c].evidence >= policy[p].minEvidence /\ ~policy[p].proposes
            /\ Decide(c, "decision_recorded") /\ UNCHANGED ids
         \/ /\ ~Exhausted(p, job[c].now)
            /\ job[c].evidence >= policy[p].minEvidence /\ policy[p].proposes
            /\ IF signing
                 THEN /\ ids < MaxIds
                      /\ ids' = ids + 1
                      /\ Goto(c, "request", [job[c] EXCEPT !.id = ids + 1])
                 ELSE Return(c) /\ UNCHANGED ids
    /\ UNCHANGED <<store, decisions, requests, overlapped>>
----------------------------------------------------------------------------
(* GovernedContainmentService.request(), with an idempotency key of the    *)
(* policy and the detection.                                               *)
(* Mutant: the caller keeps the identifier it made up.                     *)
RequestRead_OwnId(c) ==
    /\ At(c, "request")
    /\ IF requests[Pair(c)] # 0
         THEN Goto(c, "persist", [job[c] EXCEPT !.request = job[c].id,
                                    !.outcome = "containment_proposed", !.at = clock])
         ELSE Goto(c, "insert", job[c])
    /\ UNCHANGED <<store, decisions, requests, ids, overlapped>>

RequestRead(c) ==
    /\ At(c, "request")
    /\ IF requests[Pair(c)] # 0
         THEN Goto(c, "persist", [job[c] EXCEPT !.request = requests[Pair(c)],
                                    !.outcome = "containment_proposed", !.at = clock])
         ELSE Goto(c, "insert", job[c])
    /\ UNCHANGED <<store, decisions, requests, ids, overlapped>>

(* The unique key refuses the second of two racing inserts: an             *)
(* IntegrityError, which ends the call.                                    *)
RequestInsert(c) ==
    /\ At(c, "insert")
    /\ IF requests[Pair(c)] # 0
         THEN Return(c) /\ UNCHANGED requests
         ELSE /\ requests' = [requests EXCEPT ![Pair(c)] = job[c].id]
              /\ Goto(c, "audit", job[c])
    /\ UNCHANGED <<store, decisions, ids, overlapped>>

(* Mutant: the decision does not name the request it made.                 *)
RequestAudit_Unlinked(c) ==
    /\ At(c, "audit")
    /\ Goto(c, "persist", [job[c] EXCEPT !.outcome = "containment_proposed", !.at = clock])
    /\ UNCHANGED <<store, decisions, requests, ids, overlapped>>

RequestAudit(c) ==
    /\ At(c, "audit")
    /\ Goto(c, "persist", [job[c] EXCEPT !.request = job[c].id,
                             !.outcome = "containment_proposed", !.at = clock])
    /\ UNCHANGED <<store, decisions, requests, ids, overlapped>>

(* persist_decision(): the hash of a decision covers all but its id and    *)
(* its time, and is unique per policy and detection.                       *)
Persist(c) ==
    /\ At(c, "persist")
    /\ LET j == job[c]
           Same(x) == /\ x.policy = j.policy /\ x.detection = j.detection
                      /\ x.outcome = j.outcome /\ x.evidence = j.evidence
                      /\ x.request = j.request
       IN decisions' = IF \E x \in decisions : Same(x) THEN decisions
                       ELSE decisions \cup {[policy |-> j.policy, detection |-> j.detection,
                              outcome |-> j.outcome, evidence |-> j.evidence,
                              request |-> j.request, id |-> j.id, at |-> j.at]}
    /\ NextPolicy(c)
    /\ UNCHANGED <<store, requests, ids, overlapped>>

(* An await raises something else, or the process stops.                   *)
Fail(c) ==
    /\ CanFail /\ ~At(c, "idle")
    /\ Return(c)
    /\ UNCHANGED <<store, decisions, requests, ids, overlapped>>
----------------------------------------------------------------------------
(* Evidence is linked to a detection, before or after it is evaluated.     *)
Link(d) ==
    /\ \E p \in Policies : evidence[d] < policy[p].minEvidence
    /\ evidence' = [evidence EXCEPT ![d] = @ + 1]
    /\ UNCHANGED <<policy, signing, clock, decisions, requests, ids, pc, job, overlapped>>

Tick ==
    /\ clock < MaxTime
    /\ clock' = clock + 1
    /\ UNCHANGED <<policy, signing, evidence, decisions, requests, ids, pc, job, overlapped>>

Step(c) ==
    \/ CheckExisting(c) \/ CheckCooldown(c) \/ CheckWindow(c)
    \/ RequestRead(c) \/ RequestInsert(c) \/ RequestAudit(c) \/ Persist(c)

Next ==
    \/ \E c \in Callers : Step(c) \/ Fail(c) \/ \E d \in Detections : Evaluate(c, d)
    \/ \E d \in Detections : Link(d)
    \/ Tick

Spec == Init /\ [][Next]_vars
----------------------------------------------------------------------------
(* A decision is about a policy and a detection, is never taken in the     *)
(* future, and names a request exactly when it proposes containment.       *)
TypeOK ==
    /\ policy \in [Policies -> Settings] /\ signing \in BOOLEAN
    /\ decisions \subseteq [policy : Policies, detection : Detections, outcome : Outcomes,
                            evidence : Nat, request : 0..ids, id : 0..ids, at : 0..clock]
    /\ \A x \in decisions : (x.outcome = "containment_proposed") <=> x.request > 0
    /\ requests \in [Policies \X Detections -> 0..ids]
    /\ ids \in 0..MaxIds
    /\ evidence \in [Detections -> Nat]
    /\ clock \in 0..MaxTime
    /\ pc \in [Callers -> {"idle", "existing", "cooldown", "window", "request", "insert",
                           "audit", "persist"}]
    /\ job \in [Callers -> [detection : Detections \cup {None}, policy : Policies \cup {0},
                            evidence : Nat, now : 0..clock, outcome : Outcomes \cup {None},
                            id : 0..ids, request : 0..ids, at : 0..clock]]
    /\ overlapped \in BOOLEAN

(* A decision that proposes containment names the one request there is for *)
(* its policy and detection, however many calls raced or failed before     *)
(* one got its decision stored.                                            *)
ProposalIsRequested ==
    \A x \in decisions :
        x.outcome = "containment_proposed" => x.request = requests[<<x.policy, x.detection>>]

(* While calls do not overlap, a policy decides about a detection once.    *)
OneDecision ==
    ~overlapped =>
        \A x, y \in decisions :
            x.policy = y.policy /\ x.detection = y.detection => x = y

(* While calls do not overlap, the decisions of a policy that were not     *)
(* limited are a cooldown apart.                                           *)
CooldownHolds ==
    ~overlapped =>
        \A x, y \in decisions :
            /\ x.policy = y.policy /\ x # y
            /\ {x.outcome, y.outcome} \cap Limited = {}
            => x.at + policy[x.policy].cooldown <= y.at \/ y.at + policy[x.policy].cooldown <= x.at

(* While calls do not overlap, no hour holds more decisions of a policy    *)
(* that were not limited than the policy allows.                           *)
HourlyLimitHolds ==
    ~overlapped =>
        \A p \in Policies : \A t \in 0..clock :
            Cardinality({x \in Of(p) : /\ x.outcome \notin Limited
                                       /\ t <= x.at /\ x.at <= t + Hour}) <= policy[p].perHour
=============================================================================
