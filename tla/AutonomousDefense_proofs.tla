---------------------- MODULE AutonomousDefense_proofs ----------------------
(***************************************************************************)
(* Theorems about AutonomousDefense, for any policies, settings,           *)
(* detections and number of evaluations in flight.                         *)
(***************************************************************************)
EXTENDS AutonomousDefense, FiniteSetTheorems, TLAPS

Steps == {"idle", "existing", "cooldown", "window", "request", "insert", "audit", "persist"}
Jobs == [detection : Detections \cup {None}, policy : Policies \cup {0},
         evidence : Nat, now : 0..clock, outcome : Outcomes \cup {None},
         id : 0..ids, request : 0..ids, at : 0..clock]
Decisions == [policy : Policies, detection : Detections, outcome : Outcomes,
              evidence : Nat, request : 0..ids, id : 0..ids, at : 0..clock]

(* A call that is under way knows its policy and its detection, and when   *)
(* it is about to store a decision also its outcome.                       *)
Underway(s, j) ==
    /\ s # "idle" => j.policy \in Policies /\ j.detection \in Detections
    /\ s = "persist" => j.outcome \in Outcomes
    /\ s \in {"request", "insert", "audit"} => j.id > 0

(* What a call knows of the request of its proposal.  A request, once      *)
(* there, stays: nothing else is ever written under its key.               *)
Proposing(s, j) ==
    /\ s \in {"existing", "cooldown", "window"} => j.request = 0
    /\ s = "audit" => requests[<<j.policy, j.detection>>] = j.id
    /\ s = "persist" =>
         IF j.outcome = "containment_proposed"
           THEN j.request > 0 /\ j.request = requests[<<j.policy, j.detection>>]
           ELSE j.request = 0

Inv ==
    /\ TypeOK
    /\ \A c \in Callers : Underway(pc[c], job[c]) /\ Proposing(pc[c], job[c])
    /\ ProposalIsRequested
----------------------------------------------------------------------------
LEMMA NoJobFacts ==
    ASSUME clock \in Nat, ids \in Nat
    PROVE  /\ NoJob \in Jobs /\ Underway("idle", NoJob) /\ Proposing("idle", NoJob)
  BY DEF NoJob, Jobs, Underway, Proposing

LEMMA Parts ==
    ASSUME Inv
    PROVE  /\ clock \in Nat /\ ids \in Nat /\ ids \in 0..MaxIds /\ decisions \subseteq Decisions
           /\ requests \in [Policies \X Detections -> 0..ids]
           /\ pc \in [Callers -> Steps] /\ job \in [Callers -> Jobs]
           /\ policy \in [Policies -> Settings] /\ signing \in BOOLEAN
           /\ evidence \in [Detections -> Nat] /\ clock \in 0..MaxTime
           /\ overlapped \in BOOLEAN
           /\ \A x \in decisions : (x.outcome = "containment_proposed") <=> x.request > 0
           /\ \A x \in decisions :
                x.outcome = "containment_proposed" => x.request = requests[<<x.policy, x.detection>>]
           /\ \A c \in Callers : Underway(pc[c], job[c]) /\ Proposing(pc[c], job[c])
  BY DefenseAssumption DEF Inv, TypeOK, ProposalIsRequested, Decisions, Jobs, Steps

(***************************************************************************)
(* Identifiers and time only grow, so that what had its type keeps it.     *)
(***************************************************************************)
LEMMA Grow ==
    ASSUME clock \in Nat, ids \in Nat, clock' \in Nat, ids' \in Nat, clock <= clock', ids <= ids'
    PROVE  Jobs \subseteq Jobs' /\ Decisions \subseteq Decisions'
<1>1. 0..clock \subseteq 0..clock' /\ 0..ids \subseteq 0..ids'
  OBVIOUS
<1> QED
  BY <1>1 DEF Jobs, Decisions

(***************************************************************************)
(* One call takes a step.  Requests that are there are not changed.        *)
(***************************************************************************)
LEMMA StepKeeps ==
    ASSUME Inv, NEW c \in Callers, NEW s \in Steps, NEW j, Goto(c, s, j),
           j \in Jobs', Underway(s, j), Proposing(s, j)',
           ids' \in 0..MaxIds, ids <= ids',
           UNCHANGED store, overlapped' \in BOOLEAN,
           requests' \in [Policies \X Detections -> 0..ids'],
           \A p \in Policies, d \in Detections :
               requests[<<p, d>>] # 0 => requests'[<<p, d>>] = requests[<<p, d>>],
           decisions' \subseteq Decisions',
           \A x \in decisions' \ decisions :
               /\ (x.outcome = "containment_proposed") <=> x.request > 0
               /\ x.outcome = "containment_proposed" => x.request = requests'[<<x.policy, x.detection>>]
    PROVE  Inv'
<1>1. /\ pc' = [pc EXCEPT ![c] = s] /\ job' = [job EXCEPT ![c] = j]
      /\ UNCHANGED <<policy, signing, evidence, clock>>
  BY DEF Goto, store
<1>2. Jobs \subseteq Jobs'
  BY <1>1, Parts, Grow, DefenseAssumption
<1>3. pc' \in [Callers -> Steps] /\ job' \in [Callers -> Jobs']
  BY <1>1, <1>2, Parts
<1>4. ASSUME NEW x \in decisions'
      PROVE  /\ (x.outcome = "containment_proposed") <=> x.request > 0
             /\ x.outcome = "containment_proposed" => x.request = requests'[<<x.policy, x.detection>>]
  <2>1. CASE x \in decisions
    <3>1. x.policy \in Policies /\ x.detection \in Detections /\ x.request \in Nat
      BY <2>1, Parts DEF Decisions
    <3> QED BY <2>1, <3>1, Parts
  <2>2. CASE x \notin decisions
    BY <2>2
  <2> QED BY <2>1, <2>2
<1>5. ASSUME NEW b \in Callers PROVE Underway(pc'[b], job'[b]) /\ Proposing(pc[b], job[b])'
  <2>1. CASE b = c
    BY <1>1, <2>1, Parts DEF Proposing
  <2>2. CASE b # c
    <3>1. pc'[b] = pc[b] /\ job'[b] = job[b] /\ Underway(pc[b], job[b]) /\ Proposing(pc[b], job[b])
      BY <1>1, <2>2, Parts
    <3>2. job[b].id \in Nat /\ job[b].request \in Nat
      BY Parts DEF Jobs
    <3>3. Proposing(pc[b], job[b])'
      BY <3>1, <3>2 DEF Underway, Proposing
    <3> QED BY <3>1, <3>3
  <2> QED BY <2>1, <2>2
<1>6. TypeOK'
  BY <1>1, <1>3, <1>4, Parts DEF TypeOK, Jobs, Decisions, Steps
<1>7. ProposalIsRequested'
  BY <1>4 DEF ProposalIsRequested
<1> QED
  BY <1>5, <1>6, <1>7 DEF Inv

(***************************************************************************)
(* A step that only moves the call.                                        *)
(***************************************************************************)
LEMMA MoveKeeps ==
    ASSUME Inv, NEW c \in Callers, NEW s \in Steps, NEW j \in Jobs, Goto(c, s, j),
           Underway(s, j), Proposing(s, j),
           UNCHANGED <<store, decisions, requests, ids>>, overlapped' \in BOOLEAN
    PROVE  Inv'
<1>1. j \in Jobs' /\ Decisions' = Decisions
  BY DEF Jobs, Decisions, store
<1>2. Proposing(s, j)'
  BY DEF Proposing
<1> QED
  BY <1>1, <1>2, Parts, StepKeeps

(***************************************************************************)
(* The next policy is evaluated, or the call returns.                      *)
(***************************************************************************)
LEMMA NextPolicyGoes ==
    ASSUME Inv, NEW c \in Callers, pc[c] # "idle", NextPolicy(c)
    PROVE  \E s \in Steps, j \in Jobs : /\ Goto(c, s, j) /\ Underway(s, j)
                                        /\ s \in {"idle", "existing"} /\ j.request = 0
<1> DEFINE p == job[c].policy + 1
           j == [NoJob EXCEPT !.detection = job[c].detection,
                              !.evidence = job[c].evidence, !.policy = p]
<1>1. clock \in Nat /\ ids \in Nat /\ job[c] \in Jobs /\ Underway(pc[c], job[c])
  BY Parts
<1>2. CASE p \in Policies
  <2>1. job[c].detection \in Detections /\ job[c].evidence \in Nat
    BY <1>1 DEF Underway, Jobs
  <2>2. j \in Jobs /\ j.policy = p /\ j.detection = job[c].detection /\ j.request = 0
    <3>1. NoJob \in Jobs /\ NoJob.request = 0
      BY <1>1, NoJobFacts DEF NoJob
    <3> HIDE DEF p
    <3> QED BY <1>2, <2>1, <3>1 DEF Jobs
  <2>3. Goto(c, "existing", j)
    BY <1>2 DEF NextPolicy
  <2> HIDE DEF j
  <2>4. Underway("existing", j)
    BY <1>2, <2>1, <2>2 DEF Underway
  <2> QED BY <2>2, <2>3, <2>4 DEF Steps
<1>3. CASE p \notin Policies
  <2>1. Goto(c, "idle", NoJob)
    BY <1>3 DEF NextPolicy, Return
  <2>2. NoJob.request = 0
    BY DEF NoJob
  <2> QED BY <1>1, <2>1, <2>2, NoJobFacts DEF Steps
<1> QED
  BY <1>2, <1>3

LEMMA ReturnKeeps ==
    ASSUME Inv, NEW c \in Callers, Return(c),
           UNCHANGED <<store, decisions, requests, ids, overlapped>>
    PROVE  Inv'
<1>1. "idle" \in Steps
  BY DEF Steps
<1> QED
  BY <1>1, Parts, NoJobFacts, MoveKeeps DEF Return
----------------------------------------------------------------------------
LEMMA InitInv == Init => Inv
<1> SUFFICES ASSUME Init PROVE Inv
  OBVIOUS
<1> USE DEF Init
<1>1. clock \in Nat /\ ids \in Nat
  OBVIOUS
<1>2. NoJob \in Jobs /\ Underway("idle", NoJob) /\ Proposing("idle", NoJob)
  BY <1>1, NoJobFacts
<1>3. pc \in [Callers -> Steps] /\ job \in [Callers -> Jobs]
  BY <1>2 DEF Steps
<1>4. requests \in [Policies \X Detections -> 0..ids]
  OBVIOUS
<1>5. TypeOK
  <2>1. 0 \in 0..MaxIds /\ 0 \in 0..MaxTime /\ 0 \in Nat
    BY DefenseAssumption
  <2>2. /\ decisions = {} /\ ids = 0 /\ clock = 0 /\ overlapped = FALSE
        /\ policy \in [Policies -> Settings] /\ signing \in BOOLEAN
        /\ evidence \in [Detections -> Nat]
    OBVIOUS
  <2> QED BY ONLY <1>3, <1>4, <2>1, <2>2 DEF TypeOK, Jobs, Steps
<1>6. ProposalIsRequested
  BY DEF ProposalIsRequested
<1> QED
  BY <1>2, <1>5, <1>6 DEF Inv

LEMMA EvaluateInv ==
    ASSUME Inv, NEW c \in Callers, NEW d \in Detections, Evaluate(c, d)
    PROVE  Inv'
<1> DEFINE j == [NoJob EXCEPT !.detection = d, !.evidence = evidence[d], !.policy = 1]
<1>1. NoJob \in Jobs /\ NoJob.request = 0 /\ evidence[d] \in Nat /\ 1 \in Policies
  BY Parts, NoJobFacts, DefenseAssumption DEF NoJob, Policies
<1>2. j \in Jobs /\ j.policy = 1 /\ j.detection = d /\ j.request = 0
  <2>1. PICK p \in Policies : p = 1
    BY <1>1
  <2>2. j = [NoJob EXCEPT !.detection = d, !.evidence = evidence[d], !.policy = p]
    BY <2>1
  <2> HIDE DEF j
  <2> QED BY <1>1, <2>1, <2>2 DEF Jobs
<1>3. Goto(c, "existing", j) /\ overlapped' \in BOOLEAN
      /\ UNCHANGED <<store, decisions, requests, ids>>
  BY DEF Evaluate
<1> HIDE DEF j
<1>4. Underway("existing", j) /\ Proposing("existing", j)
  BY <1>1, <1>2 DEF Underway, Proposing
<1> QED
  BY <1>2, <1>3, <1>4, MoveKeeps DEF Steps

(***************************************************************************)
(* An evaluation that only reads: the next policy, or the next check.      *)
(***************************************************************************)
LEMMA NextPolicyInv ==
    ASSUME Inv, NEW c \in Callers, pc[c] # "idle", NextPolicy(c),
           UNCHANGED <<store, decisions, requests, ids, overlapped>>
    PROVE  Inv'
<1>1. PICK s \in Steps, j \in Jobs : /\ Goto(c, s, j) /\ Underway(s, j)
                                     /\ s \in {"idle", "existing"} /\ j.request = 0
  BY NextPolicyGoes
<1>2. Proposing(s, j)
  BY <1>1 DEF Proposing
<1> QED
  BY <1>1, <1>2, Parts, MoveKeeps

LEMMA DecideInv ==
    ASSUME Inv, NEW c \in Callers, pc[c] \in {"cooldown", "window"},
           NEW outcome \in Outcomes \ {"containment_proposed"}, Decide(c, outcome),
           UNCHANGED <<store, decisions, requests, ids, overlapped>>
    PROVE  Inv'
<1> DEFINE j == [job[c] EXCEPT !.outcome = outcome, !.at = clock]
<1>1. job[c] \in Jobs /\ Underway(pc[c], job[c]) /\ Proposing(pc[c], job[c]) /\ clock \in Nat
  BY Parts
<1>2. /\ j \in Jobs /\ j.outcome = outcome /\ j.request = job[c].request
      /\ j.policy = job[c].policy /\ j.detection = job[c].detection
  <2>1. PICK t \in 0..clock, o \in Outcomes \cup {None} : t = clock /\ o = outcome
    BY <1>1
  <2>2. j = [job[c] EXCEPT !.outcome = o, !.at = t]
    BY <2>1
  <2> HIDE DEF j
  <2> QED BY <1>1, <2>1, <2>2 DEF Jobs
<1>3. Goto(c, "persist", j)
  BY DEF Decide
<1> HIDE DEF j
<1>4. Underway("persist", j) /\ Proposing("persist", j)
  BY <1>1, <1>2 DEF Underway, Proposing
<1> QED
  BY <1>2, <1>3, <1>4, Parts, MoveKeeps DEF Steps

LEMMA CheckExistingInv ==
    ASSUME Inv, NEW c \in Callers, CheckExisting(c)
    PROVE  Inv'
<1>1. pc[c] = "existing" /\ UNCHANGED <<store, decisions, requests, ids, overlapped>>
  BY DEF CheckExisting, At
<1>2. CASE NextPolicy(c)
  BY <1>1, <1>2, NextPolicyInv
<1>3. CASE Goto(c, "cooldown", [job[c] EXCEPT !.now = clock])
  <2> DEFINE j == [job[c] EXCEPT !.now = clock]
  <2>1. job[c] \in Jobs /\ Underway(pc[c], job[c]) /\ Proposing(pc[c], job[c]) /\ clock \in Nat
    BY Parts
  <2>2. /\ j \in Jobs /\ j.request = job[c].request
        /\ j.policy = job[c].policy /\ j.detection = job[c].detection
    BY <2>1 DEF Jobs
  <2>3. Goto(c, "cooldown", j)
    BY <1>3
  <2> HIDE DEF j
  <2>4. Underway("cooldown", j) /\ Proposing("cooldown", j)
    BY <1>1, <2>1, <2>2 DEF Underway, Proposing
  <2> QED BY <1>1, <2>2, <2>3, <2>4, Parts, MoveKeeps DEF Steps
<1> QED
  BY <1>2, <1>3 DEF CheckExisting

LEMMA CheckCooldownInv ==
    ASSUME Inv, NEW c \in Callers, CheckCooldown(c)
    PROVE  Inv'
<1>1. pc[c] = "cooldown" /\ UNCHANGED <<store, decisions, requests, ids, overlapped>>
  BY DEF CheckCooldown, At
<1>2. CASE Decide(c, "cooldown")
  BY <1>1, <1>2, DecideInv DEF Outcomes
<1>3. CASE Goto(c, "window", job[c])
  <2>1. job[c] \in Jobs /\ Underway("window", job[c]) /\ Proposing("window", job[c])
    BY <1>1, Parts DEF Underway, Proposing
  <2> QED BY <1>1, <1>3, <2>1, Parts, MoveKeeps DEF Steps
<1> QED
  BY <1>2, <1>3 DEF CheckCooldown

LEMMA CheckWindowInv ==
    ASSUME Inv, NEW c \in Callers, CheckWindow(c)
    PROVE  Inv'
<1>1. pc[c] = "window" /\ UNCHANGED <<store, decisions, requests, overlapped>>
  BY DEF CheckWindow, At
<1>2. ASSUME NEW outcome \in {"hourly", "refused", "decision_recorded"}, Decide(c, outcome),
             UNCHANGED ids
      PROVE  Inv'
  BY <1>1, <1>2, DecideInv DEF Outcomes
<1>3. CASE Return(c) /\ UNCHANGED ids
  BY <1>1, <1>3, ReturnKeeps
<1>4. CASE /\ ids < MaxIds /\ ids' = ids + 1
           /\ Goto(c, "request", [job[c] EXCEPT !.id = ids + 1])
  <2>0. PICK j : j = [job[c] EXCEPT !.id = ids + 1]
    OBVIOUS
  <2>1. /\ job[c] \in Jobs /\ Underway(pc[c], job[c]) /\ ids \in Nat /\ clock \in Nat
        /\ MaxIds \in Nat /\ UNCHANGED clock
    BY <1>1, Parts, DefenseAssumption DEF store
  <2>2. job[c] \in Jobs' /\ Decisions \subseteq Decisions' /\ ids' \in 0..MaxIds /\ ids <= ids'
    BY <1>4, <2>1, Grow
  <2>3. /\ j \in Jobs' /\ j.id > 0
        /\ j.policy = job[c].policy /\ j.detection = job[c].detection
    BY <1>4, <2>0, <2>1, <2>2 DEF Jobs
  <2>4. Goto(c, "request", j)
    BY <1>4, <2>0
  <2>5. Underway("request", j) /\ Proposing("request", j)'
    BY <1>1, <2>1, <2>3 DEF Underway, Proposing
  <2>6. requests' \in [Policies \X Detections -> 0..ids'] /\ decisions' \subseteq Decisions'
    BY <1>1, <2>1, <2>2, Parts
  <2>7. "request" \in Steps /\ overlapped' \in BOOLEAN /\ decisions' = decisions
        /\ requests' = requests /\ UNCHANGED store
    BY <1>1, Parts DEF Steps
  <2> QED BY <2>2, <2>3, <2>4, <2>5, <2>6, <2>7, StepKeeps
<1> QED
  BY <1>2, <1>3, <1>4 DEF CheckWindow

(***************************************************************************)
(* The request of a proposal: found, made, or lost to a racing call.       *)
(***************************************************************************)
LEMMA PairFacts ==
    ASSUME Inv, NEW c \in Callers, pc[c] \in {"request", "insert", "audit", "persist"}
    PROVE  /\ job[c] \in Jobs /\ job[c].policy \in Policies /\ job[c].detection \in Detections
           /\ Pair(c) = <<job[c].policy, job[c].detection>>
           /\ Pair(c) \in Policies \X Detections
           /\ requests[Pair(c)] \in 0..ids /\ requests[Pair(c)] \in Nat
           /\ job[c].id \in 0..ids /\ ids \in Nat /\ clock \in Nat
<1>1. /\ job[c] \in Jobs /\ Underway(pc[c], job[c]) /\ ids \in Nat /\ clock \in Nat
      /\ requests \in [Policies \X Detections -> 0..ids]
  BY Parts
<1>2. job[c].policy \in Policies /\ job[c].detection \in Detections /\ job[c].id \in 0..ids
  BY <1>1 DEF Underway, Jobs
<1>3. Pair(c) = <<job[c].policy, job[c].detection>> /\ Pair(c) \in Policies \X Detections
  BY <1>2 DEF Pair
<1>4. requests[Pair(c)] \in 0..ids
  BY <1>1, <1>3
<1> QED
  BY <1>1, <1>2, <1>3, <1>4

LEMMA ProposeInv ==
    ASSUME Inv, NEW c \in Callers, pc[c] \in {"request", "audit"},
           NEW r \in 0..ids, r > 0, r = requests[Pair(c)],
           Goto(c, "persist", [job[c] EXCEPT !.request = r,
                                 !.outcome = "containment_proposed", !.at = clock]),
           UNCHANGED <<store, decisions, requests, ids, overlapped>>
    PROVE  Inv'
<1> DEFINE j == [job[c] EXCEPT !.request = r, !.outcome = "containment_proposed", !.at = clock]
<1>1. /\ job[c] \in Jobs /\ clock \in Nat
      /\ job[c].policy \in Policies /\ job[c].detection \in Detections
      /\ r = requests[<<job[c].policy, job[c].detection>>]
  BY PairFacts
<1>2. /\ j \in Jobs /\ j.outcome = "containment_proposed" /\ j.request = r
      /\ j.policy = job[c].policy /\ j.detection = job[c].detection
  <2>1. PICK t \in 0..clock, o \in Outcomes : t = clock /\ o = "containment_proposed"
    BY <1>1 DEF Outcomes
  <2>2. j = [job[c] EXCEPT !.request = r, !.outcome = o, !.at = t]
    BY <2>1
  <2> HIDE DEF j
  <2> QED BY <1>1, <2>1, <2>2 DEF Jobs
<1>3. Goto(c, "persist", j)
  OBVIOUS
<1> HIDE DEF j
<1>4. Underway("persist", j) /\ Proposing("persist", j)
  BY <1>1, <1>2 DEF Underway, Proposing, Outcomes
<1> QED
  BY <1>2, <1>3, <1>4, Parts, MoveKeeps DEF Steps

LEMMA RequestReadInv ==
    ASSUME Inv, NEW c \in Callers, RequestRead(c)
    PROVE  Inv'
<1>1. pc[c] = "request" /\ UNCHANGED <<store, decisions, requests, ids, overlapped>>
  BY DEF RequestRead, At
<1>2. requests[Pair(c)] \in 0..ids /\ requests[Pair(c)] \in Nat /\ job[c] \in Jobs
  BY <1>1, PairFacts
<1>3. CASE requests[Pair(c)] # 0
  <2>1. PICK r \in 0..ids : r = requests[Pair(c)] /\ r > 0
    BY <1>2, <1>3
  <2>2. Goto(c, "persist", [job[c] EXCEPT !.request = r,
                              !.outcome = "containment_proposed", !.at = clock])
    BY <1>3, <2>1 DEF RequestRead
  <2> QED BY <1>1, <2>1, <2>2, ProposeInv
<1>4. CASE requests[Pair(c)] = 0
  <2>1. Goto(c, "insert", job[c])
    BY <1>4 DEF RequestRead
  <2>2. Underway("insert", job[c]) /\ Proposing("insert", job[c])
    BY <1>1, Parts DEF Underway, Proposing
  <2> QED BY <1>1, <1>2, <2>1, <2>2, Parts, MoveKeeps DEF Steps
<1> QED
  BY <1>3, <1>4

LEMMA RequestInsertInv ==
    ASSUME Inv, NEW c \in Callers, RequestInsert(c)
    PROVE  Inv'
<1>1. pc[c] = "insert" /\ UNCHANGED <<store, decisions, ids, overlapped>>
  BY DEF RequestInsert, At
<1>2. CASE requests[Pair(c)] # 0
  BY <1>1, <1>2, ReturnKeeps DEF RequestInsert
<1>3. CASE requests[Pair(c)] = 0
  <2>1. /\ requests' = [requests EXCEPT ![Pair(c)] = job[c].id] /\ Goto(c, "audit", job[c])
    BY <1>3 DEF RequestInsert
  <2>2. /\ job[c] \in Jobs /\ Pair(c) = <<job[c].policy, job[c].detection>>
        /\ Pair(c) \in Policies \X Detections /\ job[c].id \in 0..ids /\ UNCHANGED <<clock, ids>>
        /\ ids \in Nat
    BY <1>1, PairFacts DEF store
  <2>3. /\ requests \in [Policies \X Detections -> 0..ids]
        /\ Underway(pc[c], job[c]) /\ ids \in 0..MaxIds
    BY Parts
  <2>4. /\ requests' \in [Policies \X Detections -> 0..ids']
        /\ requests'[Pair(c)] = job[c].id
        /\ \A p \in Policies, d \in Detections :
              requests[<<p, d>>] # 0 => requests'[<<p, d>>] = requests[<<p, d>>]
    BY <1>3, <2>1, <2>2, <2>3
  <2>5. PICK j : j = job[c]
    OBVIOUS
  <2>6. Underway("audit", j) /\ Proposing("audit", j)'
    BY <1>1, <2>2, <2>3, <2>4, <2>5 DEF Underway, Proposing
  <2>7. j \in Jobs' /\ decisions' \subseteq Decisions' /\ decisions' = decisions
    BY <1>1, <2>2, <2>5, Parts DEF Jobs, Decisions
  <2>8. Goto(c, "audit", j) /\ "audit" \in Steps /\ ids' \in 0..MaxIds /\ ids <= ids'
        /\ UNCHANGED store /\ overlapped' \in BOOLEAN
    BY <1>1, <2>1, <2>2, <2>3, <2>5, Parts DEF Steps
  <2> QED BY <2>4, <2>6, <2>7, <2>8, StepKeeps
<1> QED
  BY <1>2, <1>3

LEMMA RequestAuditInv ==
    ASSUME Inv, NEW c \in Callers, RequestAudit(c)
    PROVE  Inv'
<1>1. pc[c] = "audit" /\ UNCHANGED <<store, decisions, requests, ids, overlapped>>
  BY DEF RequestAudit, At
<1>2. /\ Underway(pc[c], job[c]) /\ Proposing(pc[c], job[c])
      /\ Pair(c) = <<job[c].policy, job[c].detection>> /\ job[c].id \in 0..ids
  BY <1>1, Parts, PairFacts
<1>3. job[c].id > 0 /\ job[c].id = requests[Pair(c)]
  BY <1>1, <1>2 DEF Underway, Proposing
<1>4. PICK r \in 0..ids : r = job[c].id
  BY <1>2
<1>5. Goto(c, "persist", [job[c] EXCEPT !.request = r,
                            !.outcome = "containment_proposed", !.at = clock])
  BY <1>4 DEF RequestAudit
<1> QED
  BY <1>1, <1>3, <1>4, <1>5, ProposeInv

(***************************************************************************)
(* The decision is stored as the call made it.                             *)
(***************************************************************************)
LEMMA PersistInv ==
    ASSUME Inv, NEW c \in Callers, Persist(c)
    PROVE  Inv'
<1> DEFINE x == [policy |-> job[c].policy, detection |-> job[c].detection,
                 outcome |-> job[c].outcome, evidence |-> job[c].evidence,
                 request |-> job[c].request, id |-> job[c].id, at |-> job[c].at]
<1>1. /\ pc[c] = "persist" /\ NextPolicy(c) /\ UNCHANGED <<store, requests, ids, overlapped>>
      /\ decisions' \subseteq decisions \cup {x}
  BY DEF Persist, At
<1>2. /\ job[c] \in Jobs /\ Underway(pc[c], job[c]) /\ Proposing(pc[c], job[c])
      /\ decisions \subseteq Decisions /\ ids \in 0..MaxIds /\ ids \in Nat
      /\ requests \in [Policies \X Detections -> 0..ids]
  BY Parts
<1>3. /\ x \in Decisions
      /\ (x.outcome = "containment_proposed") <=> x.request > 0
      /\ x.outcome = "containment_proposed" => x.request = requests[<<x.policy, x.detection>>]
  <2>1. /\ job[c].policy \in Policies /\ job[c].detection \in Detections
        /\ job[c].outcome \in Outcomes /\ job[c].evidence \in Nat
        /\ job[c].request \in 0..ids /\ job[c].id \in 0..ids /\ job[c].at \in 0..clock
    BY <1>1, <1>2 DEF Underway, Jobs
  <2>2. IF job[c].outcome = "containment_proposed"
          THEN job[c].request > 0 /\ job[c].request = requests[<<job[c].policy, job[c].detection>>]
          ELSE job[c].request = 0
    BY <1>1, <1>2 DEF Proposing
  <2>3. x \in Decisions
    BY <2>1 DEF Decisions
  <2>4. (x.outcome = "containment_proposed") <=> x.request > 0
    BY <2>1, <2>2
  <2> QED BY <2>2, <2>3, <2>4
<1>4. PICK s \in Steps, j \in Jobs : /\ Goto(c, s, j) /\ Underway(s, j)
                                     /\ s \in {"idle", "existing"} /\ j.request = 0
  BY <1>1, NextPolicyGoes
<1> HIDE DEF x
<1>5. /\ j \in Jobs' /\ Proposing(s, j)' /\ Decisions' = Decisions
      /\ ids' \in 0..MaxIds /\ ids <= ids'
  BY <1>1, <1>2, <1>4 DEF Jobs, Decisions, Proposing, store
<1>6. /\ decisions' \subseteq Decisions'
      /\ \A y \in decisions' \ decisions :
            /\ (y.outcome = "containment_proposed") <=> y.request > 0
            /\ y.outcome = "containment_proposed" => y.request = requests'[<<y.policy, y.detection>>]
  BY <1>1, <1>2, <1>3, <1>5
<1>7. /\ requests' \in [Policies \X Detections -> 0..ids'] /\ overlapped' \in BOOLEAN
      /\ \A p \in Policies, d \in Detections :
            requests[<<p, d>>] # 0 => requests'[<<p, d>>] = requests[<<p, d>>]
      /\ UNCHANGED store
  BY <1>1, <1>2, Parts
<1> QED
  BY <1>4, <1>5, <1>6, <1>7, StepKeeps

(***************************************************************************)
(* The world moves: evidence is linked, time passes.                       *)
(***************************************************************************)
LEMMA WorldInv ==
    ASSUME Inv, UNCHANGED <<policy, signing, decisions, requests, ids, pc, job, overlapped>>,
           evidence' \in [Detections -> Nat], clock' \in 0..MaxTime, clock <= clock'
    PROVE  Inv'
<1>1. clock \in Nat /\ ids \in Nat /\ clock' \in Nat /\ ids' \in Nat /\ ids <= ids'
  BY Parts, DefenseAssumption
<1>2. Jobs \subseteq Jobs' /\ Decisions \subseteq Decisions'
  BY <1>1, Grow
<1>3. job' \in [Callers -> Jobs'] /\ decisions' \subseteq Decisions' /\ pc' \in [Callers -> Steps]
      /\ \A c \in Callers : Underway(pc'[c], job'[c]) /\ Proposing(pc[c], job[c])'
  BY <1>2, Parts DEF Proposing
<1>4. /\ policy' \in [Policies -> Settings] /\ signing' \in BOOLEAN /\ overlapped' \in BOOLEAN
      /\ requests' \in [Policies \X Detections -> 0..ids'] /\ ids' \in 0..MaxIds
      /\ \A x \in decisions' : (x.outcome = "containment_proposed") <=> x.request > 0
      /\ \A x \in decisions' :
           x.outcome = "containment_proposed" => x.request = requests'[<<x.policy, x.detection>>]
  BY Parts
<1>5. TypeOK'
  BY ONLY <1>3, <1>4, evidence' \in [Detections -> Nat], clock' \in 0..MaxTime
     DEF TypeOK, Jobs, Decisions, Steps
<1> QED
  BY <1>3, <1>4, <1>5 DEF Inv, ProposalIsRequested

LEMMA StepInv == Inv /\ [Next]_vars => Inv'
<1> SUFFICES ASSUME Inv, [Next]_vars PROVE Inv'
  OBVIOUS
<1>1. ASSUME NEW c \in Callers, Step(c) PROVE Inv'
  BY <1>1, CheckExistingInv, CheckCooldownInv, CheckWindowInv, RequestReadInv,
     RequestInsertInv, RequestAuditInv, PersistInv DEF Step
<1>2. ASSUME NEW c \in Callers, Fail(c) PROVE Inv'
  BY <1>2, ReturnKeeps DEF Fail
<1>3. ASSUME NEW c \in Callers, NEW d \in Detections, Evaluate(c, d) PROVE Inv'
  BY <1>3, EvaluateInv
<1>4. ASSUME NEW d \in Detections, Link(d) PROVE Inv'
  <2>1. evidence' \in [Detections -> Nat] /\ clock' \in 0..MaxTime /\ clock <= clock'
    BY <1>4, Parts DEF Link
  <2> QED BY <1>4, <2>1, WorldInv DEF Link
<1>5. CASE Tick
  <2>1. evidence' \in [Detections -> Nat] /\ clock' \in 0..MaxTime /\ clock <= clock'
    BY <1>5, Parts, DefenseAssumption DEF Tick
  <2> QED BY <1>5, <2>1, WorldInv DEF Tick
<1>6. CASE UNCHANGED vars
  <2>1. evidence' \in [Detections -> Nat] /\ clock' \in 0..MaxTime /\ clock <= clock'
    BY <1>6, Parts DEF vars, store
  <2> QED BY <1>6, <2>1, WorldInv DEF vars, store
<1> QED
  BY <1>1, <1>2, <1>3, <1>4, <1>5, <1>6 DEF Next
----------------------------------------------------------------------------
(* Every state of evaluate_detection() and of what it stores is well       *)
(* typed, and a decision names a request exactly when it proposes one.     *)
THEOREM TypeCorrect == Spec => []TypeOK
<1>1. Inv => TypeOK
  BY DEF Inv
<1> QED
  BY <1>1, InitInv, StepInv, PTL DEF Spec

(* For any number of calls, policies and detections: a decision that       *)
(* proposes containment names the request of its policy and detection.     *)
THEOREM ProposalsRequested == Spec => []ProposalIsRequested
<1>1. Inv => ProposalIsRequested
  BY DEF Inv
<1> QED
  BY <1>1, InitInv, StepInv, PTL DEF Spec
----------------------------------------------------------------------------
(***************************************************************************)
(* Evaluations that overlap.  What the checks of a call found is still     *)
(* true of the decisions when its own is stored, though the clock went on, *)
(* unless another call got in between with a decision that the check was   *)
(* about.                                                                  *)
(***************************************************************************)
Checked == {"cooldown", "window", "request", "insert", "audit", "persist"}

(* A call that the cooldown lets act: it has decided nothing yet or is not *)
(* limited.                                                                *)
Acting(s, j) ==
    s \in {"window", "request", "insert", "audit"} \/ (s = "persist" /\ j.outcome \notin Limited)

(* No two calls evaluate one detection against one policy, both behind the *)
(* check that nothing was decided.                                         *)
OneEvaluation ==
    \A b, c \in Callers :
        pc[b] \in Checked /\ pc[c] \in Checked /\ Pair(b) = Pair(c) => b = c

(* No two calls act for one policy, both behind the check of its cooldown. *)
OneActing ==
    \A b, c \in Callers :
        Acting(pc[b], job[b]) /\ Acting(pc[c], job[c]) /\ job[b].policy = job[c].policy => b = c

Undecided(j) == \A x \in decisions : ~(x.policy = j.policy /\ x.detection = j.detection)

Rested(j) ==
    \A x \in decisions : x.policy = j.policy /\ x.outcome \notin Limited
                           => x.at + policy[j.policy].cooldown <= j.now

Counted(p, now) == {x \in InWindow(p, now) : x.outcome \notin Limited}
Free(j) == Cardinality(Counted(j.policy, j.now)) < policy[j.policy].perHour

Fresh(s, j) == s \in Checked => Undecided(j)

Knows(s, j) ==
    /\ Acting(s, j) => Rested(j)
    /\ Acting(s, j) /\ s # "window" => Free(j)
    /\ Acting(s, j) /\ s = "persist" => j.now <= j.at

Unlimited(p, t) ==
    {x \in decisions : x.policy = p /\ x.outcome \notin Limited /\ t <= x.at /\ x.at <= t + Hour}

DecidedOnce ==
    \A x, y \in decisions : x.policy = y.policy /\ x.detection = y.detection => x = y

CooledDown ==
    \A x, y \in decisions :
        x.policy = y.policy /\ x # y /\ {x.outcome, y.outcome} \cap Limited = {}
        => x.at + policy[x.policy].cooldown <= y.at \/ y.at + policy[x.policy].cooldown <= x.at

WithinLimit == \A p \in Policies, t \in Nat : Cardinality(Unlimited(p, t)) <= policy[p].perHour

OnceInv == DecidedOnce /\ \A c \in Callers : Fresh(pc[c], job[c])
ActInv == CooledDown /\ WithinLimit /\ \A c \in Callers : Knows(pc[c], job[c])
----------------------------------------------------------------------------
LEMMA SettingFacts ==
    ASSUME Inv, NEW p \in Policies
    PROVE  policy[p].cooldown \in Nat /\ policy[p].perHour \in Nat /\ policy[p].minEvidence \in Nat
           /\ Hour \in Nat
<1>1. policy[p] \in [proposes : BOOLEAN, minEvidence : Nat, cooldown : Nat, perHour : Nat]
  BY Parts, DefenseAssumption
<1> QED BY <1>1, DefenseAssumption

LEMMA DecisionFacts ==
    ASSUME Inv, NEW x \in decisions
    PROVE  x.policy \in Policies /\ x.detection \in Detections /\ x.at \in Nat /\ x.at <= clock
<1>1. x \in Decisions /\ clock \in Nat
  BY Parts
<1> QED BY <1>1 DEF Decisions

(* A window that is not exhausted holds less than the limit of decisions   *)
(* that were not limited.                                                  *)
LEMMA WindowFree ==
    ASSUME Inv, IsFiniteSet(decisions), NEW p \in Policies, NEW now, ~Exhausted(p, now)
    PROVE  Cardinality(Counted(p, now)) < policy[p].perHour
<1>1. IsFiniteSet(InWindow(p, now)) /\ Counted(p, now) \subseteq InWindow(p, now)
  BY FS_Subset DEF InWindow, Of, Counted
<1>2. /\ Cardinality(Counted(p, now)) <= Cardinality(InWindow(p, now))
      /\ Cardinality(Counted(p, now)) \in Nat /\ Cardinality(InWindow(p, now)) \in Nat
  BY <1>1, FS_Subset, FS_CardinalityType
<1> QED BY <1>2, SettingFacts DEF Exhausted

LEMMA InitRaces == Init => IsFiniteSet(decisions) /\ OnceInv /\ ActInv
<1> SUFFICES ASSUME Init PROVE IsFiniteSet(decisions) /\ OnceInv /\ ActInv
  OBVIOUS
<1>1. decisions = {} /\ \A c \in Callers : pc[c] = "idle"
  BY DEF Init
<1>2. IsFiniteSet({}) /\ Cardinality({}) = 0
  BY FS_EmptySet
<1>3. \A p \in Policies, t \in Nat : Unlimited(p, t) = {}
  BY <1>1 DEF Unlimited
<1>4. \A p \in Policies : policy[p].perHour \in Nat
  BY InitInv, SettingFacts
<1>5. WithinLimit
  <2> SUFFICES ASSUME NEW p \in Policies, NEW t \in Nat
               PROVE  Cardinality(Unlimited(p, t)) <= policy[p].perHour
    BY DEF WithinLimit
  <2>1. Unlimited(p, t) = {} /\ policy[p].perHour \in Nat
    BY <1>3, <1>4
  <2> QED BY <1>2, <2>1
<1> QED
  BY <1>1, <1>2, <1>5 DEF OnceInv, ActInv, Fresh, Knows, Acting, Checked, DecidedOnce, CooledDown

(***************************************************************************)
(* A call moves on, and knows what its next step needs.                    *)
(***************************************************************************)
Advances(c) ==
    \E s \in Steps : \E j :
        /\ Goto(c, s, j)
        /\ Fresh(pc[c], job[c]) => Fresh(s, j)
        /\ Knows(pc[c], job[c]) => Knows(s, j)

LEMMA FreshMove ==
    ASSUME Inv, OnceInv, NEW c \in Callers, Advances(c), UNCHANGED decisions
    PROVE  OnceInv'
<1>1. PICK s \in Steps : \E j :
        /\ Goto(c, s, j)
        /\ Fresh(pc[c], job[c]) => Fresh(s, j)
  BY DEF Advances
<1>2. PICK j : Goto(c, s, j) /\ Fresh(s, j)
  BY <1>1 DEF OnceInv
<1>3. pc'[c] = s /\ job'[c] = j /\ \A b \in Callers \ {c} : pc'[b] = pc[b] /\ job'[b] = job[b]
  BY <1>2, Parts DEF Goto
<1>4. ASSUME NEW b \in Callers PROVE Fresh(pc[b], job[b])'
  <2>1. Fresh(pc'[b], job'[b])
    BY <1>2, <1>3 DEF OnceInv
  <2> QED BY <2>1 DEF Fresh, Undecided
<1> QED BY <1>4 DEF OnceInv, DecidedOnce

LEMMA KnowsMove ==
    ASSUME Inv, ActInv, NEW c \in Callers, Advances(c), UNCHANGED <<policy, decisions>>
    PROVE  ActInv'
<1>1. PICK s \in Steps : \E j :
        /\ Goto(c, s, j)
        /\ Knows(pc[c], job[c]) => Knows(s, j)
  BY DEF Advances
<1>2. PICK j : Goto(c, s, j) /\ Knows(s, j)
  BY <1>1 DEF ActInv
<1>3. pc'[c] = s /\ job'[c] = j /\ \A b \in Callers \ {c} : pc'[b] = pc[b] /\ job'[b] = job[b]
  BY <1>2, Parts DEF Goto
<1>4. ASSUME NEW b \in Callers PROVE Knows(pc[b], job[b])'
  <2>1. Knows(pc'[b], job'[b])
    BY <1>2, <1>3 DEF ActInv
  <2> QED BY <2>1 DEF Knows, Rested, Free, Counted, InWindow, Of
<1>5. CooledDown' /\ WithinLimit'
  BY DEF ActInv, CooledDown, WithinLimit, Unlimited
<1> QED BY <1>4, <1>5 DEF ActInv

(* The loop goes on with the next policy, or the call returns: it has no   *)
(* check behind it.                                                        *)
LEMMA Unchecked ==
    ASSUME NEW c \in Callers, NextPolicy(c) \/ Return(c) \/ \E d \in Detections : Evaluate(c, d)
    PROVE  Advances(c) /\ \E s \in {"idle", "existing"} : \E j : Goto(c, s, j)
<1>1. PICK s \in {"idle", "existing"} : \E j : Goto(c, s, j)
  BY DEF NextPolicy, Return, Evaluate
<1>2. PICK j : Goto(c, s, j)
  BY <1>1
<1>3. s \in Steps /\ Fresh(s, j) /\ Knows(s, j)
  BY DEF Steps, Fresh, Knows, Checked, Acting
<1> QED BY <1>2, <1>3 DEF Advances

LEMMA Decides ==
    ASSUME Inv, NEW c \in Callers, NEW outcome, Decide(c, outcome), pc[c] \in Checked,
           Knows(pc[c], job[c]) /\ outcome \notin Limited => Rested(job[c]) /\ Free(job[c])
    PROVE  Advances(c)
<1> DEFINE j == [job[c] EXCEPT !.outcome = outcome, !.at = clock]
<1>0. job[c] \in Jobs /\ clock \in Nat
  BY Parts
<1>1. /\ j.policy = job[c].policy /\ j.detection = job[c].detection /\ j.now = job[c].now
      /\ j.outcome = outcome /\ j.at = clock /\ j.now <= clock
  BY <1>0 DEF Jobs
<1>2. Goto(c, "persist", j)
  BY DEF Decide
<1> HIDE DEF j
<1>3. Knows(pc[c], job[c]) => Knows("persist", j)
  BY <1>1 DEF Knows, Acting, Rested, Free
<1>4. Fresh(pc[c], job[c]) => Fresh("persist", j)
  BY <1>1 DEF Fresh, Undecided
<1> QED BY <1>2, <1>3, <1>4 DEF Advances, Steps

LEMMA ChecksAdvance ==
    ASSUME Inv, IsFiniteSet(decisions), NEW c \in Callers,
           CheckExisting(c) \/ CheckCooldown(c) \/ CheckWindow(c)
    PROVE  Advances(c)
<1>0. job[c] \in Jobs /\ clock \in Nat
  BY Parts
<1>2. CASE CheckExisting(c)
  <2>1. CASE NextPolicy(c)
    BY <2>1, Unchecked
  <2>2. CASE /\ ~\E x \in Of(job[c].policy) : x.detection = job[c].detection
             /\ Goto(c, "cooldown", [job[c] EXCEPT !.now = clock])
    <3> DEFINE j == [job[c] EXCEPT !.now = clock]
    <3>1. j.policy = job[c].policy /\ j.detection = job[c].detection
      BY <1>0 DEF Jobs
    <3>2. Goto(c, "cooldown", j)
      BY <2>2
    <3> HIDE DEF j
    <3>3. Fresh("cooldown", j) /\ Knows("cooldown", j)
      BY <2>2, <3>1 DEF Fresh, Undecided, Of, Knows, Acting
    <3> QED BY <3>2, <3>3 DEF Advances, Steps
  <2> QED BY <1>2, <2>1, <2>2 DEF CheckExisting
<1>3. CASE CheckCooldown(c)
  <2>0. pc[c] = "cooldown"
    BY <1>3 DEF CheckCooldown, At
  <2>1. CASE Decide(c, "cooldown")
    BY <2>0, <2>1, Decides DEF Limited, Checked
  <2>2. CASE /\ ~\E x \in Of(job[c].policy) : job[c].now < x.at + policy[job[c].policy].cooldown
             /\ Goto(c, "window", job[c])
    <3>1. job[c].policy \in Policies /\ job[c].now \in Nat
      BY <1>0, <2>0, Parts DEF Underway, Jobs
    <3>2. policy[job[c].policy].cooldown \in Nat
      BY <3>1, SettingFacts
    <3>3. Rested(job[c])
      BY <2>2, <3>1, <3>2, DecisionFacts DEF Rested, Of
    <3>4. Knows("window", job[c]) /\ (Fresh(pc[c], job[c]) => Fresh("window", job[c]))
      BY <2>0, <3>3 DEF Knows, Fresh, Checked
    <3> QED BY <2>2, <3>4 DEF Advances, Steps
  <2> QED BY <1>3, <2>1, <2>2 DEF CheckCooldown
<1>4. CASE CheckWindow(c)
  <2>0. /\ pc[c] = "window" /\ job[c].policy \in Policies
        /\ Knows(pc[c], job[c]) => Rested(job[c])
    BY <1>4, Parts DEF CheckWindow, At, Underway, Knows, Acting
  <2>1. CASE Decide(c, "hourly")
    BY <2>0, <2>1, Decides DEF Limited, Checked
  <2>2. ~Exhausted(job[c].policy, job[c].now) => Free(job[c])
    BY <1>4, WindowFree, Parts DEF CheckWindow, At, Underway, Free
  <2>3. CASE /\ ~Exhausted(job[c].policy, job[c].now)
             /\ Decide(c, "refused") \/ Decide(c, "decision_recorded")
    BY <1>4, <2>0, <2>2, <2>3, Decides DEF Checked, CheckWindow, At
  <2>4. CASE Return(c)
    BY <2>4, Unchecked
  <2>5. CASE /\ ~Exhausted(job[c].policy, job[c].now)
             /\ Goto(c, "request", [job[c] EXCEPT !.id = ids + 1])
    <3> DEFINE j == [job[c] EXCEPT !.id = ids + 1]
    <3>1. j.policy = job[c].policy /\ j.detection = job[c].detection /\ j.now = job[c].now
      BY <1>0 DEF Jobs
    <3>2. Goto(c, "request", j)
      BY <2>5
    <3> HIDE DEF j
    <3>3. Knows(pc[c], job[c]) => Knows("request", j)
      BY <1>4, <2>2, <2>5, <3>1 DEF Knows, Acting, Rested, Free, CheckWindow, At
    <3>4. Fresh(pc[c], job[c]) => Fresh("request", j)
      BY <1>4, <3>1 DEF Fresh, Checked, Undecided, CheckWindow, At
    <3> QED BY <3>2, <3>3, <3>4 DEF Advances, Steps
  <2> QED BY <1>4, <2>1, <2>3, <2>4, <2>5 DEF CheckWindow
<1> QED BY <1>2, <1>3, <1>4

LEMMA RequestsAdvance ==
    ASSUME Inv, NEW c \in Callers, RequestRead(c) \/ RequestInsert(c) \/ RequestAudit(c)
    PROVE  Advances(c)
<1>0. job[c] \in Jobs /\ clock \in Nat /\ pc[c] \in {"request", "insert", "audit"}
  BY Parts DEF RequestRead, RequestInsert, RequestAudit, At
<1>1. Knows(pc[c], job[c]) => Rested(job[c]) /\ Free(job[c])
  BY <1>0 DEF Knows, Acting
<1>2. ASSUME NEW r, Goto(c, "persist", [job[c] EXCEPT !.request = r,
                           !.outcome = "containment_proposed", !.at = clock])
      PROVE  Advances(c)
  <2> DEFINE j == [job[c] EXCEPT !.request = r, !.outcome = "containment_proposed", !.at = clock]
  <2>1. /\ j.policy = job[c].policy /\ j.detection = job[c].detection /\ j.now = job[c].now
        /\ j.at = clock /\ j.now <= clock
    BY <1>0 DEF Jobs
  <2>2. Goto(c, "persist", j)
    BY <1>2
  <2> HIDE DEF j
  <2>3. Knows(pc[c], job[c]) => Knows("persist", j)
    BY <1>1, <2>1 DEF Knows, Acting, Rested, Free
  <2>4. Fresh(pc[c], job[c]) => Fresh("persist", j)
    BY <1>0, <2>1 DEF Fresh, Checked, Undecided
  <2> QED BY <2>2, <2>3, <2>4 DEF Advances, Steps
<1>3. ASSUME NEW s \in {"insert", "audit"}, Goto(c, s, job[c]) PROVE Advances(c)
  <2>1. /\ Knows(pc[c], job[c]) => Knows(s, job[c])
        /\ Fresh(pc[c], job[c]) => Fresh(s, job[c])
    BY <1>0, <1>1 DEF Knows, Acting, Fresh, Checked
  <2> QED BY <1>3, <2>1 DEF Advances, Steps
<1>4. CASE Return(c)
  BY <1>4, Unchecked
<1> QED BY <1>2, <1>3, <1>4 DEF RequestRead, RequestInsert, RequestAudit

(* Only Persist writes decisions.                                          *)
LEMMA OnlyPersist ==
    ASSUME Inv, IsFiniteSet(decisions), [Next]_vars
    PROVE  \/ \E c \in Callers : Persist(c)
           \/ UNCHANGED <<policy, decisions>> /\ \E c \in Callers : Advances(c)
           \/ UNCHANGED <<policy, decisions, pc, job>>
<1>1. ASSUME NEW c \in Callers, Step(c) \/ Fail(c) \/ \E d \in Detections : Evaluate(c, d), ~Persist(c)
      PROVE  UNCHANGED <<policy, decisions>> /\ Advances(c)
  <2>1. UNCHANGED <<policy, decisions>>
    BY <1>1 DEF Step, CheckExisting, CheckCooldown, CheckWindow, RequestRead, RequestInsert,
       RequestAudit, Fail, Evaluate, store
  <2>2. CASE \E d \in Detections : Evaluate(c, d)
    BY <2>1, <2>2, Unchecked
  <2>3. CASE Fail(c)
    <3>1. Return(c)
      BY <2>3 DEF Fail
    <3> QED BY <2>1, <3>1, Unchecked
  <2> QED BY <1>1, <2>1, <2>2, <2>3, ChecksAdvance, RequestsAdvance DEF Step
<1> QED
  BY <1>1 DEF Next, Link, Tick, vars, store
----------------------------------------------------------------------------
(***************************************************************************)
(* The decision is stored, unless there is the same one.                   *)
(***************************************************************************)
Stored(c) == [policy |-> job[c].policy, detection |-> job[c].detection,
              outcome |-> job[c].outcome, evidence |-> job[c].evidence,
              request |-> job[c].request, id |-> job[c].id, at |-> job[c].at]

LEMMA PersistFacts ==
    ASSUME Inv, NEW c \in Callers, Persist(c)
    PROVE  /\ pc[c] = "persist" /\ UNCHANGED policy
           /\ job[c].policy \in Policies /\ job[c].at \in Nat /\ job[c].now \in Nat
           /\ Stored(c).policy = job[c].policy /\ Stored(c).detection = job[c].detection
           /\ Stored(c).outcome = job[c].outcome /\ Stored(c).at = job[c].at
           /\ \/ decisions' = decisions /\ \E x \in decisions : x.policy = job[c].policy
                                                                /\ x.detection = job[c].detection
              \/ decisions' = decisions \cup {Stored(c)}
           /\ pc'[c] \in {"idle", "existing"}
           /\ \A b \in Callers \ {c} : pc'[b] = pc[b] /\ job'[b] = job[b]
<1>1. job[c] \in Jobs /\ Underway(pc[c], job[c]) /\ clock \in Nat
  BY Parts
<1>2. pc[c] = "persist" /\ UNCHANGED policy /\ NextPolicy(c)
  BY DEF Persist, At, store
<1>3. PICK s \in {"idle", "existing"} : \E j : Goto(c, s, j)
  BY <1>2, Unchecked
<1>4. PICK j : Goto(c, s, j)
  BY <1>3
<1>5. pc'[c] \in {"idle", "existing"} /\ \A b \in Callers \ {c} : pc'[b] = pc[b] /\ job'[b] = job[b]
  BY <1>4, Parts DEF Goto
<1>6. \/ decisions' = decisions /\ \E x \in decisions : x.policy = job[c].policy
                                                       /\ x.detection = job[c].detection
      \/ decisions' = decisions \cup {Stored(c)}
  BY DEF Persist, Stored
<1>7. job[c].policy \in Policies /\ job[c].at \in Nat /\ job[c].now \in Nat
  BY <1>1, <1>2 DEF Jobs, Underway
<1> QED BY <1>2, <1>5, <1>6, <1>7 DEF Stored

LEMMA PersistOnce ==
    ASSUME Inv, OnceInv, OneEvaluation, NEW c \in Callers, Persist(c)
    PROVE  OnceInv'
<1> DEFINE x == Stored(c)
<1>1. /\ pc[c] = "persist" /\ pc'[c] \in {"idle", "existing"}
      /\ x.policy = job[c].policy /\ x.detection = job[c].detection
      /\ \A b \in Callers \ {c} : pc'[b] = pc[b] /\ job'[b] = job[b]
  BY PersistFacts
<1>2. Undecided(job[c])
  BY <1>1 DEF OnceInv, Fresh, Checked
<1>3. decisions' = decisions \cup {x}
  BY <1>2, PersistFacts DEF Undecided
<1> HIDE DEF x
<1>4. DecidedOnce'
  BY <1>1, <1>2, <1>3 DEF OnceInv, DecidedOnce, Undecided
<1>5. ASSUME NEW b \in Callers, pc'[b] \in Checked PROVE Undecided(job[b])'
  <2>1. b # c /\ pc[b] \in Checked /\ job'[b] = job[b]
    BY <1>1, <1>5 DEF Checked
  <2>2. Pair(b) # Pair(c)
    BY <1>1, <2>1 DEF OneEvaluation, Checked
  <2>3. ~(x.policy = job[b].policy /\ x.detection = job[b].detection)
    BY <1>1, <2>2 DEF Pair
  <2> QED BY <1>3, <2>1, <2>3 DEF OnceInv, Fresh, Undecided
<1> QED BY <1>4, <1>5 DEF OnceInv, Fresh

LEMMA StepOnce ==
    ASSUME Inv, IsFiniteSet(decisions), OnceInv, OneEvaluation, [Next]_vars
    PROVE  OnceInv'
<1>1. CASE UNCHANGED <<policy, decisions, pc, job>>
  BY <1>1 DEF OnceInv, DecidedOnce, Fresh, Undecided
<1> QED BY <1>1, OnlyPersist, PersistOnce, FreshMove

(* What is stored for a policy leaves the calls of another one alone, and  *)
(* so does a decision that was limited.                                    *)
LEMMA KnowsStill ==
    ASSUME NEW x, decisions' = decisions \/ decisions' = decisions \cup {x}, UNCHANGED policy,
           NEW s, NEW j, Knows(s, j), x.policy # j.policy \/ x.outcome \in Limited
    PROVE  Knows(s, j)'
<1>1. Rested(j)' = Rested(j)
  BY DEF Rested
<1>2. Counted(j.policy, j.now)' = Counted(j.policy, j.now)
  BY DEF Counted, InWindow, Of
<1> QED BY <1>1, <1>2 DEF Knows, Acting, Free

(* One that was not limited is the latest of its policy, a cooldown after  *)
(* the one before it, and joins a window that is not full.                 *)
LEMMA PersistActs ==
    ASSUME Inv, IsFiniteSet(decisions), ActInv, OneActing, NEW c \in Callers, Persist(c)
    PROVE  ActInv'
<1> DEFINE x == Stored(c)
           p == job[c].policy
           a == job[c].at
           now == job[c].now
<1>1. /\ pc[c] = "persist" /\ UNCHANGED policy /\ p \in Policies /\ a \in Nat /\ now \in Nat
      /\ x.policy = p /\ x.outcome = job[c].outcome /\ x.at = a
      /\ decisions' = decisions \/ decisions' = decisions \cup {x}
      /\ pc'[c] \in {"idle", "existing"}
      /\ \A b \in Callers \ {c} : pc'[b] = pc[b] /\ job'[b] = job[b]
  BY PersistFacts
<1>2. CooledDown /\ WithinLimit /\ \A b \in Callers : Knows(pc[b], job[b])
  BY DEF ActInv
<1>5. /\ policy[p].cooldown \in Nat /\ policy[p].perHour \in Nat /\ Hour \in Nat
      /\ \A y \in decisions : y.at \in Nat
  BY <1>1, SettingFacts, DecisionFacts
<1>6. x.outcome \notin Limited => Rested(job[c]) /\ Free(job[c]) /\ now <= a
  BY <1>1, <1>2 DEF Knows, Acting
<1>7. ASSUME NEW b \in Callers PROVE Knows(pc[b], job[b])'
  <2>1. CASE b = c
    BY <1>1, <2>1 DEF Knows, Acting
  <2>2. CASE b # c /\ ~Acting(pc[b], job[b])
    BY <1>1, <2>2 DEF Knows, Acting
  <2>3. CASE b # c /\ Acting(pc[b], job[b])
    <3>1. x.policy # job[b].policy \/ x.outcome \in Limited
      BY <1>1, <2>3 DEF OneActing, Acting
    <3>2. PICK s, j : s = pc[b] /\ j = job[b]
      OBVIOUS
    <3>3. Knows(s, j)'
      BY <1>1, <1>2, <3>1, <3>2, KnowsStill
    <3> QED BY <1>1, <2>3, <3>2, <3>3 DEF Knows, Acting, Rested, Free, Counted, InWindow, Of
  <2> QED BY <2>1, <2>2, <2>3
<1> HIDE DEF x, p, a, now
<1>9. CooledDown'
  <2>1. ASSUME NEW y \in decisions, y.policy = p, y.outcome \notin Limited, x.outcome \notin Limited
        PROVE  y.at + policy[p].cooldown <= a
    BY <1>1, <1>5, <1>6, <2>1 DEF Rested, p, now
  <2>2. ASSUME NEW y \in decisions', NEW z \in decisions',
               y.policy = z.policy, y # z, y.outcome \notin Limited, z.outcome \notin Limited
        PROVE  \/ y.at + policy[y.policy].cooldown <= z.at
               \/ z.at + policy[y.policy].cooldown <= y.at
    <3>1. CASE y \in decisions /\ z \in decisions
      BY <1>2, <2>2, <3>1 DEF CooledDown
    <3>2. CASE y = x
      BY <1>1, <2>1, <2>2, <3>1, <3>2
    <3>3. CASE z = x
      BY <1>1, <2>1, <2>2, <3>1, <3>3
    <3> QED BY <1>1, <3>1, <3>2, <3>3
  <2> QED BY <1>1, <2>2 DEF CooledDown
<1>10. WithinLimit'
  <2>1. SUFFICES ASSUME NEW q \in Policies, NEW t \in Nat
                 PROVE  Cardinality(Unlimited(q, t)') <= policy[q].perHour
    BY <1>1 DEF WithinLimit
  <2>2. CASE Unlimited(q, t)' = Unlimited(q, t)
    BY <1>2, <2>2 DEF WithinLimit
  <2>3. CASE Unlimited(q, t)' # Unlimited(q, t)
    <3>1. q = p /\ x.outcome \notin Limited /\ t <= a /\ a <= t + Hour
      BY <1>1, <2>3 DEF Unlimited
    <3> DEFINE W == Counted(p, now)
    <3>2. Free(job[c]) /\ now <= a
      BY <1>6, <3>1
    <3>3. Unlimited(q, t) \subseteq W
      BY <1>1, <1>5, <3>1, <3>2 DEF Unlimited, Counted, InWindow, Of
    <3>4. Unlimited(q, t)' \subseteq W \cup {x}
      BY <1>1, <3>3 DEF Unlimited
    <3>5. IsFiniteSet(W) /\ Cardinality(W) \in Nat /\ Cardinality(W) < policy[p].perHour
      <4>1. IsFiniteSet(W) /\ Cardinality(W) \in Nat
        BY FS_Subset, FS_CardinalityType DEF Counted, InWindow, Of
      <4> QED BY <3>2, <4>1 DEF Free, p, now
    <3> HIDE DEF W
    <3>6. /\ IsFiniteSet(W \cup {x})
          /\ Cardinality(W \cup {x}) = Cardinality(W) \/ Cardinality(W \cup {x}) = Cardinality(W) + 1
      BY <3>5, FS_AddElement
    <3>7. /\ Cardinality(Unlimited(q, t)') <= Cardinality(W \cup {x})
          /\ IsFiniteSet(Unlimited(q, t)')
      BY <3>4, <3>6, FS_Subset
    <3>8. Cardinality(Unlimited(q, t)') \in Nat /\ Cardinality(W \cup {x}) \in Nat
      BY <3>6, <3>7, FS_CardinalityType
    <3> QED BY <1>5, <3>1, <3>5, <3>6, <3>7, <3>8
  <2> QED BY <2>2, <2>3
<1> QED
  BY <1>7, <1>9, <1>10 DEF ActInv

LEMMA StepActs ==
    ASSUME Inv, IsFiniteSet(decisions), ActInv, OneActing, [Next]_vars
    PROVE  ActInv'
<1>1. CASE UNCHANGED <<policy, decisions, pc, job>>
  BY <1>1 DEF ActInv, CooledDown, WithinLimit, Unlimited, Knows, Rested, Free, Counted, InWindow, Of
<1> QED BY <1>1, OnlyPersist, PersistActs, KnowsMove

LEMMA StepFinite ==
    ASSUME Inv, IsFiniteSet(decisions), [Next]_vars
    PROVE  IsFiniteSet(decisions')
<1>1. ASSUME NEW c \in Callers, Persist(c) PROVE IsFiniteSet(decisions')
  BY <1>1, PersistFacts, FS_AddElement
<1> QED
  BY <1>1, OnlyPersist

(* evaluate_detection(): a policy decides about a detection once, however  *)
(* calls overlap and fail, unless two of them are behind the check that    *)
(* nothing was decided about that detection and policy.                    *)
THEOREM OnceUnlessEvaluatedTwice == Spec /\ []OneEvaluation => []DecidedOnce
<1>1. OnceInv => DecidedOnce
  BY DEF OnceInv
<1>2. Inv /\ IsFiniteSet(decisions) /\ [Next]_vars => IsFiniteSet(decisions)'
  BY StepFinite
<1>3. Inv /\ IsFiniteSet(decisions) /\ OnceInv /\ OneEvaluation /\ [Next]_vars => OnceInv'
  BY StepOnce
<1> QED
  BY <1>1, <1>2, <1>3, InitInv, StepInv, InitRaces, PTL DEF Spec

(* The cooldown and the hourly limit of a policy hold however calls        *)
(* overlap, for the same detection or others, unless two of them act for   *)
(* that policy, both behind the check of its cooldown.                     *)
THEOREM LimitsUnlessActingTwice == Spec /\ []OneActing => [](CooledDown /\ WithinLimit)
<1>1. ActInv => CooledDown /\ WithinLimit
  BY DEF ActInv
<1>2. Inv /\ IsFiniteSet(decisions) /\ [Next]_vars => IsFiniteSet(decisions)'
  BY StepFinite
<1>3. Inv /\ IsFiniteSet(decisions) /\ ActInv /\ OneActing /\ [Next]_vars => ActInv'
  BY StepActs
<1> QED
  BY <1>1, <1>2, <1>3, InitInv, StepInv, InitRaces, PTL DEF Spec
----------------------------------------------------------------------------
(***************************************************************************)
(* Calls that do not overlap have neither race.                            *)
(***************************************************************************)
Alone == \A b, c \in Callers : pc[b] # "idle" /\ pc[c] # "idle" => b = c

SoloInv == IsFiniteSet(decisions) /\ (~overlapped => Alone /\ OnceInv /\ ActInv)

LEMMA InitSolo == Init => SoloInv
<1> SUFFICES ASSUME Init PROVE SoloInv
  OBVIOUS
<1>1. Alone
  BY DEF Init, Alone
<1> QED BY <1>1, InitRaces DEF SoloInv

LEMMA StayAlone ==
    ASSUME Inv, Alone, [Next]_vars, ~overlapped'
    PROVE  ~overlapped /\ Alone'
<1>1. ASSUME NEW c \in Callers, Step(c) \/ Fail(c) PROVE ~overlapped /\ Alone'
  <2>1. overlapped' = overlapped /\ pc[c] # "idle"
    BY <1>1 DEF Step, CheckExisting, CheckCooldown, CheckWindow, RequestRead, RequestInsert,
       RequestAudit, Persist, Fail, At
  <2>2. \E s, j : Goto(c, s, j)
    BY <1>1 DEF Step, CheckExisting, CheckCooldown, CheckWindow, RequestRead, RequestInsert,
       RequestAudit, Persist, Fail, Decide, NextPolicy, Return
  <2>3. \A b \in Callers \ {c} : pc'[b] = pc[b]
    BY <2>2, Parts DEF Goto
  <2> QED BY <2>1, <2>3 DEF Alone
<1>2. ASSUME NEW c \in Callers, NEW d \in Detections, Evaluate(c, d) PROVE ~overlapped /\ Alone'
  <2>1. ~overlapped /\ \A b \in Callers : pc[b] = "idle"
    BY <1>2 DEF Evaluate, At
  <2>2. \A b \in Callers \ {c} : pc'[b] = pc[b]
    BY <1>2, Parts DEF Evaluate, Goto
  <2> QED BY <2>1, <2>2 DEF Alone
<1>3. CASE UNCHANGED <<pc, overlapped>>
  BY <1>3 DEF Alone
<1> QED
  BY <1>1, <1>2, <1>3 DEF Next, Link, Tick, vars

LEMMA StepSolo == Inv /\ SoloInv /\ [Next]_vars => SoloInv'
<1> SUFFICES ASSUME Inv, SoloInv, [Next]_vars PROVE SoloInv'
  OBVIOUS
<1>1. IsFiniteSet(decisions')
  BY StepFinite DEF SoloInv
<1>2. ASSUME ~overlapped' PROVE Alone' /\ OnceInv' /\ ActInv'
  <2>1. ~overlapped
    BY <1>2 DEF Next, Step, CheckExisting, CheckCooldown, CheckWindow, RequestRead, RequestInsert,
       RequestAudit, Persist, Fail, Evaluate, Link, Tick, vars
  <2>2. Alone /\ OnceInv /\ ActInv /\ IsFiniteSet(decisions)
    BY <2>1 DEF SoloInv
  <2>3. OneEvaluation /\ OneActing
    BY <2>2 DEF Alone, OneEvaluation, OneActing, Checked, Acting
  <2> QED BY <1>2, <2>2, <2>3, StayAlone, StepOnce, StepActs
<1> QED BY <1>1, <1>2 DEF SoloInv

(* evaluate_detection(): while calls do not overlap, a policy decides      *)
(* about a detection once, in any number of calls and after any failure.   *)
THEOREM DecidesOnce == Spec => []OneDecision
<1>1. SoloInv => OneDecision
  BY DEF SoloInv, OnceInv, DecidedOnce, OneDecision
<1> QED
  BY <1>1, InitInv, StepInv, InitSolo, StepSolo, PTL DEF Spec

(* While calls do not overlap, decisions that were not limited are a       *)
(* cooldown of their policy apart.                                         *)
THEOREM CooldownKept == Spec => []CooldownHolds
<1>1. SoloInv => CooldownHolds
  BY DEF SoloInv, ActInv, CooledDown, CooldownHolds
<1> QED
  BY <1>1, InitInv, StepInv, InitSolo, StepSolo, PTL DEF Spec

(* While calls do not overlap, no hour holds more decisions that were not  *)
(* limited than the policy allows, though the limit is checked before the  *)
(* decision has its time.                                                  *)
THEOREM HourlyLimitKept == Spec => []HourlyLimitHolds
<1>1. Inv /\ SoloInv => HourlyLimitHolds
  <2> SUFFICES ASSUME Inv, SoloInv, ~overlapped, NEW p \in Policies, NEW t \in 0..clock
               PROVE  Cardinality({x \in Of(p) : /\ x.outcome \notin Limited
                                                 /\ t <= x.at /\ x.at <= t + Hour})
                        <= policy[p].perHour
    BY DEF HourlyLimitHolds
  <2>1. {x \in Of(p) : x.outcome \notin Limited /\ t <= x.at /\ x.at <= t + Hour} = Unlimited(p, t)
    BY DEF Of, Unlimited
  <2>2. t \in Nat
    BY Parts
  <2> QED BY <2>1, <2>2 DEF SoloInv, ActInv, WithinLimit
<1> QED
  BY <1>1, InitInv, StepInv, InitSolo, StepSolo, PTL DEF Spec
=============================================================================
