------------------------ MODULE CaseWorkflow_proofs ------------------------
(***************************************************************************)
(* Theorems about CaseWorkflow, for any detections, analysts' targets and  *)
(* number of calls of either service.                                      *)
(***************************************************************************)
EXTENDS CaseWorkflow, SequenceTheorems, FiniteSetTheorems, TLAPS

(* What is known of the alerts, whose types the cases rest on.             *)
P == INSTANCE AlertWorkflow_proofs WITH raced <- overlapped

Timeline == [DOMAIN Untold -> {None} \cup DOMAIN CaseTransitions \cup DOMAIN PlaybookTransitions]

DeskCalls == {Idle}
    \cup [step : {"create"}, alert : Nat, status : A!Statuses]
    \cup [step : {"case"}, case : Nat, to : DOMAIN CaseTransitions, timeline : Timeline]
    \cup [step : {"request"}, case : Nat, timeline : Timeline]
    \cup [step : {"run"}, run : Nat, to : DOMAIN PlaybookTransitions]
    \cup [step : {"told"}, run : Nat, to : DOMAIN PlaybookTransitions, timeline : Timeline]

(* A call of the alert workflow is about an alert there is, and makes none *)
(* new again.                                                              *)
Moving == \A s \in Sessions :
    call[s].step = "transition" => call[s].alert \in DOMAIN alerts /\ call[s].to # "new"

(* What a call of the case service has read is there.                      *)
Fits(d) ==
    /\ d.step = "create" => d.alert \in DOMAIN alerts
    /\ d.step \in {"case", "request"} => d.case \in DOMAIN cases
    /\ d.step \in {"run", "told"} => d.run \in DOMAIN runs

TypeInv ==
    /\ P!TypeInv /\ TypeOK /\ Moving
    /\ desk \in [Desks -> DeskCalls]
    /\ \A s \in Desks : Fits(desk[s])
    /\ \A i \in DOMAIN caseOf : caseOf[i] # 0 => i \in DOMAIN alerts

(* RunsAreApproved is not inductive: a call that goes on to start a run, or *)
(* to end it, has read that it was approved.                               *)
Started == {"running", "completed", "failed"}
ApprovedInv ==
    /\ \A r \in DOMAIN runs : runs[r].status \in Started \cup {"approved"} => runs[r].approved
    /\ \A s \in Desks : desk[s].step \in {"run", "told"} /\ desk[s].to \in Started =>
                          runs[desk[s].run].approved

(* EscalatedIsTriaged is not either: a call that will not triage the alert  *)
(* has read that it is not new, and no alert becomes new again.            *)
TriagedInv ==
    /\ EscalatedIsTriaged
    /\ \A s \in Desks : desk[s].step = "create" /\ desk[s].status # "new" =>
                          alerts[desk[s].alert].status # "new"
----------------------------------------------------------------------------
(***************************************************************************)
(* The steps of the alerts are those AlertWorkflow_proofs speaks of.       *)
(***************************************************************************)
LEMMA SameStep == A!Next => P!Next
<1>1. ASSUME NEW d PROVE A!Detect(d) => P!Detect(d)
  BY DEF A!Detect, P!Detect
<1>2. ASSUME NEW s, NEW d PROVE A!IngestRead(s, d) => P!IngestRead(s, d)
  <2>1. A!Matching(d) = P!Matching(d)
    BY DEF A!Matching, P!Matching, A!Active, P!Active
  <2>2. \A S : A!Latest(S) = P!Latest(S)
    BY DEF A!Latest, P!Latest
  <2> QED BY <2>1, <2>2, Zenon DEF A!IngestRead, P!IngestRead, A!Idle, P!Idle
<1>3. ASSUME NEW s, NEW i, NEW to
      PROVE  A!TransitionRead(s, i, to) => P!TransitionRead(s, i, to)
  BY Zenon DEF A!TransitionRead, P!TransitionRead, A!Allowed, P!Allowed, A!Idle, P!Idle
<1>4. ASSUME NEW s PROVE A!Step(s) => P!Step(s)
  BY Zenon DEF A!Step, P!Step, A!IngestInsert, P!IngestInsert, A!IngestLink, P!IngestLink,
     A!TransitionWrite, P!TransitionWrite, A!Abandon, P!Abandon, A!Idle, P!Idle, A!Done, P!Done
<1>5. A!Tick => P!Tick
  BY DEF A!Tick, P!Tick
<1>6. A!Statuses = P!Statuses
  BY DEF A!Statuses, P!Statuses, A!Active, P!Active
<1> QED
  BY <1>1, <1>2, <1>3, <1>4, <1>5, <1>6, Zenon DEF A!Next, P!Next

LEMMA SameType == /\ P!TypeInv => A!TypeOK
                  /\ A!Statuses = P!Statuses /\ A!Alert = P!Alert
<1>1. A!Statuses = P!Statuses
  BY DEF A!Statuses, P!Statuses, A!Active, P!Active
<1>2. A!Alert = P!Alert
  BY <1>1 DEF A!Alert, P!Alert
<1>3. A!Calls = P!Calls
  BY <1>1, Zenon DEF A!Calls, P!Calls, A!Idle, P!Idle
<1> QED
  BY <1>1, <1>2, <1>3 DEF P!TypeInv, P!TypeOK, A!TypeOK

LEMMA Assumed == P!AlertAssumption /\ None \notin Detections /\ MaxRuns \in Nat
  BY CaseAssumption DEF A!AlertAssumption, P!AlertAssumption, CaseAssumption

(***************************************************************************)
(* No step of the alert workflow loses an alert or makes one new.          *)
(***************************************************************************)
LEMMA AlertStep ==
    ASSUME P!TypeInv, Moving, P!Next
    PROVE  /\ P!TypeInv' /\ Moving'
           /\ DOMAIN alerts \subseteq DOMAIN alerts'
           /\ \A i \in DOMAIN alerts : alerts'[i].status = "new" => alerts[i].status = "new"
<1> DEFINE Kept == /\ DOMAIN alerts \subseteq DOMAIN alerts'
                   /\ \A i \in DOMAIN alerts :
                        alerts'[i].status = "new" => alerts[i].status = "new"
<1>1. P!TypeInv'
  BY Assumed, P!StepType
<1>2. /\ alerts \in Seq(P!Alert) /\ call \in [Sessions -> P!Calls] /\ P!TypeOK
      /\ P!Idle.step = "idle" /\ Len(alerts) \in Nat
  BY DEF P!TypeInv, P!TypeOK, P!Idle
<1>3. ASSUME NEW s \in Sessions, P!IngestInsert(s)
      PROVE  Kept /\ call' = [call EXCEPT ![s] = P!Idle]
  <2>1. alerts' = Append(alerts, P!InsertedAlert(s)) /\ call' = [call EXCEPT ![s] = P!Idle]
    BY <1>3 DEF P!IngestInsert, P!InsertedAlert, P!Done
  <2>2. P!InsertedAlert(s) \in P!Alert
    BY <1>3, Assumed, P!InsertedType
  <2> QED BY <1>2, <2>1, <2>2, AppendProperties
<1>4. ASSUME NEW s \in Sessions, P!IngestLink(s)
      PROVE  Kept /\ call' = [call EXCEPT ![s] = P!Idle]
  <2>1. /\ P!LinkedAlert(s) \in P!Alert
        /\ alerts' = [alerts EXCEPT ![call[s].alert] = P!LinkedAlert(s)]
    BY <1>4, Assumed, P!LinkedType
  <2>2. call[s].alert \in DOMAIN alerts
    BY <1>4, <1>2 DEF P!TypeOK, P!IngestLink
  <2>3. alerts[call[s].alert] \in P!Alert
    BY <1>2, <2>2
  <2>4. P!LinkedAlert(s).status = alerts[call[s].alert].status
    BY <2>3 DEF P!LinkedAlert, P!Alert
  <2>5. call' = [call EXCEPT ![s] = P!Idle]
    BY <1>4 DEF P!IngestLink, P!Done
  <2> QED BY <1>2, <2>1, <2>2, <2>4, <2>5
<1>5. ASSUME NEW s \in Sessions, P!TransitionWrite(s)
      PROVE  Kept /\ call' = [call EXCEPT ![s] = P!Idle]
  <2> DEFINE a == [alerts[call[s].alert] EXCEPT !.status = call[s].to, !.seen = clock]
  <2>1. call[s].alert \in DOMAIN alerts /\ call[s].to # "new"
    BY <1>5 DEF Moving, P!TransitionWrite
  <2>2. alerts[call[s].alert] \in P!Alert
    BY <1>2, <2>1
  <2>3. a.status = call[s].to
    BY <2>2 DEF P!Alert
  <2>4. alerts' = [alerts EXCEPT ![call[s].alert] = a] /\ call' = [call EXCEPT ![s] = P!Idle]
    BY <1>5 DEF P!TransitionWrite
  <2> HIDE DEF a
  <2> QED BY <1>2, <2>1, <2>3, <2>4
<1>6. ASSUME NEW s \in Sessions, NEW d \in Detections, P!IngestRead(s, d)
      PROVE  UNCHANGED alerts /\ Moving'
  <2>1. UNCHANGED alerts
    BY <1>6 DEF P!IngestRead
  <2>2. \/ call' = call
        \/ \E c : call' = [call EXCEPT ![s] = c] /\ c.step # "transition"
    <3>1. CASE call' = [call EXCEPT ![s] = [step |-> "insert", det |-> d]]
      <4>1. [step |-> "insert", det |-> d].step # "transition"
        OBVIOUS
      <4> QED BY <3>1, <4>1
    <3>2. ASSUME NEW i, call' = [call EXCEPT ![s] =
                         [step |-> "link", det |-> d, alert |-> i,
                          ids |-> alerts[i].ids, count |-> alerts[i].count]]
          PROVE  \E c : call' = [call EXCEPT ![s] = c] /\ c.step # "transition"
      <4>1. [step |-> "link", det |-> d, alert |-> i,
             ids |-> alerts[i].ids, count |-> alerts[i].count].step # "transition"
        OBVIOUS
      <4> QED BY <3>2, <4>1
    <3> QED BY <1>6, <3>1, <3>2 DEF P!IngestRead
  <2> QED BY <1>2, <2>1, <2>2 DEF Moving
<1>7. ASSUME NEW s \in Sessions, NEW i \in DOMAIN alerts, NEW to \in P!Statuses,
             P!TransitionRead(s, i, to)
      PROVE  UNCHANGED alerts /\ Moving'
  <2> DEFINE c == [step |-> "transition", alert |-> i, to |-> to]
  <2>1. UNCHANGED alerts /\ call' = [call EXCEPT ![s] = c] /\ to \in P!Allowed[alerts[i].status]
    BY <1>7 DEF P!TransitionRead
  <2>2. alerts[i].status \in P!Statuses
    <3>1. alerts[i] \in P!Alert
      BY <1>2
    <3> QED BY <3>1 DEF P!Alert
  <2>3. to # "new"
    BY <2>1, <2>2 DEF P!Allowed, P!Statuses, P!Active
  <2>4. c.step = "transition" /\ c.alert = i /\ c.to = to
    OBVIOUS
  <2> HIDE DEF c
  <2> QED BY <1>2, <2>1, <2>3, <2>4 DEF Moving
<1>8. ASSUME NEW s \in Sessions, P!Abandon(s)
      PROVE  Kept /\ call' = [call EXCEPT ![s] = P!Idle]
  BY <1>8 DEF P!Abandon
<1>9. ASSUME NEW s \in Sessions, Kept, call' = [call EXCEPT ![s] = P!Idle] PROVE Moving'
  BY <1>2, <1>9 DEF Moving
<1>10. ASSUME UNCHANGED <<alerts, call>> PROVE Kept /\ Moving'
  BY <1>10 DEF Moving
<1>11. Kept /\ Moving'
  <2>1. CASE P!Tick \/ \E d \in Detections : P!Detect(d)
    BY <2>1, <1>10 DEF P!Tick, P!Detect
  <2>2. ASSUME NEW s \in Sessions, P!Step(s) PROVE Kept /\ Moving'
    BY <2>2, <1>3, <1>4, <1>5, <1>8, <1>9 DEF P!Step
  <2>3. ASSUME UNCHANGED alerts PROVE Kept
    BY <2>3
  <2> QED BY <1>6, <1>7, <2>1, <2>2, <2>3 DEF P!Next
<1> QED
  BY <1>1, <1>11
----------------------------------------------------------------------------
(***************************************************************************)
(* The kinds of calls, and what they hold.                                 *)
(***************************************************************************)
LEMMA DeskKinds ==
    ASSUME NEW d \in DeskCalls
    PROVE  /\ d.step = "create" => d.alert \in Nat /\ d.status \in A!Statuses
           /\ d.step = "case" => /\ d.case \in Nat /\ d.to \in DOMAIN CaseTransitions
                                 /\ d.timeline \in Timeline
           /\ d.step = "request" => d.case \in Nat /\ d.timeline \in Timeline
           /\ d.step \in {"run", "told"} => d.run \in Nat /\ d.to \in DOMAIN PlaybookTransitions
           /\ d.step = "told" => d.timeline \in Timeline
  BY DEF DeskCalls, Idle

LEMMA IdleDesk == Idle \in DeskCalls /\ Idle.step = "idle"
  BY DEF DeskCalls, Idle

(***************************************************************************)
(* A told timeline is a timeline.                                          *)
(***************************************************************************)
LEMMA TellType ==
    ASSUME NEW t \in Timeline, NEW r,
           NEW x \in {None} \cup DOMAIN CaseTransitions \cup DOMAIN PlaybookTransitions
    PROVE  Tell(t, r, x) \in Timeline
  BY DEF Tell, Timeline

LEMMA UntoldType == Untold \in Timeline
  BY DEF Untold, Timeline

LEMMA CaseType == Case = [alert : Nat, status : DOMAIN CaseTransitions, timeline : Timeline]
  BY DEF Case, Timeline

(***************************************************************************)
(* The call of one desk changes, and nothing it or another refers to goes. *)
(***************************************************************************)
LEMMA SetDesk ==
    ASSUME TypeInv, NEW s \in Desks, NEW d \in DeskCalls, desk' = [desk EXCEPT ![s] = d],
           Fits(d)', DOMAIN alerts \subseteq DOMAIN alerts',
           DOMAIN cases \subseteq DOMAIN cases', DOMAIN runs \subseteq DOMAIN runs'
    PROVE  /\ desk' \in [Desks -> DeskCalls] /\ \A t \in Desks : Fits(desk[t])'
           /\ desk'[s] = d /\ \A t \in Desks \ {s} : desk'[t] = desk[t]
<1>1. desk \in [Desks -> DeskCalls] /\ \A t \in Desks : Fits(desk[t])
  BY DEF TypeInv
<1>2. desk' \in [Desks -> DeskCalls] /\ desk'[s] = d /\ \A t \in Desks \ {s} : desk'[t] = desk[t]
  BY <1>1
<1>3. ASSUME NEW t \in Desks PROVE Fits(desk[t])'
  <2>1. CASE t = s
    BY <1>2, <2>1 DEF Fits
  <2>2. CASE t # s
    BY <1>1, <1>2, <2>2 DEF Fits
  <2> QED BY <2>1, <2>2
<1> QED
  BY <1>2, <1>3

(***************************************************************************)
(* A call returns, or is abandoned.                                        *)
(***************************************************************************)
LEMMA FreeDesk ==
    ASSUME TypeInv, NEW s \in Desks, Return(s), DOMAIN alerts \subseteq DOMAIN alerts',
           DOMAIN cases \subseteq DOMAIN cases', DOMAIN runs \subseteq DOMAIN runs'
    PROVE  /\ desk' \in [Desks -> DeskCalls] /\ \A t \in Desks : Fits(desk[t])'
           /\ desk'[s] = Idle /\ \A t \in Desks \ {s} : desk'[t] = desk[t]
<1>1. Fits(Idle)'
  BY IdleDesk DEF Fits
<1> QED
  BY <1>1, IdleDesk, SetDesk DEF Return

(***************************************************************************)
(* A row is replaced, or one is added.                                     *)
(***************************************************************************)
LEMMA Replace ==
    ASSUME NEW S, NEW rows \in Seq(S), NEW i, NEW x, i \in DOMAIN rows => x \in S
    PROVE  /\ [rows EXCEPT ![i] = x] \in Seq(S)
           /\ DOMAIN [rows EXCEPT ![i] = x] = DOMAIN rows
           /\ \A k \in DOMAIN rows : [rows EXCEPT ![i] = x][k] = IF k = i THEN x ELSE rows[k]
<1>1. DOMAIN rows = 1 .. Len(rows)
  OBVIOUS
<1>2. CASE i \in DOMAIN rows
  BY <1>1, <1>2, ExceptSeq
<1>3. CASE i \notin DOMAIN rows
  <2>1. [rows EXCEPT ![i] = x] = rows
    BY <1>3
  <2> QED BY <1>3, <2>1
<1> QED
  BY <1>2, <1>3

LEMMA Add ==
    ASSUME NEW S, NEW rows \in Seq(S), NEW x \in S
    PROVE  /\ Append(rows, x) \in Seq(S)
           /\ DOMAIN rows \subseteq DOMAIN Append(rows, x)
           /\ Len(Append(rows, x)) = Len(rows) + 1
           /\ Len(rows) + 1 \in DOMAIN Append(rows, x)
           /\ \A k \in DOMAIN Append(rows, x) :
                Append(rows, x)[k] = IF k \in DOMAIN rows THEN rows[k] ELSE x
<1>1. Len(rows) \in Nat /\ DOMAIN rows = 1 .. Len(rows)
  OBVIOUS
<1>2. /\ Append(rows, x) \in Seq(S) /\ Len(Append(rows, x)) = Len(rows) + 1
      /\ \A k \in 1 .. Len(rows) : Append(rows, x)[k] = rows[k]
      /\ Append(rows, x)[Len(rows) + 1] = x
  BY AppendProperties
<1>3. DOMAIN Append(rows, x) = 1 .. Len(rows) + 1
  BY <1>2
<1> QED
  BY <1>1, <1>2, <1>3
----------------------------------------------------------------------------
LEMMA InitType == Init => TypeInv
<1> SUFFICES ASSUME Init PROVE TypeInv
  OBVIOUS
<1>1. A!Init /\ P!Init
  BY DEF Init, A!Init, P!Init, A!Idle, P!Idle
<1>2. P!TypeInv
  BY <1>1, Assumed, P!InitType
<1>3. TypeOK
  <2>1. cases \in Seq(Case) /\ runs \in Seq(Run) /\ DOMAIN cases = {} /\ DOMAIN runs = {}
    BY DEF Init
  <2>2. named = {} /\ overlapped \in BOOLEAN /\ \A i \in DOMAIN caseOf : caseOf[i] = 0
    BY DEF Init
  <2>3. A!TypeOK
    BY <1>2, SameType
  <2> QED BY <2>1, <2>2, <2>3 DEF TypeOK
<1>4. Moving
  BY <1>1 DEF A!Init, Moving, A!Idle
<1>5. desk \in [Desks -> DeskCalls] /\ \A s \in Desks : Fits(desk[s])
  BY IdleDesk DEF Init, Fits
<1>6. \A i \in DOMAIN caseOf : caseOf[i] = 0
  BY DEF Init
<1> QED
  BY <1>2, <1>3, <1>4, <1>5, <1>6 DEF TypeInv

(***************************************************************************)
(* The parts of TypeInv, for the state after a step.                       *)
(***************************************************************************)
LEMMA Assemble ==
    ASSUME P!TypeInv', Moving', cases' \in Seq(Case), runs' \in Seq(Run),
           \A c \in DOMAIN cases' : cases'[c].alert \in DOMAIN alerts',
           named' \subseteq DOMAIN alerts',
           \A i \in DOMAIN caseOf' : caseOf'[i] # 0 =>
               /\ i \in DOMAIN alerts'
               /\ i \notin named' => caseOf'[i] \in DOMAIN cases' /\ cases'[caseOf'[i]].alert = i,
           \A r \in DOMAIN runs' : runs'[r].case \in DOMAIN cases',
           overlapped' \in BOOLEAN, desk' \in [Desks -> DeskCalls],
           \A t \in Desks : Fits(desk[t])'
    PROVE  TypeInv'
<1>1. P!TypeInv' => A!TypeOK'
  BY SameType, PTL
<1>2. TypeOK'
  BY <1>1 DEF TypeOK
<1> QED
  BY <1>2 DEF TypeInv

(***************************************************************************)
(* The parts of TypeInv, for the state before it.                          *)
(***************************************************************************)
LEMMA Parts ==
    ASSUME TypeInv
    PROVE  /\ P!TypeInv /\ Moving /\ cases \in Seq(Case) /\ runs \in Seq(Run)
           /\ \A c \in DOMAIN cases : cases[c].alert \in DOMAIN alerts
           /\ named \subseteq DOMAIN alerts
           /\ \A i \in DOMAIN caseOf : caseOf[i] # 0 =>
               /\ i \in DOMAIN alerts
               /\ i \notin named => caseOf[i] \in DOMAIN cases /\ cases[caseOf[i]].alert = i
           /\ \A r \in DOMAIN runs : runs[r].case \in DOMAIN cases
           /\ overlapped \in BOOLEAN /\ desk \in [Desks -> DeskCalls]
           /\ \A t \in Desks : Fits(desk[t])
           /\ alerts \in Seq(P!Alert)
  BY DEF TypeInv, TypeOK, P!TypeInv, P!TypeOK

(***************************************************************************)
(* A step of the alert workflow, whatever the case service has open.       *)
(***************************************************************************)
LEMMA AlertsType ==
    ASSUME TypeInv, A!Next, UNCHANGED caseVars, overlapped' \in BOOLEAN
    PROVE  TypeInv'
<1>1. P!TypeInv' /\ Moving' /\ DOMAIN alerts \subseteq DOMAIN alerts'
  BY Parts, SameStep, AlertStep
<1>2. UNCHANGED <<caseOf, named, cases, runs, desk>>
  BY DEF caseVars, links
<1>3. \A t \in Desks : Fits(desk[t])'
  BY <1>1, <1>2, Parts DEF Fits
<1> QED
  BY <1>1, <1>2, <1>3, Parts, Assemble

LEMMA NameCaseType ==
    ASSUME TypeInv, NEW s \in Sessions, NameCase(s), overlapped' \in BOOLEAN
    PROVE  TypeInv'
<1>1. A!Next
  BY DEF NameCase, A!Next, A!Step
<1>2. P!TypeInv' /\ Moving' /\ DOMAIN alerts \subseteq DOMAIN alerts'
  BY <1>1, Parts, SameStep, AlertStep
<1>3. call[s].alert \in DOMAIN alerts
  BY Parts DEF NameCase, A!TransitionWrite, Moving
<1>4. PICK id : caseOf' = [caseOf EXCEPT ![call[s].alert] = id]
  BY DEF NameCase
<1>5. named' = named \cup {call[s].alert} /\ UNCHANGED <<cases, runs, desk>>
  BY DEF NameCase
<1>6. \A t \in Desks : Fits(desk[t])'
  BY <1>2, <1>5, Parts DEF Fits
<1>7. \A i \in DOMAIN caseOf' : caseOf'[i] # 0 =>
               /\ i \in DOMAIN alerts'
               /\ i \notin named' => caseOf'[i] \in DOMAIN cases' /\ cases'[caseOf'[i]].alert = i
  BY <1>2, <1>3, <1>4, <1>5, Parts
<1> QED
  BY <1>2, <1>3, <1>5, <1>6, <1>7, Parts, Assemble

(***************************************************************************)
(* A call of the case service begins: nothing but the desk changes.        *)
(***************************************************************************)
LEMMA BeginType ==
    ASSUME TypeInv, NEW s \in Desks, NEW d \in DeskCalls, Fits(d),
           desk' = [desk EXCEPT ![s] = d],
           UNCHANGED <<alertVars, links, cases, runs>>, overlapped' \in BOOLEAN
    PROVE  TypeInv'
<1>1. UNCHANGED <<alerts, detectedAt, clock, call, ingested, caseOf, named, cases, runs>>
  BY DEF alertVars, links
<1>2. Fits(d)'
  BY <1>1 DEF Fits
<1>3. desk' \in [Desks -> DeskCalls] /\ \A t \in Desks : Fits(desk[t])'
  BY <1>1, <1>2, SetDesk
<1>4. P!TypeInv' /\ Moving'
  BY <1>1, Parts DEF P!TypeInv, P!TypeOK, P!Persisted, Moving
<1> QED
  BY <1>1, <1>3, <1>4, Parts, Assemble

(***************************************************************************)
(* The triage of an alert that has got a case.                             *)
(***************************************************************************)
LEMMA TriageAlerts ==
    ASSUME TypeInv, NEW s \in Desks, CreateWrite(s)
    PROVE  /\ desk[s].alert \in DOMAIN alerts
           /\ P!TypeInv' /\ Moving' /\ DOMAIN alerts' = DOMAIN alerts
           /\ \A k \in DOMAIN alerts : alerts'[k].status =
                IF desk[s].status = "new" /\ k = desk[s].alert THEN "triaged" ELSE alerts[k].status
<1> DEFINE i == desk[s].alert
           a == [alerts[i] EXCEPT !.status = "triaged"]
<1>1. i \in DOMAIN alerts
  BY Parts DEF CreateWrite, Fits
<1>2. alerts \in Seq(P!Alert) /\ alerts[i] \in P!Alert
  BY <1>1, Parts
<1>3. a \in P!Alert /\ a.status = "triaged"
  BY <1>2 DEF P!Alert, P!Statuses, P!Active
<1>4. alerts' = IF desk[s].status = "new" THEN [alerts EXCEPT ![i] = a] ELSE alerts
  BY DEF CreateWrite
<1>5. UNCHANGED <<detectedAt, clock, call, ingested>>
  BY DEF CreateWrite
<1> HIDE DEF a
<1>6. /\ alerts' \in Seq(P!Alert) /\ DOMAIN alerts' = DOMAIN alerts
      /\ \A k \in DOMAIN alerts :
           alerts'[k] = IF desk[s].status = "new" /\ k = i THEN a ELSE alerts[k]
  <2>1. CASE desk[s].status = "new"
    BY <1>2, <1>3, <1>4, <2>1, Replace
  <2>2. CASE desk[s].status # "new"
    BY <1>2, <1>4, <2>2
  <2> QED BY <2>1, <2>2
<1>7. P!TypeInv' /\ Moving'
  BY <1>5, <1>6, Parts DEF P!TypeInv, P!TypeOK, P!Persisted, Moving
<1> QED
  BY <1>1, <1>3, <1>6, <1>7

(***************************************************************************)
(* The case that is opened.                                                *)
(***************************************************************************)
LEMMA CreateWriteType ==
    ASSUME TypeInv, NEW s \in Desks, CreateWrite(s), overlapped' \in BOOLEAN
    PROVE  TypeInv'
<1> DEFINE i == desk[s].alert
           st == IF desk[s].status \in {"new", "triaged"} THEN "triaged" ELSE "in_progress"
           c == [alert |-> i, status |-> st, timeline |-> Tell(Untold, 0, st)]
<1>1. /\ i \in DOMAIN alerts /\ i \in Nat
      /\ P!TypeInv' /\ Moving' /\ DOMAIN alerts' = DOMAIN alerts
  <2>1. i \in DOMAIN alerts /\ P!TypeInv' /\ Moving' /\ DOMAIN alerts' = DOMAIN alerts
    BY TriageAlerts
  <2> QED BY <2>1, Parts
<1>2. st \in DOMAIN CaseTransitions
  BY DEF CaseTransitions
<1> HIDE DEF st
<1>3. c \in Case /\ c.alert = i
  BY <1>1, <1>2, UntoldType, TellType, CaseType
<1>4. /\ cases' = Append(cases, c)
      /\ caseOf' = [caseOf EXCEPT ![i] = Len(cases')]
      /\ Return(s) /\ UNCHANGED <<named, runs>>
  BY DEF CreateWrite, Opened, st
<1> HIDE DEF c
<1>5. /\ cases' \in Seq(Case) /\ DOMAIN cases \subseteq DOMAIN cases'
      /\ Len(cases') \in DOMAIN cases' /\ Len(cases') \notin DOMAIN cases
      /\ \A k \in DOMAIN cases' : cases'[k] = IF k \in DOMAIN cases THEN cases[k] ELSE c
  <2>1. cases \in Seq(Case) /\ Len(cases) \in Nat /\ DOMAIN cases = 1 .. Len(cases)
    BY Parts
  <2> QED BY <1>3, <1>4, <2>1, Add
<1>6. desk' \in [Desks -> DeskCalls] /\ \A t \in Desks : Fits(desk[t])'
  BY <1>1, <1>4, <1>5, FreeDesk
<1>7. \A k \in DOMAIN cases' : cases'[k].alert \in DOMAIN alerts'
  BY <1>1, <1>3, <1>5, Parts
<1>8. \A k \in DOMAIN caseOf' : caseOf'[k] # 0 =>
          /\ k \in DOMAIN alerts'
          /\ k \notin named' => caseOf'[k] \in DOMAIN cases' /\ cases'[caseOf'[k]].alert = k
  <2> SUFFICES ASSUME NEW k \in DOMAIN caseOf', caseOf'[k] # 0
               PROVE  /\ k \in DOMAIN alerts'
                      /\ k \notin named => caseOf'[k] \in DOMAIN cases' /\ cases'[caseOf'[k]].alert = k
    BY <1>4
  <2>1. CASE k = i
    BY <1>1, <1>3, <1>4, <1>5, <2>1
  <2>2. CASE k # i
    <3>1. k \in DOMAIN caseOf /\ caseOf'[k] = caseOf[k]
      BY <1>4, <2>2
    <3> QED BY <1>1, <1>5, <3>1, Parts
  <2> QED BY <2>1, <2>2
<1> QED
  BY <1>1, <1>4, <1>5, <1>6, <1>7, <1>8, Parts, Assemble

(***************************************************************************)
(* A write that leaves the alerts alone and keeps what a case or a run is  *)
(* about.                                                                  *)
(***************************************************************************)
LEMMA WriteType ==
    ASSUME TypeInv, NEW s \in Desks, Return(s), UNCHANGED <<alertVars, links>>,
           cases' \in Seq(Case), runs' \in Seq(Run), overlapped' \in BOOLEAN,
           DOMAIN cases' = DOMAIN cases,
           \A c \in DOMAIN cases : cases'[c].alert = cases[c].alert,
           DOMAIN runs \subseteq DOMAIN runs',
           \A r \in DOMAIN runs' : runs'[r].case \in DOMAIN cases
    PROVE  TypeInv'
<1>1. UNCHANGED <<alerts, detectedAt, clock, call, ingested, caseOf, named>>
  BY DEF alertVars, links
<1>2. desk' \in [Desks -> DeskCalls] /\ \A t \in Desks : Fits(desk[t])'
  BY <1>1, FreeDesk
<1>3. P!TypeInv' /\ Moving'
  BY <1>1, Parts DEF P!TypeInv, P!TypeOK, P!Persisted, Moving
<1> QED
  BY <1>1, <1>2, <1>3, Parts, Assemble

(***************************************************************************)
(* A timeline is written back.                                             *)
(***************************************************************************)
LEMMA WriteCase ==
    ASSUME TypeInv, NEW c \in DOMAIN cases, NEW t \in Timeline, Write(c, t)
    PROVE  /\ cases' \in Seq(Case) /\ DOMAIN cases' = DOMAIN cases
           /\ \A k \in DOMAIN cases : cases'[k].alert = cases[k].alert
<1> DEFINE x == [cases[c] EXCEPT !.timeline = t]
<1>1. cases \in Seq(Case) /\ cases[c] \in Case
  BY Parts
<1>2. x \in Case /\ x.alert = cases[c].alert
  BY <1>1, CaseType
<1>3. cases' = [cases EXCEPT ![c] = x]
  BY DEF Write
<1> HIDE DEF x
<1> QED
  BY <1>1, <1>2, <1>3, Replace

LEMMA TransitionWriteType ==
    ASSUME TypeInv, NEW s \in Desks, TransitionWrite(s), overlapped' \in BOOLEAN
    PROVE  TypeInv'
<1> DEFINE d == desk[s]
           t == Tell(d.timeline, 0, d.to)
           x == [cases[d.case] EXCEPT !.status = d.to, !.timeline = t]
<1>1. d \in DeskCalls /\ d.step = "case" /\ d.case \in DOMAIN cases
  BY Parts DEF TransitionWrite, Fits
<1>2. d.to \in DOMAIN CaseTransitions /\ d.timeline \in Timeline
  BY <1>1, DeskKinds
<1>3. t \in Timeline
  BY <1>2, TellType
<1>4. cases \in Seq(Case) /\ cases[d.case] \in Case
  BY <1>1, Parts
<1>5. cases' = [cases EXCEPT ![d.case] = x] /\ Return(s) /\ UNCHANGED <<alertVars, links, runs>>
  BY DEF TransitionWrite
<1> HIDE DEF t
<1>6. x \in Case /\ x.alert = cases[d.case].alert
  BY <1>2, <1>3, <1>4, CaseType
<1> HIDE DEF x
<1>7. /\ cases' \in Seq(Case) /\ DOMAIN cases' = DOMAIN cases
      /\ \A c \in DOMAIN cases : cases'[c].alert = cases[c].alert
  BY <1>4, <1>5, <1>6, Replace
<1> QED
  BY <1>5, <1>7, Parts, WriteType

LEMMA RequestWriteType ==
    ASSUME TypeInv, NEW s \in Desks, RequestWrite(s), overlapped' \in BOOLEAN
    PROVE  TypeInv'
<1> DEFINE d == desk[s]
           x == [case |-> d.case, status |-> "awaiting_approval", approved |-> FALSE]
<1>1. d \in DeskCalls /\ d.step = "request" /\ d.case \in DOMAIN cases
  BY Parts DEF RequestWrite, Fits
<1>2. d.case \in Nat /\ d.timeline \in Timeline
  BY <1>1, DeskKinds
<1>3. x \in Run
  BY <1>2 DEF Run, PlaybookTransitions
<1>4. /\ runs' = Append(runs, x)
      /\ Write(d.case, Tell(d.timeline, Len(runs'), "awaiting_approval"))
      /\ Return(s) /\ UNCHANGED <<alertVars, links>>
  BY DEF RequestWrite
<1>5. x.case \in DOMAIN cases
  BY <1>1
<1> HIDE DEF x
<1>6. /\ runs' \in Seq(Run) /\ DOMAIN runs \subseteq DOMAIN runs'
      /\ \A r \in DOMAIN runs' : runs'[r].case \in DOMAIN cases
  BY <1>3, <1>4, <1>5, Parts, Add
<1>7. Tell(d.timeline, Len(runs'), "awaiting_approval") \in Timeline
  BY <1>2, TellType DEF PlaybookTransitions
<1> QED
  BY <1>1, <1>4, <1>6, <1>7, WriteCase, WriteType

LEMMA RunWriteType ==
    ASSUME TypeInv, NEW s \in Desks, RunWrite(s), overlapped' \in BOOLEAN
    PROVE  /\ TypeInv' /\ desk[s].run \in DOMAIN runs /\ DOMAIN runs' = DOMAIN runs
           /\ \A r \in DOMAIN runs \ {desk[s].run} : runs'[r] = runs[r]
           /\ runs'[desk[s].run].status = desk[s].to
           /\ runs'[desk[s].run].approved = (runs[desk[s].run].approved \/ desk[s].to = "approved")
<1> DEFINE d == desk[s]
           b == runs[d.run].approved \/ d.to = "approved"
           x == [runs[d.run] EXCEPT !.status = d.to,
                                  !.approved = runs[d.run].approved \/ d.to = "approved"]
<1>1. d \in DeskCalls /\ d.step = "told" /\ d.run \in DOMAIN runs
  BY Parts DEF RunWrite, Fits
<1>2. d.to \in DOMAIN PlaybookTransitions /\ d.timeline \in Timeline
  BY <1>1, DeskKinds
<1>3. runs \in Seq(Run) /\ runs[d.run] \in Run /\ runs[d.run].case \in DOMAIN cases
  BY <1>1, Parts
<1>4. /\ runs' = [runs EXCEPT ![d.run] = x]
      /\ Write(runs[d.run].case, Tell(d.timeline, d.run, d.to))
      /\ Return(s) /\ UNCHANGED <<alertVars, links>>
  BY DEF RunWrite
<1>5. b \in BOOLEAN
  OBVIOUS
<1>6. /\ x \in Run /\ x.case = runs[d.run].case /\ x.status = d.to /\ x.approved = b
  BY <1>2, <1>3, <1>5 DEF Run
<1> HIDE DEF x, b
<1>7. /\ runs' \in Seq(Run) /\ DOMAIN runs' = DOMAIN runs
      /\ \A r \in DOMAIN runs : runs'[r] = IF r = d.run THEN x ELSE runs[r]
  BY <1>3, <1>4, <1>6, Replace
<1>8. Tell(d.timeline, d.run, d.to) \in Timeline
  BY <1>2, TellType
<1>9. TypeInv'
  BY <1>3, <1>4, <1>6, <1>7, <1>8, Parts, WriteCase, WriteType
<1> QED
  BY <1>1, <1>6, <1>7, <1>9 DEF b

(***************************************************************************)
(* The reads, and what they go on with.                                    *)
(***************************************************************************)
LEMMA Reads ==
    ASSUME TypeInv, NEW s \in Desks
    PROVE  /\ \A i \in DOMAIN alerts : CreateRead(s, i) =>
                \E d \in DeskCalls : /\ desk' = [desk EXCEPT ![s] = d] /\ Fits(d)
                                     /\ d.step = "create" /\ d.alert = i /\ d.status = alerts[i].status
           /\ \A c \in DOMAIN cases, to \in Targets : TransitionRead(s, c, to) =>
                \E d \in DeskCalls : /\ desk' = [desk EXCEPT ![s] = d] /\ Fits(d) /\ d.step = "case"
           /\ \A c \in DOMAIN cases : RequestRead(s, c) =>
                \E d \in DeskCalls : /\ desk' = [desk EXCEPT ![s] = d] /\ Fits(d) /\ d.step = "request"
           /\ \A r \in DOMAIN runs, to \in Targets : RunRead(s, r, to) =>
                \E d \in DeskCalls : /\ desk' = [desk EXCEPT ![s] = d] /\ Fits(d) /\ d.step = "run"
                                     /\ d.run = r /\ d.to = to
           /\ RunReadCase(s) =>
                \E d \in DeskCalls : /\ desk' = [desk EXCEPT ![s] = d] /\ Fits(d) /\ d.step = "told"
                                     /\ desk[s].step = "run" /\ d.run = desk[s].run /\ d.to = desk[s].to
<1>1. ASSUME NEW i \in DOMAIN alerts, CreateRead(s, i)
      PROVE  \E d \in DeskCalls : /\ desk' = [desk EXCEPT ![s] = d] /\ Fits(d)
                                  /\ d.step = "create" /\ d.alert = i /\ d.status = alerts[i].status
  <2> DEFINE d == [step |-> "create", alert |-> i, status |-> alerts[i].status]
  <2>1. alerts[i] \in P!Alert /\ i \in Nat
    BY Parts
  <2>2. alerts[i].status \in A!Statuses
    BY <2>1, SameType DEF P!Alert
  <2>3. d \in DeskCalls
    BY <2>1, <2>2 DEF DeskCalls
  <2>4. d.step = "create" /\ d.alert = i /\ d.status = alerts[i].status /\ Fits(d)
    BY <1>1 DEF Fits
  <2>5. desk' = [desk EXCEPT ![s] = d]
    BY <1>1 DEF CreateRead, Begin
  <2> QED BY <2>3, <2>4, <2>5
<1>2. ASSUME NEW c \in DOMAIN cases, NEW to \in Targets, TransitionRead(s, c, to)
      PROVE  \E d \in DeskCalls : /\ desk' = [desk EXCEPT ![s] = d] /\ Fits(d) /\ d.step = "case"
  <2> DEFINE d == [step |-> "case", case |-> c, to |-> to, timeline |-> cases[c].timeline]
  <2>1. cases[c] \in Case /\ c \in Nat
    BY Parts
  <2>2. /\ cases[c].status \in DOMAIN CaseTransitions /\ cases[c].timeline \in Timeline
    BY <2>1, CaseType
  <2>3. to \in DOMAIN CaseTransitions
    BY <1>2, <2>2 DEF TransitionRead, CaseTransitions
  <2>4. d \in DeskCalls
    BY <2>1, <2>2, <2>3 DEF DeskCalls
  <2>5. Fits(d) /\ d.step = "case" /\ desk' = [desk EXCEPT ![s] = d]
    BY <1>2 DEF Fits, TransitionRead, Begin
  <2> QED BY <2>4, <2>5
<1>3. ASSUME NEW c \in DOMAIN cases, RequestRead(s, c)
      PROVE  \E d \in DeskCalls : /\ desk' = [desk EXCEPT ![s] = d] /\ Fits(d) /\ d.step = "request"
  <2> DEFINE d == [step |-> "request", case |-> c, timeline |-> cases[c].timeline]
  <2>1. cases[c] \in Case /\ c \in Nat
    BY Parts
  <2>2. d \in DeskCalls
    BY <2>1, CaseType DEF DeskCalls
  <2>3. Fits(d) /\ d.step = "request" /\ desk' = [desk EXCEPT ![s] = d]
    BY <1>3 DEF Fits, RequestRead, Begin
  <2> QED BY <2>2, <2>3
<1>4. ASSUME NEW r \in DOMAIN runs, NEW to \in Targets, RunRead(s, r, to)
      PROVE  \E d \in DeskCalls : /\ desk' = [desk EXCEPT ![s] = d] /\ Fits(d) /\ d.step = "run"
                                  /\ d.run = r /\ d.to = to
  <2> DEFINE d == [step |-> "run", run |-> r, to |-> to]
  <2>1. runs[r] \in Run /\ r \in Nat
    BY Parts
  <2>2. to \in DOMAIN PlaybookTransitions
    <3>1. runs[r].status \in DOMAIN PlaybookTransitions
      BY <2>1 DEF Run
    <3> QED BY <1>4, <3>1 DEF RunRead, PlaybookTransitions
  <2>3. d \in DeskCalls
    BY <2>1, <2>2 DEF DeskCalls
  <2>4. Fits(d) /\ d.step = "run" /\ d.run = r /\ d.to = to /\ desk' = [desk EXCEPT ![s] = d]
    BY <1>4 DEF Fits, RunRead, Begin
  <2> QED BY <2>3, <2>4
<1>5. ASSUME RunReadCase(s)
      PROVE  \E d \in DeskCalls : /\ desk' = [desk EXCEPT ![s] = d] /\ Fits(d) /\ d.step = "told"
                                  /\ desk[s].step = "run" /\ d.run = desk[s].run /\ d.to = desk[s].to
  <2> DEFINE e == desk[s]
             d == [step |-> "told", run |-> e.run, to |-> e.to,
                   timeline |-> cases[runs[e.run].case].timeline]
  <2>1. e.step = "run" /\ e \in DeskCalls /\ e.run \in DOMAIN runs
    BY <1>5, Parts DEF RunReadCase, Fits
  <2>2. e.run \in Nat /\ e.to \in DOMAIN PlaybookTransitions
    BY <2>1, DeskKinds
  <2>3. cases[runs[e.run].case] \in Case
    BY <2>1, Parts
  <2>4. d \in DeskCalls
    BY <2>2, <2>3, CaseType DEF DeskCalls
  <2>5. Fits(d) /\ d.step = "told" /\ d.run = e.run /\ d.to = e.to
    BY <2>1 DEF Fits
  <2>6. desk' = [desk EXCEPT ![s] = d]
    BY <1>5 DEF RunReadCase
  <2> QED BY <2>1, <2>4, <2>5, <2>6
<1> QED
  BY <1>1, <1>2, <1>3, <1>4, <1>5

Reading(s) ==
    \/ RunReadCase(s) \/ Abandon(s)
    \/ \E i \in DOMAIN alerts : CreateRead(s, i)
    \/ \E c \in DOMAIN cases : \/ RequestRead(s, c)
                               \/ \E to \in Targets : TransitionRead(s, c, to)
    \/ \E r \in DOMAIN runs, to \in Targets : RunRead(s, r, to)

LEMMA ReadingType ==
    ASSUME TypeInv, NEW s \in Desks, Reading(s), overlapped' \in BOOLEAN
    PROVE  TypeInv' /\ UNCHANGED <<alertVars, links, cases, runs>>
<1>1. UNCHANGED <<alertVars, links, cases, runs>>
  BY DEF Reading, RunReadCase, Abandon, CreateRead, RequestRead, TransitionRead, RunRead
<1>2. CASE Abandon(s)
  <2>1. Fits(Idle) /\ desk' = [desk EXCEPT ![s] = Idle]
    BY <1>2, IdleDesk DEF Abandon, Return, Fits
  <2> QED BY <1>1, <2>1, IdleDesk, BeginType
<1>3. CASE ~Abandon(s)
  <2>1. \E d \in DeskCalls : desk' = [desk EXCEPT ![s] = d] /\ Fits(d)
    BY <1>3, Reads DEF Reading
  <2> QED BY <1>1, <2>1, BeginType
<1> QED
  BY <1>1, <1>2, <1>3

LEMMA StepCases ==
    ASSUME NEW s \in Desks, Step(s)
    PROVE  Reading(s) \/ CreateWrite(s) \/ TransitionWrite(s) \/ RequestWrite(s) \/ RunWrite(s)
  BY DEF Step, Reading

LEMMA StepType == TypeInv /\ [Next]_vars => TypeInv'
<1> SUFFICES ASSUME TypeInv, [Next]_vars PROVE TypeInv'
  OBVIOUS
<1>1. CASE Next
  <2>1. overlapped' \in BOOLEAN
    BY <1>1 DEF Next
  <2>2. ASSUME NEW s \in Desks, Step(s) PROVE TypeInv'
    BY <2>1, <2>2, StepCases, ReadingType, CreateWriteType, TransitionWriteType,
       RequestWriteType, RunWriteType
  <2> QED BY <1>1, <2>1, <2>2, AlertsType, NameCaseType DEF Next
<1>2. CASE UNCHANGED vars
  <2>1. UNCHANGED <<alertVars, links, cases, runs, desk, overlapped>>
    BY <1>2 DEF vars, caseVars
  <2>2. UNCHANGED <<alerts, detectedAt, clock, call, ingested, caseOf, named, cases, runs, desk>>
    BY <2>1 DEF alertVars, links
  <2>3. P!TypeInv' /\ Moving' /\ \A t \in Desks : Fits(desk[t])'
    BY <2>2, Parts DEF P!TypeInv, P!TypeOK, P!Persisted, Moving, Fits
  <2> QED BY <2>1, <2>2, <2>3, Parts, Assemble
<1> QED
  BY <1>1, <1>2

(***************************************************************************)
(* The rows of cases and runs have their types, and the links between      *)
(* alerts, cases and runs lead where they should.                          *)
(***************************************************************************)
THEOREM TypeCorrect == Spec => []TypeOK
<1>1. TypeInv => TypeOK
  BY DEF TypeInv
<1> QED
  BY <1>1, InitType, StepType, PTL DEF Spec
----------------------------------------------------------------------------
LEMMA InitApproved == Init => ApprovedInv
  BY IdleDesk DEF Init, ApprovedInv

(***************************************************************************)
(* A call begins or returns, and the runs stay.                            *)
(***************************************************************************)
LEMMA SameRuns ==
    ASSUME TypeInv, ApprovedInv, UNCHANGED runs, NEW s \in Desks, NEW d,
           desk' = [desk EXCEPT ![s] = d],
           d.step \in {"run", "told"} /\ d.to \in Started => runs[d.run].approved
    PROVE  ApprovedInv'
<1>1. desk \in [Desks -> DeskCalls]
  BY Parts
<1>2. \A t \in Desks : desk'[t] = IF t = s THEN d ELSE desk[t]
  BY <1>1
<1> QED
  BY <1>2 DEF ApprovedInv

LEMMA StepApproved == TypeInv /\ ApprovedInv /\ [Next]_vars => ApprovedInv'
<1> SUFFICES ASSUME TypeInv, ApprovedInv, [Next]_vars PROVE ApprovedInv'
  OBVIOUS
<1>1. ASSUME UNCHANGED <<runs, desk>> PROVE ApprovedInv'
  BY <1>1 DEF ApprovedInv
<1>2. ASSUME NEW s \in Desks, UNCHANGED runs, Return(s) PROVE ApprovedInv'
  BY <1>2, SameRuns, IdleDesk DEF Return
<1>3. ASSUME NEW s \in Desks, Reading(s) PROVE ApprovedInv'
  <2>1. UNCHANGED runs
    BY <1>3 DEF Reading, RunReadCase, Abandon, CreateRead, RequestRead, TransitionRead, RunRead
  <2>2. ASSUME NEW r \in DOMAIN runs, NEW to \in Targets, RunRead(s, r, to) PROVE ApprovedInv'
    <3>1. PICK d \in DeskCalls : /\ desk' = [desk EXCEPT ![s] = d]
                                 /\ d.step = "run" /\ d.run = r /\ d.to = to
      BY <2>2, Reads
    <3>2. runs[r].status \in DOMAIN PlaybookTransitions
      <4>1. runs[r] \in Run
        BY Parts
      <4> QED BY <4>1 DEF Run
    <3>3. to \in Started => runs[r].status \in {"approved", "running"}
      BY <2>2, <3>2 DEF RunRead, PlaybookTransitions, Started
    <3>4. to \in Started => runs[r].approved
      BY <3>3 DEF ApprovedInv, Started
    <3> QED BY <2>1, <3>1, <3>4, SameRuns
  <2>3. CASE RunReadCase(s)
    <3>1. PICK d \in DeskCalls :
            /\ desk' = [desk EXCEPT ![s] = d] /\ d.step = "told"
            /\ desk[s].step = "run" /\ d.run = desk[s].run /\ d.to = desk[s].to
      BY <2>3, Reads
    <3>2. d.to \in Started => runs[d.run].approved
      BY <3>1 DEF ApprovedInv
    <3> QED BY <2>1, <3>1, <3>2, SameRuns
  <2>4. CASE Abandon(s)
    BY <1>2, <2>1, <2>4 DEF Abandon
  <2>5. ASSUME NEW d \in DeskCalls, desk' = [desk EXCEPT ![s] = d], d.step \notin {"run", "told"}
        PROVE  ApprovedInv'
    BY <2>1, <2>5, SameRuns
  <2>6. ASSUME NEW i \in DOMAIN alerts, CreateRead(s, i) PROVE ApprovedInv'
    BY <2>5, <2>6, Reads
  <2>7. ASSUME NEW c \in DOMAIN cases, RequestRead(s, c) PROVE ApprovedInv'
    BY <2>5, <2>7, Reads
  <2>8. ASSUME NEW c \in DOMAIN cases, NEW to \in Targets, TransitionRead(s, c, to)
        PROVE  ApprovedInv'
    BY <2>5, <2>8, Reads
  <2> QED BY <1>3, <2>2, <2>3, <2>4, <2>6, <2>7, <2>8 DEF Reading
<1>4. ASSUME NEW s \in Desks, CreateWrite(s) \/ TransitionWrite(s) PROVE ApprovedInv'
  BY <1>2, <1>4 DEF CreateWrite, TransitionWrite
<1>5. ASSUME NEW s \in Desks, RequestWrite(s) PROVE ApprovedInv'
  <2> DEFINE x == [case |-> desk[s].case, status |-> "awaiting_approval", approved |-> FALSE]
  <2>1. runs' = Append(runs, x) /\ desk' = [desk EXCEPT ![s] = Idle]
    BY <1>5 DEF RequestWrite, Return
  <2>2. runs \in Seq(Run) /\ x \in Run /\ x.status = "awaiting_approval"
    <3>1. desk[s].step = "request" /\ desk[s] \in DeskCalls
      BY <1>5, Parts DEF RequestWrite
    <3>2. desk[s].case \in Nat
      BY <3>1, DeskKinds
    <3> QED BY <3>2, Parts DEF Run, PlaybookTransitions
  <2> HIDE DEF x
  <2>3. /\ DOMAIN runs \subseteq DOMAIN runs'
        /\ \A r \in DOMAIN runs' : runs'[r] = IF r \in DOMAIN runs THEN runs[r] ELSE x
    BY <2>1, <2>2, Add
  <2>4. \A t \in Desks : desk'[t] = IF t = s THEN Idle ELSE desk[t]
    BY <2>1, Parts
  <2>5. \A t \in Desks : desk[t].step \in {"run", "told"} => desk[t].run \in DOMAIN runs
    BY Parts DEF Fits
  <2> QED BY <2>2, <2>3, <2>4, <2>5, IdleDesk DEF ApprovedInv, Started
<1>6. ASSUME NEW s \in Desks, RunWrite(s) PROVE ApprovedInv'
  <2> DEFINE d == desk[s]
  <2>1. /\ d.run \in DOMAIN runs /\ DOMAIN runs' = DOMAIN runs
        /\ \A r \in DOMAIN runs \ {d.run} : runs'[r] = runs[r]
        /\ runs'[d.run].status = d.to
        /\ runs'[d.run].approved = (runs[d.run].approved \/ d.to = "approved")
    <3>1. overlapped' \in BOOLEAN
      BY Parts DEF Next, vars
    <3> QED BY <1>6, <3>1, RunWriteType
  <2>2. d.step = "told" /\ desk' = [desk EXCEPT ![s] = Idle]
    BY <1>6 DEF RunWrite, Return
  <2>3. d.to \in Started => runs[d.run].approved
    BY <2>2 DEF ApprovedInv
  <2>4. \A r \in DOMAIN runs : runs[r].approved => runs'[r].approved
    BY <2>1, Zenon
  <2>5. \A r \in DOMAIN runs' : runs'[r].status \in Started \cup {"approved"} => runs'[r].approved
    <3>1. d.to \in Started \cup {"approved"} => runs'[d.run].approved
      BY <2>1, <2>3, Zenon
    <3> QED BY <2>1, <3>1 DEF ApprovedInv
  <2>6. \A t \in Desks : desk'[t] = IF t = s THEN Idle ELSE desk[t]
    BY <2>2, Parts
  <2>7. \A t \in Desks : desk[t].step \in {"run", "told"} => desk[t].run \in DOMAIN runs
    BY Parts DEF Fits
  <2> QED BY <2>4, <2>5, <2>6, <2>7, IdleDesk DEF ApprovedInv
<1> QED
  BY <1>1, <1>3, <1>4, <1>5, <1>6, StepCases DEF Next, NameCase, caseVars, vars

(***************************************************************************)
(* A playbook run that was started has been approved, with any number of   *)
(* calls that overwrite each other.                                        *)
(***************************************************************************)
THEOREM RunsApproved == Spec => []RunsAreApproved
<1>1. ApprovedInv => RunsAreApproved
  BY DEF ApprovedInv, RunsAreApproved, Started
<1> QED
  BY <1>1, InitType, StepType, InitApproved, StepApproved, PTL DEF Spec
----------------------------------------------------------------------------
LEMMA InitTriaged == Init => TriagedInv
  BY IdleDesk DEF Init, TriagedInv, EscalatedIsTriaged

(***************************************************************************)
(* Alerts do not become new, and links are to alerts that are not.         *)
(***************************************************************************)
LEMMA KeepTriaged ==
    ASSUME TypeInv, TriagedInv, DOMAIN alerts \subseteq DOMAIN alerts',
           \A i \in DOMAIN alerts : alerts'[i].status = "new" => alerts[i].status = "new",
           DOMAIN caseOf' = DOMAIN caseOf,
           \A i \in DOMAIN caseOf : caseOf'[i] = caseOf[i] \/ (i \in DOMAIN alerts /\ alerts'[i].status # "new"),
           \A s \in Desks : \/ desk'[s] = desk[s] \/ desk'[s].step # "create"
                            \/ desk'[s].status = "new" \/ alerts'[desk'[s].alert].status # "new"
    PROVE  TriagedInv'
<1>1. EscalatedIsTriaged'
  BY Parts DEF TriagedInv, EscalatedIsTriaged
<1>2. ASSUME NEW s \in Desks, desk'[s].step = "create", desk'[s].status # "new"
      PROVE  alerts'[desk'[s].alert].status # "new"
  <2>1. desk[s].step = "create" => desk[s].alert \in DOMAIN alerts
    BY Parts DEF Fits
  <2> QED BY <1>2, <2>1 DEF TriagedInv
<1> QED
  BY <1>1, <1>2 DEF TriagedInv

LEMMA StepTriaged == TypeInv /\ TriagedInv /\ [Next]_vars => TriagedInv'
<1> SUFFICES ASSUME TypeInv, TriagedInv, [Next]_vars PROVE TriagedInv'
  OBVIOUS
<1>1. CASE A!Next /\ UNCHANGED caseVars
  <2>1. /\ DOMAIN alerts \subseteq DOMAIN alerts'
        /\ \A i \in DOMAIN alerts : alerts'[i].status = "new" => alerts[i].status = "new"
    BY <1>1, Parts, SameStep, AlertStep
  <2> QED BY <1>1, <2>1, KeepTriaged DEF caseVars, links
<1>2. ASSUME NEW s \in Sessions, NameCase(s) PROVE TriagedInv'
  <2>1. A!Next
    BY <1>2 DEF NameCase, A!Next, A!Step
  <2>2. /\ DOMAIN alerts \subseteq DOMAIN alerts'
        /\ \A i \in DOMAIN alerts : alerts'[i].status = "new" => alerts[i].status = "new"
    BY <2>1, Parts, SameStep, AlertStep
  <2> DEFINE j == call[s].alert
             a == [alerts[j] EXCEPT !.status = call[s].to, !.seen = clock]
  <2>3. j \in DOMAIN alerts /\ call[s].to # "new"
    BY <1>2, Parts DEF NameCase, A!TransitionWrite, Moving
  <2>4. alerts[j] \in P!Alert
    BY <2>3, Parts
  <2>5. a.status = call[s].to
    BY <2>4 DEF P!Alert
  <2>6. alerts' = [alerts EXCEPT ![j] = a]
    BY <1>2 DEF NameCase, A!TransitionWrite
  <2> HIDE DEF a
  <2>7. alerts'[j].status # "new"
    BY <2>3, <2>5, <2>6
  <2>8. UNCHANGED desk /\ \E id : caseOf' = [caseOf EXCEPT ![j] = id]
    BY <1>2 DEF NameCase
  <2>9. /\ DOMAIN caseOf' = DOMAIN caseOf
        /\ \A i \in DOMAIN caseOf : caseOf'[i] = caseOf[i] \/ i = j
    BY <2>8
  <2> QED BY <2>2, <2>3, <2>7, <2>8, <2>9, KeepTriaged
<1>3. ASSUME NEW s \in Desks, Reading(s) PROVE TriagedInv'
  <2>1. UNCHANGED <<alerts, caseOf>>
    BY <1>3 DEF Reading, RunReadCase, Abandon, CreateRead, RequestRead, TransitionRead, RunRead,
                alertVars, links
  <2>2. ASSUME NEW d, desk' = [desk EXCEPT ![s] = d],
               d.step # "create" \/ d.status = "new" \/ alerts[d.alert].status # "new"
        PROVE  TriagedInv'
    <3>1. \A t \in Desks : desk'[t] = IF t = s THEN d ELSE desk[t]
      BY <2>2, Parts
    <3> QED BY <2>1, <2>2, <3>1, KeepTriaged
  <2>3. CASE Abandon(s)
    BY <2>2, <2>3, IdleDesk DEF Abandon, Return
  <2>4. ASSUME NEW i \in DOMAIN alerts, CreateRead(s, i) PROVE TriagedInv'
    <3>1. PICK d \in DeskCalls : desk' = [desk EXCEPT ![s] = d] /\ d.alert = i /\ d.status = alerts[i].status
      BY <2>4, Reads
    <3> QED BY <2>2, <3>1
  <2>5. ASSUME NEW c \in DOMAIN cases, RequestRead(s, c) PROVE TriagedInv'
    BY <2>2, <2>5, Reads
  <2>6. ASSUME NEW c \in DOMAIN cases, NEW to \in Targets, TransitionRead(s, c, to)
        PROVE  TriagedInv'
    BY <2>2, <2>6, Reads
  <2>7. ASSUME NEW r \in DOMAIN runs, NEW to \in Targets, RunRead(s, r, to) PROVE TriagedInv'
    BY <2>2, <2>7, Reads
  <2>8. CASE RunReadCase(s)
    BY <2>2, <2>8, Reads
  <2> QED BY <1>3, <2>3, <2>4, <2>5, <2>6, <2>7, <2>8 DEF Reading
<1>4. ASSUME NEW s \in Desks, Return(s), UNCHANGED <<alerts, caseOf>> PROVE TriagedInv'
  <2>1. \A t \in Desks : desk'[t] = IF t = s THEN Idle ELSE desk[t]
    BY <1>4, Parts DEF Return
  <2> QED BY <1>4, <2>1, IdleDesk, KeepTriaged
<1>5. ASSUME NEW s \in Desks, TransitionWrite(s) \/ RequestWrite(s) \/ RunWrite(s)
      PROVE  TriagedInv'
  BY <1>4, <1>5 DEF TransitionWrite, RequestWrite, RunWrite, alertVars, links
<1>6. ASSUME NEW s \in Desks, CreateWrite(s) PROVE TriagedInv'
  <2> DEFINE j == desk[s].alert
  <2>1. /\ j \in DOMAIN alerts /\ DOMAIN alerts' = DOMAIN alerts
        /\ \A k \in DOMAIN alerts : alerts'[k].status =
             IF desk[s].status = "new" /\ k = j THEN "triaged" ELSE alerts[k].status
    BY <1>6, TriageAlerts
  <2>2. alerts'[j].status # "new"
    <3>1. CASE desk[s].status = "new"
      BY <2>1, <3>1
    <3>2. CASE desk[s].status # "new"
      BY <1>6, <2>1, <3>2 DEF TriagedInv, CreateWrite
    <3> QED BY <3>1, <3>2
  <2>3. caseOf' = [caseOf EXCEPT ![j] = Len(cases')] /\ Return(s)
    BY <1>6 DEF CreateWrite
  <2>4. \A t \in Desks : desk'[t] = IF t = s THEN Idle ELSE desk[t]
    BY <2>3, Parts DEF Return
  <2> QED BY <2>1, <2>2, <2>3, <2>4, IdleDesk, KeepTriaged
<1>7. CASE UNCHANGED vars
  BY <1>7, KeepTriaged DEF vars, alertVars, caseVars, links
<1> QED
  BY <1>1, <1>2, <1>3, <1>5, <1>6, <1>7, StepCases DEF Next

(***************************************************************************)
(* An alert that has a case is not new, although two services write its    *)
(* status from what they read.                                             *)
(***************************************************************************)
THEOREM EscalatedTriaged == Spec => []EscalatedIsTriaged
<1>1. TriagedInv => EscalatedIsTriaged
  BY DEF TriagedInv
<1> QED
  BY <1>1, InitType, StepType, InitTriaged, StepTriaged, PTL DEF Spec
(***************************************************************************)
(* Which calls that overlap break what.  The services lock no row: a call  *)
(* writes from what it read, and only these pairs of calls do harm.        *)
(***************************************************************************)

(* No two calls are about to open a case of one alert.                     *)
OneOpening == \A s, t \in Desks :
    desk[s].step = "create" /\ desk[t].step = "create" /\ desk[s].alert = desk[t].alert => s = t

(* No two calls are about to write the timeline of one case back.          *)
Telling(s) == desk[s].step \in {"case", "request", "told"}
About(s) == IF desk[s].step = "told" THEN runs[desk[s].run].case ELSE desk[s].case
OneTelling == \A s, t \in Desks : Telling(s) /\ Telling(t) /\ About(s) = About(t) => s = t

(* No two calls are about to move an alert, a case or a run to different   *)
(* statuses.  To open a case of an alert that was new is to triage it.     *)
Triaging(t) == desk[t].step = "create" /\ desk[t].status = "new"
Running(s) == desk[s].step \in {"run", "told"}
OneMove ==
    /\ P!OneTransition
    /\ \A s \in Sessions, t \in Desks :
         call[s].step = "transition" /\ Triaging(t) /\ call[s].alert = desk[t].alert
         => call[s].to = "triaged"
    /\ \A s, t \in Desks :
         desk[s].step = "case" /\ desk[t].step = "case" /\ desk[s].case = desk[t].case
         => desk[s].to = desk[t].to
    /\ \A s, t \in Desks :
         Running(s) /\ Running(t) /\ desk[s].run = desk[t].run => desk[s].to = desk[t].to

(* Every case is the one its alert is linked to, unless an analyst gave    *)
(* the alert another; and a call that will open one has found none.        *)
LinkedOnce == \A c \in DOMAIN cases :
    caseOf[cases[c].alert] = c \/ cases[c].alert \in named

OpenInv ==
    /\ LinkedOnce
    /\ \A s \in Desks : desk[s].step = "create" =>
         \A c \in DOMAIN cases : cases[c].alert = desk[s].alert => desk[s].alert \in named

(* The last told is the status, and what a call will write back is there.  *)
Tells ==
    /\ \A c \in DOMAIN cases : cases[c].timeline[0] = cases[c].status
    /\ \A r \in DOMAIN runs : cases[runs[r].case].timeline[r] = runs[r].status

TellInv ==
    /\ Tells
    /\ \A s \in Desks : Telling(s) => desk[s].timeline = cases[About(s)].timeline

(* The status a call is about to write still follows the one there is.     *)
Follows(to, status, table) == to = status \/ to \in table[status]
MoveInv ==
    /\ P!MoveInv
    /\ \A s \in Desks : Triaging(s) => alerts[desk[s].alert].status \in {"new", "triaged"}
    /\ \A s \in Desks : desk[s].step = "case" =>
         Follows(desk[s].to, cases[desk[s].case].status, CaseTransitions)
    /\ \A s \in Desks : Running(s) =>
         Follows(desk[s].to, runs[desk[s].run].status, PlaybookTransitions)

LegalMoves ==
    /\ Keeps(alerts, alerts', A!Allowed)
    /\ Keeps(cases, cases', CaseTransitions)
    /\ Keeps(runs, runs', PlaybookTransitions)

(* The columns of the model are wide enough: of caseOf for the alerts that *)
(* calls in flight will insert, of a timeline for the runs they ask for.   *)
Inserting == {s \in Sessions : call[s].step = "insert"}
AlertRoom ==
    /\ DOMAIN caseOf = 1 .. (MaxAlerts + Cardinality(Sessions))
    /\ Len(alerts) + Cardinality(Inserting) <= MaxAlerts + Cardinality(Sessions)

Requesting == {s \in Desks : desk[s].step = "request"}
RunRoom == Len(runs) + Cardinality(Requesting) <= MaxRuns
----------------------------------------------------------------------------
(***************************************************************************)
(* What each step of a call of the case service does, whatever overlaps.   *)
(***************************************************************************)
LEMMA DeskChanges ==
    ASSUME TypeInv, NEW s \in Desks, NEW d, desk' = [desk EXCEPT ![s] = d]
    PROVE  desk'[s] = d /\ \A t \in Desks \ {s} : desk'[t] = desk[t]
  BY Parts

LEMMA DeskReturns ==
    ASSUME TypeInv, NEW s \in Desks, Return(s)
    PROVE  desk'[s].step = "idle" /\ \A t \in Desks \ {s} : desk'[t] = desk[t]
  BY DeskChanges, IdleDesk DEF Return

LEMMA TellValue ==
    ASSUME NEW t \in Timeline, NEW r \in 0 .. MaxRuns, NEW x
    PROVE  /\ Tell(t, r, x)[r] = x
           /\ \A q \in 0 .. MaxRuns : q # r => Tell(t, r, x)[q] = t[q]
  BY DEF Tell, Timeline, Untold

LEMMA CaseParts ==
    ASSUME TypeInv, NEW c \in DOMAIN cases
    PROVE  cases[c] \in Case /\ cases[c].timeline \in Timeline
<1>1. cases[c] \in Case
  BY Parts
<1> QED BY <1>1, CaseType

LEMMA CreateFacts ==
    ASSUME TypeInv, NEW s \in Desks, CreateWrite(s)
    PROVE  /\ desk[s].step = "create" /\ desk[s].alert \in DOMAIN alerts
           /\ desk'[s].step = "idle" /\ \A t \in Desks \ {s} : desk'[t] = desk[t]
           /\ UNCHANGED <<call, named, runs>>
           /\ Len(alerts') = Len(alerts) /\ DOMAIN alerts' = DOMAIN alerts
           /\ \A k \in DOMAIN alerts : alerts'[k].status =
                IF desk[s].status = "new" /\ k = desk[s].alert THEN "triaged" ELSE alerts[k].status
           /\ \E n : /\ n \notin DOMAIN cases /\ DOMAIN cases' = DOMAIN cases \cup {n}
                     /\ \A k \in DOMAIN cases : cases'[k] = cases[k]
                     /\ cases'[n].alert = desk[s].alert
                     /\ cases'[n].timeline[0] = cases'[n].status
                     /\ caseOf' = [caseOf EXCEPT ![desk[s].alert] = n]
<1> DEFINE i == desk[s].alert
           st == IF desk[s].status \in {"new", "triaged"} THEN "triaged" ELSE "in_progress"
           c == [alert |-> i, status |-> st, timeline |-> Tell(Untold, 0, st)]
           n == Len(cases) + 1
<1>1. /\ i \in DOMAIN alerts /\ DOMAIN alerts' = DOMAIN alerts
      /\ \A k \in DOMAIN alerts : alerts'[k].status =
                IF desk[s].status = "new" /\ k = i THEN "triaged" ELSE alerts[k].status
      /\ alerts \in Seq(P!Alert) /\ alerts' \in Seq(P!Alert)
  <2>1. P!TypeInv' /\ P!TypeInv
    BY TriageAlerts, Parts
  <2>2. alerts \in Seq(P!Alert) /\ alerts' \in Seq(P!Alert)
    BY <2>1 DEF P!TypeInv, P!TypeOK
  <2> QED BY <2>2, TriageAlerts
<1>2. Len(alerts') = Len(alerts) /\ i \in Nat
  BY <1>1
<1>3. /\ cases' = Append(cases, c) /\ caseOf' = [caseOf EXCEPT ![i] = Len(cases')]
      /\ UNCHANGED <<call, named, runs>> /\ Return(s) /\ desk[s].step = "create"
  BY DEF CreateWrite, Opened
<1>4. c \in Case /\ c.alert = i /\ c.timeline[0] = c.status
  <2>1. st \in DOMAIN CaseTransitions
    BY DEF CaseTransitions
  <2> HIDE DEF st
  <2>2. Tell(Untold, 0, st) \in Timeline /\ Tell(Untold, 0, st)[0] = st
    <3>1. 0 \in 0 .. MaxRuns
      BY Assumed
    <3> QED BY <2>1, <3>1, UntoldType, TellType, TellValue
  <2> QED BY <1>2, <2>1, <2>2, CaseType
<1> HIDE DEF c
<1>5. /\ n \notin DOMAIN cases /\ DOMAIN cases' = DOMAIN cases \cup {n} /\ Len(cases') = n
      /\ \A k \in DOMAIN cases : cases'[k] = cases[k]
      /\ cases'[n] = c
  <2>1. cases \in Seq(Case) /\ Len(cases) \in Nat /\ DOMAIN cases = 1 .. Len(cases)
    BY Parts
  <2>2. /\ DOMAIN cases' = 1 .. (Len(cases) + 1) /\ cases'[n] = c /\ Len(cases') = n
        /\ \A k \in 1 .. Len(cases) : cases'[k] = cases[k]
    BY <1>3, <1>4, <2>1, AppendProperties
  <2> QED BY <2>1, <2>2
<1> HIDE DEF n
<1>6. \E m : /\ m \notin DOMAIN cases /\ DOMAIN cases' = DOMAIN cases \cup {m}
             /\ \A k \in DOMAIN cases : cases'[k] = cases[k]
             /\ cases'[m].alert = i /\ cases'[m].timeline[0] = cases'[m].status
             /\ caseOf' = [caseOf EXCEPT ![i] = m]
  BY <1>3, <1>4, <1>5
<1> QED BY <1>1, <1>2, <1>3, <1>6, DeskReturns

LEMMA CaseFacts ==
    ASSUME TypeInv, NEW s \in Desks, TransitionWrite(s)
    PROVE  /\ desk[s].step = "case" /\ desk[s].case \in DOMAIN cases
           /\ desk'[s].step = "idle" /\ \A t \in Desks \ {s} : desk'[t] = desk[t]
           /\ UNCHANGED <<alerts, call, caseOf, named, runs>>
           /\ DOMAIN cases' = DOMAIN cases
           /\ \A k \in DOMAIN cases :
                /\ cases'[k].alert = cases[k].alert
                /\ cases'[k].status = IF k = desk[s].case THEN desk[s].to ELSE cases[k].status
                /\ k # desk[s].case => cases'[k] = cases[k]
           /\ cases'[desk[s].case].timeline[0] = desk[s].to
           /\ \A q \in 0 .. MaxRuns : q # 0 =>
                cases'[desk[s].case].timeline[q] = desk[s].timeline[q]
<1> DEFINE d == desk[s]
           t == Tell(d.timeline, 0, d.to)
           x == [cases[d.case] EXCEPT !.status = d.to, !.timeline = t]
<1>1. d \in DeskCalls /\ d.step = "case" /\ d.case \in DOMAIN cases
  BY Parts DEF TransitionWrite, Fits
<1>2. /\ d.to \in DOMAIN CaseTransitions /\ d.timeline \in Timeline /\ t \in Timeline
  BY <1>1, DeskKinds, TellType
<1>3. t[0] = d.to /\ \A q \in 0 .. MaxRuns : q # 0 => t[q] = d.timeline[q]
  <2>1. 0 \in 0 .. MaxRuns
    BY Assumed
  <2> QED BY <1>2, <2>1, TellValue
<1>4. /\ cases' = [cases EXCEPT ![d.case] = x] /\ UNCHANGED <<alerts, call, caseOf, named, runs>>
      /\ Return(s)
  BY DEF TransitionWrite, alertVars, links
<1> HIDE DEF t
<1>5. x \in Case /\ x.alert = cases[d.case].alert /\ x.status = d.to /\ x.timeline = t
  BY <1>1, <1>2, CaseParts, CaseType
<1> HIDE DEF x
<1>6. /\ DOMAIN cases' = DOMAIN cases
      /\ \A k \in DOMAIN cases : cases'[k] = IF k = d.case THEN x ELSE cases[k]
  BY <1>4, <1>5, Parts, Replace
<1> QED BY <1>1, <1>3, <1>4, <1>5, <1>6, DeskReturns

(* A timeline is written back with one thing more told of a run.           *)
LEMMA WriteValue ==
    ASSUME TypeInv, NEW c \in DOMAIN cases, NEW t \in Timeline, NEW r \in 0 .. MaxRuns,
           NEW x \in {None} \cup DOMAIN CaseTransitions \cup DOMAIN PlaybookTransitions,
           Write(c, Tell(t, r, x))
    PROVE  /\ DOMAIN cases' = DOMAIN cases
           /\ \A k \in DOMAIN cases : /\ cases'[k].alert = cases[k].alert
                                      /\ cases'[k].status = cases[k].status
                                      /\ k # c => cases'[k] = cases[k]
           /\ cases'[c].timeline[r] = x
           /\ \A q \in 0 .. MaxRuns : q # r => cases'[c].timeline[q] = t[q]
<1> DEFINE u == Tell(t, r, x)
           y == [cases[c] EXCEPT !.timeline = u]
<1>1. cases[c] \in Case /\ u \in Timeline /\ u[r] = x
      /\ \A q \in 0 .. MaxRuns : q # r => u[q] = t[q]
  BY CaseParts, TellType, TellValue
<1>2. cases' = [cases EXCEPT ![c] = y]
  BY DEF Write
<1> HIDE DEF u
<1>3. y \in Case /\ y.alert = cases[c].alert /\ y.status = cases[c].status /\ y.timeline = u
  BY <1>1, CaseType
<1> HIDE DEF y
<1>4. /\ DOMAIN cases' = DOMAIN cases
      /\ \A k \in DOMAIN cases : cases'[k] = IF k = c THEN y ELSE cases[k]
  BY <1>2, <1>3, Parts, Replace
<1> QED BY <1>1, <1>3, <1>4

LEMMA RequestFacts ==
    ASSUME TypeInv, NEW s \in Desks, RequestWrite(s)
    PROVE  /\ desk[s].step = "request" /\ desk[s].case \in DOMAIN cases
           /\ desk'[s].step = "idle" /\ \A t \in Desks \ {s} : desk'[t] = desk[t]
           /\ UNCHANGED <<alerts, call, caseOf, named>>
           /\ Len(runs') = Len(runs) + 1
           /\ DOMAIN runs' = DOMAIN runs \cup {Len(runs) + 1} /\ Len(runs) + 1 \notin DOMAIN runs
           /\ \A r \in DOMAIN runs : runs'[r] = runs[r]
           /\ runs'[Len(runs) + 1].case = desk[s].case
           /\ runs'[Len(runs) + 1].status = "awaiting_approval"
           /\ desk[s].timeline \in Timeline
           /\ Write(desk[s].case, Tell(desk[s].timeline, Len(runs) + 1, "awaiting_approval"))
<1> DEFINE d == desk[s]
           x == [case |-> d.case, status |-> "awaiting_approval", approved |-> FALSE]
<1>1. d \in DeskCalls /\ d.step = "request" /\ d.case \in DOMAIN cases
  BY Parts DEF RequestWrite, Fits
<1>2. d.case \in Nat /\ d.timeline \in Timeline
  BY <1>1, DeskKinds
<1>3. x \in Run /\ x.case = d.case /\ x.status = "awaiting_approval"
  BY <1>2 DEF Run, PlaybookTransitions
<1>4. /\ runs' = Append(runs, x)
      /\ Write(d.case, Tell(d.timeline, Len(runs'), "awaiting_approval"))
      /\ UNCHANGED <<alerts, call, caseOf, named>> /\ Return(s)
  BY DEF RequestWrite, alertVars, links
<1> HIDE DEF x
<1>5. runs \in Seq(Run) /\ Len(runs) \in Nat /\ DOMAIN runs = 1 .. Len(runs)
  BY Parts
<1>6. /\ Len(runs') = Len(runs) + 1 /\ DOMAIN runs' = 1 .. (Len(runs) + 1)
      /\ \A r \in 1 .. Len(runs) : runs'[r] = runs[r]
      /\ runs'[Len(runs) + 1] = x
  BY <1>3, <1>4, <1>5, AppendProperties
<1>7. 1 .. (Len(runs) + 1) = (1 .. Len(runs)) \cup {Len(runs) + 1} /\ Len(runs) + 1 \notin 1 .. Len(runs)
  BY <1>5
<1> QED BY <1>1, <1>2, <1>3, <1>4, <1>5, <1>6, <1>7, DeskReturns

LEMMA RunFacts ==
    ASSUME TypeInv, NEW s \in Desks, RunWrite(s)
    PROVE  /\ desk[s].step = "told" /\ desk[s].run \in DOMAIN runs
           /\ desk'[s].step = "idle" /\ \A t \in Desks \ {s} : desk'[t] = desk[t]
           /\ UNCHANGED <<alerts, call, caseOf, named>>
           /\ DOMAIN runs' = DOMAIN runs /\ Len(runs') = Len(runs)
           /\ \A r \in DOMAIN runs :
                /\ runs'[r].case = runs[r].case
                /\ runs'[r].status = IF r = desk[s].run THEN desk[s].to ELSE runs[r].status
           /\ desk[s].timeline \in Timeline
           /\ desk[s].to \in {None} \cup DOMAIN CaseTransitions \cup DOMAIN PlaybookTransitions
           /\ Write(runs[desk[s].run].case, Tell(desk[s].timeline, desk[s].run, desk[s].to))
<1> DEFINE d == desk[s]
           x == [runs[d.run] EXCEPT !.status = d.to,
                                  !.approved = runs[d.run].approved \/ d.to = "approved"]
<1>1. d \in DeskCalls /\ d.step = "told" /\ d.run \in DOMAIN runs
  BY Parts DEF RunWrite, Fits
<1>2. d.to \in DOMAIN PlaybookTransitions /\ d.timeline \in Timeline
  BY <1>1, DeskKinds
<1>3. runs \in Seq(Run) /\ runs[d.run] \in Run
  BY <1>1, Parts
<1>4. /\ runs' = [runs EXCEPT ![d.run] = x]
      /\ Write(runs[d.run].case, Tell(d.timeline, d.run, d.to))
      /\ Return(s) /\ UNCHANGED <<alerts, call, caseOf, named>>
  BY DEF RunWrite, alertVars, links
<1>5. x.case = runs[d.run].case /\ x.status = d.to /\ x \in Run
  <2> DEFINE b == runs[d.run].approved \/ d.to = "approved"
  <2>1. b \in BOOLEAN /\ x = [runs[d.run] EXCEPT !.status = d.to, !.approved = b]
    OBVIOUS
  <2> HIDE DEF x, b
  <2> QED BY <1>2, <1>3, <2>1 DEF Run
<1> HIDE DEF x
<1>6. /\ runs' \in Seq(Run) /\ DOMAIN runs' = DOMAIN runs
      /\ \A r \in DOMAIN runs : runs'[r] = IF r = d.run THEN x ELSE runs[r]
  BY <1>3, <1>4, <1>5, Replace
<1>7. Len(runs') = Len(runs)
  BY <1>3, <1>6
<1> QED BY <1>1, <1>2, <1>4, <1>5, <1>6, <1>7, DeskReturns

(* What a call of the case service has read when it begins, or reads on.   *)
DeskReads(s) ==
    LET d == desk'[s] IN
    \/ d.step = "idle"
    \/ /\ d.step = "create" /\ d.alert \in DOMAIN alerts /\ d.status = alerts[d.alert].status
       /\ caseOf[d.alert] \notin DOMAIN cases
    \/ /\ d.step = "case" /\ d.case \in DOMAIN cases
       /\ d.to \in CaseTransitions[cases[d.case].status]
       /\ d.timeline = cases[d.case].timeline
    \/ /\ d.step = "request" /\ d.case \in DOMAIN cases
       /\ d.timeline = cases[d.case].timeline
       /\ Len(runs) + Cardinality(Requesting) < MaxRuns
    \/ /\ d.step = "run" /\ d.run \in DOMAIN runs
       /\ d.to \in PlaybookTransitions[runs[d.run].status]
    \/ /\ d.step = "told" /\ desk[s].step = "run" /\ d.run = desk[s].run /\ d.to = desk[s].to
       /\ d.timeline = cases[runs[d.run].case].timeline

LEMMA DeskFacts ==
    ASSUME TypeInv, NEW s \in Desks, Reading(s)
    PROVE  /\ UNCHANGED <<alerts, call, caseOf, named, cases, runs>>
           /\ \A t \in Desks \ {s} : desk'[t] = desk[t]
           /\ DeskReads(s)
<1>1. UNCHANGED <<alerts, call, caseOf, named, cases, runs>>
  BY DEF Reading, RunReadCase, Abandon, CreateRead, RequestRead, TransitionRead, RunRead,
         alertVars, links
<1>2. \A t \in Desks \ {s} : desk'[t] = desk[t]
  <2>1. \E d : desk' = [desk EXCEPT ![s] = d]
    BY DEF Reading, RunReadCase, Abandon, CreateRead, RequestRead, TransitionRead, RunRead,
           Begin, Return
  <2> QED BY <2>1, DeskChanges
<1>3. CASE Abandon(s)
  <2>1. desk'[s].step = "idle"
    BY <1>3, DeskReturns DEF Abandon
  <2> QED BY <1>1, <1>2, <2>1 DEF DeskReads
<1>4. ASSUME NEW i \in DOMAIN alerts, CreateRead(s, i) PROVE DeskReads(s)
  <2> DEFINE d == [step |-> "create", alert |-> i, status |-> alerts[i].status]
  <2>1. d.step = "create" /\ d.alert = i /\ d.status = alerts[i].status
    OBVIOUS
  <2>2. desk' = [desk EXCEPT ![s] = d] /\ caseOf[i] \notin DOMAIN cases
    BY <1>4 DEF CreateRead, Begin
  <2> HIDE DEF d
  <2>3. desk'[s] = d
    BY <2>2, DeskChanges
  <2> QED BY <2>1, <2>2, <2>3 DEF DeskReads
<1>5. ASSUME NEW c \in DOMAIN cases, NEW to \in Targets, TransitionRead(s, c, to)
      PROVE  DeskReads(s)
  <2> DEFINE d == [step |-> "case", case |-> c, to |-> to, timeline |-> cases[c].timeline]
  <2>1. d.step = "case" /\ d.case = c /\ d.to = to /\ d.timeline = cases[c].timeline
    OBVIOUS
  <2>2. desk' = [desk EXCEPT ![s] = d] /\ to \in CaseTransitions[cases[c].status]
    BY <1>5 DEF TransitionRead, Begin
  <2> HIDE DEF d
  <2>3. desk'[s] = d
    BY <2>2, DeskChanges
  <2> QED BY <2>1, <2>2, <2>3 DEF DeskReads
<1>6. ASSUME NEW c \in DOMAIN cases, RequestRead(s, c) PROVE DeskReads(s)
  <2> DEFINE d == [step |-> "request", case |-> c, timeline |-> cases[c].timeline]
  <2>1. d.step = "request" /\ d.case = c /\ d.timeline = cases[c].timeline
    OBVIOUS
  <2>2. desk' = [desk EXCEPT ![s] = d] /\ Len(runs) + Cardinality(Requesting) < MaxRuns
    BY <1>6 DEF RequestRead, Begin, Requesting
  <2> HIDE DEF d
  <2>3. desk'[s] = d
    BY <2>2, DeskChanges
  <2> QED BY <2>1, <2>2, <2>3 DEF DeskReads
<1>7. ASSUME NEW r \in DOMAIN runs, NEW to \in Targets, RunRead(s, r, to) PROVE DeskReads(s)
  <2> DEFINE d == [step |-> "run", run |-> r, to |-> to]
  <2>1. d.step = "run" /\ d.run = r /\ d.to = to
    OBVIOUS
  <2>2. desk' = [desk EXCEPT ![s] = d] /\ to \in PlaybookTransitions[runs[r].status]
    BY <1>7 DEF RunRead, Begin
  <2> HIDE DEF d
  <2>3. desk'[s] = d
    BY <2>2, DeskChanges
  <2> QED BY <2>1, <2>2, <2>3 DEF DeskReads
<1>8. CASE RunReadCase(s)
  <2> DEFINE e == desk[s]
             d == [step |-> "told", run |-> e.run, to |-> e.to,
                   timeline |-> cases[runs[e.run].case].timeline]
  <2>1. /\ d.step = "told" /\ d.run = e.run /\ d.to = e.to
        /\ d.timeline = cases[runs[e.run].case].timeline
    OBVIOUS
  <2>2. desk' = [desk EXCEPT ![s] = d] /\ e.step = "run"
    BY <1>8 DEF RunReadCase
  <2> HIDE DEF d
  <2>3. desk'[s] = d
    BY <2>2, DeskChanges
  <2>4. d.timeline = cases[runs[d.run].case].timeline
    BY <2>1
  <2> QED BY <1>1, <1>2, <2>1, <2>2, <2>3, <2>4 DEF DeskReads
<1> QED BY <1>1, <1>2, <1>3, <1>4, <1>5, <1>6, <1>7, <1>8 DEF Reading

(* A timeline that is written back leaves the rest of the case.            *)
LEMMA Rewrites ==
    ASSUME TypeInv, NEW s \in Desks, RequestWrite(s) \/ RunWrite(s)
    PROVE  /\ DOMAIN cases' = DOMAIN cases
           /\ \A c \in DOMAIN cases : cases'[c].alert = cases[c].alert /\ cases'[c].status = cases[c].status
<1>1. ASSUME NEW c \in DOMAIN cases, NEW t, Write(c, t)
      PROVE  /\ DOMAIN cases' = DOMAIN cases
             /\ \A k \in DOMAIN cases : /\ cases'[k].alert = cases[k].alert
                                        /\ cases'[k].status = cases[k].status
  <2> DEFINE y == [cases[c] EXCEPT !.timeline = t]
  <2>1. cases[c] \in Case
    BY CaseParts
  <2>2. y.alert = cases[c].alert /\ y.status = cases[c].status
    BY <2>1 DEF Case
  <2>3. cases' = [cases EXCEPT ![c] = y]
    BY <1>1 DEF Write
  <2> HIDE DEF y
  <2> QED BY <2>2, <2>3
<1>2. CASE RequestWrite(s)
  BY <1>1, <1>2, RequestFacts
<1>3. CASE RunWrite(s)
  BY <1>1, <1>3, RunFacts, Parts
<1> QED BY <1>2, <1>3

(***************************************************************************)
(* The steps there are.  Those of the alert workflow, named case or not,   *)
(* leave the case service's rows and calls alone.                          *)
(***************************************************************************)
LEMMA NextCases ==
    ASSUME TypeInv, [Next]_vars
    PROVE  \/ /\ [P!Next]_(P!vars) /\ UNCHANGED <<cases, runs, desk>>
              /\ \/ UNCHANGED <<caseOf, named>>
                 \/ \E s \in Sessions : /\ named' = named \cup {call[s].alert}
                                        /\ \E id : caseOf' = [caseOf EXCEPT ![call[s].alert] = id]
           \/ \E s \in Desks : CreateWrite(s) \/ TransitionWrite(s) \/ RequestWrite(s)
                               \/ RunWrite(s) \/ Reading(s)
<1>1. CASE A!Next /\ UNCHANGED caseVars
  BY <1>1, SameStep DEF caseVars, links
<1>2. ASSUME NEW s \in Sessions, NameCase(s)
      PROVE  /\ P!Next /\ UNCHANGED <<cases, runs, desk>>
             /\ named' = named \cup {call[s].alert}
             /\ \E id : caseOf' = [caseOf EXCEPT ![call[s].alert] = id]
  <2>1. A!Next
    BY <1>2 DEF NameCase, A!Next, A!Step
  <2> QED BY <1>2, <2>1, SameStep DEF NameCase
<1>3. CASE UNCHANGED vars
  BY <1>3 DEF vars, alertVars, caseVars, links, P!vars
<1>4. ASSUME NEW s \in Desks, Step(s)
      PROVE  CreateWrite(s) \/ TransitionWrite(s) \/ RequestWrite(s) \/ RunWrite(s) \/ Reading(s)
  BY <1>4, StepCases
<1> QED BY <1>1, <1>2, <1>3, <1>4 DEF Next
----------------------------------------------------------------------------
(***************************************************************************)
(* One case of an alert.                                                   *)
(***************************************************************************)
LEMMA StepOpen ==
    ASSUME IsFiniteSet(Sessions), TypeInv, AlertRoom, OpenInv, OneOpening, [Next]_vars
    PROVE  OpenInv'
<1>1. CASE [P!Next]_(P!vars) /\ UNCHANGED <<cases, runs, desk>> /\ UNCHANGED <<caseOf, named>>
  BY <1>1 DEF OpenInv, LinkedOnce
<1>2. ASSUME NEW i, NEW id, UNCHANGED <<cases, desk>>, caseOf' = [caseOf EXCEPT ![i] = id],
             named' = named \cup {i}
      PROVE  OpenInv'
  BY <1>2 DEF OpenInv, LinkedOnce
<1>3. ASSUME NEW s \in Desks, CreateWrite(s) PROVE OpenInv'
  <2> DEFINE i == desk[s].alert
  <2>1. PICK n : /\ n \notin DOMAIN cases /\ DOMAIN cases' = DOMAIN cases \cup {n}
                 /\ \A k \in DOMAIN cases : cases'[k] = cases[k]
                 /\ cases'[n].alert = i
                 /\ caseOf' = [caseOf EXCEPT ![i] = n]
    BY <1>3, CreateFacts
  <2>2. /\ desk[s].step = "create" /\ i \in DOMAIN alerts /\ named' = named
        /\ desk'[s].step = "idle" /\ \A t \in Desks \ {s} : desk'[t] = desk[t]
    BY <1>3, CreateFacts
  <2>3. i \in DOMAIN caseOf
    <3>1. Cardinality(Inserting) \in Nat /\ Cardinality(Sessions) \in Nat
      BY FS_Subset, FS_CardinalityType DEF Inserting
    <3>2. alerts \in Seq(P!Alert) /\ MaxAlerts \in Nat
      BY Parts, Assumed DEF P!AlertAssumption
    <3> QED BY <2>2, <3>1, <3>2 DEF AlertRoom
  <2>4. \A c \in DOMAIN cases : cases[c].alert = i => i \in named
    BY <2>2 DEF OpenInv
  <2> HIDE DEF i
  <2>5. LinkedOnce'
    <3>1. ASSUME NEW k \in DOMAIN cases, cases[k].alert # i
          PROVE  caseOf'[cases'[k].alert] = k \/ cases'[k].alert \in named'
      BY <2>1, <2>2, <3>1 DEF OpenInv, LinkedOnce
    <3>2. ASSUME NEW k \in DOMAIN cases, cases[k].alert = i
          PROVE  cases'[k].alert \in named'
      BY <2>1, <2>2, <2>4, <3>2
    <3>3. caseOf'[cases'[n].alert] = n
      BY <2>1, <2>3
    <3> QED BY <2>1, <3>1, <3>2, <3>3 DEF LinkedOnce
  <2>6. ASSUME NEW t \in Desks, desk'[t].step = "create", NEW c \in DOMAIN cases',
               cases'[c].alert = desk'[t].alert
        PROVE  desk'[t].alert \in named'
    <3>1. t # s /\ desk'[t] = desk[t] /\ desk[t].alert # i
      BY <2>2, <2>6 DEF OneOpening, i
    <3> QED BY <2>1, <2>2, <2>6, <3>1 DEF OpenInv
  <2> QED BY <2>5, <2>6 DEF OpenInv
<1>4. ASSUME NEW s \in Desks, UNCHANGED <<caseOf, named>>, DOMAIN cases' = DOMAIN cases,
             \A c \in DOMAIN cases : cases'[c].alert = cases[c].alert,
             \A t \in Desks \ {s} : desk'[t] = desk[t], desk'[s].step # "create"
      PROVE  OpenInv'
  BY <1>4 DEF OpenInv, LinkedOnce
<1>5. ASSUME NEW s \in Desks, TransitionWrite(s) PROVE OpenInv'
  BY <1>4, <1>5, CaseFacts
<1>6. ASSUME NEW s \in Desks, RequestWrite(s) PROVE OpenInv'
  <2>1. DOMAIN cases' = DOMAIN cases /\ \A c \in DOMAIN cases : cases'[c].alert = cases[c].alert
    BY <1>6, Rewrites
  <2> QED BY <1>4, <1>6, <2>1, RequestFacts
<1>7. ASSUME NEW s \in Desks, RunWrite(s) PROVE OpenInv'
  <2>1. DOMAIN cases' = DOMAIN cases /\ \A c \in DOMAIN cases : cases'[c].alert = cases[c].alert
    BY <1>7, Rewrites
  <2> QED BY <1>4, <1>7, <2>1, RunFacts
<1>8. ASSUME NEW s \in Desks, Reading(s) PROVE OpenInv'
  <2>1. /\ UNCHANGED <<caseOf, named, cases>> /\ \A t \in Desks \ {s} : desk'[t] = desk[t]
        /\ \/ desk'[s].step # "create"
           \/ caseOf[desk'[s].alert] \notin DOMAIN cases
    BY <1>8, DeskFacts DEF DeskReads
  <2>2. ASSUME caseOf[desk'[s].alert] \notin DOMAIN cases, NEW c \in DOMAIN cases,
               cases[c].alert = desk'[s].alert
        PROVE  desk'[s].alert \in named
    BY <2>2 DEF OpenInv, LinkedOnce
  <2> QED BY <2>1, <2>2 DEF OpenInv, LinkedOnce
<1> QED BY <1>1, <1>2, <1>3, <1>5, <1>6, <1>7, <1>8, NextCases
----------------------------------------------------------------------------
(***************************************************************************)
(* Timelines.  The calls about other cases, and those that have not yet    *)
(* read the case, are not told anything wrong.                             *)
(***************************************************************************)
LEMMA RunIndex ==
    ASSUME IsFiniteSet(Desks), TypeInv, RunRoom
    PROVE  /\ \A r \in DOMAIN runs : r \in 0 .. MaxRuns /\ r # 0
           /\ \A s \in Desks : desk[s].step = "request" => Len(runs) + 1 \in 0 .. MaxRuns
<1>1. /\ runs \in Seq(Run) /\ MaxRuns \in Nat /\ IsFiniteSet(Requesting)
      /\ Cardinality(Requesting) \in Nat
  BY Parts, Assumed, FS_Subset, FS_CardinalityType DEF Requesting
<1>2. ASSUME NEW s \in Desks, desk[s].step = "request" PROVE Cardinality(Requesting) >= 1
  <2>1. {s} \subseteq Requesting
    BY <1>2 DEF Requesting
  <2>2. IsFiniteSet({s}) /\ Cardinality({s}) = 1
    BY FS_Singleton
  <2>3. Cardinality({s}) <= Cardinality(Requesting)
    BY <1>1, <2>1, FS_Subset
  <2> QED BY <1>1, <2>2, <2>3
<1>3. \A r \in DOMAIN runs : r \in 0 .. MaxRuns /\ r # 0
  BY <1>1 DEF RunRoom
<1>4. ASSUME NEW s \in Desks, desk[s].step = "request" PROVE Len(runs) + 1 \in 0 .. MaxRuns
  BY <1>1, <1>2, <1>4 DEF RunRoom
<1> QED BY <1>3, <1>4

(* A call writes the timeline of case c: what other calls have read of     *)
(* other cases stays.                                                      *)
LEMMA OthersTell ==
    ASSUME TypeInv, TellInv, OneTelling, NEW s \in Desks, Telling(s), NEW c, c = About(s),
           desk'[s].step = "idle", \A t \in Desks \ {s} : desk'[t] = desk[t],
           \A k \in DOMAIN cases : k # c => cases'[k] = cases[k],
           \A r \in DOMAIN runs : runs'[r].case = runs[r].case
    PROVE  \A t \in Desks : (Telling(t) => desk[t].timeline = cases[About(t)].timeline)'
<1> SUFFICES ASSUME NEW t \in Desks, Telling(t)'
             PROVE  desk'[t].timeline = cases'[About(t)'].timeline
  OBVIOUS
<1>1. t # s /\ desk'[t] = desk[t] /\ Telling(t)
  BY DEF Telling
<1>2. /\ desk[t].step = "told" => desk[t].run \in DOMAIN runs /\ runs[desk[t].run].case \in DOMAIN cases
      /\ desk[t].step # "told" => desk[t].case \in DOMAIN cases
  BY <1>1, Parts DEF Fits, Telling
<1>3. About(t)' = About(t) /\ About(t) \in DOMAIN cases
  BY <1>1, <1>2 DEF About
<1>4. About(t) # c
  BY <1>1 DEF OneTelling
<1> QED BY <1>1, <1>3, <1>4 DEF TellInv

(* Nothing is written, and what a call has read is there.                  *)
LEMMA ReadersTell ==
    ASSUME TypeInv, TellInv, NEW s \in Desks, Reading(s)
    PROVE  TellInv'
<1>1. /\ UNCHANGED <<cases, runs>> /\ \A t \in Desks \ {s} : desk'[t] = desk[t]
      /\ \/ desk'[s].step \notin {"case", "request", "told"}
         \/ desk'[s].step \in {"case", "request"} /\ desk'[s].timeline = cases[desk'[s].case].timeline
         \/ desk'[s].step = "told" /\ desk'[s].timeline = cases[runs[desk'[s].run].case].timeline
  BY DeskFacts DEF DeskReads
<1>2. ASSUME NEW t \in Desks, Telling(t)' PROVE desk'[t].timeline = cases'[About(t)'].timeline
  <2>1. CASE t = s
    BY <1>1, <1>2, <2>1 DEF Telling, About
  <2>2. CASE t # s
    <3>1. desk'[t] = desk[t] /\ Telling(t) /\ About(t)' = About(t)
      BY <1>1, <1>2, <2>2 DEF Telling, About
    <3> QED BY <1>1, <3>1 DEF TellInv
  <2> QED BY <2>1, <2>2
<1> QED BY <1>1, <1>2 DEF TellInv, Tells

LEMMA StepTell ==
    ASSUME IsFiniteSet(Desks), TypeInv, RunRoom, TellInv, OneTelling, [Next]_vars
    PROVE  TellInv'
<1>1. CASE UNCHANGED <<cases, runs, desk>>
  BY <1>1 DEF TellInv, Tells, Telling, About
<1>2. ASSUME NEW s \in Desks, CreateWrite(s) PROVE TellInv'
  <2>1. PICK n : /\ n \notin DOMAIN cases /\ DOMAIN cases' = DOMAIN cases \cup {n}
                 /\ \A k \in DOMAIN cases : cases'[k] = cases[k]
                 /\ cases'[n].timeline[0] = cases'[n].status
    BY <1>2, CreateFacts
  <2>2. desk'[s].step = "idle" /\ (\A t \in Desks \ {s} : desk'[t] = desk[t]) /\ runs' = runs
    BY <1>2, CreateFacts
  <2>3. Tells'
    <3>1. \A r \in DOMAIN runs : runs[r].case \in DOMAIN cases
      BY Parts
    <3> QED BY <2>1, <2>2, <3>1 DEF TellInv, Tells
  <2>4. ASSUME NEW t \in Desks, Telling(t)' PROVE desk'[t].timeline = cases'[About(t)'].timeline
    <3>1. t # s /\ desk'[t] = desk[t] /\ Telling(t)
      BY <2>2, <2>4 DEF Telling
    <3>2. /\ desk[t].step = "told" => desk[t].run \in DOMAIN runs /\ runs[desk[t].run].case \in DOMAIN cases
          /\ desk[t].step # "told" => desk[t].case \in DOMAIN cases
      BY <3>1, Parts DEF Fits, Telling
    <3>3. About(t)' = About(t) /\ About(t) \in DOMAIN cases
      BY <2>2, <3>1, <3>2 DEF About
    <3> QED BY <2>1, <3>1, <3>3 DEF TellInv
  <2> QED BY <2>3, <2>4 DEF TellInv
<1>3. ASSUME NEW s \in Desks, TransitionWrite(s) PROVE TellInv'
  <2> DEFINE c == desk[s].case
  <2>1. /\ desk[s].step = "case" /\ c \in DOMAIN cases /\ UNCHANGED runs
        /\ DOMAIN cases' = DOMAIN cases /\ cases'[c].status = desk[s].to
        /\ \A k \in DOMAIN cases : k # c => cases'[k] = cases[k]
        /\ cases'[c].timeline[0] = desk[s].to
        /\ \A q \in 0 .. MaxRuns : q # 0 => cases'[c].timeline[q] = desk[s].timeline[q]
        /\ desk'[s].step = "idle" /\ \A t \in Desks \ {s} : desk'[t] = desk[t]
    BY <1>3, CaseFacts
  <2>2. Telling(s) /\ c = About(s)
    BY <2>1 DEF Telling, About
  <2>3. desk[s].timeline = cases[c].timeline
    BY <2>2 DEF TellInv
  <2> HIDE DEF c
  <2>4. Tells'
    <3>1. \A k \in DOMAIN cases : cases'[k].timeline[0] = cases'[k].status
      BY <2>1 DEF TellInv, Tells
    <3>2. ASSUME NEW r \in DOMAIN runs PROVE cases'[runs[r].case].timeline[r] = runs[r].status
      <4>1. runs[r].case \in DOMAIN cases /\ cases[runs[r].case].timeline[r] = runs[r].status
        BY Parts DEF TellInv, Tells
      <4>2. r \in 0 .. MaxRuns /\ r # 0
        BY RunIndex
      <4> QED BY <2>1, <2>3, <4>1, <4>2
    <3> QED BY <2>1, <3>1, <3>2 DEF Tells
  <2>5. \A t \in Desks : (Telling(t) => desk[t].timeline = cases[About(t)].timeline)'
    BY <2>1, <2>2, OthersTell
  <2> QED BY <2>4, <2>5 DEF TellInv
<1>4. ASSUME NEW s \in Desks, RequestWrite(s) PROVE TellInv'
  <2> DEFINE c == desk[s].case
             n == Len(runs) + 1
  <2>1. /\ desk[s].step = "request" /\ c \in DOMAIN cases
        /\ DOMAIN runs' = DOMAIN runs \cup {n} /\ n \notin DOMAIN runs
        /\ \A r \in DOMAIN runs : runs'[r] = runs[r]
        /\ runs'[n].case = c /\ runs'[n].status = "awaiting_approval"
        /\ desk'[s].step = "idle" /\ \A t \in Desks \ {s} : desk'[t] = desk[t]
        /\ desk[s].timeline \in Timeline
        /\ Write(c, Tell(desk[s].timeline, n, "awaiting_approval"))
    BY <1>4, RequestFacts
  <2>2. Telling(s) /\ c = About(s)
    BY <2>1 DEF Telling, About
  <2>3. desk[s].timeline = cases[c].timeline
    BY <2>2 DEF TellInv
  <2>4. n \in 0 .. MaxRuns /\ n # 0
    <3>1. runs \in Seq(Run)
      BY Parts
    <3> QED BY <2>1, <3>1, RunIndex
  <2> HIDE DEF c, n
  <2>5. /\ DOMAIN cases' = DOMAIN cases
        /\ \A k \in DOMAIN cases : cases'[k].status = cases[k].status /\ (k # c => cases'[k] = cases[k])
        /\ cases'[c].timeline[n] = "awaiting_approval"
        /\ \A q \in 0 .. MaxRuns : q # n => cases'[c].timeline[q] = cases[c].timeline[q]
    <3>1. "awaiting_approval" \in {None} \cup DOMAIN CaseTransitions \cup DOMAIN PlaybookTransitions
      BY DEF PlaybookTransitions
    <3> QED BY <2>1, <2>3, <2>4, <3>1, WriteValue
  <2>6. Tells'
    <3>1. \A k \in DOMAIN cases : cases'[k].timeline[0] = cases'[k].status
      <4>1. 0 \in 0 .. MaxRuns
        BY Assumed
      <4> QED BY <2>4, <2>5, <4>1 DEF TellInv, Tells
    <3>2. ASSUME NEW r \in DOMAIN runs PROVE cases'[runs'[r].case].timeline[r] = runs'[r].status
      <4>1. runs[r].case \in DOMAIN cases /\ cases[runs[r].case].timeline[r] = runs[r].status
        BY Parts DEF TellInv, Tells
      <4>2. r \in 0 .. MaxRuns /\ r # n
        BY <2>1, RunIndex
      <4> QED BY <2>1, <2>5, <4>1, <4>2
    <3>3. cases'[runs'[n].case].timeline[n] = runs'[n].status
      BY <2>1, <2>5
    <3> QED BY <2>1, <2>5, <3>1, <3>2, <3>3 DEF Tells
  <2>7. \A t \in Desks : (Telling(t) => desk[t].timeline = cases[About(t)].timeline)'
    BY <2>1, <2>2, <2>5, OthersTell
  <2> QED BY <2>6, <2>7 DEF TellInv
<1>5. ASSUME NEW s \in Desks, RunWrite(s) PROVE TellInv'
  <2> DEFINE j == desk[s].run
             c == runs[j].case
  <2>1. /\ desk[s].step = "told" /\ j \in DOMAIN runs /\ DOMAIN runs' = DOMAIN runs
        /\ \A r \in DOMAIN runs : /\ runs'[r].case = runs[r].case
                                  /\ runs'[r].status = IF r = j THEN desk[s].to ELSE runs[r].status
        /\ desk'[s].step = "idle" /\ \A t \in Desks \ {s} : desk'[t] = desk[t]
        /\ desk[s].timeline \in Timeline
        /\ desk[s].to \in {None} \cup DOMAIN CaseTransitions \cup DOMAIN PlaybookTransitions
        /\ Write(c, Tell(desk[s].timeline, j, desk[s].to))
    BY <1>5, RunFacts
  <2>2. Telling(s) /\ c = About(s) /\ c \in DOMAIN cases
    BY <2>1, Parts DEF Telling, About
  <2>3. desk[s].timeline = cases[c].timeline
    BY <2>2 DEF TellInv
  <2>4. j \in 0 .. MaxRuns /\ j # 0
    BY <2>1, RunIndex
  <2>5. c = runs[j].case
    OBVIOUS
  <2> HIDE DEF c, j
  <2>6. /\ DOMAIN cases' = DOMAIN cases
        /\ \A k \in DOMAIN cases : cases'[k].status = cases[k].status /\ (k # c => cases'[k] = cases[k])
        /\ cases'[c].timeline[j] = desk[s].to
        /\ \A q \in 0 .. MaxRuns : q # j => cases'[c].timeline[q] = cases[c].timeline[q]
    BY <2>1, <2>2, <2>3, <2>4, WriteValue
  <2>7. Tells'
    <3>1. \A k \in DOMAIN cases : cases'[k].timeline[0] = cases'[k].status
      <4>1. 0 \in 0 .. MaxRuns
        BY Assumed
      <4> QED BY <2>4, <2>6, <4>1 DEF TellInv, Tells
    <3>2. ASSUME NEW r \in DOMAIN runs, r # j
          PROVE  cases'[runs'[r].case].timeline[r] = runs'[r].status
      <4>1. runs[r].case \in DOMAIN cases /\ cases[runs[r].case].timeline[r] = runs[r].status
        BY Parts DEF TellInv, Tells
      <4>2. r \in 0 .. MaxRuns
        BY RunIndex
      <4> QED BY <2>1, <2>6, <3>2, <4>1, <4>2
    <3>3. cases'[runs'[j].case].timeline[j] = runs'[j].status
      BY <2>1, <2>5, <2>6
    <3> QED BY <2>1, <2>6, <3>1, <3>2, <3>3 DEF Tells
  <2>8. \A t \in Desks : (Telling(t) => desk[t].timeline = cases[About(t)].timeline)'
    BY <2>1, <2>2, <2>6, OthersTell
  <2> QED BY <2>7, <2>8 DEF TellInv
<1> QED BY <1>1, <1>2, <1>3, <1>4, <1>5, ReadersTell, NextCases
----------------------------------------------------------------------------
(***************************************************************************)
(* Lifecycles, of alerts that two services move, of cases and of runs.     *)
(***************************************************************************)
LEMMA AlertMoves ==
    ASSUME TypeInv, [P!Next]_(P!vars), NEW i \in DOMAIN alerts
    PROVE  /\ i \in DOMAIN alerts'
           /\ \/ alerts'[i].status = alerts[i].status
              \/ \E s \in Sessions : /\ call[s].step = "transition" /\ call[s].alert = i
                                     /\ alerts'[i].status = call[s].to
<1>0. P!TypeInv
  BY Parts
<1>1. ASSUME NEW s \in Sessions, P!IngestInsert(s)
      PROVE  i \in DOMAIN alerts' /\ alerts'[i].status = alerts[i].status
  BY <1>0, <1>1, Assumed, P!InsertFacts
<1>2. ASSUME NEW s \in Sessions, P!IngestLink(s)
      PROVE  i \in DOMAIN alerts' /\ alerts'[i].status = alerts[i].status
  BY <1>0, <1>2, Assumed, P!LinkFacts
<1>3. ASSUME NEW s \in Sessions, P!TransitionWrite(s)
      PROVE  /\ i \in DOMAIN alerts' /\ call[s].step = "transition"
             /\ alerts'[i].status = IF i = call[s].alert THEN call[s].to ELSE alerts[i].status
  BY <1>0, <1>3, Assumed, P!MoveFacts
<1>4. \/ \E s \in Sessions : P!IngestInsert(s) \/ P!IngestLink(s) \/ P!TransitionWrite(s)
      \/ UNCHANGED alerts
  BY <1>0, Assumed, P!CallFacts
<1> QED BY <1>1, <1>2, <1>3, <1>4

LEMMA StepMove ==
    ASSUME TypeInv, MoveInv, OneMove, [Next]_vars
    PROVE  MoveInv'
<1>0. \A t \in Desks : /\ Triaging(t) => desk[t].alert \in DOMAIN alerts
                       /\ desk[t].step = "case" => desk[t].case \in DOMAIN cases
                       /\ Running(t) => desk[t].run \in DOMAIN runs
  BY Parts DEF Fits, Triaging, Running
<1>1. CASE [P!Next]_(P!vars) /\ UNCHANGED <<cases, runs, desk>>
  <2>1. P!MoveInv'
    BY <1>1, Assumed, Parts, P!StepMove DEF MoveInv, OneMove
  <2>2. ASSUME NEW t \in Desks, Triaging(t) PROVE alerts'[desk[t].alert].status \in {"new", "triaged"}
    <3>1. \/ alerts'[desk[t].alert].status = alerts[desk[t].alert].status
          \/ \E s \in Sessions : /\ call[s].step = "transition" /\ call[s].alert = desk[t].alert
                                 /\ alerts'[desk[t].alert].status = call[s].to
      BY <1>0, <1>1, <2>2, AlertMoves
    <3> QED BY <2>2, <3>1 DEF MoveInv, OneMove
  <2> QED BY <1>1, <2>1, <2>2 DEF MoveInv, Triaging, Running
<1>2. ASSUME NEW s \in Desks, CreateWrite(s) PROVE MoveInv'
  <2> DEFINE i == desk[s].alert
  <2>1. /\ desk[s].step = "create" /\ i \in DOMAIN alerts
        /\ desk'[s].step = "idle" /\ \A t \in Desks \ {s} : desk'[t] = desk[t]
        /\ UNCHANGED <<call, runs>> /\ DOMAIN alerts' = DOMAIN alerts
        /\ \A k \in DOMAIN alerts : alerts'[k].status =
             IF desk[s].status = "new" /\ k = i THEN "triaged" ELSE alerts[k].status
        /\ \A k \in DOMAIN cases : cases'[k] = cases[k]
    BY <1>2, CreateFacts
  <2>2. P!MoveInv'
    <3>1. ASSUME NEW t \in Sessions, call[t].step = "transition"
          PROVE  /\ call[t].alert \in DOMAIN alerts'
                 /\ \/ call[t].to = alerts'[call[t].alert].status
                    \/ call[t].to \in P!Allowed[alerts'[call[t].alert].status]
      <4>1. CASE desk[s].status = "new" /\ call[t].alert = i
        BY <2>1, <3>1, <4>1 DEF OneMove, Triaging
      <4>2. CASE ~(desk[s].status = "new" /\ call[t].alert = i)
        BY <2>1, <3>1, <4>2 DEF MoveInv, P!MoveInv
      <4> QED BY <4>1, <4>2
    <3> QED BY <2>1, <3>1 DEF P!MoveInv
  <2>3. \A t \in Desks : Triaging(t)' => alerts'[desk'[t].alert].status \in {"new", "triaged"}
    BY <1>0, <2>1 DEF MoveInv, Triaging
  <2>4. \A t \in Desks : desk'[t].step = "case" =>
          Follows(desk'[t].to, cases'[desk'[t].case].status, CaseTransitions)
    BY <1>0, <2>1 DEF MoveInv
  <2>5. \A t \in Desks : Running(t)' =>
          Follows(desk'[t].to, runs'[desk'[t].run].status, PlaybookTransitions)
    BY <1>0, <2>1 DEF MoveInv, Running
  <2> QED BY <2>2, <2>3, <2>4, <2>5 DEF MoveInv
<1>3. ASSUME NEW s \in Desks, \A t \in Desks \ {s} : desk'[t] = desk[t], UNCHANGED <<alerts, call>>,
             \/ desk'[s].step = "idle"
             \/ desk'[s].step = "create" /\ desk'[s].status = alerts[desk'[s].alert].status
             \/ desk'[s].step = "case"
                  /\ Follows(desk'[s].to, cases'[desk'[s].case].status, CaseTransitions)
             \/ desk'[s].step = "request"
             \/ desk'[s].step \in {"run", "told"}
                  /\ Follows(desk'[s].to, runs'[desk'[s].run].status, PlaybookTransitions),
             \A t \in Desks \ {s} : desk[t].step = "case" =>
               \/ cases'[desk[t].case].status = cases[desk[t].case].status
               \/ cases'[desk[t].case].status = desk[t].to,
             \A t \in Desks \ {s} : Running(t) =>
               \/ runs'[desk[t].run].status = runs[desk[t].run].status
               \/ runs'[desk[t].run].status = desk[t].to
      PROVE  MoveInv'
  <2>1. P!MoveInv'
    BY <1>3 DEF MoveInv, P!MoveInv
  <2>2. \A t \in Desks : Triaging(t)' => alerts'[desk'[t].alert].status \in {"new", "triaged"}
    BY <1>3 DEF MoveInv, Triaging
  <2>3. \A t \in Desks : desk'[t].step = "case" =>
          Follows(desk'[t].to, cases'[desk'[t].case].status, CaseTransitions)
    BY <1>3 DEF MoveInv, Follows
  <2>4. \A t \in Desks : Running(t)' =>
          Follows(desk'[t].to, runs'[desk'[t].run].status, PlaybookTransitions)
    BY <1>3 DEF MoveInv, Running, Follows
  <2> QED BY <2>1, <2>2, <2>3, <2>4 DEF MoveInv
<1>4. ASSUME NEW s \in Desks, TransitionWrite(s) PROVE MoveInv'
  <2>1. /\ desk[s].step = "case" /\ UNCHANGED <<alerts, call, runs>>
        /\ desk'[s].step = "idle" /\ \A t \in Desks \ {s} : desk'[t] = desk[t]
        /\ \A k \in DOMAIN cases :
             cases'[k].status = IF k = desk[s].case THEN desk[s].to ELSE cases[k].status
    BY <1>4, CaseFacts
  <2>2. ASSUME NEW t \in Desks, desk[t].step = "case"
        PROVE  \/ cases'[desk[t].case].status = cases[desk[t].case].status
               \/ cases'[desk[t].case].status = desk[t].to
    BY <1>0, <2>1, <2>2 DEF OneMove
  <2> QED BY <1>3, <2>1, <2>2
<1>5. ASSUME NEW s \in Desks, RequestWrite(s) PROVE MoveInv'
  <2>1. /\ UNCHANGED <<alerts, call>> /\ desk'[s].step = "idle"
        /\ \A t \in Desks \ {s} : desk'[t] = desk[t]
        /\ \A r \in DOMAIN runs : runs'[r] = runs[r]
    BY <1>5, RequestFacts
  <2>2. \A k \in DOMAIN cases : cases'[k].status = cases[k].status
    BY <1>5, Rewrites
  <2> QED BY <1>0, <1>3, <2>1, <2>2
<1>6. ASSUME NEW s \in Desks, RunWrite(s) PROVE MoveInv'
  <2>1. /\ desk[s].step = "told" /\ UNCHANGED <<alerts, call>> /\ desk'[s].step = "idle"
        /\ \A t \in Desks \ {s} : desk'[t] = desk[t]
        /\ \A r \in DOMAIN runs :
             runs'[r].status = IF r = desk[s].run THEN desk[s].to ELSE runs[r].status
    BY <1>6, RunFacts
  <2>2. \A k \in DOMAIN cases : cases'[k].status = cases[k].status
    BY <1>6, Rewrites
  <2>3. ASSUME NEW t \in Desks, Running(t)
        PROVE  \/ runs'[desk[t].run].status = runs[desk[t].run].status
               \/ runs'[desk[t].run].status = desk[t].to
    BY <1>0, <2>1, <2>3 DEF OneMove, Running
  <2> QED BY <1>0, <1>3, <2>1, <2>2, <2>3
<1>7. ASSUME NEW s \in Desks, Reading(s) PROVE MoveInv'
  <2>1. /\ UNCHANGED <<alerts, call, cases, runs>> /\ \A t \in Desks \ {s} : desk'[t] = desk[t]
        /\ DeskReads(s)
    BY <1>7, DeskFacts
  <2>2. \/ desk'[s].step \in {"idle", "request"}
        \/ desk'[s].step = "create" /\ desk'[s].status = alerts[desk'[s].alert].status
        \/ desk'[s].step = "case" /\ desk'[s].to \in CaseTransitions[cases[desk'[s].case].status]
        \/ desk'[s].step = "run" /\ desk'[s].to \in PlaybookTransitions[runs[desk'[s].run].status]
        \/ desk'[s].step = "told" /\ Running(s) /\ desk'[s].run = desk[s].run /\ desk'[s].to = desk[s].to
    BY <2>1 DEF DeskReads, Running
  <2>3. \/ desk'[s].step \in {"idle", "request"}
        \/ desk'[s].step = "create" /\ desk'[s].status = alerts[desk'[s].alert].status
        \/ desk'[s].step = "case"
             /\ Follows(desk'[s].to, cases'[desk'[s].case].status, CaseTransitions)
        \/ desk'[s].step \in {"run", "told"}
             /\ Follows(desk'[s].to, runs'[desk'[s].run].status, PlaybookTransitions)
    BY <2>1, <2>2 DEF MoveInv, Follows
  <2> QED BY <1>3, <2>1, <2>3
<1> QED BY <1>1, <1>2, <1>4, <1>5, <1>6, <1>7, NextCases

LEMMA MovesLegally ==
    ASSUME TypeInv, MoveInv, [Next]_vars
    PROVE  LegalMoves
<1>1. CASE [P!Next]_(P!vars) /\ UNCHANGED <<cases, runs, desk>>
  <2>1. P!Legal
    BY <1>1, Assumed, Parts, P!MovesLegally DEF MoveInv
  <2>2. A!Allowed = P!Allowed
    BY DEF A!Allowed, P!Allowed
  <2> QED BY <1>1, <2>1, <2>2 DEF LegalMoves, Keeps, P!Legal
<1>2. ASSUME NEW s \in Desks, CreateWrite(s) PROVE LegalMoves
  <2>1. /\ desk[s].step = "create" /\ UNCHANGED runs
        /\ \A k \in DOMAIN alerts : alerts'[k].status =
             IF desk[s].status = "new" /\ k = desk[s].alert THEN "triaged" ELSE alerts[k].status
        /\ \A k \in DOMAIN cases : cases'[k] = cases[k]
    BY <1>2, CreateFacts
  <2>2. desk[s].status = "new" => alerts[desk[s].alert].status \in {"new", "triaged"}
    BY <2>1 DEF MoveInv, Triaging
  <2>3. "triaged" \in A!Allowed["new"]
    BY DEF A!Allowed
  <2> QED BY <2>1, <2>2, <2>3 DEF LegalMoves, Keeps
<1>3. ASSUME NEW s \in Desks, TransitionWrite(s) PROVE LegalMoves
  <2>1. /\ desk[s].step = "case" /\ UNCHANGED <<alerts, runs>>
        /\ \A k \in DOMAIN cases :
             cases'[k].status = IF k = desk[s].case THEN desk[s].to ELSE cases[k].status
    BY <1>3, CaseFacts
  <2> QED BY <2>1 DEF LegalMoves, Keeps, MoveInv, Follows
<1>4. ASSUME NEW s \in Desks, RequestWrite(s) PROVE LegalMoves
  BY <1>4, RequestFacts, Rewrites DEF LegalMoves, Keeps
<1>5. ASSUME NEW s \in Desks, RunWrite(s) PROVE LegalMoves
  <2>1. /\ Running(s) /\ UNCHANGED alerts
        /\ \A r \in DOMAIN runs :
             runs'[r].status = IF r = desk[s].run THEN desk[s].to ELSE runs[r].status
    BY <1>5, RunFacts DEF Running
  <2>2. \A k \in DOMAIN cases : cases'[k].status = cases[k].status
    BY <1>5, Rewrites
  <2> QED BY <2>1, <2>2 DEF LegalMoves, Keeps, MoveInv, Follows
<1>6. ASSUME NEW s \in Desks, Reading(s) PROVE LegalMoves
  BY <1>6, DeskFacts DEF LegalMoves, Keeps
<1> QED BY <1>1, <1>2, <1>3, <1>4, <1>5, <1>6, NextCases
----------------------------------------------------------------------------
(***************************************************************************)
(* The bounds are on what calls read, and leave room for what they write.  *)
(***************************************************************************)
LEMMA StepAlertRoom ==
    ASSUME IsFiniteSet(Sessions), TypeInv, AlertRoom, [Next]_vars
    PROVE  AlertRoom'
<1>0. /\ P!TypeInv /\ alerts \in Seq(P!Alert) /\ Len(alerts) \in Nat /\ MaxAlerts \in Nat
      /\ call \in [Sessions -> P!Calls] /\ Cardinality(Sessions) \in Nat
      /\ IsFiniteSet(Inserting) /\ Cardinality(Inserting) \in Nat
  BY Parts, Assumed, FS_Subset, FS_CardinalityType
     DEF P!TypeInv, P!TypeOK, P!AlertAssumption, Inserting
<1>1. DOMAIN caseOf' = DOMAIN caseOf
  <2>1. ASSUME NEW s \in Desks,
               CreateWrite(s) \/ TransitionWrite(s) \/ RequestWrite(s) \/ RunWrite(s) \/ Reading(s)
        PROVE  DOMAIN caseOf' = DOMAIN caseOf
    BY <2>1, CreateFacts, CaseFacts, RequestFacts, RunFacts, DeskFacts
  <2> QED BY <2>1, NextCases
<1>2. ASSUME Inserting' \subseteq Inserting, Len(alerts') = Len(alerts) PROVE AlertRoom'
  <2>1. Cardinality(Inserting') <= Cardinality(Inserting) /\ Cardinality(Inserting') \in Nat
    BY <1>0, <1>2, FS_Subset, FS_CardinalityType
  <2> QED BY <1>0, <1>1, <1>2, <2>1 DEF AlertRoom
<1>3. ASSUME NEW s \in Sessions, P!IngestInsert(s) PROVE AlertRoom'
  <2>1. /\ call[s].step = "insert" /\ call'[s].step = "idle"
        /\ \A t \in Sessions \ {s} : call'[t] = call[t]
    BY <1>0, <1>3, Assumed, P!InsertFacts
  <2>2. Len(alerts') = Len(alerts) + 1
    <3>1. P!InsertedAlert(s) \in P!Alert /\ alerts' = Append(alerts, P!InsertedAlert(s))
      BY <1>0, <1>3, Assumed, P!InsertedType DEF P!IngestInsert, P!InsertedAlert
    <3> QED BY <1>0, <3>1
  <2>3. Inserting' = Inserting \ {s} /\ s \in Inserting
    BY <2>1 DEF Inserting
  <2>4. Cardinality(Inserting') = Cardinality(Inserting) - 1
    BY <1>0, <2>3, FS_RemoveElement
  <2> QED BY <1>0, <1>1, <2>2, <2>4 DEF AlertRoom
<1>4. ASSUME NEW s \in Sessions, NEW d \in Detections, P!IngestRead(s, d) PROVE AlertRoom'
  <2>1. alerts' = alerts /\ \A t \in Sessions \ {s} : call'[t] = call[t]
    BY <1>0, <1>4 DEF P!IngestRead
  <2>2. CASE Len(alerts) < MaxAlerts
    <3>1. Cardinality(Inserting') <= Cardinality(Sessions) /\ Cardinality(Inserting') \in Nat
      BY FS_Subset, FS_CardinalityType DEF Inserting
    <3> QED BY <1>0, <1>1, <2>1, <2>2, <3>1 DEF AlertRoom
  <2>3. CASE ~(Len(alerts) < MaxAlerts)
    <3>1. call'[s].step # "insert"
      <4>1. \/ call' = call /\ call[s].step = "idle"
            \/ \E i : call' = [call EXCEPT ![s] =
                         [step |-> "link", det |-> d, alert |-> i,
                          ids |-> alerts[i].ids, count |-> alerts[i].count]]
        BY <1>4, <2>3 DEF P!IngestRead, P!Idle
      <4>2. ASSUME NEW i, call' = [call EXCEPT ![s] =
                         [step |-> "link", det |-> d, alert |-> i,
                          ids |-> alerts[i].ids, count |-> alerts[i].count]]
            PROVE  call'[s].step = "link"
        BY <1>0, <4>2
      <4> QED BY <4>1, <4>2
    <3>2. Inserting' \subseteq Inserting
      BY <2>1, <3>1 DEF Inserting
    <3> QED BY <1>2, <2>1, <3>2
  <2> QED BY <2>2, <2>3
<1>5. ASSUME UNCHANGED alerts, NEW s \in Sessions, \A t \in Sessions \ {s} : call'[t] = call[t],
             call'[s].step # "insert"
      PROVE  AlertRoom'
  <2>1. Inserting' \subseteq Inserting
    BY <1>5 DEF Inserting
  <2> QED BY <1>2, <1>5, <2>1
<1>6. ASSUME NEW s \in Sessions, P!IngestLink(s) \/ P!TransitionWrite(s) PROVE AlertRoom'
  <2>1. /\ call'[s].step = "idle" /\ \A t \in Sessions \ {s} : call'[t] = call[t]
        /\ DOMAIN alerts' = DOMAIN alerts
    BY <1>0, <1>6, Assumed, P!LinkFacts, P!MoveFacts
  <2>2. Inserting' \subseteq Inserting
    BY <2>1 DEF Inserting
  <2>3. Len(alerts') = Len(alerts)
    <3>1. alerts' \in Seq(P!Alert)
      BY StepType, Parts DEF TypeInv, P!TypeInv, P!TypeOK
    <3> QED BY <1>0, <2>1, <3>1
  <2> QED BY <1>2, <2>2, <2>3
<1>7. ASSUME UNCHANGED alerts, \A s \in Sessions : call'[s] = call[s] \/ call'[s].step = "idle"
      PROVE  AlertRoom'
  <2>1. Inserting' \subseteq Inserting
    BY <1>7 DEF Inserting
  <2> QED BY <1>2, <1>7, <2>1
<1>8. CASE [P!Next]_(P!vars)
  <2>1. \/ \E s \in Sessions : P!IngestInsert(s) \/ P!IngestLink(s) \/ P!TransitionWrite(s)
        \/ \E s \in Sessions, d \in Detections : P!IngestRead(s, d)
        \/ /\ UNCHANGED alerts
           /\ \E s \in Sessions : /\ call'[s].step = "transition"
                                  /\ \A t \in Sessions \ {s} : call'[t] = call[t]
        \/ /\ UNCHANGED alerts
           /\ \A s \in Sessions : call'[s] = call[s] \/ call'[s].step = "idle"
    BY <1>0, <1>8, Assumed, P!CallFacts
  <2> QED BY <1>3, <1>4, <1>5, <1>6, <1>7, <2>1
<1>9. ASSUME NEW s \in Desks,
             CreateWrite(s) \/ TransitionWrite(s) \/ RequestWrite(s) \/ RunWrite(s) \/ Reading(s)
      PROVE  AlertRoom'
  <2>1. call' = call /\ Len(alerts') = Len(alerts)
    BY <1>9, CreateFacts, CaseFacts, RequestFacts, RunFacts, DeskFacts
  <2> QED BY <1>2, <2>1 DEF Inserting
<1> QED BY <1>8, <1>9, NextCases

LEMMA StepRunRoom ==
    ASSUME IsFiniteSet(Desks), TypeInv, RunRoom, [Next]_vars
    PROVE  RunRoom'
<1>0. /\ runs \in Seq(Run) /\ Len(runs) \in Nat /\ MaxRuns \in Nat
      /\ IsFiniteSet(Requesting) /\ Cardinality(Requesting) \in Nat
  BY Parts, Assumed, FS_Subset, FS_CardinalityType DEF Requesting
<1>1. ASSUME Requesting' \subseteq Requesting, Len(runs') = Len(runs) PROVE RunRoom'
  <2>1. Cardinality(Requesting') <= Cardinality(Requesting) /\ Cardinality(Requesting') \in Nat
    BY <1>0, <1>1, FS_Subset, FS_CardinalityType
  <2> QED BY <1>0, <1>1, <2>1 DEF RunRoom
<1>2. ASSUME NEW s \in Desks, CreateWrite(s) \/ TransitionWrite(s) \/ RunWrite(s) PROVE RunRoom'
  <2>1. /\ desk'[s].step = "idle" /\ \A t \in Desks \ {s} : desk'[t] = desk[t]
        /\ Len(runs') = Len(runs)
    BY <1>2, CreateFacts, CaseFacts, RunFacts
  <2>2. Requesting' \subseteq Requesting
    BY <2>1 DEF Requesting
  <2> QED BY <1>1, <2>1, <2>2
<1>3. ASSUME NEW s \in Desks, RequestWrite(s) PROVE RunRoom'
  <2>1. /\ desk[s].step = "request" /\ desk'[s].step = "idle"
        /\ \A t \in Desks \ {s} : desk'[t] = desk[t]
        /\ Len(runs') = Len(runs) + 1
    BY <1>3, RequestFacts
  <2>2. Requesting' = Requesting \ {s} /\ s \in Requesting
    BY <2>1 DEF Requesting
  <2>3. Cardinality(Requesting') = Cardinality(Requesting) - 1
    BY <1>0, <2>2, FS_RemoveElement
  <2> QED BY <1>0, <2>1, <2>3 DEF RunRoom
<1>4. ASSUME NEW s \in Desks, Reading(s) PROVE RunRoom'
  <2>1. /\ runs' = runs /\ \A t \in Desks \ {s} : desk'[t] = desk[t]
        /\ \/ desk'[s].step # "request"
           \/ Len(runs) + Cardinality(Requesting) < MaxRuns
    BY <1>4, DeskFacts DEF DeskReads
  <2>2. CASE desk'[s].step # "request"
    <3>1. Requesting' \subseteq Requesting
      BY <2>1, <2>2 DEF Requesting
    <3> QED BY <1>1, <2>1, <3>1
  <2>3. CASE Len(runs) + Cardinality(Requesting) < MaxRuns
    <3>1. Requesting' \subseteq Requesting \cup {s}
      BY <2>1 DEF Requesting
    <3>2. /\ IsFiniteSet(Requesting \cup {s})
          /\ Cardinality(Requesting \cup {s}) <= Cardinality(Requesting) + 1
          /\ Cardinality(Requesting \cup {s}) \in Nat
      <4>1. /\ IsFiniteSet(Requesting \cup {s})
            /\ \/ Cardinality(Requesting \cup {s}) = Cardinality(Requesting)
               \/ Cardinality(Requesting \cup {s}) = Cardinality(Requesting) + 1
        BY <1>0, FS_AddElement
      <4> QED BY <1>0, <4>1
    <3>3. Cardinality(Requesting') <= Cardinality(Requesting \cup {s}) /\ Cardinality(Requesting') \in Nat
      BY <3>1, <3>2, FS_Subset, FS_CardinalityType
    <3> QED BY <1>0, <2>1, <2>3, <3>2, <3>3 DEF RunRoom
  <2> QED BY <2>1, <2>2, <2>3
<1>5. CASE UNCHANGED <<runs, desk>>
  BY <1>5 DEF RunRoom, Requesting
<1> QED BY <1>2, <1>3, <1>4, <1>5, NextCases

LEMMA InitRooms ==
    /\ Init /\ IsFiniteSet(Sessions) => AlertRoom
    /\ Init => RunRoom
<1>1. ASSUME Init, IsFiniteSet(Sessions) PROVE AlertRoom
  <2>1. /\ Len(alerts) = 0 /\ Inserting = {}
        /\ DOMAIN caseOf = 1 .. (MaxAlerts + Cardinality(Sessions))
    BY <1>1 DEF Init, A!Init, A!Idle, Inserting
  <2>2. MaxAlerts \in Nat /\ Cardinality(Sessions) \in Nat /\ Cardinality(Inserting) = 0
    BY <1>1, <2>1, Assumed, FS_CardinalityType, FS_EmptySet DEF P!AlertAssumption
  <2> QED BY <2>1, <2>2 DEF AlertRoom
<1>2. ASSUME Init PROVE RunRoom
  <2>1. Len(runs) = 0 /\ Requesting = {}
    BY <1>2, IdleDesk DEF Init, Requesting
  <2> QED BY <2>1, Assumed, FS_EmptySet DEF RunRoom
<1> QED BY <1>1, <1>2

LEMMA InitOverlaps == Init => OpenInv /\ TellInv /\ MoveInv
<1> SUFFICES ASSUME Init PROVE OpenInv /\ TellInv /\ MoveInv
  OBVIOUS
<1>1. /\ DOMAIN cases = {} /\ DOMAIN runs = {} /\ \A s \in Desks : desk[s].step = "idle"
      /\ \A s \in Sessions : call[s].step = "idle"
  BY IdleDesk DEF Init, A!Init, A!Idle
<1>2. MoveInv
  BY <1>1 DEF MoveInv, P!MoveInv, Triaging, Running
<1>3. OpenInv /\ TellInv
  BY <1>1 DEF OpenInv, LinkedOnce, TellInv, Tells, Telling
<1> QED BY <1>2, <1>3
----------------------------------------------------------------------------
(***************************************************************************)
(* create_from_alert(): whatever else overlaps, an alert has two cases     *)
(* only when two calls that opened one had both found none.                *)
(***************************************************************************)
THEOREM OneCaseUnlessOpenedTwice ==
    ASSUME IsFiniteSet(Sessions)
    PROVE  Spec /\ []OneOpening => []LinkedOnce
<1>1. OpenInv => LinkedOnce
  BY DEF OpenInv
<1>2. Init => AlertRoom
  BY InitRooms
<1>3. TypeInv /\ AlertRoom /\ [Next]_vars => AlertRoom'
  BY StepAlertRoom
<1>4. TypeInv /\ AlertRoom /\ OpenInv /\ OneOpening /\ [Next]_vars => OpenInv'
  BY StepOpen
<1> QED
  BY <1>1, <1>2, <1>3, <1>4, InitType, StepType, InitOverlaps, PTL DEF Spec

(***************************************************************************)
(* Timelines are read and written back whole, and nothing told is lost     *)
(* unless two calls are about to write back the timeline of one case.      *)
(***************************************************************************)
THEOREM TimelineUnlessToldTwice ==
    ASSUME IsFiniteSet(Desks)
    PROVE  Spec /\ []OneTelling => []Tells
<1>1. TellInv => Tells
  BY DEF TellInv
<1>2. Init => RunRoom
  BY InitRooms
<1>3. TypeInv /\ RunRoom /\ [Next]_vars => RunRoom'
  BY StepRunRoom
<1>4. TypeInv /\ RunRoom /\ TellInv /\ OneTelling /\ [Next]_vars => TellInv'
  BY StepTell
<1> QED
  BY <1>1, <1>2, <1>3, <1>4, InitType, StepType, InitOverlaps, PTL DEF Spec

(***************************************************************************)
(* Alerts, cases and runs keep to their lifecycles unless two calls are    *)
(* about to move one of them to different statuses; links, requests and    *)
(* reads of the same rows do no harm.                                      *)
(***************************************************************************)
THEOREM LifecyclesUnlessMovedTwice == Spec /\ []OneMove => [][LegalMoves]_vars
<1>1. TypeInv /\ MoveInv /\ OneMove /\ [Next]_vars => MoveInv'
  BY StepMove
<1>2. TypeInv /\ MoveInv /\ [Next]_vars => [LegalMoves]_vars
  BY MovesLegally
<1> QED
  BY <1>1, <1>2, InitType, StepType, InitOverlaps, PTL DEF Spec
----------------------------------------------------------------------------
(***************************************************************************)
(* Behaviors in which no two calls were in flight have none of these.      *)
(* There are finitely many sessions and desks, and none is both, so that   *)
(* counting the calls in flight tells them apart.                          *)
(***************************************************************************)
Counted == IsFiniteSet(Sessions) /\ IsFiniteSet(Desks) /\ Sessions \cap Desks = {}

Alone ==
    /\ \A s, t \in Sessions : call[s] # P!Idle /\ call[t] # P!Idle => s = t
    /\ \A s, t \in Desks : desk[s] # Idle /\ desk[t] # Idle => s = t
    /\ \A s \in Sessions, t \in Desks : call[s] = P!Idle \/ desk[t] = Idle

SoloInv ==
    /\ AlertRoom /\ RunRoom
    /\ ~overlapped => Alone /\ OpenInv /\ TellInv /\ MoveInv

LEMMA AtMostOne ==
    ASSUME NEW S, IsFiniteSet(S), ~(Cardinality(S) > 1), NEW x \in S, NEW y \in S
    PROVE  x = y
<1> SUFFICES ASSUME x # y PROVE FALSE
  OBVIOUS
<1>1. Cardinality({x, y}) <= Cardinality(S) /\ Cardinality(S) \in Nat
  BY FS_Subset, FS_CardinalityType
<1>2. Cardinality({x} \cup {y}) = 2
  <2>1. IsFiniteSet({x}) /\ Cardinality({x}) = 1
    BY FS_Singleton
  <2>2. Cardinality({x} \cup {y}) = Cardinality({x}) + 1
    BY <2>1, FS_AddElement
  <2> QED BY <2>1, <2>2
<1>3. {x} \cup {y} = {x, y}
  OBVIOUS
<1> QED BY <1>1, <1>2, <1>3

(* What Next counts when it does not count a second call.                  *)
LEMMA StillAlone ==
    ASSUME Counted, Next, ~overlapped'
    PROVE  ~overlapped /\ Alone'
<1> DEFINE S == {s \in Sessions : call'[s] # A!Idle} \cup {s \in Desks : desk'[s] # Idle}
<1>1. ~overlapped /\ ~(Cardinality(S) > 1)
  BY DEF Next, Busy
<1>2. IsFiniteSet(S)
  <2>1. IsFiniteSet(Sessions \cup Desks) /\ S \subseteq Sessions \cup Desks
    BY FS_Union DEF Counted
  <2> QED BY <2>1, FS_Subset
<1>3. \A x, y \in S : x = y
  BY <1>1, <1>2, AtMostOne
<1>4. A!Idle = P!Idle
  BY DEF A!Idle, P!Idle
<1> QED BY <1>1, <1>3, <1>4 DEF Alone, Counted

LEMMA NoneOverlaps ==
    ASSUME Alone
    PROVE  OneOpening /\ OneTelling /\ OneMove
<1>1. P!Idle.step = "idle" /\ Idle.step = "idle"
  BY IdleDesk DEF P!Idle
<1>2. /\ \A s, t \in Sessions : call[s].step # "idle" /\ call[t].step # "idle" => s = t
      /\ \A s, t \in Desks : desk[s].step # "idle" /\ desk[t].step # "idle" => s = t
      /\ \A s \in Sessions, t \in Desks : call[s].step = "idle" \/ desk[t].step = "idle"
  BY <1>1 DEF Alone
<1>3. OneOpening /\ OneTelling
  BY <1>2 DEF OneOpening, OneTelling, Telling
<1>4. OneMove
  BY <1>2 DEF OneMove, P!OneTransition, Triaging, Running
<1> QED BY <1>3, <1>4

LEMMA InitSolo == Counted /\ Init => SoloInv
<1> SUFFICES ASSUME Counted, Init PROVE SoloInv
  OBVIOUS
<1>1. Alone
  BY DEF Init, A!Init, A!Idle, P!Idle, Alone
<1> QED BY <1>1, InitRooms, InitOverlaps DEF SoloInv, Counted

LEMMA StepSolo ==
    ASSUME Counted, TypeInv, SoloInv, [Next]_vars
    PROVE  SoloInv'
<1>1. AlertRoom /\ RunRoom /\ AlertRoom' /\ RunRoom'
  BY StepAlertRoom, StepRunRoom DEF SoloInv, Counted
<1>2. ASSUME Next, ~overlapped' PROVE Alone' /\ OpenInv' /\ TellInv' /\ MoveInv'
  <2>1. Alone' /\ Alone /\ OpenInv /\ TellInv /\ MoveInv
    BY <1>2, StillAlone DEF SoloInv
  <2>2. OneOpening /\ OneTelling /\ OneMove
    BY <2>1, NoneOverlaps
  <2> QED BY <1>1, <1>2, <2>1, <2>2, StepOpen, StepTell, StepMove DEF Counted
<1>3. CASE UNCHANGED vars
  BY <1>1, <1>3 DEF vars, alertVars, caseVars, links, SoloInv, Alone, OpenInv, LinkedOnce,
              TellInv, Tells, Telling, About, MoveInv, P!MoveInv, Triaging, Running
<1> QED BY <1>1, <1>2, <1>3 DEF SoloInv

(***************************************************************************)
(* create_from_alert(): while no two calls are in flight, an alert has one *)
(* case, the one its row links to, unless an analyst gave it another.      *)
(***************************************************************************)
THEOREM OneCase ==
    ASSUME Counted
    PROVE  Spec => []OneCasePerAlert
<1>1. SoloInv => OneCasePerAlert
  BY DEF SoloInv, OpenInv, LinkedOnce, OneCasePerAlert
<1>2. Init => SoloInv
  BY InitSolo
<1>3. TypeInv /\ SoloInv /\ [Next]_vars => SoloInv'
  BY StepSolo
<1> QED
  BY <1>1, <1>2, <1>3, InitType, StepType, PTL DEF Spec

(***************************************************************************)
(* Timelines are read and written back whole.  While no two calls are in   *)
(* flight, nothing told is lost: the last told is the status.              *)
(***************************************************************************)
THEOREM TimelineTrue ==
    ASSUME Counted
    PROVE  Spec => []TimelineTells
<1>1. SoloInv => TimelineTells
  BY DEF SoloInv, TellInv, Tells, TimelineTells
<1>2. Init => SoloInv
  BY InitSolo
<1>3. TypeInv /\ SoloInv /\ [Next]_vars => SoloInv'
  BY StepSolo
<1> QED
  BY <1>1, <1>2, <1>3, InitType, StepType, PTL DEF Spec

(***************************************************************************)
(* transition(), transition_case(), transition_playbook() and the triage   *)
(* of create_from_alert(): while no two calls are in flight, no status is  *)
(* written that the table does not allow after the one that is there.      *)
(***************************************************************************)
THEOREM LifecyclesKept ==
    ASSUME Counted
    PROVE  Spec => LifecyclesLegal
<1>1. TypeInv /\ SoloInv /\ [Next]_vars
        => [~overlapped' => /\ Keeps(alerts, alerts', A!Allowed)
                            /\ Keeps(cases, cases', CaseTransitions)
                            /\ Keeps(runs, runs', PlaybookTransitions)]_vars
  <2> SUFFICES ASSUME TypeInv, SoloInv, Next, ~overlapped' PROVE LegalMoves
    BY DEF LegalMoves
  <2>1. MoveInv
    BY StillAlone DEF SoloInv
  <2> QED BY <2>1, MovesLegally
<1>2. Init => SoloInv
  BY InitSolo
<1>3. TypeInv /\ SoloInv /\ [Next]_vars => SoloInv'
  BY StepSolo
<1> QED
  BY <1>1, <1>2, <1>3, InitType, StepType, PTL DEF Spec, LifecyclesLegal
----------------------------------------------------------------------------
(***************************************************************************)
(* What AlertWorkflow keeps of its alerts, cases leave as it is: they      *)
(* write statuses only.                                                    *)
(***************************************************************************)
LEMMA TriageKeeps ==
    ASSUME TypeInv, NEW s \in Desks, CreateWrite(s)
    PROVE  /\ DOMAIN alerts' = DOMAIN alerts /\ UNCHANGED <<detectedAt, clock, call, ingested>>
           /\ \A k \in DOMAIN alerts : /\ alerts'[k].ids = alerts[k].ids
                                       /\ alerts'[k].count = alerts[k].count
                                       /\ alerts'[k].key = alerts[k].key
<1> DEFINE i == desk[s].alert
           a == [alerts[i] EXCEPT !.status = "triaged"]
<1>1. i \in DOMAIN alerts /\ DOMAIN alerts' = DOMAIN alerts
  BY TriageAlerts
<1>2. alerts[i] \in P!Alert
  BY <1>1, Parts
<1>3. a.ids = alerts[i].ids /\ a.count = alerts[i].count /\ a.key = alerts[i].key
  BY <1>2 DEF P!Alert
<1>4. /\ alerts' = IF desk[s].status = "new" THEN [alerts EXCEPT ![i] = a] ELSE alerts
      /\ UNCHANGED <<detectedAt, clock, call, ingested>>
  BY DEF CreateWrite
<1> HIDE DEF a
<1> QED BY <1>1, <1>3, <1>4

LEMMA AlertCases ==
    ASSUME TypeInv, [Next]_vars
    PROVE  \/ [P!Next]_(P!vars)
           \/ /\ DOMAIN alerts' = DOMAIN alerts /\ UNCHANGED <<call, ingested>>
              /\ \A k \in DOMAIN alerts : /\ alerts'[k].ids = alerts[k].ids
                                          /\ alerts'[k].count = alerts[k].count
                                          /\ alerts'[k].key = alerts[k].key
<1>1. ASSUME NEW s \in Desks, TransitionWrite(s) \/ RequestWrite(s) \/ RunWrite(s) \/ Reading(s)
      PROVE  UNCHANGED <<alerts, call, ingested>>
  BY <1>1 DEF TransitionWrite, RequestWrite, RunWrite, Reading, RunReadCase, Abandon, CreateRead,
              RequestRead, TransitionRead, RunRead, alertVars
<1> QED BY <1>1, TriageKeeps, NextCases

(***************************************************************************)
(* The count of an alert is that of its detections, whatever cases do.     *)
(***************************************************************************)
THEOREM CountSurvivesCases == Spec => []P!CountTellsDetections
<1>1. Init => P!CountInv
  <2>1. Init => P!Init
    BY DEF Init, A!Init, P!Init, A!Idle, P!Idle
  <2> QED BY <2>1, Assumed, P!InitCounted
<1>2. TypeInv /\ P!CountInv /\ [Next]_vars => P!CountInv'
  <2> SUFFICES ASSUME TypeInv, P!CountInv, [Next]_vars PROVE P!CountInv'
    OBVIOUS
  <2>1. CASE [P!Next]_(P!vars)
    BY <2>1, Assumed, P!StepCounted
  <2>2. CASE ~[P!Next]_(P!vars)
    <3>1. P!TypeInv'
      BY StepType, Parts DEF TypeInv
    <3>2. /\ DOMAIN alerts' = DOMAIN alerts /\ call' = call
          /\ \A k \in DOMAIN alerts : /\ alerts'[k].ids = alerts[k].ids
                                      /\ alerts'[k].count = alerts[k].count
      BY <2>2, AlertCases
    <3> QED BY <3>1, <3>2 DEF P!CountInv, P!Counted
  <2> QED BY <2>1, <2>2
<1>3. P!CountInv => P!CountTellsDetections
  BY DEF P!CountInv, P!Counted, P!CountTellsDetections
<1> QED
  BY <1>1, <1>2, <1>3, InitType, StepType, PTL DEF Spec

(***************************************************************************)
(* Nor does it cost an alert a detection: the evidence is kept unless two  *)
(* calls are about to link detections to one alert.                        *)
(***************************************************************************)
THEOREM EvidenceSurvivesCases == Spec /\ []P!OneLink => []P!Listed
<1>1. Init => P!LinkInv /\ P!Listed
  <2>1. Init => P!Init
    BY DEF Init, A!Init, P!Init, A!Idle, P!Idle
  <2> QED BY <2>1, Assumed, P!InitRaces
<1>2. TypeInv /\ P!LinkInv /\ P!Listed /\ P!OneLink /\ [Next]_vars => P!LinkInv' /\ P!Listed'
  <2> SUFFICES ASSUME TypeInv, P!LinkInv, P!Listed, P!OneLink, [Next]_vars
               PROVE  P!LinkInv' /\ P!Listed'
    OBVIOUS
  <2>1. CASE [P!Next]_(P!vars)
    BY <2>1, Assumed, Parts, P!StepLink, P!StepListed
  <2>2. CASE ~[P!Next]_(P!vars)
    <3>1. /\ DOMAIN alerts' = DOMAIN alerts /\ UNCHANGED <<call, ingested>>
          /\ \A k \in DOMAIN alerts : alerts'[k].ids = alerts[k].ids
      BY <2>2, AlertCases
    <3>2. \A s \in Sessions : call[s].step = "link" => call[s].alert \in DOMAIN alerts
      BY Parts DEF P!TypeInv, P!TypeOK
    <3> QED BY <3>1, <3>2 DEF P!LinkInv, P!Listed
  <2> QED BY <2>1, <2>2
<1> QED
  BY <1>1, <1>2, InitType, StepType, PTL DEF Spec
=============================================================================
