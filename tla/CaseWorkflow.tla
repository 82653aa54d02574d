---------------------------- MODULE CaseWorkflow ----------------------------
(***************************************************************************)
(* CaseWorkflow (case_management_service/workflow.py) over the alerts of   *)
(* AlertWorkflow: an analyst opens a case from an alert, moves it along    *)
(* its lifecycle, asks for playbook runs and moves those along theirs.     *)
(* Every change of a case is told in its timeline.  The service and the    *)
(* correlation engine write the same alert rows; every call reads, awaits  *)
(* and writes the columns it assigned, a timeline as a whole.  No row is   *)
(* locked.  The routes ask for runs that require approval, and no other    *)
(* code does ask for one.                                                  *)
(***************************************************************************)
EXTENDS Naturals, Sequences, FiniteSets

CONSTANTS
    Detections, Keys, KeyOf, Window, Sessions, Analysts, MaxTime, MaxAlerts, None,
    Targets,   \* the statuses analysts ask cases and runs to get
    Desks,     \* calls of the case service that can be in flight together
    MaxCases,  \* bound: cases, those about to be opened included
    MaxRuns    \* bound: runs there are or are being asked for

VARIABLES
    alerts, detectedAt, clock, call, ingested,  \* of AlertWorkflow
    caseOf,     \* case_id of an alert, 0 for none
    named,      \* history: alerts whose case_id an analyst gave
    cases,      \* InvestigationCaseRow, in insertion order
    runs,       \* CasePlaybookRunRow, in insertion order
    desk,       \* what a call of the service has read
    overlapped  \* history: were two calls, of either service, ever in flight?

A == INSTANCE AlertWorkflow WITH raced <- overlapped

alertVars == <<alerts, detectedAt, clock, call, ingested>>
links == <<caseOf, named>>
caseVars == <<links, cases, runs, desk>>
vars == <<alertVars, caseVars, overlapped>>

CaseTransitions == [new         |-> {"triaged", "in_progress", "closed"},
                    triaged     |-> {"in_progress", "resolved", "closed"},
                    in_progress |-> {"resolved", "closed"},
                    resolved    |-> {"closed"},
                    closed      |-> {}]

(* Mutant: a run can start before anybody approved it.                     *)
PlaybookTransitions_Direct ==
    [requested         |-> {"awaiting_approval", "approved", "cancelled"},
     awaiting_approval |-> {"approved", "running", "cancelled"},
     approved          |-> {"running", "cancelled"},
     running           |-> {"completed", "failed", "cancelled"},
     completed |-> {}, failed |-> {}, cancelled |-> {}]

PlaybookTransitions ==
    [requested         |-> {"awaiting_approval", "approved", "cancelled"},
     awaiting_approval |-> {"approved", "cancelled"},
     approved          |-> {"running", "cancelled"},
     running           |-> {"completed", "failed", "cancelled"},
     completed |-> {}, failed |-> {}, cancelled |-> {}]

ASSUME CaseAssumption ==
    /\ A!AlertAssumption
    /\ MaxCases \in Nat /\ MaxRuns \in Nat
    /\ Targets \subseteq DOMAIN CaseTransitions \cup DOMAIN PlaybookTransitions

(* A timeline, a list of entries, is modelled by the last it tells of the  *)
(* case (as run 0) and of each run.                                        *)
Untold == [r \in 0..MaxRuns |-> None]
Tell(timeline, r, status) == [timeline EXCEPT ![r] = status]
Idle == [step |-> "idle"]

Init ==
    /\ A!Init
    /\ caseOf = [i \in 1..(MaxAlerts + Cardinality(Sessions)) |-> 0]
    /\ named = {}
    /\ cases = <<>> /\ runs = <<>>
    /\ desk = [s \in Desks |-> Idle]
    /\ overlapped = FALSE

Begin(s, c) == desk[s] = Idle /\ desk' = [desk EXCEPT ![s] = c]
Return(s) == desk' = [desk EXCEPT ![s] = Idle]
Write(c, timeline) == cases' = [cases EXCEPT ![c].timeline = timeline]
----------------------------------------------------------------------------
(* create_from_alert()                                                     *)

(* Mutant: the case an alert is linked to is not looked up.                *)
CreateRead_NoLookup(s, i) ==
    /\ Len(cases) + Cardinality({t \in Desks : desk[t].step = "create"}) < MaxCases
    /\ Begin(s, [step |-> "create", alert |-> i, status |-> alerts[i].status])
    /\ UNCHANGED <<alertVars, links, cases, runs>>

(* An alert that is linked to a case there is, is answered with it.        *)
CreateRead(s, i) ==
    /\ caseOf[i] \notin DOMAIN cases
    /\ Len(cases) + Cardinality({t \in Desks : desk[t].step = "create"}) < MaxCases
    /\ Begin(s, [step |-> "create", alert |-> i, status |-> alerts[i].status])
    /\ UNCHANGED <<alertVars, links, cases, runs>>

(* Mutant: the case takes the status of the alert.                         *)
Opened_AlertStatus(s) ==
    Append(cases, [alert |-> desk[s].alert, status |-> desk[s].status,
                   timeline |-> Tell(Untold, 0, desk[s].status)])

Opened(s) ==
    LET status == IF desk[s].status \in {"new", "triaged"} THEN "triaged" ELSE "in_progress"
    IN Append(cases, [alert |-> desk[s].alert, status |-> status,
                      timeline |-> Tell(Untold, 0, status)])

(* Mutant: the alert keeps its status.                                     *)
CreateWrite_NoTriage(s) ==
    /\ desk[s].step = "create"
    /\ cases' = Opened(s)
    /\ caseOf' = [caseOf EXCEPT ![desk[s].alert] = Len(cases')]
    /\ Return(s)
    /\ UNCHANGED <<alertVars, named, runs>>

(* Mutant: the alert is triaged whatever its status was.                   *)
CreateWrite_Triage(s) ==
    /\ desk[s].step = "create"
    /\ cases' = Opened(s)
    /\ caseOf' = [caseOf EXCEPT ![desk[s].alert] = Len(cases')]
    /\ alerts' = [alerts EXCEPT ![desk[s].alert].status = "triaged"]
    /\ Return(s)
    /\ UNCHANGED <<detectedAt, clock, call, ingested, named, runs>>

(* The case, the alert's link and, if it was new, its triage: one commit.  *)
CreateWrite(s) ==
    /\ desk[s].step = "create"
    /\ cases' = Opened(s)
    /\ caseOf' = [caseOf EXCEPT ![desk[s].alert] = Len(cases')]
    /\ alerts' = IF desk[s].status = "new"
                   THEN [alerts EXCEPT ![desk[s].alert].status = "triaged"] ELSE alerts
    /\ Return(s)
    /\ UNCHANGED <<detectedAt, clock, call, ingested, named, runs>>
----------------------------------------------------------------------------
(* transition() of the alert workflow, told a case_id as well: it is       *)
(* stored as it is, be it the case of the alert or another, or none at all.*)
NoCase == MaxCases + 1
NameCase(s) ==
    /\ A!TransitionWrite(s)
    /\ \E id \in DOMAIN cases \cup {NoCase} :
         caseOf' = [caseOf EXCEPT ![call[s].alert] = id]
    /\ named' = named \cup {call[s].alert}
    /\ UNCHANGED <<cases, runs, desk>>
----------------------------------------------------------------------------
(* transition_case()                                                       *)
TransitionRead(s, c, to) ==
    /\ to \in CaseTransitions[cases[c].status]
    /\ Begin(s, [step |-> "case", case |-> c, to |-> to, timeline |-> cases[c].timeline])
    /\ UNCHANGED <<alertVars, links, cases, runs>>

TransitionWrite(s) ==
    /\ desk[s].step = "case"
    /\ LET d == desk[s] IN
         cases' = [cases EXCEPT ![d.case] =
                     [@ EXCEPT !.status = d.to, !.timeline = Tell(d.timeline, 0, d.to)]]
    /\ Return(s)
    /\ UNCHANGED <<alertVars, links, runs>>
----------------------------------------------------------------------------
(* request_playbook()                                                      *)
RequestRead(s, c) ==
    /\ Len(runs) + Cardinality({t \in Desks : desk[t].step = "request"}) < MaxRuns
    /\ Begin(s, [step |-> "request", case |-> c, timeline |-> cases[c].timeline])
    /\ UNCHANGED <<alertVars, links, cases, runs>>

RequestWrite(s) ==
    /\ desk[s].step = "request"
    /\ runs' = Append(runs, [case |-> desk[s].case, status |-> "awaiting_approval",
                             approved |-> FALSE])
    /\ Write(desk[s].case, Tell(desk[s].timeline, Len(runs'), "awaiting_approval"))
    /\ Return(s)
    /\ UNCHANGED <<alertVars, links>>
----------------------------------------------------------------------------
(* transition_playbook(), called by the routes that approve a run, start   *)
(* it, and tell its outcome.                                               *)
RunRead(s, r, to) ==
    /\ to \in PlaybookTransitions[runs[r].status]
    /\ Begin(s, [step |-> "run", run |-> r, to |-> to])
    /\ UNCHANGED <<alertVars, links, cases, runs>>

(* The case is read after the run, and after others may have written it.   *)
RunReadCase(s) ==
    /\ desk[s].step = "run"
    /\ desk' = [desk EXCEPT ![s] = [step |-> "told", run |-> @.run, to |-> @.to,
                                    timeline |-> cases[runs[@.run].case].timeline]]
    /\ UNCHANGED <<alertVars, links, cases, runs>>

(* Mutant: the timeline is not told.                                       *)
RunWrite_Untold(s) ==
    /\ desk[s].step = "told"
    /\ LET d == desk[s] IN
         runs' = [runs EXCEPT ![d.run] =
                    [@ EXCEPT !.status = d.to,
                              !.approved = runs[d.run].approved \/ d.to = "approved"]]
    /\ Return(s)
    /\ UNCHANGED <<alertVars, links, cases>>

RunWrite(s) ==
    /\ desk[s].step = "told"
    /\ LET d == desk[s] IN
         /\ runs' = [runs EXCEPT ![d.run] =
                       [@ EXCEPT !.status = d.to,
                              !.approved = runs[d.run].approved \/ d.to = "approved"]]
         /\ Write(runs[d.run].case, Tell(d.timeline, d.run, d.to))
    /\ Return(s)
    /\ UNCHANGED <<alertVars, links>>
----------------------------------------------------------------------------
(* A call that raises, or whose process stops, has written nothing.        *)
Abandon(s) ==
    /\ desk[s] # Idle
    /\ Return(s)
    /\ UNCHANGED <<alertVars, links, cases, runs>>

Step(s) ==
    \/ CreateWrite(s) \/ TransitionWrite(s) \/ RequestWrite(s)
    \/ RunReadCase(s) \/ RunWrite(s) \/ Abandon(s)
    \/ \E i \in DOMAIN alerts : CreateRead(s, i)
    \/ \E c \in DOMAIN cases : \/ RequestRead(s, c)
                               \/ \E to \in Targets : TransitionRead(s, c, to)
    \/ \E r \in DOMAIN runs :
         \E to \in Targets \ {"requested", "awaiting_approval"} : RunRead(s, r, to)

Busy == {s \in Sessions : call[s] # A!Idle} \cup {s \in Desks : desk[s] # Idle}

Next ==
    /\ \/ A!Next /\ UNCHANGED caseVars
       \/ \E s \in Sessions : NameCase(s)
       \/ \E s \in Desks : Step(s)
    /\ overlapped' = (overlapped \/ Cardinality(Busy') > 1)

Spec == Init /\ [][Next]_vars
----------------------------------------------------------------------------
Case == [alert : Nat, status : DOMAIN CaseTransitions,
         timeline : [DOMAIN Untold -> {None} \cup DOMAIN CaseTransitions \cup DOMAIN PlaybookTransitions]]
Run == [case : Nat, status : DOMAIN PlaybookTransitions, approved : BOOLEAN]

(* The rows have their types, and an alert's link, unless an analyst gave  *)
(* it, leads to a case of it, whoever opened one last.                     *)
TypeOK ==
    /\ A!TypeOK
    /\ cases \in Seq(Case) /\ runs \in Seq(Run)
    /\ \A c \in DOMAIN cases : cases[c].alert \in DOMAIN alerts
    /\ named \subseteq DOMAIN alerts
    /\ \A i \in DOMAIN caseOf \ named :
         caseOf[i] # 0 => caseOf[i] \in DOMAIN cases /\ cases[caseOf[i]].alert = i
    /\ \A r \in DOMAIN runs : runs[r].case \in DOMAIN cases
    /\ overlapped \in BOOLEAN

(* A playbook run that was started has been approved by somebody, however  *)
(* approvals, cancellations and starts overwrite each other.               *)
RunsAreApproved ==
    \A r \in DOMAIN runs :
        runs[r].status \in {"running", "completed", "failed"} => runs[r].approved

(* An alert that has a case is not new, although two services write its    *)
(* status, each from what it read.                                         *)
EscalatedIsTriaged ==
    \A i \in DOMAIN caseOf : caseOf[i] # 0 => alerts[i].status # "new"

(* While calls do not overlap, an alert has one case and is linked to it,  *)
(* unless an analyst gave it another case_id.                              *)
OneCasePerAlert ==
    ~overlapped => \A c \in DOMAIN cases :
                      caseOf[cases[c].alert] = c \/ cases[c].alert \in named

(* While calls do not overlap, the last a timeline tells of the case and   *)
(* of each of its runs is the status they have.                            *)
TimelineTells ==
    ~overlapped =>
        /\ \A c \in DOMAIN cases : cases[c].timeline[0] = cases[c].status
        /\ \A r \in DOMAIN runs : cases[runs[r].case].timeline[r] = runs[r].status

Keeps(rows, next, table) ==
    \A i \in DOMAIN rows :
        next[i].status # rows[i].status => next[i].status \in table[rows[i].status]

(* While calls do not overlap, alerts, which analysts move and cases       *)
(* triage, cases and runs keep to their lifecycles.                        *)
LifecyclesLegal ==
    [][~overlapped' => /\ Keeps(alerts, alerts', A!Allowed)
                       /\ Keeps(cases, cases', CaseTransitions)
                       /\ Keeps(runs, runs', PlaybookTransitions)]_vars
=============================================================================
