--------------------- MODULE GovernedContainment_proofs ---------------------
(***************************************************************************)
(* Theorems about GovernedContainment, for any number of requests, keys,   *)
(* endpoints and concurrent calls.                                         *)
(***************************************************************************)
EXTENDS GovernedContainment, TLAPS

(***************************************************************************)
(* A session that jumps keeps the control state well typed.                *)
(***************************************************************************)
LEMMA GotoType ==
    ASSUME TypeOK, NEW s \in Sessions, NEW step \in Steps, NEW j \in Job,
           Goto(s, step, j),
           step # "idle" => j.req \in Requests,
           step \in {"audit_read", "audit_append"} => j.act \in Acts
    PROVE  /\ pc' \in [Sessions -> Steps]
           /\ job' \in [Sessions -> Job]
           /\ \A t \in Sessions : pc'[t] # "idle" => job'[t].req \in Requests
           /\ \A t \in Sessions : pc'[t] \in {"audit_read", "audit_append"} => job'[t].act \in Acts
  BY DEF TypeOK, Goto

LEMMA ReturnType ==
    ASSUME TypeOK, NEW s \in Sessions, Return(s)
    PROVE  /\ pc' \in [Sessions -> Steps]
           /\ job' \in [Sessions -> Job]
           /\ \A t \in Sessions : pc'[t] # "idle" => job'[t].req \in Requests
           /\ \A t \in Sessions : pc'[t] \in {"audit_read", "audit_append"} => job'[t].act \in Acts
<1>1. NoJob \in Job /\ "idle" \in Steps
  BY DEF NoJob, Job, Steps
<1> QED
  BY <1>1, GotoType DEF Return

LEMMA StartType ==
    ASSUME TypeOK, NEW s \in Sessions, NEW r \in Requests,
           NEW step \in Steps \ {"audit_read", "audit_append"}, Start(s, step, r)
    PROVE  /\ pc' \in [Sessions -> Steps]
           /\ job' \in [Sessions -> Job]
           /\ \A t \in Sessions : pc'[t] # "idle" => job'[t].req \in Requests
           /\ \A t \in Sessions : pc'[t] \in {"audit_read", "audit_append"} => job'[t].act \in Acts
<1> DEFINE j == [NoJob EXCEPT !.req = r]
<1>1. j \in Job /\ j.req \in Requests
  BY DEF NoJob, Job
<1>2. Goto(s, step, j)
  BY DEF Start
<1> HIDE DEF j
<1> QED
  BY <1>1, <1>2, GotoType

(* rollback()'s two loads move on and note what they will leave out.       *)
Loading(s) == RollbackLoadRequest(s) \/ RollbackLoadExecution(s)

LEMMA LoadMoves ==
    ASSUME TypeOK, NEW s \in Sessions, Loading(s)
    PROVE  /\ pc[s] \in {"undo_request", "undo_evidence"} /\ job[s].req \in Requests
           /\ UNCHANGED <<rows, audit, signing, isolated, executes, rollbacks>>
           /\ \E step \in {"undo_evidence", "record_undo"}, j \in Job :
                /\ Goto(s, step, j)
                /\ j.req = job[s].req /\ j.act = job[s].act /\ j.ok = job[s].ok
                /\ j.reversible = job[s].reversible /\ j.hash = job[s].hash
<1>1. pc[s] \in {"undo_request", "undo_evidence"} /\ job[s].req \in Requests /\ job[s] \in Job
  BY DEF Loading, RollbackLoadRequest, RollbackLoadExecution, TypeOK
<1>2. PICK step \in {"undo_evidence", "record_undo"}, o \in SUBSET {"request", "execution"} :
        Goto(s, step, [job[s] EXCEPT !.omits = o])
  <2>1. CASE RollbackLoadRequest(s)
    <3> DEFINE o == IF status[job[s].req] = Outcome(s) THEN {"request"} ELSE {}
    <3>1. Goto(s, "undo_evidence", [job[s] EXCEPT !.omits = o]) /\ o \in SUBSET {"request", "execution"}
      BY <2>1 DEF RollbackLoadRequest
    <3> HIDE DEF o
    <3> QED BY <3>1
  <2>2. CASE RollbackLoadExecution(s)
    <3> DEFINE more == IF execution[job[s].req].status = Outcome(s) THEN {"execution"} ELSE {}
               o == job[s].omits \cup more
    <3>1. Goto(s, "record_undo", [job[s] EXCEPT !.omits = @ \cup more]) /\ more \subseteq {"execution"}
      BY <2>2 DEF RollbackLoadExecution
    <3>2. job[s].omits \subseteq {"request", "execution"}
      BY <1>1 DEF Job
    <3> HIDE DEF more
    <3>3. [job[s] EXCEPT !.omits = @ \cup more] = [job[s] EXCEPT !.omits = o]
      OBVIOUS
    <3>4. o \in SUBSET {"request", "execution"}
      BY <3>1, <3>2
    <3> HIDE DEF o
    <3> QED BY <3>1, <3>3, <3>4
  <2> QED BY <2>1, <2>2 DEF Loading
<1> DEFINE j == [job[s] EXCEPT !.omits = o]
<1>3. /\ j \in Job /\ j.req = job[s].req /\ j.act = job[s].act /\ j.ok = job[s].ok
      /\ j.reversible = job[s].reversible /\ j.hash = job[s].hash
  BY <1>1 DEF Job
<1>4. Goto(s, step, j)
  BY <1>2
<1>5. UNCHANGED <<rows, audit, signing, isolated, executes, rollbacks>>
  BY DEF Loading, RollbackLoadRequest, RollbackLoadExecution
<1> HIDE DEF j
<1> QED
  BY <1>1, <1>3, <1>4, <1>5

(* What rollback() commits: each status is the outcome, or what it was.    *)
LEMMA RollbackWrites ==
    ASSUME TypeOK, NEW s \in Sessions, RecordRollback(s)
    PROVE  /\ job[s].req \in Requests /\ pc[s] = "record_undo" /\ Return(s)
           /\ Outcome(s) = (IF job[s].ok THEN "rolled_back" ELSE "failed")
           /\ UNCHANGED <<approval, audit, signing, isolated, executes, rollbacks>>
<1> QED
  BY DEF RecordRollback, TypeOK, Outcome

LEMMA RollbackTells ==
    ASSUME TypeOK, NEW s \in Sessions, RecordRollback(s)
    PROVE  \E told \in {status[job[s].req], Outcome(s)} :
             told \in Statuses /\ status' = [status EXCEPT ![job[s].req] = told]
<1> DEFINE told == IF "request" \in job[s].omits THEN status[job[s].req] ELSE Outcome(s)
<1>1. status' = [status EXCEPT ![job[s].req] = told]
  BY DEF RecordRollback
<1>2. Outcome(s) \in Statuses /\ status[job[s].req] \in Statuses
  BY RollbackWrites DEF Statuses, TypeOK
<1>3. told \in {status[job[s].req], Outcome(s)}
  OBVIOUS
<1> HIDE DEF told
<1> QED BY <1>1, <1>2, <1>3

LEMMA RollbackRecords ==
    ASSUME TypeOK, NEW s \in Sessions, RecordRollback(s)
    PROVE  \E e \in Execution :
             /\ execution' = [execution EXCEPT ![job[s].req] = e]
             /\ e.reversible = execution[job[s].req].reversible /\ e.hash = job[s].hash
             /\ e.status \in {execution[job[s].req].status, Outcome(s)}
             /\ e.status = execution[job[s].req].status =>
                    "execution" \in job[s].omits \/ execution[job[s].req].status = Outcome(s)
<1> DEFINE r == job[s].req
           new == IF "execution" \in job[s].omits THEN execution[r].status ELSE Outcome(s)
           e == [execution[r] EXCEPT !.status = new, !.hash = job[s].hash]
<1>1. execution' = [execution EXCEPT ![r] = e]
  BY DEF RecordRollback
<1>2. job[s] \in Job /\ execution[r] \in Execution /\ Outcome(s) \in {"rolled_back", "failed"}
  BY RollbackWrites DEF TypeOK
<1>3. job[s].hash \in Nat
  BY <1>2 DEF Job
<1>4. /\ new \in {execution[r].status, Outcome(s)}
      /\ new = execution[r].status => "execution" \in job[s].omits \/ execution[r].status = Outcome(s)
  OBVIOUS
<1> HIDE DEF new
<1>5. /\ e \in Execution /\ e.reversible = execution[r].reversible
      /\ e.status = new /\ e.hash = job[s].hash
  BY <1>2, <1>3, <1>4 DEF Execution
<1> HIDE DEF e
<1> QED BY <1>1, <1>4, <1>5

LEMMA InitType == Init => TypeOK
  BY ContainmentAssumption DEF Init, TypeOK, NoExecution, Execution, NoJob, Job, Steps, Statuses

(***************************************************************************)
(* The state never leaves its types.                                       *)
(***************************************************************************)
LEMMA StepType == TypeOK /\ [Next]_vars => TypeOK'
<1> SUFFICES ASSUME TypeOK, [Next]_vars PROVE TypeOK'
  OBVIOUS
<1>1. ASSUME NEW s \in Sessions, NEW r \in Requests, RequestRead(s, r) PROVE TypeOK'
  <2>1. Start(s, "insert", r) /\ UNCHANGED <<rows, audit, signing, isolated, executes, rollbacks>>
    BY <1>1 DEF RequestRead
  <2> QED BY <2>1, StartType DEF TypeOK, Steps, rows
<1>2. ASSUME NEW s \in Sessions, NEW r \in Requests, DecisionRead(s, r) PROVE TypeOK'
  <2>1. Start(s, "decide", r) /\ UNCHANGED <<rows, audit, signing, isolated, executes, rollbacks>>
    BY <1>2 DEF DecisionRead
  <2> QED BY <2>1, StartType DEF TypeOK, Steps, rows
<1>3. ASSUME NEW s \in Sessions, NEW r \in Requests, ExecuteRead(s, r) PROVE TypeOK'
  <2>1. Start(s, "claim", r) /\ UNCHANGED <<rows, audit, signing, isolated, executes, rollbacks>>
    BY <1>3 DEF ExecuteRead
  <2> QED BY <2>1, StartType DEF TypeOK, Steps, rows
<1>4. ASSUME NEW s \in Sessions, NEW r \in Requests, RollbackRead(s, r) PROVE TypeOK'
  <2>1. /\ Start(s, "undo", r) /\ UNCHANGED <<rows, audit, signing, isolated, executes>>
        /\ rollbacks' = [rollbacks EXCEPT ![r] = @ + 1]
    BY <1>4 DEF RollbackRead
  <2> QED BY <2>1, StartType DEF TypeOK, Steps, rows
<1>5. ASSUME NEW s \in Sessions, InsertRequest(s) PROVE TypeOK'
  <2> DEFINE r == job[s].req
             j == [job[s] EXCEPT !.act = "requested"]
  <2>1. r \in Requests
    BY <1>5 DEF TypeOK, InsertRequest
  <2>2. CASE KeyTaken(r)
    BY <1>5, <2>2, ReturnType DEF InsertRequest, TypeOK
  <2>3. CASE ~KeyTaken(r)
    <3>1. j \in Job /\ j.req \in Requests /\ j.act \in Acts
      BY <2>1 DEF TypeOK, Job, Acts
    <3>2. Goto(s, "audit_read", j) /\ status' = [status EXCEPT ![r] = "requested"]
      BY <1>5, <2>3 DEF InsertRequest
    <3> HIDE DEF j
    <3> QED BY <1>5, <2>1, <3>1, <3>2, GotoType DEF InsertRequest, TypeOK, Steps, Statuses
  <2> QED BY <2>2, <2>3
<1>6. ASSUME NEW s \in Sessions, DecisionCommit(s) PROVE TypeOK'
  <2>1. job[s].req \in Requests
    BY <1>6 DEF TypeOK, DecisionCommit
  <2>2. CASE approval[job[s].req] = "none"
    <3>1. PICK d \in {"approved", "rejected"} : Decide(s, d)
      BY <1>6, <2>2 DEF DecisionCommit
    <3> DEFINE j == [job[s] EXCEPT !.act = d]
    <3>2. j \in Job /\ j.req \in Requests /\ j.act \in Acts
      BY <2>1 DEF TypeOK, Job, Acts
    <3>3. Goto(s, "audit_read", j)
      BY <3>1 DEF Decide
    <3> HIDE DEF j
    <3> QED BY <2>1, <3>1, <3>2, <3>3, GotoType DEF Decide, TypeOK, Steps, Statuses
  <2>3. CASE approval[job[s].req] # "none"
    BY <1>6, <2>3, ReturnType DEF DecisionCommit, TypeOK, rows
  <2> QED BY <2>2, <2>3
<1>7. ASSUME NEW s \in Sessions, ClaimExecution(s) PROVE TypeOK'
  <2>1. job[s].req \in Requests /\ job[s] \in Job
    BY <1>7 DEF TypeOK, ClaimExecution
  <2> QED BY <1>7, <2>1, GotoType DEF ClaimExecution, TypeOK, Steps, Statuses
<1>8. ASSUME NEW s \in Sessions, AdapterExecute(s) PROVE TypeOK'
  <2>1. job[s].req \in Requests
    BY <1>8 DEF TypeOK, AdapterExecute
  <2>2. PICK ok \in BOOLEAN, b \in BOOLEAN, up \in BOOLEAN :
          /\ isolated' = [isolated EXCEPT ![TargetOf[job[s].req]] = up]
          /\ Goto(s, "audit_read", [job[s] EXCEPT !.act = "executed", !.ok = ok, !.reversible = b])
    BY <1>8, <2>1, ContainmentAssumption DEF AdapterExecute, TypeOK
  <2> DEFINE j == [job[s] EXCEPT !.act = "executed", !.ok = ok, !.reversible = b]
  <2>3. j \in Job /\ j.req \in Requests /\ j.act \in Acts
    <3>1. job[s] \in Job
      BY DEF TypeOK
    <3> QED BY <2>1, <3>1 DEF Job, Acts
  <2>4. Goto(s, "audit_read", j)
    BY <2>2
  <2>5. executes' = [executes EXCEPT ![job[s].req] = @ + 1] /\ UNCHANGED <<rows, audit, signing, rollbacks>>
    BY <1>8 DEF AdapterExecute
  <2>6. executes' \in [Requests -> Nat]
    <3>1. executes \in [Requests -> Nat] /\ executes[job[s].req] + 1 \in Nat
      BY <2>1 DEF TypeOK
    <3> QED BY <2>5, <3>1
  <2>7. isolated' \in [Targets -> BOOLEAN]
    <3>1. isolated \in [Targets -> BOOLEAN]
      BY DEF TypeOK
    <3> QED BY <2>2, <3>1
  <2> HIDE DEF j
  <2> QED BY <2>3, <2>4, <2>5, <2>6, <2>7, GotoType DEF TypeOK, Steps, rows
<1>9. ASSUME NEW s \in Sessions, RecordExecution(s) PROVE TypeOK'
  <2>1. job[s].req \in Requests /\ job[s] \in Job
    BY <1>9 DEF TypeOK, RecordExecution
  <2> DEFINE outcome == IF job[s].ok THEN "verified" ELSE "failed"
             e == [status |-> outcome, reversible |-> job[s].reversible, hash |-> job[s].hash]
  <2>2. e \in Execution /\ outcome \in Statuses
    BY <2>1 DEF Job, Execution, Statuses
  <2>3. \/ UNCHANGED <<status, execution>>
        \/ /\ execution' = [execution EXCEPT ![job[s].req] = e]
           /\ status' = [status EXCEPT ![job[s].req] = outcome]
    BY <1>9 DEF RecordExecution, Record
  <2> HIDE DEF e, outcome
  <2>4. status' \in [Requests -> Statuses] /\ execution' \in [Requests -> Execution]
    BY <2>1, <2>2, <2>3 DEF TypeOK
  <2> QED BY <1>9, <2>4, ReturnType DEF RecordExecution, TypeOK
<1>10. ASSUME NEW s \in Sessions, AdapterRollback(s) PROVE TypeOK'
  <2>1. job[s].req \in Requests
    BY <1>10 DEF TypeOK, AdapterRollback
  <2>2. PICK ok \in BOOLEAN, up \in BOOLEAN :
          /\ isolated' = [isolated EXCEPT ![TargetOf[job[s].req]] = up]
          /\ Goto(s, "audit_read", [job[s] EXCEPT !.act = "rolled_back", !.ok = ok])
    BY <1>10, <2>1, ContainmentAssumption DEF AdapterRollback, TypeOK
  <2> DEFINE j == [job[s] EXCEPT !.act = "rolled_back", !.ok = ok]
  <2>3. j \in Job /\ j.req \in Requests /\ j.act \in Acts
    BY <2>1 DEF TypeOK, Job, Acts
  <2>4. Goto(s, "audit_read", j)
    BY <2>2
  <2> HIDE DEF j
  <2> QED BY <1>10, <2>1, <2>2, <2>3, <2>4, GotoType DEF AdapterRollback, TypeOK, Steps, rows
<1>11. ASSUME NEW s \in Sessions, RecordRollback(s) PROVE TypeOK'
  <2>1. PICK e \in Execution, told \in Statuses :
          /\ execution' = [execution EXCEPT ![job[s].req] = e]
          /\ status' = [status EXCEPT ![job[s].req] = told]
    BY <1>11, RollbackRecords, RollbackTells
  <2>2. /\ job[s].req \in Requests /\ Return(s)
        /\ UNCHANGED <<approval, audit, signing, isolated, executes, rollbacks>>
    BY <1>11, RollbackWrites
  <2>3. status' \in [Requests -> Statuses] /\ execution' \in [Requests -> Execution]
    BY <2>1, <2>2 DEF TypeOK
  <2> QED BY <2>2, <2>3, ReturnType DEF TypeOK
<1>12. ASSUME NEW s \in Sessions, AuditRead(s) PROVE TypeOK'
  <2>1. job[s].req \in Requests /\ job[s].act \in Acts /\ Len(audit) \in Nat
    BY <1>12 DEF TypeOK, AuditRead
  <2> DEFINE j == [job[s] EXCEPT !.head = Len(audit)]
  <2>2. j \in Job /\ j.req \in Requests /\ j.act \in Acts
    BY <2>1 DEF TypeOK, Job
  <2>3. Goto(s, "audit_append", j)
    BY <1>12 DEF AuditRead
  <2> HIDE DEF j
  <2> QED BY <1>12, <2>2, <2>3, GotoType DEF AuditRead, TypeOK, Steps, rows
<1>13. ASSUME NEW s \in Sessions, AuditAppend(s) PROVE TypeOK'
  <2>1. job[s].req \in Requests /\ job[s].act \in Acts /\ job[s] \in Job /\ Len(audit) + 1 \in Nat
    BY <1>13 DEF TypeOK, AuditAppend
  <2> DEFINE e == [req |-> job[s].req, act |-> job[s].act, ok |-> job[s].ok,
                   prev |-> job[s].head, signed |-> signing]
             j == [job[s] EXCEPT !.hash = Len(audit) + 1]
  <2>2. e \in Entry /\ j \in Job /\ j.req \in Requests
    BY <2>1 DEF Entry, Job, TypeOK
  <2>3. audit' = Append(audit, e) /\ UNCHANGED <<rows, signing, isolated, executes, rollbacks>>
    BY <1>13 DEF AuditAppend
  <2> HIDE DEF e
  <2>4. audit' \in Seq(Entry)
    BY <2>2, <2>3 DEF TypeOK
  <2>5. Goto(s, "record", j) \/ Goto(s, "undo_request", j) \/ Return(s)
    BY <1>13, <2>1 DEF AuditAppend, AfterAudit, Acts
  <2> HIDE DEF j
  <2>6. CASE Return(s)
    BY <2>3, <2>4, <2>6, ReturnType DEF TypeOK, rows
  <2>7. CASE Goto(s, "record", j)
    BY <2>2, <2>3, <2>4, <2>7, GotoType DEF TypeOK, Steps, rows
  <2>8. CASE Goto(s, "undo_request", j)
    BY <2>2, <2>3, <2>4, <2>8, GotoType DEF TypeOK, Steps, rows
  <2> QED BY <2>5, <2>6, <2>7, <2>8
<1>14. ASSUME NEW s \in Sessions, Loading(s) PROVE TypeOK'
  <2>1. PICK step \in {"undo_evidence", "record_undo"}, j \in Job :
          Goto(s, step, j) /\ j.req \in Requests
    BY <1>14, LoadMoves
  <2>2. UNCHANGED <<rows, audit, signing, isolated, executes, rollbacks>>
    BY <1>14, LoadMoves
  <2> QED BY <2>1, <2>2, GotoType DEF TypeOK, Steps, rows
<1>15. ASSUME NEW s \in Sessions, Fail(s) PROVE TypeOK'
  BY <1>15, ReturnType DEF Fail, TypeOK, rows
<1>16. CASE Restart
  BY <1>16 DEF Restart, TypeOK, rows, NoJob, Job, Steps
<1>17. CASE UNCHANGED vars
  BY <1>17 DEF vars, rows, TypeOK
<1> QED
  BY <1>1, <1>2, <1>3, <1>4, <1>5, <1>6, <1>7, <1>8, <1>9, <1>10, <1>11, <1>12, <1>13,
     <1>14, <1>15, <1>16, <1>17 DEF Next, Step, Call, Loading

THEOREM TypeCorrect == Spec => []TypeOK
  BY InitType, StepType, PTL DEF Spec
----------------------------------------------------------------------------
(***************************************************************************)
(* Why decisions govern.  An operation that has passed the guard of        *)
(* execute() or rollback() keeps working from what it read, so the         *)
(* invariant must say of every such operation, wherever it is, that its    *)
(* request is approved; approvals never change, so no race can falsify it. *)
(***************************************************************************)
InAudit(s) == pc[s] \in {"audit_read", "audit_append"}

Enforcing(s) ==
    \/ pc[s] \in {"claim", "execute", "record",
                 "undo", "undo_request", "undo_evidence", "record_undo"}
    \/ InAudit(s) /\ job[s].act \in {"executed", "rolled_back"}

GovernInv ==
    /\ DecisionGoverns
    /\ \A r \in Requests : status[r] = "absent" => approval[r] = "none"
    /\ \A r \in Requests : execution[r].status # "none" => approval[r] = "approved"
    /\ \A s \in Sessions : Enforcing(s) => approval[job[s].req] = "approved"

LEMMA InitGovern == Init => GovernInv
  BY DEF Init, GovernInv, DecisionGoverns, Enforcing, InAudit, NoExecution

(* A call that ends by recording the result for an approved request.       *)
LEMMA GovernReturns ==
    ASSUME TypeOK, GovernInv, NEW s \in Sessions, NEW r \in Requests, approval[r] = "approved",
           Return(s), UNCHANGED <<approval, executes>>, status'[r] # "absent",
           \A q \in Requests \ {r} : execution'[q] = execution[q] /\ status'[q] = status[q]
    PROVE  GovernInv'
<1>1. DecisionGoverns'
  BY DEF GovernInv, DecisionGoverns
<1>2. /\ \A q \in Requests : status'[q] = "absent" => approval'[q] = "none"
      /\ \A q \in Requests : execution'[q].status # "none" => approval'[q] = "approved"
  BY DEF GovernInv
<1>3. pc'[s] = "idle" /\ \A t \in Sessions \ {s} : pc'[t] = pc[t] /\ job'[t] = job[t]
  BY DEF Return, Goto, TypeOK
<1>4. \A t \in Sessions : Enforcing(t)' => approval'[job'[t].req] = "approved"
  BY <1>3 DEF GovernInv, Enforcing, InAudit
<1> QED BY <1>1, <1>2, <1>4 DEF GovernInv

LEMMA StepGovern == TypeOK /\ GovernInv /\ [Next]_vars => GovernInv'
<1> SUFFICES ASSUME TypeOK, GovernInv, [Next]_vars PROVE GovernInv'
  OBVIOUS
<1> USE DEF GovernInv, DecisionGoverns, Enforcing, InAudit, rows
<1>1. ASSUME NEW s \in Sessions, NEW r \in Requests, RequestRead(s, r) PROVE GovernInv'
  BY <1>1 DEF RequestRead, Start, Goto, NoJob, TypeOK
<1>2. ASSUME NEW s \in Sessions, NEW r \in Requests, DecisionRead(s, r) PROVE GovernInv'
  BY <1>2 DEF DecisionRead, Start, Goto, NoJob, TypeOK
<1>3. ASSUME NEW s \in Sessions, NEW r \in Requests, ExecuteRead(s, r) PROVE GovernInv'
  BY <1>3 DEF ExecuteRead, Start, Goto, NoJob, TypeOK
<1>4. ASSUME NEW s \in Sessions, NEW r \in Requests, RollbackRead(s, r) PROVE GovernInv'
  BY <1>4 DEF RollbackRead, Start, Goto, NoJob, TypeOK
<1>5. ASSUME NEW s \in Sessions, InsertRequest(s) PROVE GovernInv'
  <2>1. job[s].req \in Requests /\ job[s] \in Job
    BY <1>5 DEF TypeOK, InsertRequest
  <2>2. CASE KeyTaken(job[s].req)
    <3>1. Return(s) /\ UNCHANGED <<rows, executes>>
      BY <1>5, <2>2 DEF InsertRequest
    <3> QED BY <3>1 DEF Return, Goto, TypeOK
  <2>3. CASE ~KeyTaken(job[s].req)
    <3>1. status[job[s].req] = "absent"
      BY <2>1, <2>3 DEF KeyTaken
    <3>2. /\ status' = [status EXCEPT ![job[s].req] = "requested"]
          /\ Goto(s, "audit_read", [job[s] EXCEPT !.act = "requested"])
          /\ UNCHANGED <<approval, execution, executes>>
      BY <1>5, <2>3 DEF InsertRequest
    <3>3. approval[job[s].req] = "none"
      BY <2>1, <3>1
    <3> QED BY <2>1, <3>1, <3>2, <3>3 DEF Goto, TypeOK, Job
  <2> QED BY <2>2, <2>3
<1>6. ASSUME NEW s \in Sessions, DecisionCommit(s) PROVE GovernInv'
  <2>1. job[s].req \in Requests /\ job[s] \in Job
    BY <1>6 DEF TypeOK, DecisionCommit
  <2>2. CASE approval[job[s].req] = "none"
    <3>1. PICK d \in {"approved", "rejected"} : Decide(s, d)
      BY <1>6, <2>2 DEF DecisionCommit
    <3> QED BY <2>1, <2>2, <3>1 DEF Decide, Goto, TypeOK, Job
  <2>3. CASE approval[job[s].req] # "none"
    <3>1. Return(s) /\ UNCHANGED <<rows, executes>>
      BY <1>6, <2>3 DEF DecisionCommit
    <3> QED BY <3>1 DEF Return, Goto, TypeOK
  <2> QED BY <2>2, <2>3
<1>7. ASSUME NEW s \in Sessions, ClaimExecution(s) PROVE GovernInv'
  BY <1>7 DEF ClaimExecution, Goto, TypeOK
<1>8. ASSUME NEW s \in Sessions, AdapterExecute(s) PROVE GovernInv'
  <2>1. job[s].req \in Requests /\ job[s] \in Job /\ approval[job[s].req] = "approved"
    BY <1>8 DEF TypeOK, AdapterExecute
  <2>2. PICK ok \in BOOLEAN, b \in BOOLEAN :
          Goto(s, "audit_read", [job[s] EXCEPT !.act = "executed", !.ok = ok, !.reversible = b])
    BY <1>8 DEF AdapterExecute
  <2> QED BY <1>8, <2>1, <2>2 DEF AdapterExecute, Goto, TypeOK, Job
<1>9. ASSUME NEW s \in Sessions, RecordExecution(s) PROVE GovernInv'
  <2>1. /\ job[s].req \in Requests /\ approval[job[s].req] = "approved" /\ Return(s)
        /\ UNCHANGED <<approval, executes>>
    BY <1>9 DEF RecordExecution, TypeOK
  <2>2. status'[job[s].req] \in {status[job[s].req], "verified", "failed"}
    BY <1>9, <2>1 DEF RecordExecution, Record, TypeOK
  <2>3. \A q \in Requests \ {job[s].req} : execution'[q] = execution[q] /\ status'[q] = status[q]
    BY <1>9 DEF RecordExecution, Record, TypeOK
  <2> QED BY <2>1, <2>2, <2>3, GovernReturns
<1>10. ASSUME NEW s \in Sessions, AdapterRollback(s) PROVE GovernInv'
  BY <1>10 DEF AdapterRollback, Goto, TypeOK, Job
<1>11. ASSUME NEW s \in Sessions, RecordRollback(s) PROVE GovernInv'
  <2>1. /\ job[s].req \in Requests /\ approval[job[s].req] = "approved" /\ Return(s)
        /\ UNCHANGED <<approval, executes>>
    BY <1>11, RollbackWrites
  <2>2. PICK told \in {status[job[s].req], Outcome(s)} :
          status' = [status EXCEPT ![job[s].req] = told]
    BY <1>11, RollbackTells
  <2>3. PICK e : execution' = [execution EXCEPT ![job[s].req] = e]
    BY <1>11, RollbackRecords
  <2>4. status'[job[s].req] = told
    BY <2>1, <2>2 DEF TypeOK
  <2>5. told # "absent"
    BY <2>1, <2>2 DEF Outcome
  <2>6. \A q \in Requests \ {job[s].req} : execution'[q] = execution[q] /\ status'[q] = status[q]
    BY <2>2, <2>3 DEF TypeOK
  <2> QED BY <2>1, <2>4, <2>5, <2>6, GovernReturns
<1>12. ASSUME NEW s \in Sessions, AuditRead(s) PROVE GovernInv'
  BY <1>12 DEF AuditRead, Goto, TypeOK, Job
<1>13. ASSUME NEW s \in Sessions, AuditAppend(s) PROVE GovernInv'
  <2>1. job[s].req \in Requests /\ job[s].act \in Acts /\ job[s] \in Job
    BY <1>13 DEF TypeOK, AuditAppend
  <2> DEFINE j == [job[s] EXCEPT !.hash = Len(audit) + 1]
  <2>2. UNCHANGED <<rows, executes>>
    BY <1>13 DEF AuditAppend
  <2>3. CASE job[s].act \in {"executed", "rolled_back"}
    <3>1. Goto(s, "record", j) \/ Goto(s, "undo_request", j)
      BY <1>13, <2>3 DEF AuditAppend, AfterAudit
    <3>2. j.req = job[s].req /\ approval[job[s].req] = "approved"
      BY <1>13, <2>1, <2>3 DEF AuditAppend, Job
    <3> HIDE DEF j
    <3>3. job'[s].req = job[s].req /\ \A t \in Sessions \ {s} : pc'[t] = pc[t] /\ job'[t] = job[t]
      BY <3>1, <3>2 DEF Goto, TypeOK
    <3>4. pc'[s] \in {"record", "undo_request"}
      BY <3>1 DEF Goto, TypeOK
    <3> QED BY <2>2, <3>2, <3>3, <3>4
  <2>4. CASE job[s].act \notin {"executed", "rolled_back"}
    <3>1. Return(s)
      BY <1>13, <2>1, <2>4 DEF AuditAppend, AfterAudit, Acts
    <3> QED BY <2>2, <3>1 DEF Return, Goto, TypeOK
  <2> QED BY <2>3, <2>4
<1>14. ASSUME NEW s \in Sessions, Loading(s) PROVE GovernInv'
  <2>1. PICK step \in {"undo_evidence", "record_undo"}, j \in Job :
          Goto(s, step, j) /\ j.req = job[s].req
    BY <1>14, LoadMoves
  <2>2. UNCHANGED <<rows, executes>> /\ pc[s] \in {"undo_request", "undo_evidence"}
    BY <1>14, LoadMoves
  <2> QED BY <2>1, <2>2 DEF Goto, TypeOK
<1>15. ASSUME NEW s \in Sessions, Fail(s) PROVE GovernInv'
  BY <1>15 DEF Fail, Return, Goto, TypeOK
<1>16. CASE Restart
  BY <1>16 DEF Restart
<1>17. CASE UNCHANGED vars
  BY <1>17 DEF vars
<1> QED
  BY <1>1, <1>2, <1>3, <1>4, <1>5, <1>6, <1>7, <1>8, <1>9, <1>10, <1>11, <1>12, <1>13,
     <1>14, <1>15, <1>16, <1>17 DEF Next, Step, Call, Loading

(***************************************************************************)
(* The adapter is called only for requests whose recorded decision is      *)
(* "approved", and a rejection is final, whatever races or fails.          *)
(***************************************************************************)
THEOREM DecisionsGovern == Spec => []DecisionGoverns
<1>1. GovernInv => DecisionGoverns
  BY DEF GovernInv
<1> QED
  BY <1>1, InitGovern, StepGovern, TypeCorrect, PTL DEF Spec
----------------------------------------------------------------------------
(***************************************************************************)
(* OneRequestPerKey rests on what no step does: make a request of one that *)
(* is absent, other than the insert, whose key is free.  Every write of a  *)
(* status is about a request that is there.                                *)
(***************************************************************************)
KeyInv ==
    /\ OneRequestPerKey
    /\ \A s \in Sessions : pc[s] \notin {"idle", "insert"} => status[job[s].req] # "absent"
    /\ \A r \in Requests : execution[r].status # "none" => status[r] # "absent"

LEMMA InitKey == Init => KeyInv
  BY DEF Init, KeyInv, OneRequestPerKey, NoExecution

(* A step that makes no request keeps what there is.                       *)
LEMMA KeyFrame ==
    ASSUME KeyInv,
           \A r \in Requests : status'[r] # "absent" <=> status[r] # "absent",
           \A r \in Requests : execution'[r].status # "none" =>
               execution[r].status # "none" \/ status[r] # "absent",
           \A s \in Sessions : pc'[s] \notin {"idle", "insert"} =>
               job'[s].req \in Requests /\ status[job'[s].req] # "absent"
    PROVE  KeyInv'
<1>1. OneRequestPerKey'
  BY DEF KeyInv, OneRequestPerKey
<1> QED
  BY <1>1 DEF KeyInv

(* One call moves on about its request, or starts about another.           *)
LEMMA KeyGoto ==
    ASSUME TypeOK, KeyInv, NEW s \in Sessions, NEW step \in Steps, NEW j, Goto(s, step, j),
           step \notin {"idle", "insert"} => j.req \in Requests /\ status[j.req] # "absent"
    PROVE  \A t \in Sessions : pc'[t] \notin {"idle", "insert"} =>
               job'[t].req \in Requests /\ status[job'[t].req] # "absent"
  BY DEF TypeOK, KeyInv, Goto

LEMMA KeyReturn ==
    ASSUME TypeOK, KeyInv, NEW s \in Sessions, Return(s), UNCHANGED <<status, execution>>
    PROVE  KeyInv'
<1>1. "idle" \in Steps
  BY DEF Steps
<1> QED
  BY <1>1, KeyGoto, KeyFrame DEF Return

LEMMA StepKey == TypeOK /\ KeyInv /\ [Next]_vars => KeyInv'
<1> SUFFICES ASSUME TypeOK, KeyInv, [Next]_vars PROVE KeyInv'
  OBVIOUS
<1> USE DEF rows
<1>1. ASSUME NEW s \in Sessions, NEW r \in Requests, Call(s, r) PROVE KeyInv'
  <2>1. UNCHANGED <<status, execution>>
    BY <1>1 DEF Call, RequestRead, DecisionRead, ExecuteRead, RollbackRead
  <2>2. execution[r].status = "verified" => status[r] # "absent"
    BY DEF KeyInv
  <2>3. PICK step \in Steps : /\ Start(s, step, r)
                              /\ step # "insert" => status[r] # "absent"
    BY <1>1, <2>2 DEF Call, RequestRead, DecisionRead, ExecuteRead, RollbackRead, Steps
  <2>4. [NoJob EXCEPT !.req = r].req = r
    BY DEF NoJob
  <2> QED BY <2>1, <2>3, <2>4, KeyGoto, KeyFrame DEF Start
<1>2. ASSUME NEW s \in Sessions, InsertRequest(s) PROVE KeyInv'
  <2> DEFINE r == job[s].req
  <2>1. r \in Requests /\ job[s] \in Job
    BY <1>2 DEF TypeOK, InsertRequest
  <2>2. CASE KeyTaken(r)
    BY <1>2, <2>2, KeyReturn DEF InsertRequest
  <2>3. CASE ~KeyTaken(r)
    <3>1. /\ status' = [status EXCEPT ![r] = "requested"] /\ execution' = execution
          /\ Goto(s, "audit_read", [job[s] EXCEPT !.act = "requested"])
      BY <1>2, <2>3 DEF InsertRequest
    <3>2. \A q \in Requests : KeyOf[q] = KeyOf[r] => status[q] = "absent"
      BY <2>3 DEF KeyTaken
    <3>3. OneRequestPerKey'
      BY <2>1, <3>1, <3>2 DEF KeyInv, OneRequestPerKey, TypeOK
    <3>4. \A q \in Requests : status[q] # "absent" => status'[q] # "absent"
      BY <2>1, <3>1 DEF TypeOK
    <3>5. [job[s] EXCEPT !.act = "requested"].req = r /\ status'[r] # "absent"
      BY <2>1, <3>1 DEF Job, TypeOK
    <3>6. ASSUME NEW t \in Sessions, pc'[t] \notin {"idle", "insert"}
          PROVE  status'[job'[t].req] # "absent"
      <4>1. CASE t = s
        BY <2>1, <3>1, <3>5, <4>1 DEF Goto, TypeOK
      <4>2. CASE t # s
        BY <3>1, <3>4, <3>6, <4>2 DEF Goto, TypeOK, KeyInv
      <4> QED BY <4>1, <4>2
    <3> QED BY <3>1, <3>3, <3>4, <3>6 DEF KeyInv
  <2> QED BY <2>2, <2>3
<1>3. ASSUME NEW s \in Sessions, DecisionCommit(s) PROVE KeyInv'
  <2>1. job[s].req \in Requests /\ job[s] \in Job /\ status[job[s].req] # "absent"
    BY <1>3 DEF TypeOK, DecisionCommit, KeyInv
  <2>2. CASE approval[job[s].req] = "none"
    <3>1. PICK d \in {"approved", "rejected"} : Decide(s, d)
      BY <1>3, <2>2 DEF DecisionCommit
    <3>2. [job[s] EXCEPT !.act = d].req = job[s].req /\ "audit_read" \in Steps
      BY <2>1 DEF Job, Steps
    <3>3. \A q \in Requests : status'[q] # "absent" <=> status[q] # "absent"
      BY <2>1, <3>1 DEF Decide, TypeOK
    <3> QED BY <2>1, <3>1, <3>2, <3>3, KeyGoto, KeyFrame DEF Decide
  <2>3. CASE approval[job[s].req] # "none"
    BY <1>3, <2>3, KeyReturn DEF DecisionCommit
  <2> QED BY <2>2, <2>3
<1>4. ASSUME NEW s \in Sessions, ClaimExecution(s) PROVE KeyInv'
  <2>1. job[s].req \in Requests /\ status[job[s].req] # "absent" /\ "execute" \in Steps
    BY <1>4 DEF TypeOK, ClaimExecution, KeyInv, Steps
  <2>2. \A q \in Requests : status'[q] # "absent" <=> status[q] # "absent"
    BY <1>4, <2>1 DEF ClaimExecution, TypeOK
  <2> QED BY <1>4, <2>1, <2>2, KeyGoto, KeyFrame DEF ClaimExecution
<1>5. ASSUME NEW s \in Sessions, AdapterExecute(s) \/ AdapterRollback(s) \/ AuditRead(s) PROVE KeyInv'
  <2>1. job[s].req \in Requests /\ status[job[s].req] # "absent" /\ job[s] \in Job
    BY <1>5 DEF TypeOK, AdapterExecute, AdapterRollback, AuditRead, KeyInv
  <2>2. PICK step, j : step \in Steps /\ Goto(s, step, j) /\ j.req = job[s].req
    <3>1. "audit_read" \in Steps /\ "audit_append" \in Steps
      BY DEF Steps
    <3>2. CASE AdapterExecute(s)
      <4>1. PICK ok \in BOOLEAN, b \in BOOLEAN :
              Goto(s, "audit_read", [job[s] EXCEPT !.act = "executed", !.ok = ok, !.reversible = b])
        BY <3>2 DEF AdapterExecute
      <4>2. [job[s] EXCEPT !.act = "executed", !.ok = ok, !.reversible = b].req = job[s].req
        BY <2>1 DEF Job
      <4> QED BY <3>1, <4>1, <4>2
    <3>3. CASE AdapterRollback(s)
      <4>1. PICK ok \in BOOLEAN :
              Goto(s, "audit_read", [job[s] EXCEPT !.act = "rolled_back", !.ok = ok])
        BY <3>3 DEF AdapterRollback
      <4>2. [job[s] EXCEPT !.act = "rolled_back", !.ok = ok].req = job[s].req
        BY <2>1 DEF Job
      <4> QED BY <3>1, <4>1, <4>2
    <3>4. CASE AuditRead(s)
      <4>1. Goto(s, "audit_append", [job[s] EXCEPT !.head = Len(audit)])
        BY <3>4 DEF AuditRead
      <4>2. [job[s] EXCEPT !.head = Len(audit)].req = job[s].req
        BY <2>1 DEF Job
      <4> QED BY <3>1, <4>1, <4>2
    <3> QED BY <1>5, <3>2, <3>3, <3>4
  <2>3. UNCHANGED <<status, execution>>
    BY <1>5 DEF AdapterExecute, AdapterRollback, AuditRead
  <2> QED BY <2>1, <2>2, <2>3, KeyGoto, KeyFrame
<1>6. ASSUME NEW s \in Sessions, RecordExecution(s) \/ RecordRollback(s) PROVE KeyInv'
  <2>1. job[s].req \in Requests /\ status[job[s].req] # "absent"
    BY <1>6 DEF TypeOK, RecordExecution, RecordRollback, KeyInv
  <2>5. /\ \A q \in Requests \ {job[s].req} : status'[q] = status[q] /\ execution'[q] = execution[q]
        /\ status'[job[s].req] # "absent"
    <3>1. CASE RecordExecution(s)
      BY <2>1, <3>1 DEF RecordExecution, Record, TypeOK
    <3>2. CASE RecordRollback(s)
      <4>1. PICK e \in Execution, told \in {status[job[s].req], Outcome(s)} :
              /\ execution' = [execution EXCEPT ![job[s].req] = e]
              /\ status' = [status EXCEPT ![job[s].req] = told]
        BY <3>2, RollbackRecords, RollbackTells
      <4>2. Outcome(s) # "absent"
        BY DEF Outcome
      <4> QED BY <2>1, <4>1, <4>2 DEF TypeOK
    <3> QED BY <1>6, <3>1, <3>2
  <2>2. \A q \in Requests : status'[q] # "absent" <=> status[q] # "absent"
    BY <2>1, <2>5
  <2>3. \A q \in Requests : execution'[q].status # "none" =>
            execution[q].status # "none" \/ status[q] # "absent"
    BY <2>1, <2>5
  <2>4. Goto(s, "idle", NoJob) /\ "idle" \in Steps
    BY <1>6 DEF RecordExecution, RecordRollback, Return, Steps
  <2> QED BY <2>2, <2>3, <2>4, KeyGoto, KeyFrame
<1>7. ASSUME NEW s \in Sessions, AuditAppend(s) PROVE KeyInv'
  <2>1. /\ job[s].req \in Requests /\ status[job[s].req] # "absent" /\ job[s] \in Job
        /\ job[s].act \in Acts
    BY <1>7 DEF TypeOK, AuditAppend, KeyInv
  <2> DEFINE e == [job[s] EXCEPT !.hash = Len(audit) + 1]
  <2>2. e.req = job[s].req
    BY <2>1 DEF Job
  <2>3. PICK step, j : step \in Steps /\ Goto(s, step, j) /\ (step = "idle" \/ j.req = job[s].req)
    <3>1. Goto(s, "record", e) \/ Goto(s, "undo_request", e) \/ Goto(s, "idle", NoJob)
      BY <1>7, <2>1 DEF AuditAppend, AfterAudit, Return, Acts
    <3> HIDE DEF e
    <3> QED BY <2>2, <3>1 DEF Steps
  <2>4. UNCHANGED <<status, execution>>
    BY <1>7 DEF AuditAppend
  <2> QED BY <2>1, <2>3, <2>4, KeyGoto, KeyFrame
<1>11. ASSUME NEW s \in Sessions, Loading(s) PROVE KeyInv'
  <2>1. PICK step \in {"undo_evidence", "record_undo"}, j \in Job :
          Goto(s, step, j) /\ j.req = job[s].req
    BY <1>11, LoadMoves
  <2>2. /\ UNCHANGED <<status, execution>> /\ job[s].req \in Requests
        /\ pc[s] \in {"undo_request", "undo_evidence"}
    BY <1>11, LoadMoves
  <2>3. status[job[s].req] # "absent"
    BY <2>2 DEF KeyInv
  <2> QED BY <2>1, <2>2, <2>3, KeyGoto, KeyFrame DEF Steps
<1>8. ASSUME NEW s \in Sessions, Fail(s) PROVE KeyInv'
  BY <1>8, KeyReturn DEF Fail
<1>9. CASE Restart
  BY <1>9, KeyFrame DEF Restart
<1>10. CASE UNCHANGED vars
  BY <1>10 DEF vars, KeyInv, OneRequestPerKey
<1> QED
  BY <1>1, <1>2, <1>3, <1>4, <1>5, <1>6, <1>7, <1>8, <1>9, <1>10, <1>11 DEF Next, Step, Loading

(***************************************************************************)
(* However many calls race with one idempotency key, one request is made.  *)
(***************************************************************************)
THEOREM RequestPerKey == Spec => []OneRequestPerKey
<1>1. KeyInv => OneRequestPerKey
  BY DEF KeyInv
<1> QED
  BY <1>1, InitKey, StepKey, TypeCorrect, PTL DEF Spec
----------------------------------------------------------------------------
(***************************************************************************)
(* What rollbacks of one request can do to one another.  A rollback begins *)
(* only on a verified execution, and the first that is recorded ends that: *)
(* a second that is still under way was begun before, and so was a third.  *)
(* So of two, the later one to commit loaded the row either before the     *)
(* other wrote it, and writes its own outcome, or after, and leaves out a  *)
(* status nobody else will change.                                         *)
(***************************************************************************)
Undoing(s) ==
    \/ pc[s] \in {"undo", "undo_request", "undo_evidence", "record_undo"}
    \/ InAudit(s) /\ job[s].act = "rolled_back"

Together(s, t) == Undoing(s) /\ Undoing(t) /\ job[s].req = job[t].req /\ s # t

Recorded(s) == execution[job[s].req].status # "verified"

UndoInv ==
    /\ \A r \in Requests : execution[r].status = "none" => rollbacks[r] = 0
    /\ \A s \in Sessions : Undoing(s) => rollbacks[job[s].req] > 0
    /\ \A s \in Sessions : Undoing(s) /\ Recorded(s) => rollbacks[job[s].req] > 1
    /\ \A s, t \in Sessions : Together(s, t) => rollbacks[job[s].req] > 1
    /\ \A s, t \in Sessions : Together(s, t) /\ Recorded(s) => rollbacks[job[s].req] > 2
    /\ \A s, t, u \in Sessions :
         Together(s, t) /\ Together(s, u) /\ t # u => rollbacks[job[s].req] > 2
    /\ \A s \in Sessions : pc[s] = "undo_evidence" => "execution" \notin job[s].omits
    /\ \A s \in Sessions :
         pc[s] = "record_undo" /\ "execution" \in job[s].omits /\ rollbacks[job[s].req] <= 2 =>
             execution[job[s].req].status = Outcome(s)

LEMMA InitUndo == Init => UndoInv
  BY DEF Init, UndoInv, Undoing, Together, InAudit

LEMMA UndoingType ==
    ASSUME TypeOK, NEW s \in Sessions, Undoing(s)
    PROVE  job[s].req \in Requests /\ rollbacks[job[s].req] \in Nat
  BY DEF TypeOK, Undoing, InAudit

(* A step that begins no rollback and changes no outcome.                  *)
LEMMA UndoFrame ==
    ASSUME TypeOK, UndoInv, NEW s \in Sessions, UNCHANGED rollbacks,
           \A r \in Requests : execution'[r].status = execution[r].status,
           \A t \in Sessions \ {s} : pc'[t] = pc[t] /\ job'[t] = job[t],
           Undoing(s)' => Undoing(s) /\ job'[s].req = job[s].req,
           pc'[s] = "undo_evidence" => "execution" \notin job'[s].omits,
           pc'[s] = "record_undo" /\ "execution" \in job'[s].omits =>
               execution[job[s].req].status = Outcome(s)'
    PROVE  UndoInv'
<1>1. \A t \in Sessions : Undoing(t)' => /\ Undoing(t) /\ job'[t].req = job[t].req
                                         /\ job[t].req \in Requests
  BY UndoingType DEF Undoing, InAudit
<1>2. \A t, u \in Sessions : Together(t, u)' => Together(t, u)
  BY <1>1 DEF Together
<1>3. \A t \in Sessions : Undoing(t)' /\ Recorded(t)' => Recorded(t)
  BY <1>1 DEF Recorded
<1>4. \A r \in Requests : execution'[r].status = "none" => rollbacks'[r] = 0
  BY DEF UndoInv
<1>5. \A t \in Sessions : Undoing(t)' => rollbacks'[job'[t].req] > 0
  BY <1>1 DEF UndoInv
<1>6. \A t \in Sessions : Undoing(t)' /\ Recorded(t)' => rollbacks'[job'[t].req] > 1
  BY <1>1, <1>3 DEF UndoInv
<1>7. \A t, u \in Sessions : Together(t, u)' => rollbacks'[job'[t].req] > 1
  BY <1>1, <1>2 DEF UndoInv, Together
<1>8. \A t, u \in Sessions : Together(t, u)' /\ Recorded(t)' => rollbacks'[job'[t].req] > 2
  BY <1>1, <1>2, <1>3 DEF UndoInv, Together
<1>9. \A t, u, v \in Sessions :
        Together(t, u)' /\ Together(t, v)' /\ u # v => rollbacks'[job'[t].req] > 2
  BY <1>1, <1>2 DEF UndoInv, Together
<1>10. \A t \in Sessions : pc'[t] = "undo_evidence" => "execution" \notin job'[t].omits
  BY DEF UndoInv
<1>11. ASSUME NEW t \in Sessions, pc'[t] = "record_undo", "execution" \in job'[t].omits,
              rollbacks'[job'[t].req] <= 2
       PROVE  execution'[job'[t].req].status = Outcome(t)'
  <2>1. job'[t].req = job[t].req /\ job[t].req \in Requests
    BY <1>1, <1>11 DEF Undoing
  <2> QED BY <1>11, <2>1 DEF UndoInv, Outcome
<1> QED
  BY <1>4, <1>5, <1>6, <1>7, <1>8, <1>9, <1>10, <1>11 DEF UndoInv

(* A step of an operation that is not rolling back, and will not be.       *)
LEMMA UndoApart ==
    ASSUME TypeOK, UndoInv, NEW s \in Sessions, NEW step, NEW j, Goto(s, step, j),
           UNCHANGED <<execution, rollbacks>>,
           step \notin {"undo", "undo_request", "undo_evidence", "record_undo"},
           step \in {"audit_read", "audit_append"} /\ j.act = "rolled_back" =>
               Undoing(s) /\ j.req = job[s].req
    PROVE  UndoInv'
<1>1. pc'[s] = step /\ job'[s] = j /\ \A t \in Sessions \ {s} : pc'[t] = pc[t] /\ job'[t] = job[t]
  BY DEF Goto, TypeOK
<1> QED
  BY <1>1, UndoFrame DEF Undoing, InAudit

LEMMA UndoBegins ==
    ASSUME TypeOK, UndoInv, NEW s \in Sessions, NEW r \in Requests, RollbackRead(s, r)
    PROVE  UndoInv'
<1> DEFINE j == [NoJob EXCEPT !.req = r]
<1>1. j.req = r /\ "execution" \notin j.omits
  BY DEF NoJob
<1>2. /\ Goto(s, "undo", j) /\ pc[s] = "idle" /\ execution[r].status = "verified"
      /\ rollbacks' = [rollbacks EXCEPT ![r] = @ + 1] /\ execution' = execution
  BY DEF RollbackRead, Start, rows
<1> HIDE DEF j
<1>3. pc'[s] = "undo" /\ job'[s] = j /\ \A t \in Sessions \ {s} : pc'[t] = pc[t] /\ job'[t] = job[t]
  BY <1>2 DEF Goto, TypeOK
<1>4. /\ rollbacks'[r] = rollbacks[r] + 1 /\ \A q \in Requests \ {r} : rollbacks'[q] = rollbacks[q]
      /\ \A q \in Requests : rollbacks[q] \in Nat
  BY <1>2 DEF TypeOK
<1>5. \A t \in Sessions : Undoing(t)' /\ t # s => Undoing(t) /\ job[t].req \in Requests
  BY <1>3, UndoingType DEF Undoing, InAudit
<1>6. \A t, u \in Sessions : Together(t, u)' /\ t # s /\ u # s => Together(t, u)
  BY <1>3, <1>5 DEF Together
<1>7. \A q \in Requests : execution'[q].status = "none" => rollbacks'[q] = 0
  BY <1>2, <1>4 DEF UndoInv
<1>8. \A t \in Sessions : Undoing(t)' => rollbacks'[job'[t].req] > 0
  BY <1>1, <1>3, <1>4, <1>5 DEF UndoInv
<1>9. \A t \in Sessions : Undoing(t)' /\ Recorded(t)' => rollbacks'[job'[t].req] > 1
  BY <1>1, <1>2, <1>3, <1>4, <1>5 DEF UndoInv, Recorded
<1>10. ASSUME NEW t \in Sessions, NEW u \in Sessions, Together(t, u)'
       PROVE  rollbacks'[job'[t].req] > 1 /\ (Recorded(t)' => rollbacks'[job'[t].req] > 2)
  <2>1. CASE t # s /\ u # s
    <3>1. Together(t, u) /\ job'[t] = job[t] /\ job[t].req \in Requests
      BY <1>3, <1>5, <1>6, <1>10, <2>1 DEF Together
    <3>2. rollbacks[job[t].req] > 1 /\ (Recorded(t) => rollbacks[job[t].req] > 2)
      BY <3>1 DEF UndoInv
    <3>3. Recorded(t)' => Recorded(t)
      BY <1>2, <3>1 DEF Recorded
    <3> QED BY <1>4, <3>1, <3>2, <3>3
  <2>2. CASE t = s \/ u = s
    <3>1. PICK v \in Sessions \ {s} : Undoing(v)' /\ job'[v].req = r /\ job'[t].req = r
      BY <1>1, <1>3, <1>10, <2>2 DEF Together
    <3>2. rollbacks[r] > 0
      BY <1>3, <1>5, <3>1 DEF UndoInv
    <3> QED BY <1>2, <1>4, <3>1, <3>2 DEF Recorded
  <2> QED BY <2>1, <2>2
<1>11. ASSUME NEW t \in Sessions, NEW u \in Sessions, NEW v \in Sessions,
              Together(t, u)', Together(t, v)', u # v
       PROVE  rollbacks'[job'[t].req] > 2
  <2>1. CASE t # s /\ u # s /\ v # s
    <3>1. Together(t, u) /\ Together(t, v) /\ job'[t] = job[t] /\ job[t].req \in Requests
      BY <1>3, <1>5, <1>6, <1>11, <2>1 DEF Together
    <3>2. rollbacks[job[t].req] > 2
      BY <1>11, <3>1 DEF UndoInv
    <3> QED BY <1>4, <3>1, <3>2
  <2>2. CASE t = s \/ u = s \/ v = s
    <3>1. PICK x \in Sessions, y \in Sessions : /\ Together(x, y)' /\ x # s /\ y # s
                                                /\ job'[x].req = r /\ job'[t].req = r
      BY <1>1, <1>3, <1>11, <2>2 DEF Together
    <3>2. Together(x, y) /\ job[x].req = r
      BY <1>3, <1>6, <3>1
    <3>3. rollbacks[r] > 1
      BY <3>2 DEF UndoInv
    <3> QED BY <1>4, <3>1, <3>3
  <2> QED BY <2>1, <2>2
<1>12. \A t \in Sessions : pc'[t] = "undo_evidence" => "execution" \notin job'[t].omits
  BY <1>3 DEF UndoInv
<1>13. ASSUME NEW t \in Sessions, pc'[t] = "record_undo", "execution" \in job'[t].omits,
              rollbacks'[job'[t].req] <= 2
       PROVE  execution'[job'[t].req].status = Outcome(t)'
  <2>1. t # s /\ pc'[t] = pc[t] /\ job'[t] = job[t] /\ job[t].req \in Requests
    BY <1>3, <1>5, <1>13 DEF Undoing
  <2>2. rollbacks[job[t].req] <= 2
    BY <1>4, <1>13, <2>1
  <2> QED BY <1>2, <1>13, <2>1, <2>2 DEF UndoInv, Outcome
<1> QED
  BY <1>7, <1>8, <1>9, <1>10, <1>11, <1>12, <1>13 DEF UndoInv

LEMMA UndoEnds ==
    ASSUME TypeOK, UndoInv, NEW s \in Sessions, RecordRollback(s)
    PROVE  UndoInv'
<1> DEFINE r == job[s].req
<1>1. /\ r \in Requests /\ r = job[s].req /\ pc[s] = "record_undo" /\ Return(s) /\ UNCHANGED rollbacks
      /\ Outcome(s) \in {"rolled_back", "failed"}
  BY RollbackWrites
<1>2. PICK e \in Execution :
        /\ execution' = [execution EXCEPT ![r] = e]
        /\ e.status \in {execution[r].status, Outcome(s)}
        /\ e.status = execution[r].status =>
               "execution" \in job[s].omits \/ execution[r].status = Outcome(s)
  BY RollbackRecords
<1> HIDE DEF r
<1>3. pc'[s] = "idle" /\ \A t \in Sessions \ {s} : pc'[t] = pc[t] /\ job'[t] = job[t]
  BY <1>1 DEF Return, Goto, TypeOK
<1>4. execution'[r] = e /\ \A q \in Requests \ {r} : execution'[q] = execution[q]
  BY <1>1, <1>2 DEF TypeOK
<1>5. /\ Undoing(s) /\ execution[r].status # "none" /\ rollbacks[r] \in Nat
      /\ e.status # "none"
  <2>1. Undoing(s)
    BY <1>1 DEF Undoing
  <2>2. rollbacks[r] > 0 /\ rollbacks[r] \in Nat
    BY <1>1, <2>1, UndoingType DEF UndoInv
  <2>3. execution[r].status # "none"
    BY <1>1, <2>2 DEF UndoInv
  <2> QED BY <1>1, <1>2, <2>1, <2>2, <2>3
<1>6. \A t \in Sessions : Undoing(t)' => t # s /\ Undoing(t) /\ job'[t] = job[t] /\ job[t].req \in Requests
  BY <1>3, UndoingType DEF Undoing, InAudit
<1>7. \A t \in Sessions : Undoing(t)' /\ job[t].req = r => Together(s, t)
  BY <1>1, <1>5, <1>6 DEF Together
<1>8. \A t, u \in Sessions : Together(t, u)' => Together(t, u)
  BY <1>6 DEF Together
<1>9. \A q \in Requests : execution'[q].status = "none" => rollbacks'[q] = 0
  BY <1>1, <1>4, <1>5 DEF UndoInv
<1>10. \A t \in Sessions : Undoing(t)' => rollbacks'[job'[t].req] > 0
  BY <1>1, <1>6 DEF UndoInv
<1>11. \A t \in Sessions : Undoing(t)' /\ Recorded(t)' => rollbacks'[job'[t].req] > 1
  <2>1. ASSUME NEW t \in Sessions, Undoing(t)', Recorded(t)' PROVE rollbacks'[job'[t].req] > 1
    <3>1. CASE job[t].req = r
      BY <1>1, <1>6, <1>7, <2>1, <3>1 DEF UndoInv
    <3>2. CASE job[t].req # r
      BY <1>1, <1>4, <1>6, <2>1, <3>2 DEF UndoInv, Recorded
    <3> QED BY <3>1, <3>2
  <2> QED BY <2>1
<1>12. \A t, u \in Sessions : Together(t, u)' => rollbacks'[job'[t].req] > 1
  BY <1>1, <1>6, <1>8 DEF UndoInv, Together
<1>13. \A t, u \in Sessions : Together(t, u)' /\ Recorded(t)' => rollbacks'[job'[t].req] > 2
  <2>1. ASSUME NEW t \in Sessions, NEW u \in Sessions, Together(t, u)', Recorded(t)'
        PROVE  rollbacks'[job'[t].req] > 2
    <3>1. /\ Undoing(t)' /\ Undoing(u)' /\ t # u /\ job[t].req = job[u].req /\ job'[t] = job[t]
          /\ job[t].req \in Requests
      BY <1>6, <2>1 DEF Together
    <3>2. CASE job[t].req = r
      <4>1. Together(s, t) /\ Together(s, u) /\ t # u
        BY <1>7, <3>1, <3>2
      <4>2. rollbacks[job[s].req] > 2
        BY <4>1 DEF UndoInv
      <4> QED BY <1>1, <3>1, <3>2, <4>2
    <3>3. CASE job[t].req # r
      <4>1. Recorded(t)
        BY <1>4, <2>1, <3>1, <3>3 DEF Recorded
      <4>2. rollbacks[job[t].req] > 2
        BY <1>8, <2>1, <4>1 DEF UndoInv
      <4> QED BY <1>1, <3>1, <4>2
    <3> QED BY <3>2, <3>3
  <2> QED BY <2>1
<1>14. \A t, u, v \in Sessions :
         Together(t, u)' /\ Together(t, v)' /\ u # v => rollbacks'[job'[t].req] > 2
  BY <1>1, <1>6, <1>8 DEF UndoInv, Together
<1>15. \A t \in Sessions : pc'[t] = "undo_evidence" => "execution" \notin job'[t].omits
  BY <1>3 DEF UndoInv
<1>16. ASSUME NEW t \in Sessions, pc'[t] = "record_undo", "execution" \in job'[t].omits,
              rollbacks'[job'[t].req] <= 2
       PROVE  execution'[job'[t].req].status = Outcome(t)'
  <2>1. /\ t # s /\ pc'[t] = pc[t] /\ job'[t] = job[t] /\ job[t].req \in Requests /\ Undoing(t)'
        /\ Outcome(t)' = Outcome(t) /\ rollbacks[job[t].req] \in Nat
    BY <1>1, <1>3, <1>6, <1>16, UndoingType DEF Undoing, Outcome
  <2>2. execution[job[t].req].status = Outcome(t)
    BY <1>1, <1>16, <2>1 DEF UndoInv
  <2>3. job[t].req # r
    <3> SUFFICES ASSUME job[t].req = r PROVE FALSE
      OBVIOUS
    <3>1. Together(s, t) /\ Recorded(s)
      BY <1>1, <1>7, <2>1, <2>2 DEF Recorded, Outcome
    <3>2. rollbacks[r] > 2
      BY <1>1, <3>1 DEF UndoInv
    <3> QED BY <1>1, <1>5, <1>16, <2>1, <3>2
  <2> QED BY <1>4, <2>1, <2>2, <2>3
<1> QED
  BY <1>9, <1>10, <1>11, <1>12, <1>13, <1>14, <1>15, <1>16 DEF UndoInv

LEMMA StepUndo == TypeOK /\ UndoInv /\ [Next]_vars => UndoInv'
<1> SUFFICES ASSUME TypeOK, UndoInv, [Next]_vars PROVE UndoInv'
  OBVIOUS
<1> USE DEF rows
<1>1. ASSUME NEW s \in Sessions, NEW r \in Requests, Call(s, r), ~RollbackRead(s, r) PROVE UndoInv'
  <2>1. PICK step \in {"insert", "decide", "claim"} : Start(s, step, r) /\ UNCHANGED <<execution, rollbacks>>
    BY <1>1 DEF Call, RequestRead, DecisionRead, ExecuteRead
  <2> QED BY <2>1, UndoApart DEF Start
<1>2. ASSUME NEW s \in Sessions,
             InsertRequest(s) \/ DecisionCommit(s) \/ ClaimExecution(s) \/ AdapterExecute(s)
      PROVE  UndoInv'
  <2>1. UNCHANGED <<execution, rollbacks>> /\ job[s] \in Job
    BY <1>2 DEF InsertRequest, DecisionCommit, Decide, ClaimExecution, AdapterExecute, TypeOK
  <2>2. \/ Return(s)
        \/ \E act \in Acts \ {"rolled_back"}, ok \in BOOLEAN, b \in BOOLEAN :
             Goto(s, "audit_read", [job[s] EXCEPT !.act = act, !.ok = ok, !.reversible = b])
        \/ \E act \in Acts \ {"rolled_back"} : Goto(s, "audit_read", [job[s] EXCEPT !.act = act])
        \/ Goto(s, "execute", job[s])
    BY <1>2 DEF InsertRequest, DecisionCommit, Decide, ClaimExecution, AdapterExecute, Acts
  <2>3. PICK step, j : /\ Goto(s, step, j) /\ step \in {"idle", "audit_read", "execute"}
                       /\ step = "audit_read" => j.act # "rolled_back"
    <3>1. CASE \E act \in Acts \ {"rolled_back"}, ok \in BOOLEAN, b \in BOOLEAN :
                 Goto(s, "audit_read", [job[s] EXCEPT !.act = act, !.ok = ok, !.reversible = b])
      <4>1. PICK act \in Acts \ {"rolled_back"}, ok \in BOOLEAN, b \in BOOLEAN :
              Goto(s, "audit_read", [job[s] EXCEPT !.act = act, !.ok = ok, !.reversible = b])
        BY <3>1
      <4>2. [job[s] EXCEPT !.act = act, !.ok = ok, !.reversible = b].act = act
        BY <2>1 DEF Job
      <4> QED BY <4>1, <4>2
    <3>2. CASE \E act \in Acts \ {"rolled_back"} : Goto(s, "audit_read", [job[s] EXCEPT !.act = act])
      <4>1. PICK act \in Acts \ {"rolled_back"} : Goto(s, "audit_read", [job[s] EXCEPT !.act = act])
        BY <3>2
      <4>2. [job[s] EXCEPT !.act = act].act = act
        BY <2>1 DEF Job
      <4> QED BY <4>1, <4>2
    <3>3. CASE Return(s)
      BY <3>3 DEF Return
    <3>4. CASE Goto(s, "execute", job[s])
      BY <3>4
    <3> QED BY <2>2, <3>1, <3>2, <3>3, <3>4
  <2> QED BY <2>1, <2>3, UndoApart
<1>3. ASSUME NEW s \in Sessions, RecordExecution(s) PROVE UndoInv'
  <2> DEFINE r == job[s].req
  <2>1. /\ r \in Requests /\ r = job[s].req /\ UNCHANGED rollbacks /\ pc'[s] = "idle"
        /\ \A t \in Sessions \ {s} : pc'[t] = pc[t] /\ job'[t] = job[t]
    BY <1>3 DEF RecordExecution, Return, Goto, TypeOK
  <2>2. CASE execution[r].status # "none"
    <3>1. execution' = execution
      BY <1>3, <2>2 DEF RecordExecution
    <3> QED BY <2>1, <3>1, UndoFrame DEF Undoing, InAudit
  <2>3. CASE execution[r].status = "none"
    <3>1. rollbacks[r] = 0 /\ \A t \in Sessions : Undoing(t) => job[t].req # r
      BY <2>1, <2>3 DEF UndoInv
    <3>2. \A q \in Requests \ {r} : execution'[q] = execution[q]
      BY <1>3, <2>1 DEF RecordExecution, Record, TypeOK
    <3>3. \A t \in Sessions : Undoing(t)' => /\ Undoing(t) /\ job'[t] = job[t] /\ job[t].req \in Requests
                                             /\ execution'[job[t].req] = execution[job[t].req]
      BY <2>1, <3>1, <3>2, UndoingType DEF Undoing, InAudit
    <3>4. \A q \in Requests : execution'[q].status = "none" => rollbacks'[q] = 0
      BY <2>1, <3>1, <3>2 DEF UndoInv
    <3>5. /\ \A t \in Sessions : Undoing(t)' => rollbacks'[job'[t].req] > 0
          /\ \A t \in Sessions : Undoing(t)' /\ Recorded(t)' => rollbacks'[job'[t].req] > 1
      BY <2>1, <3>3 DEF UndoInv, Recorded
    <3>6. \A t, u \in Sessions : Together(t, u)' => Together(t, u) /\ (Recorded(t)' => Recorded(t))
      BY <3>3 DEF Together, Recorded
    <3>7. /\ \A t, u \in Sessions : Together(t, u)' => rollbacks'[job'[t].req] > 1
          /\ \A t, u \in Sessions : Together(t, u)' /\ Recorded(t)' => rollbacks'[job'[t].req] > 2
      BY <2>1, <3>3, <3>6 DEF UndoInv, Together
    <3>8. \A t, u, v \in Sessions :
            Together(t, u)' /\ Together(t, v)' /\ u # v => rollbacks'[job'[t].req] > 2
      BY <2>1, <3>3, <3>6 DEF UndoInv, Together
    <3>9. \A t \in Sessions : pc'[t] = "undo_evidence" => "execution" \notin job'[t].omits
      BY <2>1 DEF UndoInv
    <3>10. ASSUME NEW t \in Sessions, pc'[t] = "record_undo", "execution" \in job'[t].omits,
                  rollbacks'[job'[t].req] <= 2
           PROVE  execution'[job'[t].req].status = Outcome(t)'
      <4>1. pc'[t] = pc[t] /\ job'[t] = job[t] /\ execution'[job[t].req] = execution[job[t].req]
        BY <2>1, <3>3, <3>10 DEF Undoing
      <4> QED BY <2>1, <3>10, <4>1 DEF UndoInv, Outcome
    <3> QED BY <3>4, <3>5, <3>7, <3>8, <3>9, <3>10 DEF UndoInv
  <2> QED BY <2>2, <2>3
<1>4. ASSUME NEW s \in Sessions, AdapterRollback(s) \/ AuditRead(s) PROVE UndoInv'
  <2>1. UNCHANGED <<execution, rollbacks>> /\ job[s] \in Job
    BY <1>4 DEF AdapterRollback, AuditRead, TypeOK
  <2>2. CASE AdapterRollback(s)
    <3>1. PICK ok \in BOOLEAN : Goto(s, "audit_read", [job[s] EXCEPT !.act = "rolled_back", !.ok = ok])
      BY <2>2 DEF AdapterRollback
    <3> DEFINE j == [job[s] EXCEPT !.act = "rolled_back", !.ok = ok]
    <3>2. j.req = job[s].req /\ Undoing(s)
      <4>1. j.req = job[s].req
        BY <2>1 DEF Job
      <4> QED BY <2>2, <4>1 DEF AdapterRollback, Undoing
    <3>3. Goto(s, "audit_read", j)
      BY <3>1
    <3> HIDE DEF j
    <3> QED BY <2>1, <3>2, <3>3, UndoApart
  <2>3. CASE AuditRead(s)
    <3> DEFINE j == [job[s] EXCEPT !.head = Len(audit)]
    <3>1. j.req = job[s].req /\ j.act = job[s].act
      BY <2>1 DEF Job
    <3>2. Goto(s, "audit_append", j) /\ pc[s] = "audit_read"
      BY <2>3 DEF AuditRead
    <3> HIDE DEF j
    <3> QED BY <2>1, <3>1, <3>2, UndoApart DEF Undoing, InAudit
  <2> QED BY <1>4, <2>2, <2>3
<1>5. ASSUME NEW s \in Sessions, AuditAppend(s) PROVE UndoInv'
  <2> DEFINE j == [job[s] EXCEPT !.hash = Len(audit) + 1]
  <2>1. UNCHANGED <<execution, rollbacks>> /\ pc[s] = "audit_append" /\ j.req = job[s].req
    BY <1>5 DEF AuditAppend, TypeOK, Job
  <2>2. \/ Goto(s, "record", j) \/ Goto(s, "idle", NoJob)
        \/ job[s].act = "rolled_back" /\ Goto(s, "undo_request", j)
    BY <1>5 DEF AuditAppend, AfterAudit, Return
  <2> HIDE DEF j
  <2>3. CASE job[s].act = "rolled_back" /\ Goto(s, "undo_request", j)
    <3>1. pc'[s] = "undo_request" /\ job'[s] = j /\ \A t \in Sessions \ {s} : pc'[t] = pc[t] /\ job'[t] = job[t]
      BY <2>3 DEF Goto, TypeOK
    <3> QED BY <2>1, <2>3, <3>1, UndoFrame DEF Undoing, InAudit
  <2> QED BY <2>1, <2>2, <2>3, UndoApart
<1>6. ASSUME NEW s \in Sessions, Loading(s) PROVE UndoInv'
  <2>1. /\ UNCHANGED <<execution, rollbacks>> /\ pc[s] \in {"undo_request", "undo_evidence"}
        /\ \A t \in Sessions \ {s} : pc'[t] = pc[t] /\ job'[t] = job[t]
        /\ job'[s].req = job[s].req /\ job'[s].ok = job[s].ok
    <3>1. PICK step \in {"undo_evidence", "record_undo"}, j \in Job :
            Goto(s, step, j) /\ j.req = job[s].req /\ j.ok = job[s].ok
      BY <1>6, LoadMoves
    <3>2. UNCHANGED <<execution, rollbacks>> /\ pc[s] \in {"undo_request", "undo_evidence"}
      BY <1>6, LoadMoves
    <3> QED BY <3>1, <3>2 DEF Goto, TypeOK
  <2>2. CASE RollbackLoadRequest(s)
    <3> DEFINE o == IF status[job[s].req] = Outcome(s) THEN {"request"} ELSE {}
               j == [job[s] EXCEPT !.omits = o]
    <3>1. Goto(s, "undo_evidence", j) /\ "execution" \notin o
      BY <2>2 DEF RollbackLoadRequest
    <3>2. j.omits = o
      BY DEF TypeOK, Job
    <3> HIDE DEF o, j
    <3>3. pc'[s] = "undo_evidence" /\ job'[s].omits = o
      BY <3>1, <3>2 DEF Goto, TypeOK
    <3> QED BY <2>1, <3>1, <3>3, UndoFrame DEF Undoing
  <2>3. CASE RollbackLoadExecution(s)
    <3> DEFINE more == IF execution[job[s].req].status = Outcome(s) THEN {"execution"} ELSE {}
               j == [job[s] EXCEPT !.omits = @ \cup more]
    <3>1. Goto(s, "record_undo", j) /\ "execution" \notin job[s].omits
      BY <2>3 DEF RollbackLoadExecution, UndoInv
    <3>2. j.omits = job[s].omits \cup more
      BY DEF TypeOK, Job
    <3> HIDE DEF j
    <3>3. pc'[s] = "record_undo" /\ job'[s].omits = job[s].omits \cup more
      BY <3>1, <3>2 DEF Goto, TypeOK
    <3>4. "execution" \in job'[s].omits => execution[job[s].req].status = Outcome(s)
      BY <3>1, <3>3
    <3> QED BY <2>1, <3>3, <3>4, UndoFrame DEF Undoing, Outcome
  <2> QED BY <1>6, <2>2, <2>3 DEF Loading
<1>7. ASSUME NEW s \in Sessions, Fail(s) PROVE UndoInv'
  BY <1>7, UndoApart DEF Fail, Return
<1>8. CASE Restart
  BY <1>8 DEF Restart, UndoInv, Undoing, Together, InAudit
<1>9. CASE UNCHANGED vars
  BY <1>9 DEF vars, UndoInv, Undoing, Together, Recorded, InAudit, Outcome
<1> QED
  BY <1>1, <1>2, <1>3, <1>4, <1>5, <1>6, <1>7, <1>8, <1>9, UndoBegins, UndoEnds
  DEF Next, Step, Call, Loading
-----------------------------------------------------------------------------
(***************************************************************************)
(* Why evidence is audited.  Between the audit append and the evidence row *)
(* the operation carries the position of its record: it must still be      *)
(* there, unchanged, when the row is written.  The chain only grows, and a *)
(* process that passed the signing check keeps its environment.            *)
(***************************************************************************)
Carries(s, act) ==
    /\ job[s].hash \in DOMAIN audit
    /\ audit[job[s].hash].req = job[s].req
    /\ audit[job[s].hash].act = act
    /\ audit[job[s].hash].ok = job[s].ok
    /\ audit[job[s].hash].signed

WritingUndo(s) == pc[s] \in {"undo_request", "undo_evidence", "record_undo"}

EvidenceInv ==
    /\ EvidenceIsAudited
    /\ \A s \in Sessions : Enforcing(s) => signing
    /\ \A s \in Sessions : pc[s] = "record" => Carries(s, "executed")
    /\ \A s \in Sessions : WritingUndo(s) => Carries(s, "rolled_back")

LEMMA InitEvidence == Init => EvidenceInv
  BY DEF Init, EvidenceInv, EvidenceIsAudited, Enforcing, WritingUndo, InAudit, NoExecution

(***************************************************************************)
(* A step that leaves the evidence rows, the chain and the signing key     *)
(* alone keeps the invariant if it keeps it for the session that moves.    *)
(***************************************************************************)
LEMMA EvidenceFrame ==
    ASSUME TypeOK, EvidenceInv, NEW s \in Sessions, NEW step \in Steps, NEW j \in Job,
           Goto(s, step, j), UNCHANGED <<execution, audit, signing>>,
           \A r \in Requests : rollbacks'[r] <= 2 => rollbacks[r] <= 2,
           step \notin {"record", "undo_request", "undo_evidence", "record_undo"},
           step \in {"claim", "execute", "undo"} => signing,
           step \in {"audit_read", "audit_append"} /\ j.act \in {"executed", "rolled_back"} => signing
    PROVE  EvidenceInv'
<1>1. \A t \in Sessions : t # s => pc'[t] = pc[t] /\ job'[t] = job[t]
  BY DEF Goto, TypeOK
<1>2. pc'[s] = step /\ job'[s] = j
  BY DEF Goto, TypeOK
<1>3. EvidenceIsAudited'
  BY DEF EvidenceInv, EvidenceIsAudited, Supports, Tells
<1>4. \A t \in Sessions : Enforcing(t)' => signing'
  BY <1>1, <1>2 DEF EvidenceInv, Enforcing, InAudit
<1>5. \A t \in Sessions : pc'[t] = "record" => Carries(t, "executed")'
  BY <1>1, <1>2 DEF EvidenceInv, Carries
<1>6. \A t \in Sessions : WritingUndo(t)' => Carries(t, "rolled_back")'
  BY <1>1, <1>2 DEF EvidenceInv, WritingUndo, Carries
<1> QED
  BY <1>3, <1>4, <1>5, <1>6 DEF EvidenceInv

(***************************************************************************)
(* A step that writes the evidence row of the operation that takes it.     *)
(***************************************************************************)
LEMMA EvidenceWritten ==
    ASSUME TypeOK, EvidenceInv, NEW s \in Sessions, NEW e \in Execution, Return(s),
           UNCHANGED <<audit, signing, rollbacks>>, job[s].req \in Requests,
           execution' = [execution EXCEPT ![job[s].req] = e],
           e.hash \in DOMAIN audit, Supports(audit[e.hash], job[s].req),
           \/ e.status \in Tells(audit[e.hash])
           \/ rollbacks[job[s].req] > 2 /\ e.status = execution[job[s].req].status
    PROVE  EvidenceInv'
<1>1. ASSUME NEW r \in Requests, execution'[r].status # "none"
      PROVE  /\ execution'[r].hash \in DOMAIN audit
             /\ Supports(audit[execution'[r].hash], r)
             /\ \E i \in DOMAIN audit :
                  Supports(audit[i], r) /\ execution'[r].status \in Tells(audit[i])
             /\ rollbacks[r] <= 2 => execution'[r].status \in Tells(audit[execution'[r].hash])
  <2>1. CASE r # job[s].req
    <3>1. execution'[r] = execution[r]
      BY <2>1 DEF TypeOK
    <3> QED BY <1>1, <3>1 DEF EvidenceInv, EvidenceIsAudited
  <2>2. CASE r = job[s].req
    <3>1. execution'[r] = e /\ rollbacks[r] \in Nat
      BY <2>2 DEF TypeOK
    <3>2. CASE e.status \in Tells(audit[e.hash])
      BY <2>2, <3>1, <3>2
    <3>3. CASE rollbacks[r] > 2 /\ e.status = execution[r].status
      <4>1. \E i \in DOMAIN audit : Supports(audit[i], r) /\ e.status \in Tells(audit[i])
        BY <1>1, <3>1, <3>3 DEF EvidenceInv, EvidenceIsAudited
      <4>2. ~(rollbacks[r] <= 2)
        BY <3>1, <3>3
      <4> QED BY <2>2, <3>1, <4>1, <4>2
    <3> QED BY <2>2, <3>2, <3>3
  <2> QED BY <2>1, <2>2
<1>2. EvidenceIsAudited'
  BY <1>1 DEF EvidenceIsAudited, Supports, Tells
<1>3. pc'[s] = "idle" /\ \A t \in Sessions : t # s => pc'[t] = pc[t] /\ job'[t] = job[t]
  BY DEF Return, Goto, TypeOK
<1>4. /\ \A t \in Sessions : Enforcing(t)' => signing'
      /\ \A t \in Sessions : pc'[t] = "record" => Carries(t, "executed")'
      /\ \A t \in Sessions : WritingUndo(t)' => Carries(t, "rolled_back")'
  BY <1>3 DEF EvidenceInv, Enforcing, InAudit, WritingUndo, Carries
<1> QED
  BY <1>2, <1>4 DEF EvidenceInv

LEMMA StepEvidence == TypeOK /\ UndoInv /\ EvidenceInv /\ [Next]_vars => EvidenceInv'
<1> SUFFICES ASSUME TypeOK, UndoInv, EvidenceInv, [Next]_vars PROVE EvidenceInv'
  OBVIOUS
<1>0. NoJob \in Job /\ \A r \in Requests : [NoJob EXCEPT !.req = r] \in Job
  BY DEF NoJob, Job
<1>1. ASSUME NEW s \in Sessions, NEW r \in Requests, RequestRead(s, r) PROVE EvidenceInv'
  BY <1>0, <1>1, EvidenceFrame DEF RequestRead, Start, Steps, rows
<1>2. ASSUME NEW s \in Sessions, NEW r \in Requests, DecisionRead(s, r) PROVE EvidenceInv'
  BY <1>0, <1>2, EvidenceFrame DEF DecisionRead, Start, Steps, rows
<1>3. ASSUME NEW s \in Sessions, NEW r \in Requests, ExecuteRead(s, r) PROVE EvidenceInv'
  BY <1>0, <1>3, EvidenceFrame DEF ExecuteRead, Start, Steps, rows
<1>4. ASSUME NEW s \in Sessions, NEW r \in Requests, RollbackRead(s, r) PROVE EvidenceInv'
  <2>1. \A q \in Requests : rollbacks'[q] <= 2 => rollbacks[q] <= 2
    BY <1>4 DEF RollbackRead, TypeOK
  <2> QED BY <1>0, <1>4, <2>1, EvidenceFrame DEF RollbackRead, Start, Steps, rows
<1>5. ASSUME NEW s \in Sessions, InsertRequest(s) PROVE EvidenceInv'
  <2> DEFINE j == [job[s] EXCEPT !.act = "requested"]
  <2>1. j \in Job /\ j.act = "requested"
    BY DEF TypeOK, Job, Acts
  <2>2. /\ Goto(s, "idle", NoJob) \/ Goto(s, "audit_read", j)
        /\ UNCHANGED <<execution, audit, signing, rollbacks>>
    BY <1>5 DEF InsertRequest, Return
  <2> HIDE DEF j
  <2> QED BY <1>0, <2>1, <2>2, EvidenceFrame DEF Steps
<1>6. ASSUME NEW s \in Sessions, DecisionCommit(s) PROVE EvidenceInv'
  <2>1. CASE approval[job[s].req] = "none"
    <3>1. PICK d \in {"approved", "rejected"} : Decide(s, d)
      BY <1>6, <2>1 DEF DecisionCommit
    <3> DEFINE j == [job[s] EXCEPT !.act = d]
    <3>2. j \in Job /\ j.act = d
      BY DEF TypeOK, Job, Acts
    <3>3. Goto(s, "audit_read", j) /\ UNCHANGED <<execution, audit, signing, rollbacks>>
      BY <3>1 DEF Decide
    <3> HIDE DEF j
    <3> QED BY <3>2, <3>3, EvidenceFrame DEF Steps
  <2>2. CASE approval[job[s].req] # "none"
    BY <1>0, <1>6, <2>2, EvidenceFrame DEF DecisionCommit, Return, rows, Steps
  <2> QED BY <2>1, <2>2
<1>7. ASSUME NEW s \in Sessions, ClaimExecution(s) PROVE EvidenceInv'
  <2>1. job[s] \in Job /\ signing
    BY <1>7 DEF TypeOK, ClaimExecution, EvidenceInv, Enforcing
  <2> QED BY <1>7, <2>1, EvidenceFrame DEF ClaimExecution, Steps
<1>8. ASSUME NEW s \in Sessions, AdapterExecute(s) PROVE EvidenceInv'
  <2>1. PICK ok \in BOOLEAN, b \in BOOLEAN :
          Goto(s, "audit_read", [job[s] EXCEPT !.act = "executed", !.ok = ok, !.reversible = b])
    BY <1>8 DEF AdapterExecute
  <2> DEFINE j == [job[s] EXCEPT !.act = "executed", !.ok = ok, !.reversible = b]
  <2>2. j \in Job /\ signing
    <3>1. signing
      BY <1>8 DEF AdapterExecute, EvidenceInv, Enforcing
    <3>2. job[s] \in Job
      BY DEF TypeOK
    <3> QED BY <3>1, <3>2 DEF Job, Acts
  <2>3. Goto(s, "audit_read", j) /\ UNCHANGED <<execution, audit, signing, rollbacks>>
    BY <1>8, <2>1 DEF AdapterExecute, rows
  <2> HIDE DEF j
  <2> QED BY <2>2, <2>3, EvidenceFrame DEF Steps
<1>9. ASSUME NEW s \in Sessions, RecordExecution(s) PROVE EvidenceInv'
  <2>1. /\ job[s].req \in Requests /\ job[s] \in Job /\ Carries(s, "executed")
        /\ Return(s) /\ UNCHANGED <<audit, signing, rollbacks>>
    BY <1>9 DEF TypeOK, RecordExecution, EvidenceInv
  <2>2. CASE execution[job[s].req].status # "none"
    <3>1. execution' = execution
      BY <1>9, <2>2 DEF RecordExecution
    <3> QED BY <1>0, <2>1, <3>1, EvidenceFrame DEF Return, Steps
  <2>3. CASE execution[job[s].req].status = "none"
    <3> DEFINE outcome == IF job[s].ok THEN "verified" ELSE "failed"
               e == [status |-> outcome, reversible |-> job[s].reversible, hash |-> job[s].hash]
    <3>1. execution' = [execution EXCEPT ![job[s].req] = e]
      BY <1>9, <2>3 DEF RecordExecution, Record
    <3>2. e \in Execution
      BY <2>1 DEF Job, Execution
    <3>3. /\ e.hash \in DOMAIN audit /\ Supports(audit[e.hash], job[s].req)
          /\ e.status \in Tells(audit[e.hash])
      BY <2>1 DEF Carries, Supports, Tells, Job
    <3> HIDE DEF e, outcome
    <3> QED BY <2>1, <3>1, <3>2, <3>3, EvidenceWritten
  <2> QED BY <2>2, <2>3
<1>10. ASSUME NEW s \in Sessions, AdapterRollback(s) PROVE EvidenceInv'
  <2>1. PICK ok \in BOOLEAN :
          Goto(s, "audit_read", [job[s] EXCEPT !.act = "rolled_back", !.ok = ok])
    BY <1>10 DEF AdapterRollback
  <2> DEFINE j == [job[s] EXCEPT !.act = "rolled_back", !.ok = ok]
  <2>2. j \in Job /\ signing
    <3>1. signing
      BY <1>10 DEF AdapterRollback, EvidenceInv, Enforcing
    <3>2. job[s] \in Job
      BY DEF TypeOK
    <3> QED BY <3>1, <3>2 DEF Job, Acts
  <2>3. Goto(s, "audit_read", j) /\ UNCHANGED <<execution, audit, signing, rollbacks>>
    BY <1>10, <2>1 DEF AdapterRollback, rows
  <2> HIDE DEF j
  <2> QED BY <2>2, <2>3, EvidenceFrame DEF Steps
<1>11. ASSUME NEW s \in Sessions, RecordRollback(s) PROVE EvidenceInv'
  <2> DEFINE r == job[s].req
  <2>1. /\ r \in Requests /\ job[s] \in Job /\ Carries(s, "rolled_back")
        /\ pc[s] = "record_undo" /\ Return(s) /\ UNCHANGED <<audit, signing, rollbacks>>
    BY <1>11, RollbackWrites DEF TypeOK, EvidenceInv, WritingUndo
  <2>2. Outcome(s) \in Tells(audit[job[s].hash]) /\ Supports(audit[job[s].hash], r)
    BY <2>1 DEF Carries, Outcome, Supports, Tells, Job
  <2>3. PICK e \in Execution :
          /\ execution' = [execution EXCEPT ![r] = e] /\ e.hash = job[s].hash
          /\ e.status \in {execution[r].status, Outcome(s)}
          /\ e.status = execution[r].status =>
                 "execution" \in job[s].omits \/ execution[r].status = Outcome(s)
    BY <1>11, RollbackRecords
  <2>4. e.status = Outcome(s) \/ (rollbacks[r] > 2 /\ e.status = execution[r].status)
    <3>1. rollbacks[r] \in Nat
      BY <2>1 DEF TypeOK
    <3> QED BY <2>1, <2>3, <3>1 DEF UndoInv
  <2> QED BY <2>1, <2>2, <2>3, <2>4, EvidenceWritten DEF Carries
<1>12. ASSUME NEW s \in Sessions, AuditRead(s) PROVE EvidenceInv'
  <2> DEFINE j == [job[s] EXCEPT !.head = Len(audit)]
  <2>1. j \in Job /\ j.act = job[s].act
    <3>1. Len(audit) \in Nat /\ job[s] \in Job
      BY DEF TypeOK
    <3> QED BY <3>1 DEF Job
  <2>2. Goto(s, "audit_append", j) /\ UNCHANGED <<execution, audit, signing, rollbacks>>
    BY <1>12 DEF AuditRead, rows
  <2>3. job[s].act \in {"executed", "rolled_back"} => signing
    BY <1>12 DEF AuditRead, EvidenceInv, Enforcing, InAudit
  <2> HIDE DEF j
  <2> QED BY <2>1, <2>2, <2>3, EvidenceFrame DEF Steps
<1>13. ASSUME NEW s \in Sessions, AuditAppend(s) PROVE EvidenceInv'
  <2> DEFINE e == [req |-> job[s].req, act |-> job[s].act, ok |-> job[s].ok,
                   prev |-> job[s].head, signed |-> signing]
             j == [job[s] EXCEPT !.hash = Len(audit) + 1]
  <2>1. job[s].req \in Requests /\ job[s].act \in Acts /\ job[s] \in Job /\ Len(audit) + 1 \in Nat
    BY <1>13 DEF TypeOK, AuditAppend
  <2>2. e \in Entry
    BY <2>1 DEF Entry, Job, TypeOK
  <2>3. audit' = Append(audit, e) /\ UNCHANGED <<execution, signing, rollbacks>>
    BY <1>13 DEF AuditAppend, rows
  <2>4. /\ \A i \in DOMAIN audit : i \in DOMAIN audit' /\ audit'[i] = audit[i]
        /\ Len(audit) + 1 \in DOMAIN audit' /\ audit'[Len(audit) + 1] = e
    <3> HIDE DEF e
    <3> QED BY <2>2, <2>3 DEF TypeOK
  <2>5. EvidenceIsAudited'
    BY <2>3, <2>4 DEF EvidenceInv, EvidenceIsAudited, Supports, Tells
  <2>6. \A t \in Sessions : t # s => pc'[t] = pc[t] /\ job'[t] = job[t]
    BY <1>13 DEF AuditAppend, AfterAudit, Return, Goto, TypeOK
  <2>7. \A t \in Sessions \ {s} :
          /\ Enforcing(t)' => signing'
          /\ pc'[t] = "record" => Carries(t, "executed")'
          /\ WritingUndo(t)' => Carries(t, "rolled_back")'
    BY <2>3, <2>4, <2>6 DEF EvidenceInv, Enforcing, InAudit, WritingUndo, Carries
  <2>8. CASE job[s].act \in {"executed", "rolled_back"}
    <3>1. signing
      BY <1>13, <2>8 DEF AuditAppend, EvidenceInv, Enforcing, InAudit
    <3>2. \/ job[s].act = "executed" /\ Goto(s, "record", j)
          \/ job[s].act = "rolled_back" /\ Goto(s, "undo_request", j)
      BY <1>13, <2>8 DEF AuditAppend, AfterAudit
    <3>3. j.hash = Len(audit) + 1 /\ j.req = job[s].req /\ j.ok = job[s].ok
      BY <2>1 DEF Job
    <3>4. /\ e.req = job[s].req /\ e.act = job[s].act /\ e.ok = job[s].ok /\ e.signed = signing
      OBVIOUS
    <3> HIDE DEF e, j
    <3>5. job'[s] = j /\ \/ job[s].act = "executed" /\ pc'[s] = "record"
                         \/ job[s].act = "rolled_back" /\ pc'[s] = "undo_request"
      BY <3>2 DEF Goto, TypeOK
    <3>6. /\ Enforcing(s)' => signing'
          /\ pc'[s] = "record" => Carries(s, "executed")'
          /\ WritingUndo(s)' => Carries(s, "rolled_back")'
      BY <2>3, <2>4, <3>1, <3>3, <3>4, <3>5 DEF WritingUndo, Carries
    <3> QED BY <2>5, <2>7, <3>6 DEF EvidenceInv
  <2>9. CASE job[s].act \notin {"executed", "rolled_back"}
    <3>1. Return(s)
      BY <1>13, <2>1, <2>9 DEF AuditAppend, AfterAudit, Acts
    <3>2. pc'[s] = "idle"
      BY <3>1 DEF Return, Goto, TypeOK
    <3> QED BY <2>5, <2>7, <3>2 DEF EvidenceInv, Enforcing, WritingUndo, InAudit
  <2> QED BY <2>8, <2>9
<1>14. ASSUME NEW s \in Sessions, Loading(s) PROVE EvidenceInv'
  <2>1. /\ UNCHANGED <<execution, audit, signing, rollbacks>> /\ WritingUndo(s)
        /\ \A t \in Sessions \ {s} : pc'[t] = pc[t] /\ job'[t] = job[t]
        /\ job'[s].req = job[s].req /\ job'[s].ok = job[s].ok /\ job'[s].hash = job[s].hash
        /\ pc'[s] \in {"undo_evidence", "record_undo"}
    <3>1. PICK step \in {"undo_evidence", "record_undo"}, j \in Job :
            Goto(s, step, j) /\ j.req = job[s].req /\ j.ok = job[s].ok /\ j.hash = job[s].hash
      BY <1>14, LoadMoves
    <3>2. UNCHANGED <<rows, audit, signing, rollbacks>> /\ pc[s] \in {"undo_request", "undo_evidence"}
      BY <1>14, LoadMoves
    <3> QED BY <3>1, <3>2 DEF Goto, TypeOK, WritingUndo, rows
  <2>2. EvidenceIsAudited'
    BY <2>1 DEF EvidenceInv, EvidenceIsAudited, Supports, Tells
  <2>3. signing /\ Carries(s, "rolled_back")
    BY <2>1 DEF EvidenceInv, Enforcing, WritingUndo
  <2>4. /\ \A t \in Sessions : Enforcing(t)' => signing'
        /\ \A t \in Sessions : pc'[t] = "record" => Carries(t, "executed")'
        /\ \A t \in Sessions : WritingUndo(t)' => Carries(t, "rolled_back")'
    BY <2>1, <2>3 DEF EvidenceInv, Enforcing, InAudit, WritingUndo, Carries
  <2> QED BY <2>2, <2>4 DEF EvidenceInv
<1>15. ASSUME NEW s \in Sessions, Fail(s) PROVE EvidenceInv'
  BY <1>0, <1>15, EvidenceFrame DEF Fail, Return, Steps, rows
<1>16. CASE Restart
  BY <1>16 DEF Restart, rows, EvidenceInv, EvidenceIsAudited, Enforcing, WritingUndo, InAudit, Supports, Tells
<1>17. CASE UNCHANGED vars
  BY <1>17 DEF vars, rows, EvidenceInv, EvidenceIsAudited, Enforcing, WritingUndo, InAudit, Supports, Tells, Carries
<1> QED
  BY <1>1, <1>2, <1>3, <1>4, <1>5, <1>6, <1>7, <1>8, <1>9, <1>10, <1>11, <1>12, <1>13,
     <1>14, <1>15, <1>16, <1>17 DEF Next, Step, Call, Loading

(***************************************************************************)
(* Every evidence row names a signed record of an execution or a rollback  *)
(* of its own request, and has a status that a signed record of the        *)
(* request tells: the very one it names, unless three rollbacks began.     *)
(***************************************************************************)
THEOREM EvidenceAudited == Spec => []EvidenceIsAudited
<1>1. Init => UndoInv /\ EvidenceInv
  BY InitUndo, InitEvidence
<1>2. TypeOK /\ UndoInv /\ EvidenceInv /\ [Next]_vars => (UndoInv /\ EvidenceInv)'
  BY StepUndo, StepEvidence
<1>3. EvidenceInv => EvidenceIsAudited
  BY DEF EvidenceInv
<1> QED
  BY <1>1, <1>2, <1>3, TypeCorrect, PTL DEF Spec
----------------------------------------------------------------------------
(***************************************************************************)
(* Why the service implements ContainmentPromise.  What an operation did   *)
(* before its evidence row is written must still justify the row when it   *)
(* is: the enforcement it stands for was attempted, and a row that is being*)
(* rolled back stays reversible whoever else works on the request.         *)
(***************************************************************************)
Enforced(s) ==
    \/ pc[s] = "record"
    \/ InAudit(s) /\ job[s].act = "executed"

PromiseInv ==
    /\ \A s \in Sessions : Enforced(s) => executes[job[s].req] > 0
    /\ \A s \in Sessions : Enforced(s) /\ job[s].reversible => job[s].ok
    /\ \A s \in Sessions : Undoing(s) => execution[job[s].req].reversible
    /\ \A r \in Requests : execution[r].status = "none" => ~execution[r].reversible

LEMMA InitPromise == Init => PromiseInv
  BY DEF Init, PromiseInv, Enforced, Undoing, InAudit, NoExecution

LEMMA PromiseFrame ==
    ASSUME TypeOK, PromiseInv, NEW s \in Sessions, NEW step \in Steps, NEW j \in Job,
           Goto(s, step, j), UNCHANGED <<execution, executes>>,
           step \notin {"record", "undo_request", "undo_evidence", "record_undo"},
           step = "undo" => execution[j.req].reversible,
           step \in {"audit_read", "audit_append"} /\ j.act = "executed" =>
               executes[j.req] > 0 /\ (j.reversible => j.ok),
           step \in {"audit_read", "audit_append"} /\ j.act = "rolled_back" =>
               execution[j.req].reversible
    PROVE  PromiseInv'
<1>1. \A t \in Sessions : t # s => pc'[t] = pc[t] /\ job'[t] = job[t]
  BY DEF Goto, TypeOK
<1>2. pc'[s] = step /\ job'[s] = j
  BY DEF Goto, TypeOK
<1> QED
  BY <1>1, <1>2 DEF PromiseInv, Enforced, Undoing, InAudit

LEMMA StepPromise == TypeOK /\ PromiseInv /\ [Next]_vars => PromiseInv'
<1> SUFFICES ASSUME TypeOK, PromiseInv, [Next]_vars PROVE PromiseInv'
  OBVIOUS
<1>0. NoJob \in Job /\ \A r \in Requests : [NoJob EXCEPT !.req = r] \in Job
  BY DEF NoJob, Job
<1>1. ASSUME NEW s \in Sessions, NEW r \in Requests, RequestRead(s, r) PROVE PromiseInv'
  BY <1>0, <1>1, PromiseFrame DEF RequestRead, Start, Steps, rows
<1>2. ASSUME NEW s \in Sessions, NEW r \in Requests, DecisionRead(s, r) PROVE PromiseInv'
  BY <1>0, <1>2, PromiseFrame DEF DecisionRead, Start, Steps, rows
<1>3. ASSUME NEW s \in Sessions, NEW r \in Requests, ExecuteRead(s, r) PROVE PromiseInv'
  BY <1>0, <1>3, PromiseFrame DEF ExecuteRead, Start, Steps, rows
<1>4. ASSUME NEW s \in Sessions, NEW r \in Requests, RollbackRead(s, r) PROVE PromiseInv'
  <2> DEFINE j == [NoJob EXCEPT !.req = r]
  <2>1. j \in Job /\ j.req = r
    BY <1>0 DEF NoJob
  <2>2. Goto(s, "undo", j) /\ UNCHANGED <<execution, executes>> /\ execution[r].reversible
    BY <1>4 DEF RollbackRead, Start, rows
  <2> HIDE DEF j
  <2> QED BY <2>1, <2>2, PromiseFrame DEF Steps
<1>5. ASSUME NEW s \in Sessions, InsertRequest(s) PROVE PromiseInv'
  <2> DEFINE j == [job[s] EXCEPT !.act = "requested"]
  <2>1. j \in Job /\ j.act = "requested"
    BY DEF TypeOK, Job, Acts
  <2>2. /\ Goto(s, "idle", NoJob) \/ Goto(s, "audit_read", j)
        /\ UNCHANGED <<execution, executes>>
    BY <1>5 DEF InsertRequest, Return
  <2> HIDE DEF j
  <2> QED BY <1>0, <2>1, <2>2, PromiseFrame DEF Steps
<1>6. ASSUME NEW s \in Sessions, DecisionCommit(s) PROVE PromiseInv'
  <2>1. CASE approval[job[s].req] = "none"
    <3>1. PICK d \in {"approved", "rejected"} : Decide(s, d)
      BY <1>6, <2>1 DEF DecisionCommit
    <3> DEFINE j == [job[s] EXCEPT !.act = d]
    <3>2. j \in Job /\ j.act = d
      BY DEF TypeOK, Job, Acts
    <3>3. Goto(s, "audit_read", j) /\ UNCHANGED <<execution, executes>>
      BY <3>1 DEF Decide
    <3> HIDE DEF j
    <3> QED BY <3>2, <3>3, PromiseFrame DEF Steps
  <2>2. CASE approval[job[s].req] # "none"
    BY <1>0, <1>6, <2>2, PromiseFrame DEF DecisionCommit, Return, rows, Steps
  <2> QED BY <2>1, <2>2
<1>7. ASSUME NEW s \in Sessions, ClaimExecution(s) PROVE PromiseInv'
  <2>1. job[s] \in Job
    BY DEF TypeOK
  <2> QED BY <1>7, <2>1, PromiseFrame DEF ClaimExecution, Steps
<1>8. ASSUME NEW s \in Sessions, AdapterExecute(s) PROVE PromiseInv'
  <2>1. PICK ok \in BOOLEAN, b \in BOOLEAN :
          /\ b => ok
          /\ Goto(s, "audit_read", [job[s] EXCEPT !.act = "executed", !.ok = ok, !.reversible = b])
    BY <1>8 DEF AdapterExecute
  <2> DEFINE j == [job[s] EXCEPT !.act = "executed", !.ok = ok, !.reversible = b]
  <2>2. /\ j \in Job /\ j.act = "executed" /\ j.req = job[s].req
        /\ j.reversible => j.ok
    <3>1. job[s] \in Job
      BY DEF TypeOK
    <3> QED BY <2>1, <3>1 DEF Job, Acts
  <2>3. Goto(s, "audit_read", j)
    BY <2>1
  <2> HIDE DEF j
  <2>4. executes' = [executes EXCEPT ![job[s].req] = @ + 1] /\ UNCHANGED execution
    BY <1>8 DEF AdapterExecute, rows
  <2>5. job[s].req \in Requests
    BY <1>8 DEF AdapterExecute, TypeOK
  <2>6. /\ executes'[job[s].req] > 0
        /\ \A r \in Requests : executes[r] > 0 => executes'[r] > 0
    BY <2>4, <2>5 DEF TypeOK
  <2>7. \A t \in Sessions : t # s => pc'[t] = pc[t] /\ job'[t] = job[t]
    BY <2>3 DEF Goto, TypeOK
  <2>8. pc'[s] = "audit_read" /\ job'[s] = j
    BY <2>3 DEF Goto, TypeOK
  <2>9. \A t \in Sessions : Enforced(t) => job[t].req \in Requests
    BY DEF TypeOK, Enforced, InAudit
  <2>10. \A t \in Sessions : Enforced(t)' => executes'[job'[t].req] > 0
    BY <2>2, <2>6, <2>7, <2>8, <2>9 DEF PromiseInv, Enforced, InAudit
  <2>11. \A t \in Sessions : Enforced(t)' /\ job'[t].reversible => job'[t].ok
    BY <2>2, <2>7, <2>8 DEF PromiseInv, Enforced, InAudit
  <2>12. \A t \in Sessions : Undoing(t)' => execution'[job'[t].req].reversible
    BY <2>2, <2>4, <2>7, <2>8 DEF PromiseInv, Undoing, InAudit
  <2> QED BY <2>4, <2>10, <2>11, <2>12 DEF PromiseInv
<1>9. ASSUME NEW s \in Sessions, RecordExecution(s) PROVE PromiseInv'
  <2>1. job[s].req \in Requests /\ job[s] \in Job /\ (job[s].reversible => job[s].ok)
    BY <1>9 DEF TypeOK, RecordExecution, PromiseInv, Enforced
  <2> DEFINE outcome == IF job[s].ok THEN "verified" ELSE "failed"
             e == [status |-> outcome, reversible |-> job[s].reversible, hash |-> job[s].hash]
  <2>2. \/ execution' = execution
        \/ /\ execution[job[s].req].status = "none"
           /\ execution' = [execution EXCEPT ![job[s].req] = e]
    BY <1>9 DEF RecordExecution, Record
  <2>3. e.status # "none"
    OBVIOUS
  <2> HIDE DEF e, outcome
  <2>4. \A r \in Requests :
           /\ execution[r].reversible => execution'[r].reversible
           /\ execution'[r].status = "none" => ~execution'[r].reversible
    BY <2>1, <2>2, <2>3 DEF PromiseInv, TypeOK
  <2>5. \A t \in Sessions : t # s => pc'[t] = pc[t] /\ job'[t] = job[t]
    BY <1>9 DEF RecordExecution, Return, Goto, TypeOK
  <2>6. pc'[s] = "idle" /\ UNCHANGED executes
    BY <1>9 DEF RecordExecution, Return, Goto, TypeOK
  <2>7. \A t \in Sessions : Enforced(t)' => executes'[job'[t].req] > 0
    BY <2>5, <2>6 DEF PromiseInv, Enforced, InAudit
  <2>8. \A t \in Sessions : Enforced(t)' /\ job'[t].reversible => job'[t].ok
    BY <2>5, <2>6 DEF PromiseInv, Enforced, InAudit
  <2>9. \A t \in Sessions : Undoing(t) => job[t].req \in Requests
    BY DEF TypeOK, Undoing, InAudit
  <2>10. \A t \in Sessions : Undoing(t)' => t # s /\ Undoing(t)
    BY <2>5, <2>6 DEF Undoing, InAudit
  <2>11. \A t \in Sessions : Undoing(t) => execution'[job[t].req].reversible
    BY <2>4, <2>9 DEF PromiseInv
  <2>12. \A t \in Sessions : Undoing(t)' => execution'[job'[t].req].reversible
    BY <2>5, <2>10, <2>11
  <2> QED BY <2>4, <2>7, <2>8, <2>12 DEF PromiseInv
<1>10. ASSUME NEW s \in Sessions, AdapterRollback(s) PROVE PromiseInv'
  <2>1. PICK ok \in BOOLEAN :
          Goto(s, "audit_read", [job[s] EXCEPT !.act = "rolled_back", !.ok = ok])
    BY <1>10 DEF AdapterRollback
  <2> DEFINE j == [job[s] EXCEPT !.act = "rolled_back", !.ok = ok]
  <2>2. j \in Job /\ j.act = "rolled_back" /\ j.req = job[s].req
    <3>1. job[s] \in Job
      BY DEF TypeOK
    <3> QED BY <3>1 DEF Job, Acts
  <2>3. Goto(s, "audit_read", j) /\ UNCHANGED <<execution, executes>>
    BY <1>10, <2>1 DEF AdapterRollback, rows
  <2>4. execution[job[s].req].reversible
    BY <1>10 DEF AdapterRollback, PromiseInv, Undoing
  <2> HIDE DEF j
  <2> QED BY <2>2, <2>3, <2>4, PromiseFrame DEF Steps
<1>11. ASSUME NEW s \in Sessions, RecordRollback(s) PROVE PromiseInv'
  <2>1. job[s].req \in Requests /\ execution[job[s].req].reversible
    BY <1>11 DEF TypeOK, RecordRollback, PromiseInv, Undoing
  <2>2. PICK e \in Execution :
          /\ execution' = [execution EXCEPT ![job[s].req] = e]
          /\ e.reversible = execution[job[s].req].reversible
          /\ e.status \in {execution[job[s].req].status, Outcome(s)}
    BY <1>11, RollbackRecords
  <2>3. e.status # "none"
    BY <2>1, <2>2 DEF PromiseInv, Outcome
  <2>4. \A r \in Requests :
           /\ execution[r].reversible => execution'[r].reversible
           /\ execution'[r].status = "none" => ~execution'[r].reversible
    BY <2>1, <2>2, <2>3 DEF PromiseInv, TypeOK
  <2>5. \A t \in Sessions : t # s => pc'[t] = pc[t] /\ job'[t] = job[t]
    BY <1>11 DEF RecordRollback, Return, Goto, TypeOK
  <2>6. pc'[s] = "idle" /\ UNCHANGED executes
    BY <1>11 DEF RecordRollback, Return, Goto, TypeOK
  <2>7. \A t \in Sessions : Enforced(t)' => executes'[job'[t].req] > 0
    BY <2>5, <2>6 DEF PromiseInv, Enforced, InAudit
  <2>8. \A t \in Sessions : Enforced(t)' /\ job'[t].reversible => job'[t].ok
    BY <2>5, <2>6 DEF PromiseInv, Enforced, InAudit
  <2>9. \A t \in Sessions : Undoing(t) => job[t].req \in Requests
    BY DEF TypeOK, Undoing, InAudit
  <2>10. \A t \in Sessions : Undoing(t)' => t # s /\ Undoing(t)
    BY <2>5, <2>6 DEF Undoing, InAudit
  <2>11. \A t \in Sessions : Undoing(t) => execution'[job[t].req].reversible
    BY <2>4, <2>9 DEF PromiseInv
  <2>12. \A t \in Sessions : Undoing(t)' => execution'[job'[t].req].reversible
    BY <2>5, <2>10, <2>11
  <2> QED BY <2>4, <2>7, <2>8, <2>12 DEF PromiseInv
<1>12. ASSUME NEW s \in Sessions, AuditRead(s) PROVE PromiseInv'
  <2> DEFINE j == [job[s] EXCEPT !.head = Len(audit)]
  <2>1. /\ j \in Job /\ j.act = job[s].act /\ j.req = job[s].req
        /\ j.ok = job[s].ok /\ j.reversible = job[s].reversible
    <3>1. Len(audit) \in Nat /\ job[s] \in Job
      BY DEF TypeOK
    <3> QED BY <3>1 DEF Job
  <2>2. Goto(s, "audit_append", j) /\ UNCHANGED <<execution, executes>>
    BY <1>12 DEF AuditRead, rows
  <2>3. pc[s] = "audit_read"
    BY <1>12 DEF AuditRead
  <2> HIDE DEF j
  <2> QED BY <2>1, <2>2, <2>3, PromiseFrame DEF Steps, PromiseInv, Enforced, Undoing, InAudit
<1>13. ASSUME NEW s \in Sessions, AuditAppend(s) PROVE PromiseInv'
  <2> DEFINE j == [job[s] EXCEPT !.hash = Len(audit) + 1]
  <2>1. /\ job[s].act \in Acts /\ j.act = job[s].act /\ j.req = job[s].req
        /\ j.ok = job[s].ok /\ j.reversible = job[s].reversible
    BY <1>13 DEF TypeOK, AuditAppend, Job
  <2>2. /\ pc[s] = "audit_append" /\ UNCHANGED <<execution, executes>>
        /\ \/ job[s].act = "executed" /\ Goto(s, "record", j)
           \/ job[s].act = "rolled_back" /\ Goto(s, "undo_request", j)
           \/ Goto(s, "idle", NoJob)
    BY <1>13, <2>1 DEF AuditAppend, AfterAudit, Return, Acts, rows
  <2> HIDE DEF j
  <2>3. \A t \in Sessions : t # s => pc'[t] = pc[t] /\ job'[t] = job[t]
    BY <2>2 DEF Goto, TypeOK
  <2>4. \/ job[s].act = "executed" /\ pc'[s] = "record" /\ job'[s] = j
        \/ job[s].act = "rolled_back" /\ pc'[s] = "undo_request" /\ job'[s] = j
        \/ pc'[s] = "idle"
    BY <2>2 DEF Goto, TypeOK
  <2> QED BY <2>1, <2>2, <2>3, <2>4 DEF PromiseInv, Enforced, Undoing, InAudit
<1>14. ASSUME NEW s \in Sessions, Loading(s) PROVE PromiseInv'
  <2>1. PICK step \in {"undo_evidence", "record_undo"}, j \in Job : Goto(s, step, j) /\ j.req = job[s].req
    BY <1>14, LoadMoves
  <2>2. /\ UNCHANGED <<rows, executes>> /\ Undoing(s)
        /\ pc'[s] = step /\ job'[s] = j /\ \A t \in Sessions \ {s} : pc'[t] = pc[t] /\ job'[t] = job[t]
    BY <1>14, <2>1, LoadMoves DEF Goto, TypeOK, Undoing
  <2> QED BY <2>1, <2>2 DEF PromiseInv, Enforced, Undoing, InAudit, rows
<1>15. ASSUME NEW s \in Sessions, Fail(s) PROVE PromiseInv'
  BY <1>0, <1>15, PromiseFrame DEF Fail, Return, Steps, rows
<1>16. CASE Restart
  BY <1>16 DEF Restart, rows, PromiseInv, Enforced, Undoing, InAudit
<1>17. CASE UNCHANGED vars
  BY <1>17 DEF vars, rows, PromiseInv, Enforced, Undoing, InAudit
<1> QED
  BY <1>1, <1>2, <1>3, <1>4, <1>5, <1>6, <1>7, <1>8, <1>9, <1>10, <1>11, <1>12, <1>13,
     <1>14, <1>15, <1>16, <1>17 DEF Next, Step, Call, Loading

(***************************************************************************)
(* A step is a step of ContainmentPromise or changes nothing it speaks of. *)
(***************************************************************************)
LEMMA Simulation ==
    TypeOK /\ GovernInv /\ PromiseInv /\ [Next]_vars => [Promise!Next]_(Promise!promise)
<1> SUFFICES ASSUME TypeOK, GovernInv, PromiseInv, [Next]_vars
             PROVE  Promise!Next \/ UNCHANGED Promise!promise
  OBVIOUS
<1>0. ASSUME UNCHANGED <<approval, execution, executes>> PROVE UNCHANGED Promise!promise
  BY <1>0 DEF Promise!promise
<1>1. ASSUME NEW s \in Sessions, NEW r \in Requests, Call(s, r) PROVE UNCHANGED Promise!promise
  BY <1>0, <1>1 DEF Call, RequestRead, DecisionRead, ExecuteRead, RollbackRead, rows
<1>2. ASSUME NEW s \in Sessions,
             InsertRequest(s) \/ ClaimExecution(s) \/ AdapterRollback(s) \/ AuditRead(s)
             \/ AuditAppend(s) \/ Loading(s) \/ Fail(s)
      PROVE  UNCHANGED Promise!promise
  BY <1>0, <1>2, LoadMoves
  DEF InsertRequest, ClaimExecution, AdapterRollback, AuditRead, AuditAppend, Fail, rows
<1>3. ASSUME NEW s \in Sessions, DecisionCommit(s) PROVE Promise!Next \/ UNCHANGED Promise!promise
  <2>1. job[s].req \in Requests
    BY <1>3 DEF TypeOK, DecisionCommit
  <2>2. CASE approval[job[s].req] = "none"
    <3>1. PICK d \in {"approved", "rejected"} : Decide(s, d)
      BY <1>3, <2>2 DEF DecisionCommit
    <3>2. Promise!Decide(job[s].req)
      BY <2>2, <3>1 DEF Decide, Promise!Decide
    <3> QED BY <2>1, <3>2 DEF Promise!Next
  <2>3. CASE approval[job[s].req] # "none"
    BY <1>0, <1>3, <2>3 DEF DecisionCommit, rows
  <2> QED BY <2>2, <2>3
<1>4. ASSUME NEW s \in Sessions, AdapterExecute(s) PROVE Promise!Next
  <2>1. job[s].req \in Requests /\ approval[job[s].req] = "approved"
    BY <1>4 DEF TypeOK, AdapterExecute, GovernInv, Enforcing
  <2>2. executes' = [executes EXCEPT ![job[s].req] = @ + 1] /\ UNCHANGED <<approval, execution>>
    BY <1>4 DEF AdapterExecute, rows
  <2>3. [r \in Requests |-> executes'[r] > 0]
        = [[r \in Requests |-> executes[r] > 0] EXCEPT ![job[s].req] = TRUE]
    <3>1. \A r \in Requests : 
              /\ r = job[s].req => executes'[r] > 0
              /\ r # job[s].req => executes'[r] = executes[r]
      BY <2>1, <2>2 DEF TypeOK
    <3> QED BY <2>1, <3>1, Zenon
  <2>4. Promise!Enforce(job[s].req)
    BY <2>1, <2>2, <2>3 DEF Promise!Enforce
  <2> QED BY <2>1, <2>4 DEF Promise!Next, Promise!Enforce
<1>5. ASSUME NEW s \in Sessions, RecordExecution(s) PROVE Promise!Next \/ UNCHANGED Promise!promise
  <2>1. /\ job[s].req \in Requests /\ job[s] \in Job /\ (job[s].reversible => job[s].ok)
        /\ executes[job[s].req] > 0 /\ UNCHANGED <<approval, executes>>
    BY <1>5 DEF TypeOK, RecordExecution, PromiseInv, Enforced
  <2> DEFINE outcome == IF job[s].ok THEN "verified" ELSE "failed"
             b == job[s].reversible
             e == [status |-> outcome, reversible |-> b, hash |-> job[s].hash]
  <2>2. CASE execution' = execution
    BY <1>0, <2>1, <2>2
  <2>3. CASE /\ execution[job[s].req].status = "none"
             /\ execution' = [execution EXCEPT ![job[s].req] = e]
    <3>1. /\ e.status = outcome /\ e.reversible = b /\ outcome \in {"verified", "failed"}
          /\ b \in BOOLEAN /\ (b => outcome = "verified")
      BY <2>1 DEF Job
    <3> HIDE DEF e, outcome, b
    <3>2. /\ [r \in Requests |-> execution'[r].status]
             = [[r \in Requests |-> execution[r].status] EXCEPT ![job[s].req] = outcome]
          /\ [r \in Requests |-> execution'[r].reversible]
             = [[r \in Requests |-> execution[r].reversible] EXCEPT ![job[s].req] = b]
      BY <2>1, <2>3, <3>1 DEF TypeOK
    <3>3. Promise!Conclude(job[s].req)
      BY <2>1, <2>3, <3>1, <3>2 DEF Promise!Conclude
    <3> QED BY <2>1, <3>3 DEF Promise!Next, Promise!Conclude
  <2> QED BY <1>5, <2>2, <2>3 DEF RecordExecution, Record
<1>6. ASSUME NEW s \in Sessions, RecordRollback(s) PROVE Promise!Next \/ UNCHANGED Promise!promise
  <2>1. /\ job[s].req \in Requests /\ execution[job[s].req].reversible
        /\ UNCHANGED <<approval, executes>>
    BY <1>6 DEF TypeOK, RecordRollback, PromiseInv, Undoing
  <2> DEFINE old == execution[job[s].req]
  <2>2. PICK e \in Execution :
          /\ execution' = [execution EXCEPT ![job[s].req] = e]
          /\ e.reversible = old.reversible /\ e.status \in {old.status, Outcome(s)}
    BY <1>6, RollbackRecords
  <2>3. Outcome(s) \in {"rolled_back", "failed"} /\ old \in Execution
    BY <2>1 DEF TypeOK, Outcome
  <2>4. /\ [r \in Requests |-> execution'[r].status]
           = [[r \in Requests |-> execution[r].status] EXCEPT ![job[s].req] = e.status]
        /\ [r \in Requests |-> execution'[r].reversible] = [r \in Requests |-> execution[r].reversible]
    BY <2>1, <2>2 DEF TypeOK
  <2>5. CASE e.status = Outcome(s)
    <3>1. Promise!Release(job[s].req)
      BY <2>1, <2>3, <2>4, <2>5 DEF Promise!Release
    <3> QED BY <2>1, <3>1 DEF Promise!Next, Promise!Release
  <2>6. CASE e.status = old.status
    <3>1. [r \in Requests |-> execution'[r].status] = [r \in Requests |-> execution[r].status]
      BY <2>4, <2>6
    <3> QED BY <2>1, <2>4, <3>1 DEF Promise!promise
  <2> QED BY <2>2, <2>5, <2>6
<1>7. CASE Restart \/ UNCHANGED vars
  BY <1>0, <1>7 DEF Restart, vars, rows
<1> QED
  BY <1>1, <1>2, <1>3, <1>4, <1>5, <1>6, <1>7 DEF Next, Step, Loading

LEMMA InitSimulation == Init => Promise!Init
<1> SUFFICES ASSUME Init PROVE Promise!Init
  OBVIOUS
<1>1. /\ approval = [r \in Requests |-> "none"]
      /\ [r \in Requests |-> execution[r].status] = [r \in Requests |-> "none"]
      /\ [r \in Requests |-> execution[r].reversible] = [r \in Requests |-> FALSE]
  BY DEF Init, NoExecution
<1>2. [r \in Requests |-> executes[r] > 0] = [r \in Requests |-> FALSE]
  <2>1. executes = [r \in Requests |-> 0]
    BY DEF Init
  <2>2. (0 > 0) = FALSE
    OBVIOUS
  <2>3. \A r \in Requests : (executes[r] > 0) = FALSE
    BY <2>1, <2>2, Zenon
  <2> QED BY <2>3, Zenon
<1> QED
  BY <1>1, <1>2 DEF Promise!Init

(***************************************************************************)
(* The service, with any number of racing calls, failures and restarts,    *)
(* implements what governed containment promises about each request.       *)
(***************************************************************************)
THEOREM ContainmentKeepsPromise == Spec => KeepsPromise
<1>1. Init => Promise!Init /\ TypeOK /\ GovernInv /\ PromiseInv
  BY InitSimulation, InitType, InitGovern, InitPromise
<1>2. TypeOK /\ GovernInv /\ PromiseInv /\ [Next]_vars => (TypeOK /\ GovernInv /\ PromiseInv)'
  BY StepType, StepGovern, StepPromise
<1> QED
  BY <1>1, <1>2, Simulation, PTL DEF Spec, KeepsPromise, Promise!Spec
-----------------------------------------------------------------------------
(***************************************************************************)
(* What an interleaving can do, one operation at a time: the step of one   *)
(* operation leaves the others where they are and writes about its own     *)
(* request only.                                                           *)
(***************************************************************************)
LEMMA StepIsLocal ==
    ASSUME TypeOK, NEW s \in Sessions, Step(s)
    PROVE  /\ job[s].req \in Requests /\ job[s] \in Job /\ pc[s] # "idle"
           /\ \A t \in Sessions \ {s} : pc'[t] = pc[t] /\ job'[t] = job[t]
           /\ pc'[s] # "idle" => job'[s].req = job[s].req
           /\ rollbacks' = rollbacks
<1>0. job[s].req \in Requests /\ job[s] \in Job /\ pc[s] # "idle"
  BY DEF TypeOK, Step, InsertRequest, DecisionCommit, ClaimExecution, AdapterExecute, RecordExecution,
         AdapterRollback, RollbackLoadRequest, RollbackLoadExecution, RecordRollback,
         AuditRead, AuditAppend
<1>1. rollbacks' = rollbacks
  BY DEF Step, InsertRequest, DecisionCommit, Decide, ClaimExecution, AdapterExecute, RecordExecution,
         AdapterRollback, RollbackLoadRequest, RollbackLoadExecution, RecordRollback,
         AuditRead, AuditAppend
<1>2. ASSUME NEW step, NEW j, Goto(s, step, j), step # "idle" => j.req = job[s].req
      PROVE  /\ \A t \in Sessions \ {s} : pc'[t] = pc[t] /\ job'[t] = job[t]
             /\ pc'[s] # "idle" => job'[s].req = job[s].req
  BY <1>2 DEF Goto, TypeOK
<1>3. PICK step \in Steps, j \in Job : Goto(s, step, j) /\ (step # "idle" => j.req = job[s].req)
  <2>0. NoJob \in Job
    BY DEF NoJob, Job
  <2>1. CASE InsertRequest(s) \/ DecisionCommit(s)
    <3>1. PICK act \in Acts : Return(s) \/ Goto(s, "audit_read", [job[s] EXCEPT !.act = act])
      BY <2>1 DEF InsertRequest, DecisionCommit, Decide, Acts
    <3> DEFINE j == [job[s] EXCEPT !.act = act]
    <3>2. j \in Job /\ j.req = job[s].req
      BY <1>0 DEF Job
    <3> HIDE DEF j
    <3> QED BY <2>0, <3>1, <3>2 DEF Return, Steps, j
  <2>2. CASE ClaimExecution(s)
    BY <1>0, <2>2 DEF ClaimExecution, Steps
  <2>3. CASE AdapterExecute(s)
    <3>1. PICK ok \in BOOLEAN, b \in BOOLEAN :
            Goto(s, "audit_read", [job[s] EXCEPT !.act = "executed", !.ok = ok, !.reversible = b])
      BY <2>3 DEF AdapterExecute
    <3> DEFINE j == [job[s] EXCEPT !.act = "executed", !.ok = ok, !.reversible = b]
    <3>2. j \in Job /\ j.req = job[s].req
      BY <1>0 DEF Job, Acts
    <3> HIDE DEF j
    <3> QED BY <3>1, <3>2 DEF Steps, j
  <2>4. CASE AdapterRollback(s)
    <3>1. PICK ok \in BOOLEAN :
            Goto(s, "audit_read", [job[s] EXCEPT !.act = "rolled_back", !.ok = ok])
      BY <2>4 DEF AdapterRollback
    <3> DEFINE j == [job[s] EXCEPT !.act = "rolled_back", !.ok = ok]
    <3>2. j \in Job /\ j.req = job[s].req
      BY <1>0 DEF Job, Acts
    <3> HIDE DEF j
    <3> QED BY <3>1, <3>2 DEF Steps, j
  <2>5. CASE RecordExecution(s) \/ RecordRollback(s)
    BY <2>0, <2>5 DEF RecordExecution, RecordRollback, Return, Steps
  <2>6. CASE AuditRead(s)
    <3> DEFINE j == [job[s] EXCEPT !.head = Len(audit)]
    <3>1. j \in Job /\ j.req = job[s].req
      <4>1. Len(audit) \in Nat
        BY DEF TypeOK
      <4> QED BY <1>0, <4>1 DEF Job
    <3>2. Goto(s, "audit_append", j)
      BY <2>6 DEF AuditRead
    <3> HIDE DEF j
    <3> QED BY <3>1, <3>2 DEF Steps
  <2>7. CASE AuditAppend(s)
    <3> DEFINE j == [job[s] EXCEPT !.hash = Len(audit) + 1]
    <3>1. j \in Job /\ j.req = job[s].req
      <4>1. Len(audit) + 1 \in Nat
        BY DEF TypeOK
      <4> QED BY <1>0, <4>1 DEF Job
    <3>2. Goto(s, "record", j) \/ Goto(s, "undo_request", j) \/ Return(s)
      BY <2>7 DEF AuditAppend, AfterAudit
    <3> HIDE DEF j
    <3> QED BY <2>0, <3>1, <3>2 DEF Return, Steps
  <2>8. CASE Loading(s)
    BY <2>8, LoadMoves DEF Steps
  <2> QED BY <2>1, <2>2, <2>3, <2>4, <2>5, <2>6, <2>7, <2>8 DEF Step, Loading
<1> QED
  BY <1>0, <1>1, <1>2, <1>3

LEMMA CallIsLocal ==
    ASSUME TypeOK, NEW s \in Sessions, NEW r \in Requests, Call(s, r)
    PROVE  /\ \A t \in Sessions \ {s} : pc'[t] = pc[t] /\ job'[t] = job[t]
           /\ job'[s].req = r
           /\ UNCHANGED <<status, approval, execution, audit, isolated, executes>>
<1> DEFINE j == [NoJob EXCEPT !.req = r]
<1>1. j.req = r
  BY DEF NoJob
<1>2. PICK step : Goto(s, step, j)
  BY DEF Call, RequestRead, DecisionRead, ExecuteRead, RollbackRead, Start
<1> HIDE DEF j
<1>3. UNCHANGED <<status, approval, execution, audit, isolated, executes>>
  BY DEF Call, RequestRead, DecisionRead, ExecuteRead, RollbackRead, rows
<1> QED
  BY <1>1, <1>2, <1>3 DEF Goto, TypeOK

(* An operation ends: after its last write, or abandoned.                  *)
LEMMA ReturnIsLocal ==
    ASSUME TypeOK, NEW s \in Sessions, Return(s)
    PROVE  /\ \A t \in Sessions \ {s} : pc'[t] = pc[t] /\ job'[t] = job[t]
           /\ pc'[s] = "idle"
  BY DEF TypeOK, Return, Goto
-----------------------------------------------------------------------------
(***************************************************************************)
(* What stays true through every race.  A status that is written before    *)
(* the claim is read as "nothing was done to the endpoint": whoever writes *)
(* it, no adapter was called for the request, and no operation that has    *)
(* claimed it is on its way to the adapter.                                *)
(***************************************************************************)
Unenforced == {"absent", "requested", "approved", "rejected"}

EnforceInv ==
    /\ \A r \in Requests : status[r] \in Unenforced => executes[r] = 0
    /\ \A r \in Requests : execution[r].status # "none" => executes[r] > 0
    /\ \A s \in Sessions : pc[s] = "execute" => status[job[s].req] \notin Unenforced

LEMMA InitEnforce == Init => EnforceInv
<1> SUFFICES ASSUME Init PROVE EnforceInv
  OBVIOUS
<1> QED BY DEF Init, EnforceInv, NoExecution

(* What the step of an operation does to the rows of its request and to    *)
(* its own control state; the other rows stay.                             *)
LEMMA StepWrites ==
    ASSUME TypeOK, NEW s \in Sessions, Step(s)
    PROVE  LET r == job[s].req IN
           /\ \A q \in Requests \ {r} :
                /\ status'[q] = status[q] /\ approval'[q] = approval[q]
                /\ execution'[q] = execution[q] /\ executes'[q] = executes[q]
           /\ \/ /\ UNCHANGED <<status, execution, executes>>
                 /\ pc'[s] \notin {"claim", "execute"}
              \/ /\ pc[s] = "insert" /\ status[r] = "absent" /\ status'[r] = "requested"
                 /\ UNCHANGED <<execution, executes>> /\ pc'[s] = "audit_read"
                 /\ job'[s].act = "requested"
              \/ /\ pc[s] = "decide" /\ approval[r] = "none"
                 /\ status'[r] \in {"approved", "rejected"}
                 /\ UNCHANGED <<execution, executes>> /\ pc'[s] = "audit_read"
                 /\ job'[s].act = status'[r]
              \/ /\ pc[s] = "claim" /\ status'[r] = "executing"
                 /\ UNCHANGED <<execution, executes>> /\ pc'[s] = "execute"
              \/ /\ pc[s] = "execute" /\ executes'[r] = executes[r] + 1
                 /\ UNCHANGED <<status, execution>> /\ pc'[s] = "audit_read"
                 /\ job'[s].act = "executed"
              \/ /\ pc[s] = "record" /\ execution[r].status = "none"
                 /\ status'[r] = (IF job[s].ok THEN "verified" ELSE "failed")
                 /\ execution'[r].status = status'[r]
                 /\ UNCHANGED executes /\ pc'[s] = "idle"
              \/ /\ pc[s] = "record_undo"
                 /\ status'[r] \in {status[r], Outcome(s)}
                 /\ execution'[r].status \in {execution[r].status, Outcome(s)}
                 /\ execution'[r].reversible = execution[r].reversible
                 /\ UNCHANGED executes /\ pc'[s] = "idle"
<1> DEFINE r == job[s].req
<1>0. /\ r \in Requests /\ job[s] \in Job /\ r = job[s].req
      /\ status \in [Requests -> Statuses] /\ approval \in [Requests -> {"none", "approved", "rejected"}]
      /\ execution \in [Requests -> Execution] /\ executes \in [Requests -> Nat]
      /\ pc \in [Sessions -> Steps] /\ job \in [Sessions -> Job]
  BY StepIsLocal DEF TypeOK
<1>1. ASSUME NEW step, NEW j, Goto(s, step, j) PROVE pc'[s] = step /\ job'[s] = j
  BY <1>0, <1>1 DEF Goto
<1>2. Return(s) => pc'[s] = "idle"
  BY <1>1 DEF Return
<1>3. CASE InsertRequest(s)
  <2>1. CASE KeyTaken(r)
    BY <1>2, <1>3, <2>1 DEF InsertRequest
  <2>2. CASE ~KeyTaken(r)
    <3> DEFINE j == [job[s] EXCEPT !.act = "requested"]
    <3>1. /\ pc[s] = "insert" /\ status' = [status EXCEPT ![r] = "requested"]
          /\ Goto(s, "audit_read", j) /\ UNCHANGED <<approval, execution, executes>>
      BY <1>3, <2>2 DEF InsertRequest
    <3>2. status[r] = "absent"
      BY <1>0, <2>2 DEF KeyTaken
    <3>3. j.act = "requested"
      BY <1>0 DEF Job
    <3> HIDE DEF j
    <3>4. pc'[s] = "audit_read" /\ job'[s].act = "requested"
      BY <1>1, <3>1, <3>3
    <3>5. status'[r] = "requested" /\ \A q \in Requests \ {r} : status'[q] = status[q]
      BY <1>0, <3>1
    <3> QED BY <3>1, <3>2, <3>4, <3>5
  <2> QED BY <2>1, <2>2
<1>4. CASE DecisionCommit(s)
  <2>1. CASE approval[r] = "none"
    <3>1. PICK decision \in {"approved", "rejected"} : Decide(s, decision)
      BY <1>4, <2>1 DEF DecisionCommit
    <3> DEFINE j == [job[s] EXCEPT !.act = decision]
    <3>2. /\ pc[s] = "decide" /\ status' = [status EXCEPT ![r] = decision]
          /\ approval' = [approval EXCEPT ![r] = decision]
          /\ Goto(s, "audit_read", j) /\ UNCHANGED <<execution, executes>>
      BY <1>4, <3>1 DEF DecisionCommit, Decide
    <3>3. j.act = decision
      BY <1>0 DEF Job
    <3> HIDE DEF j
    <3>4. pc'[s] = "audit_read" /\ job'[s].act = decision
      BY <1>1, <3>2, <3>3
    <3>5. /\ status'[r] = decision
          /\ \A q \in Requests \ {r} : status'[q] = status[q] /\ approval'[q] = approval[q]
      BY <1>0, <3>2
    <3> QED BY <2>1, <3>2, <3>4, <3>5
  <2>2. CASE approval[r] # "none"
    BY <1>2, <1>4, <2>2 DEF DecisionCommit, rows
  <2> QED BY <2>1, <2>2
<1>5. CASE ClaimExecution(s)
  <2>1. /\ pc[s] = "claim" /\ status' = [status EXCEPT ![r] = "executing"]
        /\ Goto(s, "execute", job[s]) /\ UNCHANGED <<approval, execution, executes>>
    BY <1>5 DEF ClaimExecution
  <2>2. status'[r] = "executing" /\ \A q \in Requests \ {r} : status'[q] = status[q]
    BY <1>0, <2>1
  <2> QED BY <1>1, <2>1, <2>2
<1>6. CASE AdapterExecute(s)
  <2>1. PICK ok \in BOOLEAN, b \in BOOLEAN :
          Goto(s, "audit_read", [job[s] EXCEPT !.act = "executed", !.ok = ok, !.reversible = b])
    BY <1>6 DEF AdapterExecute
  <2> DEFINE j == [job[s] EXCEPT !.act = "executed", !.ok = ok, !.reversible = b]
  <2>2. j.act = "executed"
    BY <1>0 DEF Job
  <2>3. Goto(s, "audit_read", j)
    BY <2>1
  <2> HIDE DEF j
  <2>4. pc'[s] = "audit_read" /\ job'[s].act = "executed"
    BY <1>1, <2>2, <2>3
  <2>5. /\ pc[s] = "execute" /\ executes' = [executes EXCEPT ![r] = @ + 1]
        /\ UNCHANGED <<status, approval, execution>>
    BY <1>6 DEF AdapterExecute, rows
  <2>6. executes'[r] = executes[r] + 1 /\ \A q \in Requests \ {r} : executes'[q] = executes[q]
    BY <1>0, <2>5
  <2> QED BY <2>4, <2>5, <2>6
<1>7. CASE RecordExecution(s)
  <2> DEFINE outcome == IF job[s].ok THEN "verified" ELSE "failed"
             e == [status |-> outcome, reversible |-> job[s].reversible, hash |-> job[s].hash]
  <2>1. pc[s] = "record" /\ pc'[s] = "idle" /\ UNCHANGED <<approval, executes>>
    BY <1>2, <1>7 DEF RecordExecution
  <2>2. CASE execution[r].status # "none"
    BY <1>7, <2>1, <2>2 DEF RecordExecution
  <2>3. CASE execution[r].status = "none"
    <3>1. /\ status' = [status EXCEPT ![r] = outcome]
          /\ execution' = [execution EXCEPT ![r] = e]
      BY <1>7, <2>3 DEF RecordExecution, Record
    <3>2. e.status = outcome
      OBVIOUS
    <3> HIDE DEF e
    <3>3. status'[r] = outcome /\ execution'[r].status = outcome
      BY <1>0, <3>1, <3>2
    <3>4. \A q \in Requests \ {r} : status'[q] = status[q] /\ execution'[q] = execution[q]
      BY <1>0, <3>1
    <3> QED BY <2>1, <2>3, <3>3, <3>4
  <2> QED BY <2>2, <2>3
<1>8. CASE RecordRollback(s)
  <2>1. pc[s] = "record_undo" /\ pc'[s] = "idle" /\ UNCHANGED <<approval, executes>>
    BY <1>2, <1>8 DEF RecordRollback
  <2>2. PICK e \in Execution, told \in {status[r], Outcome(s)} :
          /\ execution' = [execution EXCEPT ![r] = e] /\ status' = [status EXCEPT ![r] = told]
          /\ e.reversible = execution[r].reversible
          /\ e.status \in {execution[r].status, Outcome(s)}
    BY <1>8, RollbackRecords, RollbackTells
  <2>4. /\ status'[r] = told /\ execution'[r].status = e.status
        /\ execution'[r].reversible = execution[r].reversible
    BY <1>0, <2>2
  <2>5. \A q \in Requests \ {r} : status'[q] = status[q] /\ execution'[q] = execution[q]
    BY <1>0, <2>2
  <2> QED BY <2>1, <2>2, <2>4, <2>5
<1>9. CASE AdapterRollback(s) \/ AuditRead(s)
  <2>1. UNCHANGED <<status, approval, execution, executes>>
    BY <1>9 DEF AdapterRollback, AuditRead, rows
  <2>2. CASE AdapterRollback(s)
    <3>1. PICK ok \in BOOLEAN :
            Goto(s, "audit_read", [job[s] EXCEPT !.act = "rolled_back", !.ok = ok])
      BY <2>2 DEF AdapterRollback
    <3> QED BY <1>1, <2>1, <3>1
  <2>3. CASE AuditRead(s)
    BY <1>1, <2>1, <2>3 DEF AuditRead
  <2> QED BY <1>9, <2>2, <2>3
<1>10. CASE AuditAppend(s)
  <2>1. UNCHANGED <<status, approval, execution, executes>>
    BY <1>10 DEF AuditAppend, rows
  <2>2. PICK step, j : step \in {"record", "undo_request", "idle"} /\ Goto(s, step, j)
    BY <1>10 DEF AuditAppend, AfterAudit, Return
  <2> QED BY <1>1, <2>1, <2>2
<1>11. CASE Loading(s)
  <2>1. UNCHANGED <<status, approval, execution, executes>>
    BY <1>11, LoadMoves DEF rows
  <2>2. PICK step \in {"undo_evidence", "record_undo"}, j \in Job : Goto(s, step, j)
    BY <1>11, LoadMoves
  <2> QED BY <1>1, <2>1, <2>2
<1> QED
  BY <1>3, <1>4, <1>5, <1>6, <1>7, <1>8, <1>9, <1>10, <1>11 DEF Step, Loading

LEMMA StepEnforce ==
    ASSUME TypeOK, GovernInv, PromiseInv, EnforceInv, [Next]_vars
    PROVE  EnforceInv'
<1>1. ASSUME NEW s \in Sessions, Step(s) PROVE EnforceInv'
  <2> DEFINE r == job[s].req
  <2>0. /\ r \in Requests /\ \A q \in Requests : executes[q] \in Nat
        /\ \A t \in Sessions \ {s} : pc'[t] = pc[t] /\ job'[t] = job[t]
        /\ pc'[s] # "idle" => job'[s].req = r
        /\ \A t \in Sessions : pc[t] # "idle" => job[t].req \in Requests
        /\ execution[r] \in Execution
    BY <1>1, StepIsLocal DEF TypeOK
  <2>1. \A q \in Requests \ {r} :
           status'[q] = status[q] /\ execution'[q] = execution[q] /\ executes'[q] = executes[q]
    BY <1>1, StepWrites
  <2>2. CASE UNCHANGED <<status, execution, executes>> /\ pc'[s] \notin {"claim", "execute"}
    BY <2>0, <2>2 DEF EnforceInv
  <2>3. CASE /\ pc[s] = "insert" /\ status[r] = "absent" /\ status'[r] = "requested"
             /\ UNCHANGED <<execution, executes>> /\ pc'[s] = "audit_read"
    BY <2>0, <2>1, <2>3 DEF EnforceInv, Unenforced
  <2>4. CASE /\ pc[s] = "decide" /\ approval[r] = "none"
             /\ status'[r] \in {"approved", "rejected"}
             /\ UNCHANGED <<execution, executes>> /\ pc'[s] = "audit_read"
    <3>1. executes[r] = 0
      BY <2>0, <2>4 DEF GovernInv, DecisionGoverns
    <3>2. \A t \in Sessions : pc[t] = "execute" => job[t].req # r
      BY <2>4 DEF GovernInv, Enforcing
    <3> QED BY <2>0, <2>1, <2>4, <3>1, <3>2 DEF EnforceInv
  <2>5. CASE /\ pc[s] = "claim" /\ status'[r] = "executing"
             /\ UNCHANGED <<execution, executes>> /\ pc'[s] = "execute"
    BY <2>0, <2>1, <2>5 DEF EnforceInv, Unenforced
  <2>6. CASE /\ pc[s] = "execute" /\ executes'[r] = executes[r] + 1
             /\ UNCHANGED <<status, execution>> /\ pc'[s] = "audit_read"
    <3>1. executes'[r] > 0 /\ status[r] \notin Unenforced
      BY <2>0, <2>6 DEF EnforceInv
    <3> QED BY <2>0, <2>1, <2>6, <3>1 DEF EnforceInv
  <2>7. CASE /\ pc[s] \in {"record", "record_undo"} /\ pc'[s] = "idle" /\ executes' = executes
             /\ status'[r] \in {status[r], "verified", "failed", "rolled_back"}
    <3>1. executes[r] > 0
      <4>1. CASE pc[s] = "record"
        BY <2>0, <4>1 DEF PromiseInv, Enforced
      <4>2. CASE pc[s] = "record_undo"
        BY <2>0, <4>2 DEF PromiseInv, Undoing, EnforceInv
      <4> QED BY <2>7, <4>1, <4>2
    <3> QED BY <2>0, <2>1, <2>7, <3>1 DEF EnforceInv, Unenforced
  <2> QED
    BY <1>1, <2>2, <2>3, <2>4, <2>5, <2>6, <2>7, StepWrites DEF Outcome
<1>2. ASSUME NEW s \in Sessions, NEW r \in Requests, Call(s, r) PROVE EnforceInv'
  <2>1. pc'[s] # "execute"
    BY <1>2 DEF Call, RequestRead, DecisionRead, ExecuteRead, RollbackRead, Start, Goto, TypeOK
  <2> QED BY <1>2, <2>1, CallIsLocal DEF EnforceInv
<1>3. ASSUME NEW s \in Sessions, Fail(s) PROVE EnforceInv'
  BY <1>3, ReturnIsLocal DEF Fail, EnforceInv, rows
<1>4. CASE Restart
  BY <1>4 DEF Restart, EnforceInv, rows
<1>5. CASE UNCHANGED vars
  BY <1>5 DEF vars, rows, EnforceInv
<1> QED
  BY <1>1, <1>2, <1>3, <1>4, <1>5 DEF Next

(* What holds of every run, for the theorems below.                        *)
RaceInv == TypeOK /\ GovernInv /\ PromiseInv /\ EnforceInv

LEMMA RacesAreGoverned == Spec => []RaceInv
<1>1. Init => RaceInv
  BY InitType, InitGovern, InitPromise, InitEnforce DEF RaceInv
<1>2. RaceInv /\ [Next]_vars => RaceInv'
  BY StepType, StepGovern, StepPromise, StepEnforce DEF RaceInv
<1> QED
  BY <1>1, <1>2, PTL DEF Spec
-----------------------------------------------------------------------------
(***************************************************************************)
(* The race that enforces a request twice is one only: two calls of        *)
(* execute() between the read that found the request approved and the      *)
(* UPDATE that claims it.  Calls may overlap anywhere else, fail anywhere  *)
(* and be tried again.                                                     *)
(***************************************************************************)
OneClaim ==
    \A s, t \in Sessions :
        pc[s] = "claim" /\ pc[t] = "claim" /\ job[s].req = job[t].req => s = t

(* A request that is being claimed is still to be enforced, and the one    *)
(* that has claimed it is alone with it.                                   *)
ClaimInv ==
    /\ AtMostOneExecution
    /\ \A s \in Sessions : pc[s] = "claim" => status[job[s].req] = "approved"
    /\ \A s \in Sessions : pc[s] = "execute" => executes[job[s].req] = 0
    /\ \A s, t \in Sessions :
         pc[s] = "execute" /\ pc[t] = "execute" /\ job[s].req = job[t].req => s = t

LEMMA InitClaim == Init => ClaimInv
<1> SUFFICES ASSUME Init PROVE ClaimInv
  OBVIOUS
<1> QED BY DEF Init, ClaimInv, AtMostOneExecution

(* No session begins to claim or to enforce, and no row changes.           *)
LEMMA ClaimFrame ==
    ASSUME ClaimInv, UNCHANGED <<status, executes>>,
           \A t \in Sessions : pc'[t] \in {"claim", "execute"} =>
               pc'[t] = pc[t] /\ job'[t].req = job[t].req
    PROVE  ClaimInv'
<1>1. AtMostOneExecution'
  BY DEF ClaimInv, AtMostOneExecution
<1> QED BY <1>1 DEF ClaimInv

LEMMA StepClaim ==
    ASSUME RaceInv, OneClaim, ClaimInv, [Next]_vars
    PROVE  ClaimInv'
<1> USE DEF RaceInv
<1>1. ASSUME NEW s \in Sessions, Step(s) PROVE ClaimInv'
  <2> DEFINE r == job[s].req
  <2>0. /\ r \in Requests /\ \A q \in Requests : executes[q] \in Nat
        /\ \A t \in Sessions \ {s} : pc'[t] = pc[t] /\ job'[t] = job[t]
        /\ pc'[s] # "idle" => job'[s].req = r
        /\ \A t \in Sessions : pc[t] # "idle" => job[t].req \in Requests
    BY <1>1, StepIsLocal DEF TypeOK
  <2>1. \A q \in Requests \ {r} : status'[q] = status[q] /\ executes'[q] = executes[q]
    BY <1>1, StepWrites
  (* A write of the status leaves the claimants of the request alone when    *)
  (* there is none.                                                          *)
  <2>2. ASSUME executes' = executes, pc'[s] \notin {"claim", "execute"},
               \A t \in Sessions \ {s} : pc[t] = "claim" => job[t].req # r
        PROVE  ClaimInv'
    <3>1. AtMostOneExecution'
      BY <2>2 DEF ClaimInv, AtMostOneExecution
    <3>2. \A t \in Sessions : pc'[t] = "claim" => status'[job'[t].req] = "approved"
      BY <2>0, <2>1, <2>2 DEF ClaimInv
    <3>3. \A t \in Sessions : pc'[t] = "execute" => t # s
      BY <2>2
    <3> QED BY <2>0, <2>2, <3>1, <3>2, <3>3 DEF ClaimInv
  <2>3. CASE UNCHANGED <<status, execution, executes>> /\ pc'[s] \notin {"claim", "execute"}
    BY <2>0, <2>3, ClaimFrame
  <2>4. CASE /\ pc[s] = "insert" /\ status[r] = "absent"
             /\ UNCHANGED <<execution, executes>> /\ pc'[s] = "audit_read"
    BY <2>0, <2>2, <2>4 DEF ClaimInv
  <2>5. CASE /\ pc[s] = "decide" /\ approval[r] = "none"
             /\ UNCHANGED <<execution, executes>> /\ pc'[s] = "audit_read"
    BY <2>0, <2>2, <2>5 DEF GovernInv, Enforcing
  <2>6. CASE /\ pc[s] = "claim" /\ status'[r] = "executing"
             /\ UNCHANGED <<execution, executes>> /\ pc'[s] = "execute"
    <3>1. status[r] = "approved" /\ executes[r] = 0
      BY <2>0, <2>6 DEF ClaimInv, EnforceInv, Unenforced
    <3>2. \A t \in Sessions \ {s} : pc[t] = "claim" => job[t].req # r
      BY <2>6 DEF OneClaim
    <3>3. \A t \in Sessions : pc[t] = "execute" => job[t].req # r
      BY <2>0, <3>1 DEF EnforceInv, Unenforced
    <3>4. AtMostOneExecution'
      BY <2>6 DEF ClaimInv, AtMostOneExecution
    <3>5. \A t \in Sessions : pc'[t] = "claim" => status'[job'[t].req] = "approved"
      BY <2>0, <2>1, <2>6, <3>2 DEF ClaimInv
    <3>6. \A t \in Sessions : pc'[t] = "execute" => executes'[job'[t].req] = 0
      BY <2>0, <2>6, <3>1 DEF ClaimInv
    <3>7. \A t, u \in Sessions :
            pc'[t] = "execute" /\ pc'[u] = "execute" /\ job'[t].req = job'[u].req => t = u
      BY <2>0, <2>6, <3>3 DEF ClaimInv
    <3> QED BY <3>4, <3>5, <3>6, <3>7 DEF ClaimInv
  <2>7. CASE /\ pc[s] = "execute" /\ executes'[r] = executes[r] + 1
             /\ UNCHANGED <<status, execution>> /\ pc'[s] = "audit_read"
    <3>1. executes'[r] = 1 /\ \A t \in Sessions \ {s} : pc[t] = "execute" => job[t].req # r
      BY <2>0, <2>7 DEF ClaimInv
    <3>2. AtMostOneExecution'
      BY <2>0, <2>1, <3>1 DEF ClaimInv, AtMostOneExecution
    <3>3. \A t \in Sessions : pc'[t] = "execute" => executes'[job'[t].req] = 0
      BY <2>0, <2>1, <2>7, <3>1 DEF ClaimInv
    <3> QED BY <2>0, <2>7, <3>2, <3>3 DEF ClaimInv
  <2>8. CASE pc[s] \in {"record", "record_undo"} /\ pc'[s] = "idle" /\ executes' = executes
    <3>1. executes[r] > 0
      BY <2>0, <2>8 DEF PromiseInv, Enforced, Undoing, EnforceInv
    <3>2. \A t \in Sessions : pc[t] = "claim" => job[t].req # r
      BY <2>0, <3>1 DEF ClaimInv, EnforceInv, Unenforced
    <3> QED BY <2>2, <2>8, <3>2
  <2> QED
    BY <1>1, <2>3, <2>4, <2>5, <2>6, <2>7, <2>8, StepWrites
<1>2. ASSUME NEW s \in Sessions, NEW r \in Requests, Call(s, r) PROVE ClaimInv'
  <2>1. /\ \A t \in Sessions \ {s} : pc'[t] = pc[t] /\ job'[t] = job[t]
        /\ job'[s].req = r /\ UNCHANGED <<status, executes>>
    BY <1>2, CallIsLocal
  <2>2. pc'[s] # "execute" /\ (pc'[s] = "claim" => status[r] = "approved")
    BY <1>2 DEF Call, RequestRead, DecisionRead, ExecuteRead, RollbackRead, Start, Goto, TypeOK
  <2>3. AtMostOneExecution'
    BY <2>1 DEF ClaimInv, AtMostOneExecution
  <2> QED BY <2>1, <2>2, <2>3 DEF ClaimInv
<1>3. ASSUME NEW s \in Sessions, Fail(s) PROVE ClaimInv'
  BY <1>3, ReturnIsLocal, ClaimFrame DEF Fail, rows
<1>4. CASE Restart
  BY <1>4, ClaimFrame DEF Restart, rows
<1>5. CASE UNCHANGED vars
  BY <1>5, ClaimFrame DEF vars, rows
<1> QED
  BY <1>1, <1>2, <1>3, <1>4, <1>5 DEF Next

(* execute(): as long as no two calls claim one request together, it       *)
(* reaches the adapter at most once, whatever else races, fails, stops or  *)
(* is tried again.                                                         *)
THEOREM OneExecution == Spec /\ []OneClaim => []AtMostOneExecution
<1>1. ClaimInv => AtMostOneExecution
  BY DEF ClaimInv
<1>2. RaceInv /\ OneClaim /\ ClaimInv /\ [Next]_vars => ClaimInv'
  BY StepClaim
<1> QED
  BY <1>1, <1>2, InitClaim, RacesAreGoverned, PTL DEF Spec
-----------------------------------------------------------------------------
(***************************************************************************)
(* The race that breaks the audit chain: two records between the read of   *)
(* the latest one and the insert, whatever operations they are of.         *)
(***************************************************************************)
OneAppender ==
    \A s, t \in Sessions : pc[s] = "audit_append" /\ pc[t] = "audit_append" => s = t

ChainInv ==
    /\ ChainLinked
    /\ \A s \in Sessions : pc[s] = "audit_append" => job[s].head = Len(audit)

LEMMA StepChain ==
    ASSUME TypeOK, OneAppender, ChainInv, [Next]_vars
    PROVE  ChainInv'
<1>1. ASSUME audit' = audit,
             \A t \in Sessions : pc'[t] = "audit_append" =>
                 \/ pc[t] = "audit_append" /\ job'[t] = job[t]
                 \/ job'[t].head = Len(audit)
      PROVE  ChainInv'
  BY <1>1 DEF ChainInv, ChainLinked
<1>2. ASSUME NEW s \in Sessions, AuditAppend(s) PROVE ChainInv'
  <2> DEFINE entry == [req |-> job[s].req, act |-> job[s].act, ok |-> job[s].ok,
                       prev |-> job[s].head, signed |-> signing]
  <2>1. /\ pc[s] = "audit_append" /\ audit' = Append(audit, entry)
        /\ entry.prev = Len(audit)
    BY <1>2 DEF AuditAppend, ChainInv
  <2> HIDE DEF entry
  <2>2. audit \in Seq(Entry) /\ Len(audit) \in Nat /\ DOMAIN audit = 1..Len(audit)
    BY DEF TypeOK
  <2>3. /\ DOMAIN audit' = 1..(Len(audit) + 1)
        /\ \A i \in 1..Len(audit) : audit'[i] = audit[i]
        /\ audit'[Len(audit) + 1] = entry
    BY <2>1, <2>2
  <2>4. ChainLinked'
    BY <2>1, <2>2, <2>3 DEF ChainInv, ChainLinked
  <2>5. \A t \in Sessions \ {s} : pc'[t] = pc[t] /\ pc[t] # "audit_append"
    BY <1>2, <2>1, StepIsLocal DEF OneAppender, Step
  <2>6. pc'[s] # "audit_append"
    <3>1. PICK step, j : step \in {"record", "undo_request", "idle"} /\ Goto(s, step, j)
      BY <1>2 DEF AuditAppend, AfterAudit, Return
    <3> QED BY <3>1 DEF Goto, TypeOK
  <2> QED BY <2>4, <2>5, <2>6 DEF ChainInv
<1>3. ASSUME NEW s \in Sessions, AuditRead(s) PROVE ChainInv'
  <2> DEFINE j == [job[s] EXCEPT !.head = Len(audit)]
  <2>1. j.head = Len(audit)
    BY DEF TypeOK, Job
  <2>2. Goto(s, "audit_append", j) /\ audit' = audit
    BY <1>3 DEF AuditRead
  <2> HIDE DEF j
  <2> QED BY <1>1, <2>1, <2>2 DEF Goto, TypeOK
<1>4. ASSUME NEW s \in Sessions, Step(s), ~AuditRead(s), ~AuditAppend(s) PROVE ChainInv'
  <2>1. audit' = audit
    BY <1>4 DEF Step, InsertRequest, DecisionCommit, Decide, ClaimExecution, AdapterExecute,
                RecordExecution, AdapterRollback, RollbackLoadRequest, RollbackLoadExecution,
                RecordRollback
  <2>2. PICK step, j : step \in Steps \ {"audit_append"} /\ Goto(s, step, j)
    <3>1. CASE InsertRequest(s) \/ DecisionCommit(s)
      BY <3>1 DEF InsertRequest, DecisionCommit, Decide, Return, Steps
    <3>2. CASE ClaimExecution(s) \/ AdapterExecute(s) \/ AdapterRollback(s)
      BY <3>2 DEF ClaimExecution, AdapterExecute, AdapterRollback, Steps
    <3>3. CASE RecordExecution(s) \/ RecordRollback(s)
      BY <3>3 DEF RecordExecution, RecordRollback, Return, Steps
    <3>4. CASE Loading(s)
      BY <3>4, LoadMoves DEF Steps
    <3> QED BY <1>4, <3>1, <3>2, <3>3, <3>4 DEF Step, Loading
  <2> QED BY <1>1, <2>1, <2>2 DEF Goto, TypeOK
<1>5. ASSUME NEW s \in Sessions, NEW r \in Requests, Call(s, r) PROVE ChainInv'
  <2>1. pc'[s] # "audit_append"
    BY <1>5 DEF Call, RequestRead, DecisionRead, ExecuteRead, RollbackRead, Start, Goto, TypeOK
  <2> QED BY <1>1, <1>5, <2>1, CallIsLocal
<1>6. ASSUME NEW s \in Sessions, Fail(s) PROVE ChainInv'
  BY <1>1, <1>6, ReturnIsLocal DEF Fail, rows
<1>7. CASE Restart
  BY <1>1, <1>7 DEF Restart
<1>8. CASE UNCHANGED vars
  BY <1>1, <1>8 DEF vars
<1> QED
  BY <1>2, <1>3, <1>4, <1>5, <1>6, <1>7, <1>8 DEF Next

(* _audit(): as long as no two records are appended together, each names   *)
(* the one before it, whatever else races, so that verify_chain accepts    *)
(* the chain.                                                              *)
THEOREM ChainIsLinked == Spec /\ []OneAppender => []ChainLinked
<1>1. Init => ChainInv
  BY DEF Init, ChainInv, ChainLinked
<1>2. ChainInv => ChainLinked
  BY DEF ChainInv
<1>3. TypeOK /\ OneAppender /\ ChainInv /\ [Next]_vars => ChainInv'
  BY StepChain
<1> QED
  BY <1>1, <1>2, <1>3, TypeCorrect, PTL DEF Spec
-----------------------------------------------------------------------------
(***************************************************************************)
(* What a status tells of the endpoint, when requests do not share one.  A *)
(* request that was enforced at most once has had one change of its        *)
(* endpoint to isolated, and every later one was a rollback's; what the    *)
(* adapter was seen to do stays so until it is recorded.  Nothing is asked *)
(* of how operations overlap.                                              *)
(***************************************************************************)
OwnEndpoints == \A q, r \in Requests : TargetOf[q] = TargetOf[r] => q = r

AtEndpoint(r) ==
    /\ isolated[TargetOf[r]] => executes[r] > 0
    /\ status[r] = "rolled_back" => executes[r] > 0
    /\ executes[r] <= 1 =>
         /\ status[r] = "verified" /\ rollbacks[r] = 0 => isolated[TargetOf[r]]
         /\ status[r] = "rolled_back" => ~isolated[TargetOf[r]]

Seen(s) ==
    LET r == job[s].req IN
    /\ Undoing(s) => rollbacks[r] > 0 /\ executes[r] > 0
    /\ Enforced(s) /\ executes[r] <= 1 /\ job[s].ok /\ rollbacks[r] = 0 => isolated[TargetOf[r]]
    /\ Undoing(s) /\ executes[r] <= 1 /\ pc[s] # "undo" /\ job[s].ok => ~isolated[TargetOf[r]]

EndpointInv == (\A r \in Requests : AtEndpoint(r)) /\ \A s \in Sessions : Seen(s)

LEMMA InitEndpoint == Init => EndpointInv
<1> SUFFICES ASSUME Init PROVE EndpointInv
  OBVIOUS
<1>1. \A r \in Requests : ~isolated[TargetOf[r]] /\ status[r] = "absent"
  BY ContainmentAssumption DEF Init
<1> QED
  BY <1>1 DEF Init, EndpointInv, AtEndpoint, Seen, Enforced, Undoing, InAudit

LEMMA EndpointTells ==
    ASSUME RaceInv, EndpointInv, AtMostOneExecution
    PROVE  StatusTellsEndpoint
<1>1. ASSUME NEW r \in Requests, status[r] \in Unenforced PROVE ~isolated[TargetOf[r]]
  BY <1>1 DEF RaceInv, EnforceInv, EndpointInv, AtEndpoint
<1> QED
  BY <1>1 DEF EndpointInv, AtEndpoint, AtMostOneExecution, StatusTellsEndpoint, Unenforced

(* Nothing is done to an endpoint and no operation has seen more.          *)
LEMMA EndpointFrame ==
    ASSUME EndpointInv, UNCHANGED <<isolated, executes, rollbacks>>,
           \A q \in Requests : status'[q] # status[q] => AtEndpoint(q)',
           \A t \in Sessions : (pc'[t] = pc[t] /\ job'[t] = job[t]) \/ Seen(t)'
    PROVE  EndpointInv'
<1>1. ASSUME NEW q \in Requests PROVE AtEndpoint(q)'
  BY DEF EndpointInv, AtEndpoint
<1>2. ASSUME NEW t \in Sessions PROVE Seen(t)'
  BY DEF EndpointInv, Seen, Enforced, Undoing, InAudit
<1> QED BY <1>1, <1>2 DEF EndpointInv

LEMMA SeenNothing ==
    ASSUME NEW s \in Sessions,
           \/ pc'[s] \in {"idle", "insert", "decide", "claim", "execute"}
           \/ InAudit(s)' /\ job'[s].act \notin {"executed", "rolled_back"}
    PROVE  Seen(s)'
  BY DEF Seen, Enforced, Undoing, InAudit

(* The adapter calls: what they do to the endpoint, and what the operation *)
(* takes along.                                                            *)
LEMMA AdapterActs ==
    ASSUME TypeOK, OwnEndpoints, NEW s \in Sessions, AdapterExecute(s) \/ AdapterRollback(s)
    PROVE  LET r == job[s].req
               e == TargetOf[r] IN
           /\ \A q \in Requests \ {r} : isolated'[TargetOf[q]] = isolated[TargetOf[q]]
           /\ UNCHANGED <<status, rollbacks>>
           /\ pc'[s] = "audit_read"
           /\ \/ /\ pc[s] = "execute" /\ executes' = [executes EXCEPT ![r] = @ + 1]
                 /\ job'[s].act = "executed" /\ (job'[s].ok => isolated'[e])
              \/ /\ pc[s] = "undo" /\ UNCHANGED executes
                 /\ job'[s].act = "rolled_back" /\ (job'[s].ok => ~isolated'[e])
                 /\ isolated'[e] => isolated[e]
<1> DEFINE r == job[s].req
           e == TargetOf[r]
<1>0. /\ r \in Requests /\ job[s] \in Job /\ r = job[s].req
      /\ isolated \in [Targets -> BOOLEAN] /\ e \in Targets
      /\ \A q \in Requests : TargetOf[q] \in Targets /\ (q # r => TargetOf[q] # e)
  BY ContainmentAssumption, StepIsLocal DEF TypeOK, OwnEndpoints, Step
<1>1. ASSUME NEW step, NEW j, Goto(s, step, j) PROVE pc'[s] = step /\ job'[s] = j
  BY <1>1 DEF Goto, TypeOK
<1>2. CASE AdapterExecute(s)
  <2>1. PICK ok \in BOOLEAN, b \in BOOLEAN :
          /\ \E up \in (IF ok THEN {TRUE} ELSE {TRUE, isolated[e]}) :
               isolated' = [isolated EXCEPT ![e] = up]
          /\ Goto(s, "audit_read", [job[s] EXCEPT !.act = "executed", !.ok = ok, !.reversible = b])
    BY <1>2 DEF AdapterExecute
  <2>2. PICK up \in BOOLEAN : isolated' = [isolated EXCEPT ![e] = up] /\ (ok => up)
    BY <1>0, <2>1
  <2> DEFINE j == [job[s] EXCEPT !.act = "executed", !.ok = ok, !.reversible = b]
  <2>3. j.ok = ok /\ j.act = "executed"
    BY <1>0 DEF Job
  <2>4. Goto(s, "audit_read", j)
    BY <2>1
  <2> HIDE DEF j
  <2>5. pc'[s] = "audit_read" /\ job'[s].act = "executed" /\ job'[s].ok = ok
    BY <1>1, <2>3, <2>4
  <2>6. isolated'[e] = up /\ \A q \in Requests \ {r} : isolated'[TargetOf[q]] = isolated[TargetOf[q]]
    BY <1>0, <2>2
  <2>7. /\ pc[s] = "execute" /\ executes' = [executes EXCEPT ![r] = @ + 1]
        /\ UNCHANGED <<status, rollbacks>>
    BY <1>2 DEF AdapterExecute, rows
  <2> QED BY <2>2, <2>5, <2>6, <2>7
<1>3. CASE AdapterRollback(s)
  <2>1. PICK ok \in BOOLEAN :
          /\ \E up \in (IF ok THEN {FALSE} ELSE {FALSE, isolated[e]}) :
               isolated' = [isolated EXCEPT ![e] = up]
          /\ Goto(s, "audit_read", [job[s] EXCEPT !.act = "rolled_back", !.ok = ok])
    BY <1>3 DEF AdapterRollback
  <2>2. PICK up \in BOOLEAN :
          isolated' = [isolated EXCEPT ![e] = up] /\ (ok => ~up) /\ (up => isolated[e])
    BY <1>0, <2>1
  <2> DEFINE j == [job[s] EXCEPT !.act = "rolled_back", !.ok = ok]
  <2>3. j.ok = ok /\ j.act = "rolled_back"
    BY <1>0 DEF Job
  <2>4. Goto(s, "audit_read", j)
    BY <2>1
  <2> HIDE DEF j
  <2>5. pc'[s] = "audit_read" /\ job'[s].act = "rolled_back" /\ job'[s].ok = ok
    BY <1>1, <2>3, <2>4
  <2>6. isolated'[e] = up /\ \A q \in Requests \ {r} : isolated'[TargetOf[q]] = isolated[TargetOf[q]]
    BY <1>0, <2>2
  <2>7. pc[s] = "undo" /\ UNCHANGED <<status, rollbacks, executes>>
    BY <1>3 DEF AdapterRollback, rows
  <2> QED BY <2>2, <2>5, <2>6, <2>7
<1> QED BY <1>2, <1>3

LEMMA AdapterKeepsEndpoint ==
    ASSUME OwnEndpoints, RaceInv, EndpointInv, NEW s \in Sessions,
           AdapterExecute(s) \/ AdapterRollback(s)
    PROVE  EndpointInv'
<1> USE DEF RaceInv
<1> DEFINE r == job[s].req
           e == TargetOf[r]
<1>0. /\ r \in Requests /\ r = job[s].req /\ executes \in [Requests -> Nat]
      /\ \A t \in Sessions \ {s} : pc'[t] = pc[t] /\ job'[t] = job[t]
      /\ pc'[s] # "idle" => job'[s].req = r
      /\ \A t \in Sessions : pc[t] # "idle" => job[t].req \in Requests
  BY StepIsLocal DEF TypeOK, Step
<1>1. /\ \A q \in Requests \ {r} : isolated'[TargetOf[q]] = isolated[TargetOf[q]]
      /\ UNCHANGED <<status, rollbacks>> /\ pc'[s] = "audit_read"
  BY AdapterActs
<1>2. CASE /\ pc[s] = "execute" /\ executes' = [executes EXCEPT ![r] = @ + 1]
           /\ job'[s].act = "executed" /\ (job'[s].ok => isolated'[e])
  <2>1. /\ executes'[r] = executes[r] + 1 /\ executes[r] \in Nat
        /\ \A q \in Requests \ {r} : executes'[q] = executes[q]
    BY <1>0, <1>2
  <2>2. ASSUME NEW q \in Requests PROVE AtEndpoint(q)'
    <3>1. CASE q # r
      BY <1>1, <2>1, <3>1 DEF EndpointInv, AtEndpoint
    <3>2. CASE q = r
      <4>1. executes'[r] <= 1 => executes[r] = 0
        BY <2>1
      <4>2. executes[r] = 0 =>
              ~(status[r] = "verified" /\ rollbacks[r] = 0) /\ status[r] # "rolled_back"
        BY <1>0 DEF EndpointInv, AtEndpoint
      <4> QED BY <1>1, <2>1, <3>2, <4>1, <4>2 DEF AtEndpoint
    <3> QED BY <3>1, <3>2
  <2>3. ASSUME NEW t \in Sessions PROVE Seen(t)'
    <3>1. CASE t = s
      BY <1>0, <1>1, <1>2, <3>1 DEF Seen, Enforced, Undoing, InAudit
    <3>2. CASE t # s /\ (Enforced(t) \/ Undoing(t))
      <4> DEFINE q == job[t].req
      <4>1. q \in Requests /\ pc'[t] = pc[t] /\ job'[t] = job[t]
        BY <1>0, <3>2 DEF Enforced, Undoing, InAudit
      <4>2. executes[q] > 0
        BY <3>2 DEF PromiseInv, EndpointInv, Seen
      <4>3. CASE q = r
        <5>1. executes'[q] > 1
          BY <2>1, <4>2, <4>3
        <5>2. ~(executes'[q] <= 1) /\ executes'[q] > 0
          BY <2>1, <4>2, <4>3
        <5> QED BY <1>1, <4>1, <5>2 DEF EndpointInv, Seen, Enforced, Undoing, InAudit
      <4>4. CASE q # r
        BY <1>1, <2>1, <4>1, <4>4 DEF EndpointInv, Seen, Enforced, Undoing, InAudit
      <4> QED BY <4>3, <4>4
    <3>3. CASE t # s /\ ~Enforced(t) /\ ~Undoing(t)
      BY <1>0, <3>3 DEF Seen, Enforced, Undoing, InAudit
    <3> QED BY <3>1, <3>2, <3>3
  <2> QED BY <2>2, <2>3 DEF EndpointInv
<1>3. CASE /\ pc[s] = "undo" /\ UNCHANGED executes
           /\ job'[s].act = "rolled_back" /\ (job'[s].ok => ~isolated'[e])
           /\ isolated'[e] => isolated[e]
  <2>1. rollbacks[r] > 0 /\ executes[r] > 0 /\ rollbacks[r] # 0
    <3>1. rollbacks[r] > 0 /\ executes[r] > 0
      BY <1>3 DEF EndpointInv, Seen, Undoing
    <3> QED BY <3>1
  <2>2. ASSUME NEW q \in Requests PROVE AtEndpoint(q)'
    <3>1. CASE q # r
      BY <1>1, <1>3, <3>1 DEF EndpointInv, AtEndpoint
    <3>2. CASE q = r
      BY <1>1, <1>3, <2>1, <3>2 DEF EndpointInv, AtEndpoint
    <3> QED BY <3>1, <3>2
  <2>3. ASSUME NEW t \in Sessions PROVE Seen(t)'
    <3>1. CASE t = s
      BY <1>0, <1>1, <1>3, <2>1, <3>1 DEF Seen, Enforced, Undoing, InAudit
    <3>2. CASE t # s /\ job[t].req = r
      BY <1>0, <1>1, <1>3, <2>1, <3>2 DEF EndpointInv, Seen, Enforced, Undoing, InAudit
    <3>3. CASE t # s /\ job[t].req # r
      BY <1>0, <1>1, <1>3, <3>3 DEF EndpointInv, Seen, Enforced, Undoing, InAudit
    <3> QED BY <3>1, <3>2, <3>3
  <2> QED BY <2>2, <2>3 DEF EndpointInv
<1> QED
  BY <1>2, <1>3, AdapterActs

LEMMA StepEndpoint ==
    ASSUME OwnEndpoints, RaceInv, EndpointInv, [Next]_vars
    PROVE  EndpointInv'
<1> USE DEF RaceInv
<1>1. ASSUME NEW s \in Sessions, InsertRequest(s) \/ DecisionCommit(s) \/ ClaimExecution(s) PROVE EndpointInv'
  <2> DEFINE r == job[s].req
  <2>1. /\ UNCHANGED <<isolated, executes, rollbacks>>
        /\ \A t \in Sessions \ {s} : pc'[t] = pc[t] /\ job'[t] = job[t]
    BY <1>1, StepIsLocal DEF Step, InsertRequest, DecisionCommit, Decide, ClaimExecution
  <2>2. /\ pc[s] \in {"insert", "decide", "claim"}
        /\ \A q \in Requests : status'[q] # status[q] => status'[q] \in Unenforced \cup {"executing"}
        /\ \/ pc'[s] \in {"idle", "execute"}
           \/ pc'[s] = "audit_read" /\ job'[s].act \in {"requested", "approved", "rejected"}
    <3>1. Step(s) /\ pc[s] \in {"insert", "decide", "claim"}
      BY <1>1 DEF Step, InsertRequest, DecisionCommit, ClaimExecution
    <3>2. CASE UNCHANGED status
      BY <1>1, <3>1, <3>2 DEF InsertRequest, DecisionCommit, Decide, ClaimExecution, Return, Goto, TypeOK, Job
    <3> QED BY <3>1, <3>2, StepWrites DEF Unenforced
  <2>3. \A q \in Requests : status'[q] # status[q] => AtEndpoint(q)'
    BY <2>1, <2>2 DEF EndpointInv, AtEndpoint, Unenforced
  <2>4. Seen(s)'
    BY <2>2, SeenNothing DEF InAudit
  <2> QED BY <2>1, <2>3, <2>4, EndpointFrame
<1>2. ASSUME NEW s \in Sessions, RecordExecution(s) \/ RecordRollback(s) PROVE EndpointInv'
  <2> DEFINE r == job[s].req
  <2>1. /\ UNCHANGED <<isolated, executes, rollbacks>> /\ pc'[s] = "idle"
        /\ \A t \in Sessions \ {s} : pc'[t] = pc[t] /\ job'[t] = job[t]
        /\ r \in Requests
    BY <1>2, StepIsLocal, ReturnIsLocal DEF Step, RecordExecution, RecordRollback
  <2>2. \A q \in Requests : status'[q] # status[q] => q = r
    BY <1>2, StepWrites DEF Step
  <2>3. /\ status'[r] = status[r] \/ status'[r] \in {"verified", "failed", "rolled_back"}
        /\ status'[r] # status[r] /\ status'[r] = "verified" => Enforced(s) /\ job[s].ok
        /\ status'[r] # status[r] /\ status'[r] = "rolled_back" =>
               Undoing(s) /\ job[s].ok /\ pc[s] = "record_undo"
    <3>1. CASE RecordExecution(s)
      BY <2>1, <3>1 DEF RecordExecution, Record, TypeOK, Enforced
    <3>2. CASE RecordRollback(s)
      <4>1. PICK told \in {status[r], Outcome(s)} : status' = [status EXCEPT ![r] = told]
        BY <3>2, RollbackTells
      <4>2. status'[r] = told /\ pc[s] = "record_undo"
        BY <2>1, <3>2, <4>1 DEF TypeOK, RecordRollback
      <4> QED BY <4>1, <4>2 DEF Outcome, Undoing
    <3> QED BY <1>2, <3>1, <3>2
  <2>4. \A q \in Requests : status'[q] # status[q] => AtEndpoint(q)'
    BY <2>1, <2>2, <2>3 DEF EndpointInv, AtEndpoint, Seen
  <2>5. Seen(s)'
    BY <2>1, SeenNothing
  <2> QED BY <2>1, <2>4, <2>5, EndpointFrame
<1>3. ASSUME NEW s \in Sessions, AuditRead(s) \/ AuditAppend(s) PROVE EndpointInv'
  <2>1. /\ UNCHANGED <<status, isolated, executes, rollbacks>>
        /\ \A t \in Sessions \ {s} : pc'[t] = pc[t] /\ job'[t] = job[t]
        /\ pc'[s] # "idle" => job'[s].req = job[s].req
    BY <1>3, StepIsLocal DEF Step, AuditRead, AuditAppend, rows
  <2>2. CASE AuditRead(s)
    <3> DEFINE j == [job[s] EXCEPT !.head = Len(audit)]
    <3>1. j.act = job[s].act /\ j.ok = job[s].ok
      BY DEF TypeOK, Job
    <3>2. pc[s] = "audit_read" /\ Goto(s, "audit_append", j)
      BY <2>2 DEF AuditRead
    <3> HIDE DEF j
    <3>3. pc'[s] = "audit_append" /\ job'[s] = j
      BY <3>2 DEF Goto, TypeOK
    <3>4. Seen(s)'
      BY <2>1, <3>1, <3>2, <3>3 DEF EndpointInv, Seen, Enforced, Undoing, InAudit
    <3> QED BY <2>1, <3>4, EndpointFrame
  <2>3. CASE AuditAppend(s)
    <3> DEFINE j == [job[s] EXCEPT !.hash = Len(audit) + 1]
    <3>1. j.act = job[s].act /\ j.ok = job[s].ok
      BY DEF TypeOK, Job
    <3>2. /\ pc[s] = "audit_append"
          /\ \/ job[s].act = "executed" /\ Goto(s, "record", j)
             \/ job[s].act = "rolled_back" /\ Goto(s, "undo_request", j)
             \/ Return(s)
      BY <2>3 DEF AuditAppend, AfterAudit
    <3> HIDE DEF j
    <3>3. \/ job[s].act = "executed" /\ pc'[s] = "record" /\ job'[s] = j
          \/ job[s].act = "rolled_back" /\ pc'[s] = "undo_request" /\ job'[s] = j
          \/ pc'[s] = "idle"
      BY <3>2 DEF Goto, Return, TypeOK
    <3>4. Seen(s)'
      BY <2>1, <3>1, <3>2, <3>3 DEF EndpointInv, Seen, Enforced, Undoing, InAudit
    <3> QED BY <2>1, <3>4, EndpointFrame
  <2> QED BY <1>3, <2>2, <2>3
<1>9. ASSUME NEW s \in Sessions, Loading(s) PROVE EndpointInv'
  <2>1. /\ UNCHANGED <<status, isolated, executes, rollbacks>>
        /\ Undoing(s) /\ pc[s] # "undo" /\ ~Enforced(s)
    BY <1>9, LoadMoves DEF rows, Undoing, Enforced, InAudit
  <2>2. PICK step \in {"undo_evidence", "record_undo"}, j \in Job :
          Goto(s, step, j) /\ j.req = job[s].req /\ j.ok = job[s].ok
    BY <1>9, LoadMoves
  <2>3. pc'[s] = step /\ job'[s] = j /\ \A t \in Sessions \ {s} : pc'[t] = pc[t] /\ job'[t] = job[t]
    BY <2>2 DEF Goto, TypeOK
  <2>4. Seen(s)'
    BY <2>1, <2>2, <2>3 DEF EndpointInv, Seen, Enforced, Undoing, InAudit
  <2> QED BY <2>1, <2>3, <2>4, EndpointFrame
<1>4. ASSUME NEW s \in Sessions, NEW r \in Requests, RollbackRead(s, r) PROVE EndpointInv'
  <2>1. /\ \A t \in Sessions \ {s} : pc'[t] = pc[t] /\ job'[t] = job[t]
        /\ job'[s].req = r /\ UNCHANGED <<status, isolated, executes>>
    BY <1>4, CallIsLocal DEF Call
  <2>2. /\ rollbacks' = [rollbacks EXCEPT ![r] = @ + 1] /\ rollbacks \in [Requests -> Nat]
        /\ execution[r].status = "verified" /\ pc'[s] = "undo"
    BY <1>4 DEF RollbackRead, Start, Goto, TypeOK
  <2>3. /\ executes[r] > 0 /\ rollbacks'[r] > 0
        /\ \A q \in Requests : (rollbacks[q] > 0 => rollbacks'[q] > 0) /\ (rollbacks'[q] = 0 => rollbacks[q] = 0)
    BY <2>2 DEF EnforceInv
  <2>4. \A q \in Requests : AtEndpoint(q)'
    BY <2>1, <2>3 DEF EndpointInv, AtEndpoint
  <2>5. Seen(s)'
    BY <2>1, <2>2, <2>3 DEF Seen, Enforced, Undoing, InAudit
  <2>6. ASSUME NEW t \in Sessions \ {s} PROVE Seen(t)'
    <3>1. Enforced(t) \/ Undoing(t) => job[t].req \in Requests
      BY DEF Enforced, Undoing, InAudit, TypeOK
    <3> QED BY <2>1, <2>3, <3>1 DEF EndpointInv, Seen, Enforced, Undoing, InAudit
  <2> QED BY <2>4, <2>5, <2>6 DEF EndpointInv
<1>5. ASSUME NEW s \in Sessions, NEW r \in Requests, Call(s, r), ~RollbackRead(s, r) PROVE EndpointInv'
  <2>1. pc'[s] \in {"insert", "decide", "claim"} /\ UNCHANGED rollbacks
    BY <1>5 DEF Call, RequestRead, DecisionRead, ExecuteRead, Start, Goto, TypeOK
  <2> QED BY <1>5, <2>1, CallIsLocal, SeenNothing, EndpointFrame
<1>6. ASSUME NEW s \in Sessions, Fail(s) PROVE EndpointInv'
  BY <1>6, ReturnIsLocal, SeenNothing, EndpointFrame DEF Fail, rows
<1>7. CASE Restart
  BY <1>7, SeenNothing, EndpointFrame DEF Restart, rows
<1>8. CASE UNCHANGED vars
  BY <1>8, EndpointFrame DEF vars, rows
<1> QED
  BY <1>1, <1>2, <1>3, <1>4, <1>5, <1>6, <1>7, <1>8, <1>9, AdapterKeepsEndpoint
  DEF Next, Step, Loading

(* However operations race and fail: as long as no request was enforced    *)
(* twice, what an operator reads is true of the endpoint, when requests    *)
(* have endpoints of their own.                                            *)
THEOREM StatusOfOneExecution ==
    ASSUME OwnEndpoints
    PROVE  Spec => [](AtMostOneExecution => StatusTellsEndpoint)
<1>1. RaceInv /\ EndpointInv /\ [Next]_vars => EndpointInv'
  BY StepEndpoint
<1>2. RaceInv /\ EndpointInv => (AtMostOneExecution => StatusTellsEndpoint)
  BY EndpointTells
<1> QED
  BY <1>1, <1>2, InitEndpoint, RacesAreGoverned, PTL DEF Spec

(* execute() and rollback(): as long as no two calls claim one request     *)
(* together, what an operator reads is true of the endpoint.               *)
THEOREM StatusIsTrue ==
    ASSUME OwnEndpoints
    PROVE  Spec /\ []OneClaim => []StatusTellsEndpoint
  BY StatusOfOneExecution, OneExecution, PTL

(* Operations that come one at a time meet neither race.                   *)
COROLLARY SequentialOperations ==
    ASSUME \A s, t \in Sessions : s = t
    PROVE  Spec => [](AtMostOneExecution /\ ChainLinked)
<1>1. OneClaim /\ OneAppender
  BY DEF OneClaim, OneAppender
<1> QED
  BY <1>1, OneExecution, ChainIsLinked, PTL
=============================================================================
