------------------------ MODULE ActiveResponse_proofs ------------------------
(***************************************************************************)
(* Theorems about ActiveResponse, for any requests about any endpoints,    *)
(* any number of racing calls, and any time limits.                        *)
(***************************************************************************)
EXTENDS ActiveResponse, TLAPS

(* What is known of the service, whatever adapter it has.                  *)
Q == INSTANCE GovernedContainment_proofs

WaitStates == [step : {"idle", "sent", "poll", "sleep"}, since : Nat, deadline : Nat, wake : Nat]

(* The adapter call of a session is under way only at the service's own    *)
(* call of the adapter, and everything sent is about an approved request.  *)
Inv ==
    /\ Q!TypeOK /\ Q!GovernInv
    /\ clock \in 0..MaxTime
    /\ wait \in [Sessions -> WaitStates]
    /\ \A s \in Sessions : ~Waits(s, "idle") => pc[s] \in {"execute", "undo"}
    /\ \A c \in commands : c.from \in Sessions /\ c.req \in Requests /\ c.action \in {"isolate", "release"}
                           /\ approval[c.req] = "approved"
    /\ \A m \in posted \cup receipts : <<m.req, m.action>> \in proven
    /\ proven \subseteq Requests \X {"isolate", "release"}

(* RecordIsProven is not inductive: a call that is about to audit or to    *)
(* record a verified result found a receipt, which proves it.              *)
UndoSteps == {"undo_request", "undo_evidence", "record_undo"}

Proven(s) ==
    /\ Q!InAudit(s) \/ pc[s] \in {"record"} \cup UndoSteps =>
         /\ job[s].act = "executed" /\ job[s].ok    => <<job[s].req, "isolate">> \in proven
         /\ job[s].act = "rolled_back" /\ job[s].ok => <<job[s].req, "release">> \in proven
    /\ pc[s] = "record" => job[s].act = "executed"
    /\ pc[s] \in UndoSteps => job[s].act = "rolled_back"

ProvenInv == RecordIsProven /\ \A s \in Sessions : Proven(s)
----------------------------------------------------------------------------
(***************************************************************************)
(* The steps of the service are those GovernedContainment_proofs speaks of.*)
(***************************************************************************)
LEMMA SameGoto ==
    /\ \A s, step, j : G!Goto(s, step, j) <=> Q!Goto(s, step, j)
    /\ \A s : G!Return(s) <=> Q!Return(s)
    /\ \A s, step, r : G!Start(s, step, r) <=> Q!Start(s, step, r)
    /\ \A r : G!KeyTaken(r) <=> Q!KeyTaken(r)
  BY DEF G!Goto, Q!Goto, G!Return, Q!Return, G!NoJob, Q!NoJob, G!Start, Q!Start, G!KeyTaken, Q!KeyTaken

LEMMA SameCall == \A s, r : G!Call(s, r) => Q!Call(s, r)
  BY SameGoto, Zenon DEF G!Call, Q!Call, G!RequestRead, Q!RequestRead, G!DecisionRead, Q!DecisionRead,
     G!ExecuteRead, Q!ExecuteRead, G!RollbackRead, Q!RollbackRead, G!rows, Q!rows

LEMMA SameDecide == \A s, decision : G!Decide(s, decision) => Q!Decide(s, decision)
  BY SameGoto, Zenon DEF G!Decide, Q!Decide

LEMMA SameOutcome == \A s : G!Outcome(s) = Q!Outcome(s)
  BY DEF G!Outcome, Q!Outcome

LEMMA SameStep ==
    \A s : /\ G!InsertRequest(s) => Q!InsertRequest(s)
           /\ G!DecisionCommit(s) => Q!DecisionCommit(s)
           /\ G!ClaimExecution(s) => Q!ClaimExecution(s)
           /\ G!RecordExecution(s) => Q!RecordExecution(s)
           /\ G!RollbackLoadRequest(s) => Q!RollbackLoadRequest(s)
           /\ G!RollbackLoadExecution(s) => Q!RollbackLoadExecution(s)
           /\ G!RecordRollback(s) => Q!RecordRollback(s)
           /\ G!AuditRead(s) => Q!AuditRead(s)
           /\ G!AuditAppend(s) => Q!AuditAppend(s)
<1> SUFFICES ASSUME NEW s
             PROVE  /\ G!InsertRequest(s) => Q!InsertRequest(s)
                    /\ G!DecisionCommit(s) => Q!DecisionCommit(s)
                    /\ G!ClaimExecution(s) => Q!ClaimExecution(s)
                    /\ G!RecordExecution(s) => Q!RecordExecution(s)
                    /\ G!RollbackLoadRequest(s) => Q!RollbackLoadRequest(s)
                    /\ G!RollbackLoadExecution(s) => Q!RollbackLoadExecution(s)
                    /\ G!RecordRollback(s) => Q!RecordRollback(s)
                    /\ G!AuditRead(s) => Q!AuditRead(s)
                    /\ G!AuditAppend(s) => Q!AuditAppend(s)
  OBVIOUS
<1>1. G!InsertRequest(s) => Q!InsertRequest(s)
  BY SameGoto, Zenon DEF G!InsertRequest, Q!InsertRequest
<1>2. G!DecisionCommit(s) => Q!DecisionCommit(s)
  BY SameGoto, SameDecide, Zenon DEF G!DecisionCommit, Q!DecisionCommit, G!rows, Q!rows
<1>3. G!ClaimExecution(s) => Q!ClaimExecution(s)
  BY SameGoto, Zenon DEF G!ClaimExecution, Q!ClaimExecution
<1>4. G!RecordExecution(s) => Q!RecordExecution(s)
  BY SameGoto, Zenon DEF G!RecordExecution, Q!RecordExecution, G!Record, Q!Record
<1>5. G!RecordRollback(s) => Q!RecordRollback(s)
  BY SameGoto, SameOutcome, Zenon DEF G!RecordRollback, Q!RecordRollback
<1>6. G!AuditRead(s) => Q!AuditRead(s)
  BY SameGoto, Zenon DEF G!AuditRead, Q!AuditRead, G!rows, Q!rows
<1>7. G!AuditAppend(s) => Q!AuditAppend(s)
  <2>1. \A hash : G!AfterAudit(s, hash) => Q!AfterAudit(s, hash)
    BY SameGoto, Zenon DEF G!AfterAudit, Q!AfterAudit
  <2> QED BY <2>1, Zenon DEF G!AuditAppend, Q!AuditAppend, G!rows, Q!rows
<1>8. G!RollbackLoadRequest(s) => Q!RollbackLoadRequest(s)
  BY SameGoto, SameOutcome, Zenon DEF G!RollbackLoadRequest, Q!RollbackLoadRequest, G!rows, Q!rows
<1>9. G!RollbackLoadExecution(s) => Q!RollbackLoadExecution(s)
  BY SameGoto, SameOutcome, Zenon DEF G!RollbackLoadExecution, Q!RollbackLoadExecution, G!rows, Q!rows
<1> QED
  BY <1>1, <1>2, <1>3, <1>4, <1>5, <1>6, <1>7, <1>8, <1>9

(* A call that is abandoned, alone or with all others.                     *)
Abandon == (\E s \in Sessions : Fail(s)) \/ Restart

LEMMA SameAbandon == Abandon => Q!Next
<1>1. \A s : Fail(s) => Q!Fail(s)
  BY SameGoto, Zenon DEF Fail, G!Fail, Q!Fail, G!rows, Q!rows
<1>2. Restart => Q!Restart
  BY Zenon DEF Restart, G!Restart, Q!Restart, G!rows, Q!rows, G!NoJob, Q!NoJob
<1> QED
  BY <1>1, <1>2, Zenon DEF Abandon, Q!Next

LEMMA SameType == Q!TypeOK <=> G!TypeOK
  BY Zenon DEF G!TypeOK, Q!TypeOK, G!Statuses, Q!Statuses, G!Acts, Q!Acts, G!Steps, Q!Steps,
     G!Entry, Q!Entry, G!Execution, Q!Execution, G!Job, Q!Job

LEMMA Assumed == Q!ContainmentAssumption /\ RequestTimeout \in Nat /\ Timeout \in Nat /\ Poll \in Nat
                 /\ MaxTime \in Nat
  BY ResponseAssumption DEF ResponseAssumption, G!ContainmentAssumption, Q!ContainmentAssumption

LEMMA SameInit == G!Init => Q!Init
  BY Zenon DEF G!Init, Q!Init, G!NoExecution, Q!NoExecution, G!NoJob, Q!NoJob
----------------------------------------------------------------------------
(***************************************************************************)
(* A step of the service leaves the adapter calls where they are, and      *)
(* takes no approval back.                                                 *)
(***************************************************************************)
LEMMA ServiceStep ==
    ASSUME NEW s \in Sessions, Service(s) \/ \E r \in Requests : G!Call(s, r) /\ UNCHANGED wazuh
    PROVE  Q!Next
<1>1. CASE Service(s)
  BY <1>1, SameStep DEF Service, Q!Next, Q!Step
<1>2. CASE \E r \in Requests : G!Call(s, r) /\ UNCHANGED wazuh
  BY <1>2, SameCall DEF Q!Next
<1> QED
  BY <1>1, <1>2

LEMMA ServiceKeeps ==
    ASSUME Q!TypeOK, Q!GovernInv, NEW s \in Sessions,
           Service(s) \/ \E r \in Requests : G!Call(s, r) /\ UNCHANGED wazuh
    PROVE  /\ Q!TypeOK' /\ Q!GovernInv' /\ UNCHANGED wazuh
           /\ \A t \in Sessions : pc[t] \in {"execute", "undo"} => pc'[t] = pc[t]
           /\ \A r \in Requests : approval[r] = "approved" => approval'[r] = "approved"
<1>1. Q!TypeOK' /\ Q!GovernInv'
  BY ServiceStep, Assumed, Q!StepType, Q!StepGovern
<1>2. UNCHANGED wazuh
  BY DEF Service
<1>3. pc[s] \notin {"execute", "undo"} /\ \E step : pc' = [pc EXCEPT ![s] = step]
  <2>1. CASE Service(s)
    <3> USE DEF G!Goto, G!Return
    <3>0. CASE G!RollbackLoadRequest(s) \/ G!RollbackLoadExecution(s)
      BY <3>0 DEF G!RollbackLoadRequest, G!RollbackLoadExecution
    <3>1. CASE G!InsertRequest(s) \/ G!ClaimExecution(s) \/ G!RecordExecution(s) \/ G!RecordRollback(s)
               \/ G!AuditRead(s)
      BY <3>1 DEF G!InsertRequest, G!ClaimExecution, G!RecordExecution, G!RecordRollback, G!AuditRead
    <3>2. CASE G!DecisionCommit(s)
      BY <3>2 DEF G!DecisionCommit, G!Decide
    <3>3. CASE G!AuditAppend(s)
      BY <3>3 DEF G!AuditAppend, G!AfterAudit
    <3> QED BY <2>1, <3>0, <3>1, <3>2, <3>3 DEF Service
  <2>2. ASSUME NEW r \in Requests, G!Call(s, r) PROVE pc[s] = "idle" /\ \E step : pc' = [pc EXCEPT ![s] = step]
    BY <2>2 DEF G!Call, G!RequestRead, G!DecisionRead, G!ExecuteRead, G!RollbackRead, G!Start, G!Goto
  <2> QED BY <2>1, <2>2
<1>4. \A t \in Sessions : pc[t] \in {"execute", "undo"} => pc'[t] = pc[t]
  BY <1>3 DEF Q!TypeOK
<1>5. \A r \in Requests : approval[r] = "approved" => approval'[r] = "approved"
  <2>1. CASE UNCHANGED approval
    BY <2>1
  <2>2. CASE G!DecisionCommit(s) /\ approval[job[s].req] = "none"
    <3>1. PICK d \in {"approved", "rejected"} : G!Decide(s, d)
      BY <2>2 DEF G!DecisionCommit
    <3> QED BY <2>2, <3>1 DEF G!Decide, Q!TypeOK
  <2>3. UNCHANGED approval \/ (G!DecisionCommit(s) /\ approval[job[s].req] = "none")
    BY DEF Service, G!Call, G!RequestRead, G!DecisionRead, G!ExecuteRead, G!RollbackRead,
       G!InsertRequest, G!ClaimExecution, G!RecordExecution, G!RollbackLoadRequest,
       G!RollbackLoadExecution, G!RecordRollback, G!AuditRead, G!AuditAppend, G!DecisionCommit, G!rows
  <2> QED BY <2>1, <2>2, <2>3
<1> QED
  BY <1>1, <1>2, <1>4, <1>5

(***************************************************************************)
(* A session at the adapter works on an approved request.                  *)
(***************************************************************************)
LEMMA AtAdapter ==
    ASSUME Inv, NEW s \in Sessions, pc[s] \in {"execute", "undo"}
    PROVE  /\ job[s] \in Q!Job /\ job[s].req \in Requests /\ approval[job[s].req] = "approved"
           /\ Action(s) \in {"isolate", "release"}
  BY DEF Inv, Q!TypeOK, Q!GovernInv, Q!Enforcing, Action

(* What the counted calls of the adapter keep.                             *)
Counts(s) ==
    executes' = IF Action(s) = "isolate" THEN [executes EXCEPT ![job[s].req] = @ + 1] ELSE executes

LEMMA CountsKeep ==
    ASSUME Inv, NEW s \in Sessions, pc[s] \in {"execute", "undo"}, Counts(s) \/ UNCHANGED executes
    PROVE  /\ executes' \in [Requests -> Nat]
           /\ \A r \in Requests : executes'[r] > 0 => approval[r] = "approved"
<1>1. job[s].req \in Requests /\ approval[job[s].req] = "approved"
  BY AtAdapter
<1>2. executes \in [Requests -> Nat] /\ \A r \in Requests : executes[r] > 0 => approval[r] = "approved"
  BY DEF Inv, Q!TypeOK, Q!GovernInv, Q!DecisionGoverns
<1> QED
  BY <1>1, <1>2 DEF Counts

(***************************************************************************)
(* The answer, as the audit that follows sees it.                          *)
(***************************************************************************)
LEMMA AnswerGoes ==
    ASSUME Inv, NEW s \in Sessions, pc[s] \in {"execute", "undo"}, NEW verified \in BOOLEAN,
           Answer(s, verified)
    PROVE  \E j \in Q!Job : /\ Q!Goto(s, "audit_read", j) /\ j.req = job[s].req /\ j.ok = verified
                            /\ j.act \in {"executed", "rolled_back"}
                            /\ (j.act = "executed") <=> (Action(s) = "isolate")
<1>1. PICK a \in {"executed", "rolled_back"}, b \in BOOLEAN :
        /\ a = IF Action(s) = "isolate" THEN "executed" ELSE "rolled_back"
        /\ b = (verified /\ Action(s) = "isolate")
  OBVIOUS
<1> DEFINE j == [job[s] EXCEPT !.act = a, !.ok = verified, !.reversible = b]
<1>2. Q!Goto(s, "audit_read", j)
  BY <1>1, SameGoto DEF Answer
<1>3. /\ j \in Q!Job /\ j.req = job[s].req /\ j.ok = verified /\ j.act = a
  BY AtAdapter DEF Q!Job, Q!Acts
<1> HIDE DEF j
<1> QED
  BY <1>1, <1>2, <1>3

LEMMA AnswerKeeps ==
    ASSUME Inv, NEW s \in Sessions, pc[s] \in {"execute", "undo"}, NEW verified \in BOOLEAN,
           Answer(s, verified), Counts(s) \/ UNCHANGED executes,
           UNCHANGED <<rows, audit, signing, rollbacks, isolated, clock, commands, posted, receipts, proven>>
    PROVE  Inv'
<1>1. PICK j \in Q!Job : /\ Q!Goto(s, "audit_read", j) /\ j.req = job[s].req
                         /\ j.act \in {"executed", "rolled_back"}
  BY AnswerGoes
<1>2. /\ job[s].req \in Requests /\ approval[job[s].req] = "approved"
      /\ executes' \in [Requests -> Nat]
      /\ \A r \in Requests : executes'[r] > 0 => approval[r] = "approved"
  BY AtAdapter, CountsKeep
<1>3. Q!TypeOK'
  <2>1. "audit_read" \in Q!Steps /\ j.act \in Q!Acts /\ Q!TypeOK
    BY <1>1 DEF Q!Steps, Q!Acts, Inv
  <2>2. /\ pc' \in [Sessions -> Q!Steps] /\ job' \in [Sessions -> Q!Job]
        /\ \A t \in Sessions : pc'[t] # "idle" => job'[t].req \in Requests
        /\ \A t \in Sessions : pc'[t] \in {"audit_read", "audit_append"} => job'[t].act \in Q!Acts
    BY <1>1, <1>2, <2>1, Assumed, Q!GotoType
  <2> QED BY <1>2, <2>1, <2>2 DEF Q!TypeOK, rows
<1>4. Q!GovernInv'
  BY <1>1, <1>2 DEF Inv, Q!GovernInv, Q!DecisionGoverns, Q!Enforcing, Q!InAudit, Q!Goto, Q!TypeOK, rows
<1>5. /\ wait' \in [Sessions -> WaitStates]
      /\ \A t \in Sessions : wait'[t].step # "idle" => pc'[t] \in {"execute", "undo"}
  <2>1. NoWait \in WaitStates /\ NoWait.step = "idle" /\ wait' = [wait EXCEPT ![s] = NoWait]
    BY DEF NoWait, WaitStates, Answer
  <2> QED BY <1>1, <2>1 DEF Inv, Waits, Q!Goto, Q!TypeOK
<1> QED
  BY <1>3, <1>4, <1>5 DEF Inv, Waits, rows

(***************************************************************************)
(* A step of the adapter that does not answer.                             *)
(***************************************************************************)
LEMMA WaitKeeps ==
    ASSUME Inv, NEW s \in Sessions, pc[s] \in {"execute", "undo"}, NEW w \in WaitStates,
           wait' = [wait EXCEPT ![s] = w], Counts(s) \/ UNCHANGED executes,
           commands' \subseteq commands \cup {[from |-> s, req |-> job[s].req, action |-> Action(s)]},
           UNCHANGED <<rows, audit, signing, rollbacks, pc, job, isolated, clock, posted, receipts, proven>>
    PROVE  Inv'
<1>1. /\ job[s].req \in Requests /\ approval[job[s].req] = "approved"
      /\ Action(s) \in {"isolate", "release"}
      /\ executes' \in [Requests -> Nat]
      /\ \A r \in Requests : executes'[r] > 0 => approval[r] = "approved"
  BY AtAdapter, CountsKeep
<1>2. Q!TypeOK'
  BY <1>1 DEF Inv, Q!TypeOK, rows
<1>3. Q!GovernInv'
  BY <1>1 DEF Inv, Q!GovernInv, Q!DecisionGoverns, Q!Enforcing, Q!InAudit, rows
<1>4. /\ wait' \in [Sessions -> WaitStates]
      /\ \A t \in Sessions : wait'[t].step # "idle" => pc'[t] \in {"execute", "undo"}
  BY DEF Inv, Waits
<1>5. \A c \in commands' : c.from \in Sessions /\ c.req \in Requests /\ c.action \in {"isolate", "release"}
                           /\ approval'[c.req] = "approved"
  BY <1>1 DEF Inv, rows
<1> QED
  BY <1>2, <1>3, <1>4, <1>5 DEF Inv, Waits

(***************************************************************************)
(* Calls that are abandoned leave the rows, and what was sent and posted.  *)
(***************************************************************************)
LEMMA AbandonKeeps ==
    ASSUME Inv, Abandon
    PROVE  /\ UNCHANGED <<rows, audit, isolated, executes, rollbacks>>
           /\ UNCHANGED <<clock, commands, posted, receipts, proven>>
           /\ wait' \in [Sessions -> WaitStates]
           /\ \A t \in Sessions : \/ pc'[t] = pc[t] /\ job'[t] = job[t] /\ wait'[t] = wait[t]
                                  \/ pc'[t] = "idle" /\ wait'[t] = NoWait
<1>1. NoWait \in WaitStates /\ wait \in [Sessions -> WaitStates] /\ Q!TypeOK
  BY DEF NoWait, WaitStates, Inv
<1>2. ASSUME NEW s \in Sessions, Fail(s)
      PROVE  /\ wait' \in [Sessions -> WaitStates]
             /\ \A t \in Sessions : \/ pc'[t] = pc[t] /\ job'[t] = job[t] /\ wait'[t] = wait[t]
                                    \/ pc'[t] = "idle" /\ wait'[t] = NoWait
  BY <1>1, <1>2 DEF Fail, G!Fail, G!Return, G!Goto, Q!TypeOK
<1>3. ASSUME Restart
      PROVE  /\ wait' \in [Sessions -> WaitStates]
             /\ \A t \in Sessions : pc'[t] = "idle" /\ wait'[t] = NoWait
  BY <1>1, <1>3 DEF Restart, G!Restart
<1>4. /\ UNCHANGED <<rows, audit, isolated, executes, rollbacks>>
      /\ UNCHANGED <<clock, commands, posted, receipts, proven>>
  BY DEF Abandon, Fail, Restart, G!Fail, G!Restart, rows, G!rows
<1> QED
  BY <1>2, <1>3, <1>4 DEF Abandon
----------------------------------------------------------------------------
LEMMA InitInv == Init => Inv
<1> SUFFICES ASSUME Init PROVE Inv
  OBVIOUS
<1>1. Q!TypeOK /\ Q!GovernInv
  BY Assumed, SameInit, Q!InitType, Q!InitGovern DEF Init
<1>2. NoWait \in WaitStates /\ NoWait.step = "idle"
  BY DEF NoWait, WaitStates
<1> QED
  BY <1>1, <1>2, Assumed DEF Init, Inv, Waits

LEMMA StepInv == Inv /\ [Next]_vars => Inv'
<1> SUFFICES ASSUME Inv, [Next]_vars PROVE Inv'
  OBVIOUS
<1>0. /\ wait \in [Sessions -> WaitStates] /\ clock \in Nat /\ MaxTime \in Nat
      /\ \A s \in Sessions : ~Waits(s, "idle") => pc[s] \in {"execute", "undo"}
  BY Assumed DEF Inv
<1>1. ASSUME NEW s \in Sessions,
             Service(s) \/ \E r \in Requests : G!Call(s, r) /\ UNCHANGED wazuh
      PROVE  Inv'
  <2>1. /\ Q!TypeOK' /\ Q!GovernInv' /\ UNCHANGED wazuh
        /\ \A t \in Sessions : pc[t] \in {"execute", "undo"} => pc'[t] = pc[t]
        /\ \A r \in Requests : approval[r] = "approved" => approval'[r] = "approved"
    BY <1>1, ServiceKeeps DEF Inv
  <2> QED BY <2>1 DEF Inv, Waits, wazuh
<1>2. ASSUME NEW s \in Sessions, Refuse(s) PROVE Inv'
  BY <1>2, AnswerKeeps DEF Refuse, Counts
<1>3. ASSUME NEW s \in Sessions, Send(s) PROVE Inv'
  <2>1. PICK w : w = [NoWait EXCEPT !.step = "sent", !.since = clock]
    OBVIOUS
  <2>2. w \in WaitStates
    BY <1>0, <2>1 DEF NoWait, WaitStates
  <2> QED BY <1>3, <2>1, <2>2, WaitKeeps DEF Send, Counts
<1>4. ASSUME NEW s \in Sessions, Acknowledge(s) PROVE Inv'
  <2>1. pc[s] \in {"execute", "undo"} /\ UNCHANGED executes
    BY <1>0, <1>4 DEF Acknowledge, Waits
  <2>2. CASE Answer(s, FALSE)
    BY <1>4, <2>1, <2>2, AnswerKeeps DEF Acknowledge
  <2>3. CASE /\ wait' = [wait EXCEPT ![s] = [@ EXCEPT !.step = "poll", !.deadline = clock + Timeout]]
             /\ UNCHANGED <<pc, job>>
    <3>0. PICK d \in Nat : d = clock + Timeout
      BY <1>0, Assumed
    <3>1. PICK w : w = [wait[s] EXCEPT !.step = "poll", !.deadline = d]
      OBVIOUS
    <3>2. w \in WaitStates
      <4>1. wait[s] \in WaitStates
        BY <1>0
      <4> QED BY <3>1, <4>1 DEF WaitStates
    <3>3. wait' = [wait EXCEPT ![s] = w]
      BY <2>3, <3>0, <3>1
    <3> QED BY <1>4, <2>1, <2>3, <3>2, <3>3, WaitKeeps DEF Acknowledge
  <2> QED BY <1>4, <2>2, <2>3 DEF Acknowledge
<1>5. ASSUME NEW s \in Sessions, LookUp(s) PROVE Inv'
  <2>1. pc[s] \in {"execute", "undo"} /\ UNCHANGED executes
    BY <1>0, <1>5 DEF LookUp, Waits
  <2>2. ASSUME NEW verified \in BOOLEAN, Answer(s, verified) PROVE Inv'
    BY <1>5, <2>1, <2>2, AnswerKeeps DEF LookUp
  <2>3. CASE /\ wait' = [wait EXCEPT ![s] = [@ EXCEPT !.step = "sleep", !.wake = clock + Poll]]
             /\ UNCHANGED <<pc, job>>
    <3>0. PICK d \in Nat : d = clock + Poll
      BY <1>0, Assumed
    <3>1. PICK w : w = [wait[s] EXCEPT !.step = "sleep", !.wake = d]
      OBVIOUS
    <3>2. w \in WaitStates
      <4>1. wait[s] \in WaitStates
        BY <1>0
      <4> QED BY <3>1, <4>1 DEF WaitStates
    <3>3. wait' = [wait EXCEPT ![s] = w]
      BY <2>3, <3>0, <3>1
    <3> QED BY <1>5, <2>1, <2>3, <3>2, <3>3, WaitKeeps DEF LookUp
  <2> QED BY <1>5, <2>2, <2>3 DEF LookUp
<1>6. ASSUME NEW s \in Sessions, Wake(s) PROVE Inv'
  <2>1. PICK w : w = [wait[s] EXCEPT !.step = "poll"]
    OBVIOUS
  <2>2. w \in WaitStates /\ pc[s] \in {"execute", "undo"}
    BY <1>0, <1>6, <2>1 DEF WaitStates, Wake, Waits
  <2>3. wait' = [wait EXCEPT ![s] = w]
    BY <1>6, <2>1 DEF Wake
  <2> QED BY <1>6, <2>2, <2>3, WaitKeeps DEF Wake, service
<1>7. ASSUME UNCHANGED <<service, wait>>, commands' \subseteq commands, clock' \in 0..MaxTime,
             isolated' \in [Targets -> BOOLEAN], proven \subseteq proven',
             proven' \subseteq Requests \X {"isolate", "release"},
             \A m \in posted' \cup receipts' : <<m.req, m.action>> \in proven'
      PROVE  Inv'
  <2>1. Q!TypeOK' /\ Q!GovernInv'
    BY <1>7 DEF Inv, Q!TypeOK, Q!GovernInv, Q!DecisionGoverns, Q!Enforcing, Q!InAudit, service, rows
  <2> QED BY <1>7, <2>1 DEF Inv, Waits, service, rows
<1>8. ASSUME NEW c \in commands, Run(c) PROVE Inv'
  <2>1. c.req \in Requests /\ c.action \in {"isolate", "release"} /\ isolated \in [Targets -> BOOLEAN]
    BY DEF Inv, Q!TypeOK
  <2>2. isolated' \in [Targets -> BOOLEAN]
    BY <1>8, <2>1 DEF Run
  <2>3. /\ proven \subseteq proven' /\ proven' \subseteq Requests \X {"isolate", "release"}
        /\ \A m \in posted' \cup receipts' : <<m.req, m.action>> \in proven'
    BY <1>8, <2>1 DEF Run, Inv
  <2>4. UNCHANGED <<service, wait, clock>> /\ commands' \subseteq commands
    BY <1>8 DEF Run
  <2> QED BY <1>7, <2>2, <2>3, <2>4 DEF Inv
<1>9. ASSUME NEW m \in posted, Submit(m) PROVE Inv'
  <2>1. \A n \in posted' \cup receipts' : <<n.req, n.action>> \in proven
    <3> DEFINE new == [req |-> m.req, action |-> m.action, at |-> clock]
    <3>1. posted' \subseteq posted /\ receipts' \subseteq receipts \cup {new}
      BY <1>9 DEF Submit
    <3>2. new.req = m.req /\ new.action = m.action
      OBVIOUS
    <3> HIDE DEF new
    <3> QED BY <3>1, <3>2 DEF Inv
  <2>2. UNCHANGED <<service, isolated, wait, clock, commands, proven>>
    BY <1>9 DEF Submit
  <2> QED BY <1>7, <2>1, <2>2 DEF Inv, Q!TypeOK
<1>10. CASE Tick
  <2>1. clock' \in 0..MaxTime /\ UNCHANGED <<service, isolated, wait, commands, posted, receipts, proven>>
    BY <1>0, <1>10 DEF Tick, Inv
  <2> QED BY <1>7, <2>1 DEF Inv, Q!TypeOK
<1>11. CASE UNCHANGED vars
  BY <1>7, <1>11 DEF Inv, Q!TypeOK, vars, wazuh
<1>12. CASE Abandon
  <2>1. Q!TypeOK' /\ Q!GovernInv'
    BY <1>12, Assumed, SameAbandon, Q!StepType, Q!StepGovern DEF Inv
  <2>2. \A s \in Sessions : wait'[s].step # "idle" => pc'[s] \in {"execute", "undo"}
    BY <1>12, AbandonKeeps DEF Inv, Waits, NoWait
  <2> QED BY <1>12, <2>1, <2>2, AbandonKeeps DEF Inv, Waits, rows
<1> QED
  BY <1>1, <1>2, <1>3, <1>4, <1>5, <1>6, <1>8, <1>9, <1>10, <1>11, <1>12
     DEF Next, Step, Adapter, Abandon

(* The service, the adapter, the endpoint and the receipts keep their      *)
(* types; a receipt tells of a state the executor verified.                *)
THEOREM TypeCorrect == Spec => []TypeOK
<1>1. Inv => TypeOK
  BY SameType DEF Inv, TypeOK
<1> QED
  BY <1>1, InitInv, StepInv, PTL DEF Spec
----------------------------------------------------------------------------
LEMMA InitProven == Init => ProvenInv
  BY DEF UndoSteps, Init, ProvenInv, RecordIsProven, Proven, Q!InAudit, G!Init, G!NoExecution

(* One call of the service moves to a step about what it knew, with        *)
(* records that are proven.                                                *)
LEMMA ProvenMoves ==
    ASSUME Inv, ProvenInv, NEW s \in Sessions, NEW step, NEW j, G!Goto(s, step, j),
           proven \subseteq proven',
           RecordIsProven',
           step \in {"audit_read", "audit_append", "record"} \cup UndoSteps =>
               /\ j.act = "executed" /\ j.ok    => <<j.req, "isolate">> \in proven
               /\ j.act = "rolled_back" /\ j.ok => <<j.req, "release">> \in proven,
           step = "record" => j.act = "executed",
           step \in UndoSteps => j.act = "rolled_back"
    PROVE  ProvenInv'
<1>1. pc' = [pc EXCEPT ![s] = step] /\ job' = [job EXCEPT ![s] = j]
      /\ pc \in [Sessions -> Q!Steps] /\ job \in [Sessions -> Q!Job]
  BY DEF G!Goto, Inv, Q!TypeOK
<1>2. ASSUME NEW t \in Sessions PROVE Proven(t)'
  <2>1. CASE t = s
    <3>1. pc'[t] = step /\ job'[t] = j
      BY <1>1, <2>1
    <3> QED BY <3>1 DEF Proven, Q!InAudit
  <2>2. CASE t # s
    <3>1. pc'[t] = pc[t] /\ job'[t] = job[t] /\ Proven(t)
      BY <1>1, <2>2 DEF ProvenInv
    <3> QED BY <3>1 DEF Proven, Q!InAudit
  <2> QED BY <2>1, <2>2
<1> QED
  BY <1>2 DEF ProvenInv

(* What is proven of a session's outcome, at the steps that carry it.      *)
LEMMA Carries ==
    ASSUME Inv, ProvenInv, NEW s \in Sessions,
           pc[s] \in {"audit_read", "audit_append", "record"} \cup UndoSteps
    PROVE  /\ job[s] \in Q!Job /\ job[s].req \in Requests
           /\ job[s].act = "executed" /\ job[s].ok    => <<job[s].req, "isolate">> \in proven
           /\ job[s].act = "rolled_back" /\ job[s].ok => <<job[s].req, "release">> \in proven
  BY DEF Inv, ProvenInv, Proven, Q!InAudit, Q!TypeOK, UndoSteps

(* The adapter answers: it verified nothing it has no receipt for.         *)
LEMMA AnswerProven ==
    ASSUME Inv, ProvenInv, NEW s \in Sessions, pc[s] \in {"execute", "undo"},
           NEW verified \in BOOLEAN, Answer(s, verified),
           verified => <<job[s].req, Action(s)>> \in proven,
           UNCHANGED <<execution, proven>>
    PROVE  ProvenInv'
<1>1. PICK j \in Q!Job : /\ Q!Goto(s, "audit_read", j) /\ j.req = job[s].req /\ j.ok = verified
                         /\ j.act \in {"executed", "rolled_back"}
                         /\ (j.act = "executed") <=> (Action(s) = "isolate")
  BY AnswerGoes
<1>2. Action(s) \in {"isolate", "release"}
  BY AtAdapter
<1>3. RecordIsProven'
  BY DEF ProvenInv, RecordIsProven
<1>4. /\ j.act = "executed" /\ j.ok    => <<j.req, "isolate">> \in proven
      /\ j.act = "rolled_back" /\ j.ok => <<j.req, "release">> \in proven
  BY <1>1, <1>2
<1>5. Q!Goto(s, "audit_read", j)
  BY <1>1
<1>6. G!Goto(s, "audit_read", j) /\ proven \subseteq proven'
  BY <1>5, SameGoto
<1> QED
  BY <1>3, <1>4, <1>6, ProvenMoves DEF UndoSteps

LEMMA ProvenFrame ==
    ASSUME ProvenInv, UNCHANGED <<execution, pc, job>>, proven \subseteq proven'
    PROVE  ProvenInv'
<1>1. RecordIsProven'
  BY DEF ProvenInv, RecordIsProven
<1>2. \A s \in Sessions : Proven(s)'
  BY DEF ProvenInv, Proven, Q!InAudit
<1> QED
  BY <1>1, <1>2 DEF ProvenInv

(***************************************************************************)
(* The service carries an answer from the adapter through the audit to the *)
(* row without losing which request and which action it is about.          *)
(***************************************************************************)
LEMMA ServiceProven ==
    ASSUME Inv, ProvenInv, NEW s \in Sessions, Service(s)
    PROVE  ProvenInv'
<1>0. proven' = proven
  BY DEF Service, wazuh
<1>1. CASE G!RecordExecution(s)
  <2>1. pc[s] = "record" /\ G!Goto(s, "idle", G!NoJob)
    BY <1>1 DEF G!RecordExecution, G!Return
  <2>2. job[s].act = "executed" /\ job[s].req \in Requests
        /\ (job[s].ok => <<job[s].req, "isolate">> \in proven)
    BY <2>1, Carries DEF ProvenInv, Proven, UndoSteps
  <2>3. RecordIsProven'
    <3>1. CASE UNCHANGED execution
      BY <1>0, <3>1 DEF ProvenInv, RecordIsProven
    <3>2. CASE G!Record(s)
      <4>1. /\ \A r \in Requests : r # job[s].req => execution'[r] = execution[r]
            /\ execution'[job[s].req].status = IF job[s].ok THEN "verified" ELSE "failed"
        BY <2>2, <3>2 DEF G!Record, Inv, Q!TypeOK
      <4> QED BY <1>0, <2>2, <4>1 DEF ProvenInv, RecordIsProven
    <3> QED BY <1>1, <3>1, <3>2 DEF G!RecordExecution
  <2> QED BY <1>0, <2>1, <2>3, ProvenMoves DEF UndoSteps
<1>2. CASE G!RecordRollback(s)
  <2>1. pc[s] = "record_undo" /\ G!Goto(s, "idle", G!NoJob)
    BY <1>2 DEF G!RecordRollback, G!Return
  <2>2. job[s].act = "rolled_back" /\ job[s].req \in Requests
        /\ (job[s].ok => <<job[s].req, "release">> \in proven)
    BY <2>1, Carries DEF ProvenInv, Proven, UndoSteps
  <2>3. PICK e \in Q!Execution :
          /\ execution' = [execution EXCEPT ![job[s].req] = e]
          /\ e.status \in {execution[job[s].req].status, Q!Outcome(s)}
    BY <1>2, Assumed, SameStep, Q!RollbackRecords DEF Inv
  <2>4. RecordIsProven'
    <3>1. /\ \A r \in Requests : r # job[s].req => execution'[r] = execution[r]
          /\ execution'[job[s].req] = e
      BY <2>2, <2>3 DEF Inv, Q!TypeOK
    <3>2. e.status = "verified" \/ e.status = "rolled_back" =>
             e.status = execution[job[s].req].status \/ (e.status = "rolled_back" /\ job[s].ok)
      BY <2>3 DEF Q!Outcome
    <3> QED BY <1>0, <2>2, <3>1, <3>2 DEF ProvenInv, RecordIsProven
  <2> QED BY <1>0, <2>1, <2>4, ProvenMoves DEF UndoSteps
<1>3. ASSUME UNCHANGED execution PROVE RecordIsProven'
  BY <1>0, <1>3 DEF ProvenInv, RecordIsProven
<1>4. CASE G!InsertRequest(s)
  <2>1. job[s] \in Q!Job /\ UNCHANGED execution
    BY <1>4 DEF G!InsertRequest, Inv, Q!TypeOK
  <2>2. CASE G!Return(s)
    BY <1>0, <1>3, <2>1, <2>2, ProvenMoves DEF G!Return, UndoSteps
  <2>3. CASE G!Goto(s, "audit_read", [job[s] EXCEPT !.act = "requested"])
    <3>1. [job[s] EXCEPT !.act = "requested"].act = "requested"
      BY <2>1 DEF Q!Job
    <3> QED BY <1>0, <1>3, <2>1, <2>3, <3>1, ProvenMoves DEF UndoSteps
  <2> QED BY <1>4, <2>2, <2>3 DEF G!InsertRequest
<1>5. CASE G!DecisionCommit(s)
  <2>1. job[s] \in Q!Job /\ UNCHANGED execution
    BY <1>5 DEF G!DecisionCommit, G!Decide, G!rows, Inv, Q!TypeOK
  <2>2. CASE G!Return(s)
    BY <1>0, <1>3, <2>1, <2>2, ProvenMoves DEF G!Return, UndoSteps
  <2>3. ASSUME NEW d \in {"approved", "rejected"},
               G!Goto(s, "audit_read", [job[s] EXCEPT !.act = d])
        PROVE  ProvenInv'
    <3>1. [job[s] EXCEPT !.act = d].act = d
      BY <2>1 DEF Q!Job
    <3> QED BY <1>0, <1>3, <2>1, <2>3, <3>1, ProvenMoves DEF UndoSteps
  <2> QED BY <1>5, <2>2, <2>3 DEF G!DecisionCommit, G!Decide
<1>6. CASE G!ClaimExecution(s)
  BY <1>0, <1>3, <1>6, ProvenMoves DEF G!ClaimExecution, UndoSteps
<1>7. CASE G!AuditRead(s)
  <2>1. pc[s] = "audit_read" /\ UNCHANGED execution
    BY <1>7 DEF G!AuditRead, G!rows
  <2> DEFINE j == [job[s] EXCEPT !.head = Len(audit)]
  <2>2. j.act = job[s].act /\ j.ok = job[s].ok /\ j.req = job[s].req
    BY <2>1, Carries DEF Q!Job
  <2>3. G!Goto(s, "audit_append", j)
    BY <1>7 DEF G!AuditRead
  <2> HIDE DEF j
  <2> QED BY <1>0, <1>3, <2>1, <2>2, <2>3, Carries, ProvenMoves DEF UndoSteps
<1>8. CASE G!AuditAppend(s)
  <2>1. pc[s] = "audit_append" /\ UNCHANGED execution
    BY <1>8 DEF G!AuditAppend, G!rows
  <2> DEFINE j == [job[s] EXCEPT !.hash = Len(audit) + 1]
  <2>2. j.act = job[s].act /\ j.ok = job[s].ok /\ j.req = job[s].req
    BY <2>1, Carries DEF Q!Job
  <2>3. \/ G!Goto(s, "record", j) /\ job[s].act = "executed"
        \/ G!Goto(s, "undo_request", j) /\ job[s].act = "rolled_back"
        \/ G!Goto(s, "idle", G!NoJob)
    BY <1>8 DEF G!AuditAppend, G!AfterAudit, G!Return
  <2> HIDE DEF j
  <2> QED BY <1>0, <1>3, <2>1, <2>2, <2>3, Carries, ProvenMoves DEF UndoSteps
<1>9. CASE G!RollbackLoadRequest(s) \/ G!RollbackLoadExecution(s)
  <2>1. Q!Loading(s) /\ Q!TypeOK
    BY <1>9, SameStep DEF Q!Loading, Inv
  <2>2. /\ pc[s] \in UndoSteps /\ execution' = execution
        /\ \E step \in UndoSteps, j \in Q!Job :
             /\ Q!Goto(s, step, j)
             /\ j.req = job[s].req /\ j.act = job[s].act /\ j.ok = job[s].ok
    BY <2>1, Assumed, Q!LoadMoves DEF UndoSteps, Q!rows
  <2>3. PICK step \in UndoSteps, j \in Q!Job :
          /\ G!Goto(s, step, j)
          /\ j.req = job[s].req /\ j.act = job[s].act /\ j.ok = job[s].ok
    BY <2>2, SameGoto
  <2>4. job[s].act = "rolled_back" /\ (job[s].ok => <<job[s].req, "release">> \in proven)
    BY <2>2, Carries DEF ProvenInv, Proven
  <2> QED BY <1>0, <1>3, <2>2, <2>3, <2>4, ProvenMoves DEF UndoSteps
<1> QED
  BY <1>1, <1>2, <1>4, <1>5, <1>6, <1>7, <1>8, <1>9 DEF Service

LEMMA StepProven == Inv /\ ProvenInv /\ [Next]_vars => ProvenInv'
<1> SUFFICES ASSUME Inv, ProvenInv, [Next]_vars PROVE ProvenInv'
  OBVIOUS
<1>0. /\ \A s \in Sessions : ~Waits(s, "idle") => pc[s] \in {"execute", "undo"}
      /\ \A m \in receipts : <<m.req, m.action>> \in proven
  BY DEF Inv
<1>1. ASSUME NEW s \in Sessions, Service(s) PROVE ProvenInv'
  BY <1>1, ServiceProven
<1>2. ASSUME NEW s \in Sessions, NEW r \in Requests, G!Call(s, r), UNCHANGED wazuh PROVE ProvenInv'
  <2>1. /\ UNCHANGED <<execution, proven>>
        /\ \E step \in {"insert", "decide", "claim", "undo"} : \E j : G!Goto(s, step, j)
    BY <1>2 DEF wazuh, G!Call, G!RequestRead, G!DecisionRead, G!ExecuteRead, G!RollbackRead, G!Start, G!rows
  <2>2. RecordIsProven'
    BY <2>1 DEF ProvenInv, RecordIsProven
  <2> QED BY <2>1, <2>2, ProvenMoves DEF UndoSteps
<1>3. ASSUME NEW s \in Sessions, Refuse(s) PROVE ProvenInv'
  BY <1>3, AnswerProven DEF Refuse, rows
<1>4. ASSUME NEW s \in Sessions, Send(s) \/ Wake(s) PROVE ProvenInv'
  BY <1>4, ProvenFrame DEF Send, Wake, service, rows
<1>5. ASSUME NEW s \in Sessions, Acknowledge(s) PROVE ProvenInv'
  <2>1. pc[s] \in {"execute", "undo"} /\ UNCHANGED <<execution, proven>>
    BY <1>0, <1>5 DEF Acknowledge, Waits, rows
  <2>2. CASE Answer(s, FALSE)
    BY <2>1, <2>2, AnswerProven
  <2>3. CASE UNCHANGED <<pc, job>>
    BY <2>1, <2>3, ProvenFrame
  <2> QED BY <1>5, <2>2, <2>3 DEF Acknowledge
<1>6. ASSUME NEW s \in Sessions, LookUp(s) PROVE ProvenInv'
  <2>1. pc[s] \in {"execute", "undo"} /\ UNCHANGED <<execution, proven>>
    BY <1>0, <1>6 DEF LookUp, Waits, rows
  <2>2. CASE Answer(s, FALSE)
    BY <2>1, <2>2, AnswerProven
  <2>3. CASE Found(s) /\ Answer(s, TRUE)
    <3>1. <<job[s].req, Action(s)>> \in proven
      BY <1>0, <2>3 DEF Found
    <3> QED BY <2>1, <2>3, <3>1, AnswerProven
  <2>4. CASE UNCHANGED <<pc, job>>
    BY <2>1, <2>4, ProvenFrame
  <2> QED BY <1>6, <2>2, <2>3, <2>4 DEF LookUp
<1>7. ASSUME NEW c \in commands, Run(c) PROVE ProvenInv'
  BY <1>7, ProvenFrame DEF Run, service, rows
<1>8. ASSUME NEW m \in posted, Submit(m) PROVE ProvenInv'
  BY <1>8, ProvenFrame DEF Submit, service, rows
<1>9. CASE Tick \/ UNCHANGED vars
  BY <1>9, ProvenFrame DEF Tick, vars, service, rows, wazuh
<1>10. CASE Abandon
  <2>1. RecordIsProven'
    BY <1>10, AbandonKeeps DEF ProvenInv, RecordIsProven, rows
  <2>2. \A s \in Sessions : Proven(s)'
    BY <1>10, AbandonKeeps DEF ProvenInv, Proven, Q!InAudit, UndoSteps
  <2> QED BY <2>1, <2>2 DEF ProvenInv
<1> QED
  BY <1>1, <1>2, <1>3, <1>4, <1>5, <1>6, <1>7, <1>8, <1>9, <1>10 DEF Next, Step, Adapter, Abandon

(* For any number of racing calls, late commands and lost receipts: what   *)
(* is recorded as verified or rolled back, the executor on the endpoint    *)
(* verified for that request.                                              *)
THEOREM RecordsProven == Spec => []RecordIsProven
<1>1. ProvenInv => RecordIsProven
  BY DEF ProvenInv
<1> QED
  BY <1>1, InitInv, StepInv, InitProven, StepProven, PTL DEF Spec
----------------------------------------------------------------------------
(***************************************************************************)
(* What the status tells of the endpoint, when requests do not share one.  *)
(* Of a request that was executed at most once no command to isolate is    *)
(* left once the executor verified one, and a release is only ever sent    *)
(* after that.                                                             *)
(***************************************************************************)
OwnEndpoints == \A q, r \in Requests : TargetOf[q] = TargetOf[r] => q = r

Unenforced == {"absent", "requested", "approved", "rejected"}
Isolated(r) == <<r, "isolate">> \in proven
Released(r) == <<r, "release">> \in proven
Pending(r, action) == {c \in commands : c.req = r /\ c.action = action}

Once(r) ==
    /\ \A c, d \in Pending(r, "isolate") : c = d
    /\ Isolated(r) => Pending(r, "isolate") = {} /\ (rollbacks[r] = 0 => isolated[TargetOf[r]])
    /\ Released(r) => ~isolated[TargetOf[r]]

AtEndpoint(r) ==
    /\ Isolated(r) \/ isolated[TargetOf[r]] \/ Pending(r, "isolate") # {} => executes[r] > 0
    /\ Released(r) \/ Pending(r, "release") # {} => Isolated(r) /\ rollbacks[r] > 0
    /\ status[r] \in Unenforced => executes[r] = 0
    /\ status[r] = "verified" => Isolated(r)
    /\ status[r] = "rolled_back" => Released(r)
    /\ executes[r] <= 1 => Once(r)

Working(s) ==
    /\ pc[s] = "execute" => status[job[s].req] \notin Unenforced
    /\ pc[s] = "undo" => Isolated(job[s].req) /\ rollbacks[job[s].req] > 0

EndpointInv == (\A r \in Requests : AtEndpoint(r)) /\ \A s \in Sessions : Working(s)

LEMMA InitEndpoint == Init => EndpointInv
<1> SUFFICES ASSUME Init PROVE EndpointInv
  OBVIOUS
<1>1. \A r \in Requests : TargetOf[r] \in Targets
  BY Assumed DEF Q!ContainmentAssumption
<1>2. \A r \in Requests : /\ status[r] = "absent" /\ executes[r] = 0 /\ ~isolated[TargetOf[r]]
                          /\ ~Isolated(r) /\ ~Released(r) /\ \A a : Pending(r, a) = {}
  BY <1>1 DEF Init, G!Init, Isolated, Released, Pending
<1>3. \A s \in Sessions : pc[s] = "idle"
  BY DEF Init, G!Init
<1> QED
  BY <1>2, <1>3 DEF EndpointInv, AtEndpoint, Once, Working

(***************************************************************************)
(* A step of the service: nothing happens at the endpoint, and a status is *)
(* written by somebody who knows it to be true.                            *)
(***************************************************************************)
LEMMA ServiceMoves ==
    ASSUME Inv, EndpointInv, NEW s \in Sessions, NEW step, NEW j, G!Goto(s, step, j),
           UNCHANGED <<isolated, executes, commands, proven>>,
           \A r \in Requests : /\ rollbacks[r] > 0 => rollbacks'[r] > 0
                               /\ rollbacks'[r] = 0 => rollbacks[r] = 0,
           \A r \in Requests : status'[r] # status[r] =>
               /\ status'[r] \in Unenforced => approval[r] = "none"
               /\ status'[r] = "verified" => Isolated(r)
               /\ status'[r] = "rolled_back" => Released(r),
           step = "execute" => status'[j.req] \notin Unenforced,
           step = "undo" => Isolated(j.req) /\ rollbacks'[j.req] > 0
    PROVE  EndpointInv'
<1>1. pc' = [pc EXCEPT ![s] = step] /\ job' = [job EXCEPT ![s] = j]
      /\ pc \in [Sessions -> Q!Steps] /\ job \in [Sessions -> Q!Job]
      /\ \A t \in Sessions : pc[t] # "idle" => job[t].req \in Requests
  BY DEF G!Goto, Inv, Q!TypeOK
<1>2. \A r : /\ Isolated(r)' = Isolated(r) /\ Released(r)' = Released(r)
             /\ \A a : Pending(r, a)' = Pending(r, a)
  BY DEF Isolated, Released, Pending
<1>3. executes \in [Requests -> Nat] /\ \A r \in Requests : approval[r] = "none" => ~(executes[r] > 0)
  BY DEF Inv, Q!TypeOK, Q!GovernInv, Q!DecisionGoverns
<1>4. ASSUME NEW r \in Requests PROVE AtEndpoint(r)'
  <2>1. AtEndpoint(r)
    BY DEF EndpointInv
  <2>2. Once(r) => Once(r)'
    BY <1>2 DEF Once
  <2>3. status'[r] \in Unenforced => executes[r] = 0
    BY <1>3, <2>1 DEF AtEndpoint
  <2> QED BY <1>2, <2>1, <2>2, <2>3 DEF AtEndpoint
<1>5. ASSUME NEW t \in Sessions PROVE Working(t)'
  <2>1. CASE t = s
    <3>1. pc'[t] = step /\ job'[t] = j
      BY <1>1, <2>1
    <3> QED BY <1>2, <3>1 DEF Working
  <2>2. CASE t # s
    <3>1. pc'[t] = pc[t] /\ job'[t] = job[t] /\ Working(t)
      BY <1>1, <2>2 DEF EndpointInv
    <3>2. pc[t] \in {"execute", "undo"} => job[t].req \in Requests
      BY <1>1
    <3>3. pc[t] = "execute" => approval[job[t].req] = "approved"
      BY DEF Inv, Q!GovernInv, Q!Enforcing
    <3> QED BY <1>2, <3>1, <3>2, <3>3 DEF Working
  <2> QED BY <2>1, <2>2
<1> QED
  BY <1>4, <1>5 DEF EndpointInv

LEMMA CallEndpoint ==
    ASSUME Inv, ProvenInv, EndpointInv, NEW s \in Sessions, NEW r \in Requests, G!Call(s, r),
           UNCHANGED wazuh
    PROVE  EndpointInv'
<1> DEFINE j == [G!NoJob EXCEPT !.req = r]
<1>1. j.req = r
  BY DEF G!NoJob
<1>2. UNCHANGED <<status, isolated, executes, commands, proven>>
  BY DEF wazuh, G!Call, G!RequestRead, G!DecisionRead, G!ExecuteRead, G!RollbackRead, G!rows
<1>3. CASE G!RollbackRead(s, r)
  <2>1. /\ G!Goto(s, "undo", j) /\ rollbacks' = [rollbacks EXCEPT ![r] = @ + 1]
        /\ execution[r].status = "verified"
    BY <1>3 DEF G!RollbackRead, G!Start
  <2>2. rollbacks \in [Requests -> Nat] /\ Isolated(r)
    BY <2>1 DEF Inv, Q!TypeOK, ProvenInv, RecordIsProven, Isolated
  <2>3. rollbacks'[r] > 0 /\ \A q \in Requests : /\ rollbacks[q] > 0 => rollbacks'[q] > 0
                                                 /\ rollbacks'[q] = 0 => rollbacks[q] = 0
    BY <2>1, <2>2
  <2> HIDE DEF j
  <2> QED BY <1>1, <1>2, <2>1, <2>2, <2>3, ServiceMoves
<1>4. ASSUME NEW step \in {"insert", "decide", "claim"}, G!Goto(s, step, j), UNCHANGED rollbacks
      PROVE  EndpointInv'
  <2> HIDE DEF j
  <2> QED BY <1>2, <1>4, ServiceMoves
<1> QED
  BY <1>3, <1>4 DEF G!Call, G!RequestRead, G!DecisionRead, G!ExecuteRead, G!Start

LEMMA StatusMoves ==
    ASSUME Inv, EndpointInv, NEW s \in Sessions, NEW step, NEW j, G!Goto(s, step, j), step # "undo",
           UNCHANGED <<isolated, executes, rollbacks, commands, proven>>,
           NEW r \in Requests, NEW to, status' = [status EXCEPT ![r] = to],
           to \in Unenforced => approval[r] = "none",
           to = "verified" => Isolated(r), to = "rolled_back" => Released(r),
           step = "execute" => j.req = r /\ to = "executing"
    PROVE  EndpointInv'
<1>1. \A q \in Requests : status'[q] = IF q = r THEN to ELSE status[q]
  BY DEF Inv, Q!TypeOK
<1>2. step = "execute" => status'[j.req] \notin Unenforced
  BY <1>1 DEF Unenforced
<1> QED BY <1>1, <1>2, ServiceMoves

LEMMA ServiceEndpoint ==
    ASSUME Inv, ProvenInv, EndpointInv, NEW s \in Sessions, Service(s)
    PROVE  EndpointInv'
<1> DEFINE r == job[s].req
<1>1. UNCHANGED <<commands, proven>> /\ status \in [Requests -> Q!Statuses]
  BY DEF Service, wazuh, Inv, Q!TypeOK
<1>2. ASSUME NEW step, NEW j, G!Goto(s, step, j), step \notin {"execute", "undo"},
             UNCHANGED <<status, isolated, executes, rollbacks>>
      PROVE  EndpointInv'
  BY <1>1, <1>2, ServiceMoves
<1>4. CASE G!InsertRequest(s)
  <2>1. CASE G!Return(s) /\ UNCHANGED status
    BY <1>2, <1>4, <2>1 DEF G!InsertRequest, G!Return
  <2>2. CASE ~G!KeyTaken(r)
    <3>1. r \in Requests
      BY <1>4 DEF G!InsertRequest, Inv, Q!TypeOK
    <3>2. approval[r] = "none"
      BY <2>2, <3>1 DEF G!KeyTaken, Inv, Q!GovernInv
    <3>0. PICK j : j = [job[s] EXCEPT !.act = "requested"]
      OBVIOUS
    <3>3. /\ G!Goto(s, "audit_read", j) /\ status' = [status EXCEPT ![r] = "requested"]
          /\ UNCHANGED <<isolated, executes, rollbacks>>
      BY <1>4, <2>2, <3>0 DEF G!InsertRequest
    <3>4. /\ "audit_read" # "undo" /\ ("audit_read" = "execute" => j.req = r /\ "requested" = "executing")
          /\ UNCHANGED <<isolated, executes, rollbacks, commands, proven>>
          /\ ("requested" \in Unenforced => approval[r] = "none")
          /\ ("requested" = "verified" => Isolated(r)) /\ ("requested" = "rolled_back" => Released(r))
      BY <1>1, <3>2, <3>3
    <3> HIDE DEF r
    <3> QED BY <3>1, <3>3, <3>4, StatusMoves, Zenon
  <2> QED BY <1>4, <2>1, <2>2 DEF G!InsertRequest
<1>5. CASE G!DecisionCommit(s)
  <2>1. CASE G!Return(s) /\ UNCHANGED <<G!rows, isolated, executes, rollbacks>>
    BY <1>2, <2>1 DEF G!Return, G!rows
  <2>2. ASSUME approval[r] = "none", NEW d \in {"approved", "rejected"}, G!Decide(s, d)
        PROVE  EndpointInv'
    <3>1. r \in Requests
      BY <1>5 DEF G!DecisionCommit, Inv, Q!TypeOK
    <3>2. PICK j : j = [job[s] EXCEPT !.act = d]
      OBVIOUS
    <3>3. /\ G!Goto(s, "audit_read", j) /\ status' = [status EXCEPT ![r] = d]
          /\ UNCHANGED <<isolated, executes, rollbacks>>
      BY <2>2, <3>2 DEF G!Decide
    <3>4. d \notin {"verified", "rolled_back"}
      BY <2>2
    <3>5. /\ "audit_read" # "undo" /\ ("audit_read" = "execute" => j.req = r /\ d = "executing")
          /\ UNCHANGED <<isolated, executes, rollbacks, commands, proven>>
          /\ (d \in Unenforced => approval[r] = "none")
          /\ (d = "verified" => Isolated(r)) /\ (d = "rolled_back" => Released(r))
      BY <1>1, <2>2, <3>3, <3>4
    <3> HIDE DEF r
    <3> QED BY <3>1, <3>3, <3>5, StatusMoves, Zenon
  <2> QED BY <1>5, <2>1, <2>2 DEF G!DecisionCommit
<1>6. CASE G!ClaimExecution(s)
  <2>1. r \in Requests
    BY <1>6 DEF G!ClaimExecution, Inv, Q!TypeOK
  <2>2. "executing" \notin Unenforced
    BY DEF Unenforced
  <2>3. G!ClaimExecution(s) => UNCHANGED <<isolated, executes, rollbacks>>
    BY DEF G!ClaimExecution, G!Return
  <2> QED BY <1>1, <1>6, <2>1, <2>2, <2>3, StatusMoves DEF G!ClaimExecution
<1>7. CASE G!RecordExecution(s)
  <2>1. /\ pc[s] = "record" /\ G!Goto(s, "idle", G!NoJob) /\ UNCHANGED <<isolated, executes, rollbacks>>
    BY <1>7 DEF G!RecordExecution, G!Return
  <2>2. r \in Requests /\ (job[s].ok => Isolated(r))
    BY <2>1, Carries DEF ProvenInv, Proven, Isolated
  <2>3. CASE G!Record(s)
    <3>0. PICK to : to = IF job[s].ok THEN "verified" ELSE "failed"
      OBVIOUS
    <3>1. status' = [status EXCEPT ![r] = to]
      BY <2>3, <3>0 DEF G!Record
    <3>2. to \notin Unenforced /\ (to = "verified" => Isolated(r)) /\ to # "rolled_back"
      BY <2>2, <3>0 DEF Unenforced
    <3>3. /\ "idle" # "undo" /\ ("idle" = "execute" => G!NoJob.req = r /\ to = "executing")
          /\ UNCHANGED <<isolated, executes, rollbacks, commands, proven>>
          /\ (to \in Unenforced => approval[r] = "none")
          /\ (to = "verified" => Isolated(r)) /\ (to = "rolled_back" => Released(r))
      BY <1>1, <2>1, <2>2, <3>2
    <3> HIDE DEF r
    <3> QED BY <2>1, <2>2, <3>1, <3>3, StatusMoves, Zenon
  <2>4. CASE UNCHANGED status
    BY <1>2, <2>1, <2>4
  <2> QED BY <1>7, <2>3, <2>4 DEF G!RecordExecution
<1>8. CASE G!RecordRollback(s)
  <2>1. /\ pc[s] = "record_undo" /\ G!Goto(s, "idle", G!NoJob) /\ UNCHANGED <<isolated, executes, rollbacks>>
    BY <1>8 DEF G!RecordRollback, G!Return
  <2>2. r \in Requests /\ (job[s].ok => Released(r))
    BY <2>1, Carries DEF ProvenInv, Proven, Released, UndoSteps
  <2>3. PICK to \in {status[r], Q!Outcome(s)} : status' = [status EXCEPT ![r] = to]
    BY <1>8, Assumed, SameStep, Q!RollbackTells DEF Inv
  <2>4. CASE to = status[r]
    <3>1. status' = status
      BY <1>1, <2>2, <2>3, <2>4
    <3> QED BY <1>2, <2>1, <3>1
  <2>5. CASE to = Q!Outcome(s)
    <3>1. to \notin Unenforced /\ (to = "rolled_back" => Released(r)) /\ to # "verified"
      BY <2>2, <2>5 DEF Unenforced, Q!Outcome
    <3>2. /\ "idle" # "undo" /\ ("idle" = "execute" => G!NoJob.req = r /\ to = "executing")
          /\ UNCHANGED <<isolated, executes, rollbacks, commands, proven>>
          /\ (to \in Unenforced => approval[r] = "none")
          /\ (to = "verified" => Isolated(r)) /\ (to = "rolled_back" => Released(r))
      BY <1>1, <2>1, <2>2, <3>1
    <3> HIDE DEF r
    <3> QED BY <2>1, <2>2, <2>3, <3>2, StatusMoves, Zenon
  <2> QED BY <2>3, <2>4, <2>5
<1>9. CASE G!AuditRead(s)
  BY <1>2, <1>9 DEF G!AuditRead, G!rows
<1>10. CASE G!AuditAppend(s)
  BY <1>2, <1>10 DEF G!AuditAppend, G!AfterAudit, G!Return, G!rows
<1>11. CASE G!RollbackLoadRequest(s) \/ G!RollbackLoadExecution(s)
  BY <1>2, <1>11 DEF G!RollbackLoadRequest, G!RollbackLoadExecution, G!rows
<1> QED
  BY <1>4, <1>5, <1>6, <1>7, <1>8, <1>9, <1>10, <1>11 DEF Service

(***************************************************************************)
(* A step of the adapter's call: it is counted when it sends, and at most  *)
(* its own command is new.                                                 *)
(***************************************************************************)
LEMMA AdapterMoves ==
    ASSUME Inv, EndpointInv, NEW s \in Sessions, pc[s] \in {"execute", "undo"},
           UNCHANGED <<pc, job>> \/ \E j : G!Goto(s, "audit_read", j),
           UNCHANGED <<status, rollbacks, isolated, proven>>,
           \/ UNCHANGED commands /\ (Counts(s) \/ UNCHANGED executes)
           \/ /\ commands' = commands \cup {[from |-> s, req |-> job[s].req, action |-> Action(s)]}
              /\ Counts(s)
    PROVE  EndpointInv'
<1> DEFINE r == job[s].req
           new == [from |-> s, req |-> r, action |-> Action(s)]
<1>1. /\ r \in Requests /\ executes \in [Requests -> Nat]
      /\ pc[s] = "execute" => Action(s) = "isolate" /\ status[r] \notin Unenforced
      /\ pc[s] = "undo" => Action(s) = "release" /\ Isolated(r) /\ rollbacks[r] > 0
  BY AtAdapter DEF Inv, Q!TypeOK, EndpointInv, Working, Action
<1>2. \A q : Isolated(q)' = Isolated(q) /\ Released(q)' = Released(q)
  BY DEF Isolated, Released
<1>3. \A q \in Requests : /\ executes'[q] >= executes[q] /\ executes'[q] \in Nat
                          /\ q # r => executes'[q] = executes[q]
                          /\ executes'[q] # executes[q] => Action(s) = "isolate"
  BY <1>1 DEF Counts
<1>4. new.req = r /\ new.action = Action(s)
  OBVIOUS
<1>5. \A q, a : Pending(q, a)' = Pending(q, a) \/ (q = r /\ a = Action(s) /\ Pending(q, a)' = Pending(q, a) \cup {new})
  BY <1>4 DEF Pending
<1>6. \A q, a : Pending(q, a)' # Pending(q, a) => Counts(s)
  BY DEF Pending
<1>7. ASSUME NEW q \in Requests PROVE AtEndpoint(q)'
  <2>1. AtEndpoint(q)
    BY DEF EndpointInv
  <2>2. Pending(q, "isolate")' # Pending(q, "isolate") =>
           /\ q = r /\ Pending(q, "isolate")' = Pending(q, "isolate") \cup {new}
           /\ executes'[q] = executes[q] + 1
    <3> HIDE DEF new
    <3> QED BY <1>1, <1>5, <1>6 DEF Counts
  <2>3. Pending(q, "release")' # Pending(q, "release") => Isolated(q) /\ rollbacks[q] > 0
    <3> HIDE DEF new
    <3> QED BY <1>1, <1>5
  <2>4. Isolated(q) \/ isolated[TargetOf[q]] \/ Pending(q, "isolate")' # {} => executes'[q] > 0
    BY <1>1, <1>3, <2>1, <2>2 DEF AtEndpoint
  <2>5. status[q] \in Unenforced => executes'[q] = 0
    <3>1. CASE executes'[q] = executes[q]
      BY <2>1, <3>1 DEF AtEndpoint
    <3>2. CASE executes'[q] # executes[q]
      <4>1. q = r /\ Action(s) = "isolate"
        BY <1>3, <3>2
      <4>2. status[q] \notin Unenforced
        BY <1>1, <4>1
      <4> QED BY <4>2
    <3> QED BY <3>1, <3>2
  <2>6. ASSUME executes'[q] <= 1 PROVE Once(q)'
    <3>1. executes[q] <= 1 /\ executes[q] \in Nat /\ Once(q)
      BY <1>1, <1>3, <2>1, <2>6 DEF AtEndpoint
    <3>2. CASE Pending(q, "isolate")' = Pending(q, "isolate")
      BY <1>2, <3>1, <3>2 DEF Once
    <3>3. CASE Pending(q, "isolate")' # Pending(q, "isolate")
      <4>1. executes[q] = 0 /\ Pending(q, "isolate")' = Pending(q, "isolate") \cup {new}
        BY <2>2, <2>6, <3>1, <3>3
      <4>2. ~Isolated(q) /\ ~Released(q) /\ Pending(q, "isolate") = {}
        BY <2>1, <4>1 DEF AtEndpoint
      <4>3. Pending(q, "isolate")' = {new}
        BY <4>1, <4>2
      <4> HIDE DEF new
      <4> QED BY <1>2, <4>2, <4>3 DEF Once
    <3> QED BY <3>2, <3>3
  <2> QED BY <1>2, <2>1, <2>3, <2>4, <2>5, <2>6 DEF AtEndpoint
<1>8. ASSUME NEW t \in Sessions PROVE Working(t)'
  <2>1. Working(t)
    BY DEF EndpointInv
  <2>2. CASE pc'[t] = pc[t] /\ job'[t] = job[t]
    BY <1>2, <2>1, <2>2 DEF Working
  <2>3. CASE pc'[t] = "audit_read"
    BY <2>3 DEF Working
  <2>4. (pc'[t] = pc[t] /\ job'[t] = job[t]) \/ pc'[t] = "audit_read"
    BY DEF G!Goto, Inv, Q!TypeOK
  <2> QED BY <2>2, <2>3, <2>4
<1> QED
  BY <1>7, <1>8 DEF EndpointInv

(***************************************************************************)
(* The script runs a command: it touches the endpoint of no other request. *)
(***************************************************************************)
LEMMA RunEndpoint ==
    ASSUME OwnEndpoints, Inv, EndpointInv, NEW c \in commands, Run(c)
    PROVE  EndpointInv'
<1> DEFINE t == TargetOf[c.req]
<1>1. /\ c.req \in Requests /\ c.action \in {"isolate", "release"} /\ c \in Pending(c.req, c.action)
      /\ isolated \in [Targets -> BOOLEAN] /\ t \in Targets
      /\ \A q \in Requests : q # c.req => TargetOf[q] # t
  BY Assumed DEF Inv, Q!TypeOK, Pending, OwnEndpoints, Q!ContainmentAssumption
<1>2. /\ commands' = commands \ {c} /\ UNCHANGED <<pc, job, status, executes, rollbacks>>
      /\ \/ isolated' = [isolated EXCEPT ![t] = c.action = "isolate"]
            /\ proven' = proven \cup {<<c.req, c.action>>}
         \/ isolated' \in {isolated, [isolated EXCEPT ![t] = c.action = "isolate"]} /\ UNCHANGED proven
  BY DEF Run, service, rows
<1>3. \A q, a : Pending(q, a)' = Pending(q, a) \ {c}
  BY <1>2 DEF Pending
<1>4. ASSUME NEW q \in Requests, q # c.req PROVE AtEndpoint(q)'
  <2>1. isolated'[TargetOf[q]] = isolated[TargetOf[q]]
    <3>1. TargetOf[q] # t /\ TargetOf[q] \in Targets
      BY <1>1, <1>4, Assumed DEF Q!ContainmentAssumption
    <3>2. isolated' = isolated \/ isolated' = [isolated EXCEPT ![t] = c.action = "isolate"]
      BY <1>2
    <3> HIDE DEF t
    <3>3. CASE isolated' = isolated
      BY <3>3
    <3>4. CASE isolated' = [isolated EXCEPT ![t] = c.action = "isolate"]
      BY <1>1, <3>1, <3>4
    <3> QED BY <3>2, <3>3, <3>4
  <2>2. Isolated(q)' = Isolated(q) /\ Released(q)' = Released(q)
    BY <1>2, <1>4 DEF Isolated, Released
  <2>3. \A a : Pending(q, a)' = Pending(q, a)
    BY <1>3, <1>4 DEF Pending
  <2>4. AtEndpoint(q)
    BY DEF EndpointInv
  <2> QED BY <1>2, <2>1, <2>2, <2>3, <2>4 DEF AtEndpoint, Once
<1>5. AtEndpoint(c.req)'
  <2> DEFINE r == c.req
  <2>1. AtEndpoint(r) /\ executes \in [Requests -> Nat]
    BY <1>1 DEF EndpointInv, Inv, Q!TypeOK
  <2>2. executes[r] > 0
    BY <1>1, <2>1 DEF AtEndpoint
  <2>3. /\ Isolated(r) => Isolated(r)'
        /\ Released(r) => Released(r)'
        /\ Isolated(r)' => Isolated(r) \/ (c.action = "isolate" /\ isolated'[t])
        /\ Released(r)' => Released(r) \/ (c.action = "release" /\ ~isolated'[t])
    BY <1>1, <1>2 DEF Isolated, Released
  <2>4. c.action = "release" => Isolated(r) /\ rollbacks[r] > 0 /\ (isolated'[t] => isolated[t])
    BY <1>1, <1>2, <2>1 DEF AtEndpoint
  <2>5. Released(r)' \/ Pending(r, "release")' # {} => Isolated(r)' /\ rollbacks[r] > 0
    BY <1>3, <2>1, <2>3, <2>4 DEF AtEndpoint
  <2>6. ASSUME executes[r] <= 1 PROVE Once(r)'
    <3>1. Once(r)
      BY <2>1, <2>6 DEF AtEndpoint
    <3>2. \A d, e \in Pending(r, "isolate")' : d = e
      BY <1>3, <3>1 DEF Once
    <3>3. CASE c.action = "isolate"
      <4>1. ~Isolated(r) /\ Pending(r, "isolate")' = {}
        BY <1>1, <1>3, <3>1, <3>3 DEF Once
      <4>2. ~Released(r)
        BY <2>1, <4>1 DEF AtEndpoint
      <4> QED BY <1>2, <2>3, <3>2, <3>3, <4>1, <4>2 DEF Once
    <3>4. CASE c.action = "release"
      <4>1. Isolated(r) /\ rollbacks[r] > 0 /\ Pending(r, "isolate") = {}
        BY <2>4, <3>1, <3>4 DEF Once
      <4>2. Released(r)' => ~isolated'[t]
        BY <2>3, <2>4, <3>1, <3>4 DEF Once
      <4>3. Pending(r, "isolate")' = {} /\ rollbacks'[r] = rollbacks[r] /\ rollbacks[r] # 0
        <5>1. rollbacks[r] \in Nat
          BY <1>1 DEF Inv, Q!TypeOK
        <5> QED BY <1>2, <1>3, <4>1, <5>1
      <4> QED BY <3>2, <4>2, <4>3 DEF Once
    <3> QED BY <1>1, <3>3, <3>4
  <2> QED BY <1>2, <2>1, <2>2, <2>3, <2>5, <2>6 DEF AtEndpoint
<1>6. ASSUME NEW s \in Sessions PROVE Working(s)'
  <2>1. \A q : Isolated(q) => Isolated(q)'
    BY <1>2 DEF Isolated
  <2> QED BY <1>2, <2>1 DEF EndpointInv, Working
<1> QED
  BY <1>4, <1>5, <1>6 DEF EndpointInv

LEMMA EndpointFrame ==
    ASSUME EndpointInv,
           UNCHANGED <<pc, job, status, executes, rollbacks, isolated, commands, proven>>
    PROVE  EndpointInv'
<1>1. \A r : /\ Isolated(r)' = Isolated(r) /\ Released(r)' = Released(r)
             /\ \A a : Pending(r, a)' = Pending(r, a)
  BY DEF Isolated, Released, Pending
<1> QED
  BY <1>1 DEF EndpointInv, AtEndpoint, Once, Working

LEMMA StepEndpoint ==
    ASSUME OwnEndpoints, Inv, ProvenInv, EndpointInv, [Next]_vars
    PROVE  EndpointInv'
<1>0. \A s \in Sessions : ~Waits(s, "idle") => pc[s] \in {"execute", "undo"}
  BY DEF Inv
<1>1. ASSUME NEW s \in Sessions, Refuse(s) PROVE EndpointInv'
  <2>1. \E j : G!Goto(s, "audit_read", j)
    BY <1>1 DEF Refuse, Answer
  <2> QED BY <1>1, <2>1, AdapterMoves DEF Refuse, Counts, rows
<1>2. ASSUME NEW s \in Sessions, Send(s) PROVE EndpointInv'
  BY <1>2, AdapterMoves DEF Send, Counts, rows
<1>3. ASSUME NEW s \in Sessions, Acknowledge(s) \/ LookUp(s) PROVE EndpointInv'
  <2>1. pc[s] \in {"execute", "undo"}
    BY <1>0, <1>3 DEF Acknowledge, LookUp, Waits
  <2>2. UNCHANGED <<pc, job>> \/ \E j : G!Goto(s, "audit_read", j)
    BY <1>3 DEF Acknowledge, LookUp, Answer
  <2> QED BY <1>3, <2>1, <2>2, AdapterMoves DEF Acknowledge, LookUp, rows
<1>4. ASSUME NEW s \in Sessions, Wake(s) PROVE EndpointInv'
  BY <1>4, EndpointFrame DEF Wake, service, rows
<1>5. ASSUME NEW m \in posted, Submit(m) PROVE EndpointInv'
  BY <1>5, EndpointFrame DEF Submit, service, rows
<1>6. CASE Tick \/ UNCHANGED vars
  BY <1>6, EndpointFrame DEF Tick, vars, service, rows, wazuh
<1>7. CASE Abandon
  <2>1. UNCHANGED <<status, executes, rollbacks, isolated, commands, proven>>
    BY <1>7, AbandonKeeps DEF rows
  <2>2. \A r : /\ Isolated(r)' = Isolated(r) /\ Released(r)' = Released(r)
               /\ \A a : Pending(r, a)' = Pending(r, a)
    BY <2>1 DEF Isolated, Released, Pending
  <2>3. \A r \in Requests : AtEndpoint(r)'
    BY <2>1, <2>2 DEF EndpointInv, AtEndpoint, Once
  <2>4. \A s \in Sessions : Working(s)'
    BY <1>7, <2>1, <2>2, AbandonKeeps DEF EndpointInv, Working
  <2> QED BY <2>3, <2>4 DEF EndpointInv
<1> QED
  BY <1>1, <1>2, <1>3, <1>4, <1>5, <1>6, <1>7, CallEndpoint, ServiceEndpoint, RunEndpoint
     DEF Next, Step, Adapter, Abandon

(* For any number of racing calls, late commands and lost receipts, when   *)
(* requests have endpoints of their own and none was executed twice: what  *)
(* an operator reads is true of the endpoint.                              *)
THEOREM StatusIsTrue ==
    ASSUME OwnEndpoints
    PROVE  Spec => []StatusTellsEndpoint
<1>1. EndpointInv => StatusTellsEndpoint
  <2> SUFFICES ASSUME EndpointInv, NEW r \in Requests, executes[r] <= 1
               PROVE  /\ status[r] = "verified" /\ rollbacks[r] = 0 => isolated[TargetOf[r]]
                      /\ status[r] \in {"absent", "requested", "approved", "rejected", "rolled_back"} =>
                           ~isolated[TargetOf[r]]
    BY DEF StatusTellsEndpoint, G!StatusTellsEndpoint
  <2>1. AtEndpoint(r) /\ Once(r)
    BY DEF EndpointInv, AtEndpoint
  <2> QED BY <2>1 DEF AtEndpoint, Once, Unenforced
<1>2. Inv /\ ProvenInv /\ EndpointInv /\ [Next]_vars => EndpointInv'
  BY StepEndpoint
<1> QED
  BY <1>1, <1>2, InitInv, StepInv, InitProven, StepProven, InitEndpoint, PTL DEF Spec
----------------------------------------------------------------------------
(***************************************************************************)
(* What the service keeps of its promises, it keeps with this adapter.  A  *)
(* call of the adapter is several steps here: it is counted when it sends  *)
(* the command, and answers later, when the command may not have run yet.  *)
(***************************************************************************)
Sent == \A s \in Sessions : pc[s] = "execute" /\ ~Waits(s, "idle") => executes[job[s].req] > 0

ServiceInv == Q!PromiseInv /\ Q!EnforceInv /\ Sent

(* The answer of a call, with what the service does next with it.          *)
Answered(s) ==
    /\ wait' = [wait EXCEPT ![s] = NoWait]
    /\ pc'[s] = "audit_read" /\ job'[s] \in Q!Job /\ job'[s].req = job[s].req
    /\ job'[s].act = IF pc[s] = "execute" THEN "executed" ELSE "rolled_back"
    /\ job'[s].reversible => job'[s].ok

(* The call goes on.                                                       *)
GoesOn(s) ==
    /\ UNCHANGED <<pc, job>>
    /\ \E w \in WaitStates : w.step # "idle" /\ wait' = [wait EXCEPT ![s] = w]

LEMMA AnswerAnswers ==
    ASSUME Inv, NEW s \in Sessions, pc[s] \in {"execute", "undo"}, NEW verified \in BOOLEAN,
           Answer(s, verified)
    PROVE  Answered(s) /\ \A t \in Sessions \ {s} : pc'[t] = pc[t] /\ job'[t] = job[t]
<1>1. PICK a \in {"executed", "rolled_back"}, b \in BOOLEAN :
        /\ a = IF Action(s) = "isolate" THEN "executed" ELSE "rolled_back"
        /\ b = (verified /\ Action(s) = "isolate")
  OBVIOUS
<1> DEFINE j == [job[s] EXCEPT !.act = a, !.ok = verified, !.reversible = b]
<1>2. G!Goto(s, "audit_read", j) /\ wait' = [wait EXCEPT ![s] = NoWait]
  BY <1>1 DEF Answer
<1>3. /\ j \in Q!Job /\ j.req = job[s].req /\ j.ok = verified /\ j.act = a /\ j.reversible = b
  BY AtAdapter DEF Q!Job, Q!Acts
<1>4. a = IF pc[s] = "execute" THEN "executed" ELSE "rolled_back"
  BY <1>1 DEF Action
<1>5. pc'[s] = "audit_read" /\ job'[s] = j /\ \A t \in Sessions \ {s} : pc'[t] = pc[t] /\ job'[t] = job[t]
  <2> HIDE DEF j
  <2> QED BY <1>2 DEF G!Goto, Inv, Q!TypeOK
<1> HIDE DEF j
<1> QED
  BY <1>1, <1>2, <1>3, <1>4, <1>5 DEF Answered

(* A step of the adapter: it is counted when it begins to enforce, and it  *)
(* writes nothing of the service's but what its own session knows.         *)
LEMMA AdapterWrites ==
    ASSUME Inv, NEW s \in Sessions, Adapter(s)
    PROVE  /\ pc[s] \in {"execute", "undo"}
           /\ UNCHANGED <<rows, audit, signing, rollbacks>>
           /\ \A t \in Sessions \ {s} : pc'[t] = pc[t] /\ job'[t] = job[t]
           /\ Answered(s) \/ GoesOn(s)
           /\ \/ /\ pc[s] = "execute" /\ Waits(s, "idle")
                 /\ executes' = [executes EXCEPT ![job[s].req] = @ + 1]
              \/ /\ pc[s] = "undo" \/ ~Waits(s, "idle")
                 /\ UNCHANGED executes
<1>0. /\ wait \in [Sessions -> WaitStates] /\ clock \in Nat
      /\ \A t \in Sessions : ~Waits(t, "idle") => pc[t] \in {"execute", "undo"}
  BY Assumed DEF Inv
<1>1. pc[s] = "execute" <=> (pc[s] \in {"execute", "undo"} /\ Action(s) = "isolate")
  BY DEF Action
<1>2. CASE Refuse(s)
  <2>1. pc[s] \in {"execute", "undo"} /\ Waits(s, "idle") /\ Answer(s, FALSE)
    BY <1>2 DEF Refuse
  <2>2. Answered(s) /\ \A t \in Sessions \ {s} : pc'[t] = pc[t] /\ job'[t] = job[t]
    BY <2>1, AnswerAnswers
  <2> QED BY <1>1, <1>2, <2>1, <2>2 DEF Refuse
<1>3. CASE Send(s)
  <2>1. PICK w : w = [NoWait EXCEPT !.step = "sent", !.since = clock]
    OBVIOUS
  <2>2. w \in WaitStates /\ w.step # "idle"
    BY <1>0, <2>1 DEF NoWait, WaitStates
  <2>3. GoesOn(s)
    BY <1>3, <2>1, <2>2 DEF Send, GoesOn
  <2> QED BY <1>1, <1>3, <2>3 DEF Send
<1>4. CASE Acknowledge(s) \/ LookUp(s)
  <2>1. /\ pc[s] \in {"execute", "undo"} /\ ~Waits(s, "idle") /\ UNCHANGED executes
        /\ UNCHANGED <<rows, audit, signing, rollbacks>>
    BY <1>0, <1>4 DEF Acknowledge, LookUp, Waits
  <2>2. ASSUME NEW verified \in BOOLEAN, Answer(s, verified)
        PROVE  Answered(s) /\ \A t \in Sessions \ {s} : pc'[t] = pc[t] /\ job'[t] = job[t]
    BY <2>1, <2>2, AnswerAnswers
  <2>3. ASSUME wait' = [wait EXCEPT ![s] = [@ EXCEPT !.step = "poll", !.deadline = clock + Timeout]],
               UNCHANGED <<pc, job>>
        PROVE  GoesOn(s)
    <3>0. PICK n \in Nat : n = clock + Timeout
      BY <1>0, Assumed
    <3>1. PICK w : w = [wait[s] EXCEPT !.step = "poll", !.deadline = n]
      OBVIOUS
    <3>2. w \in WaitStates /\ w.step # "idle"
      <4>1. wait[s] \in WaitStates
        BY <1>0
      <4> QED BY <3>1, <4>1 DEF WaitStates
    <3> QED BY <2>3, <3>0, <3>1, <3>2 DEF GoesOn
  <2>4. ASSUME wait' = [wait EXCEPT ![s] = [@ EXCEPT !.step = "sleep", !.wake = clock + Poll]],
               UNCHANGED <<pc, job>>
        PROVE  GoesOn(s)
    <3>0. PICK n \in Nat : n = clock + Poll
      BY <1>0, Assumed
    <3>1. PICK w : w = [wait[s] EXCEPT !.step = "sleep", !.wake = n]
      OBVIOUS
    <3>2. w \in WaitStates /\ w.step # "idle"
      <4>1. wait[s] \in WaitStates
        BY <1>0
      <4> QED BY <3>1, <4>1 DEF WaitStates
    <3> QED BY <2>4, <3>0, <3>1, <3>2 DEF GoesOn
  <2> QED BY <1>4, <2>1, <2>2, <2>3, <2>4 DEF Acknowledge, LookUp
<1>5. CASE Wake(s)
  <2>1. PICK w : w = [wait[s] EXCEPT !.step = "poll"]
    OBVIOUS
  <2>2. w \in WaitStates /\ w.step # "idle" /\ pc[s] \in {"execute", "undo"} /\ ~Waits(s, "idle")
    BY <1>0, <1>5, <2>1 DEF WaitStates, Wake, Waits
  <2>3. GoesOn(s)
    BY <1>5, <2>1, <2>2 DEF Wake, GoesOn, service
  <2> QED BY <1>5, <2>2, <2>3 DEF Wake, service
<1> QED
  BY <1>2, <1>3, <1>4, <1>5 DEF Adapter

(* What is left of Next touches nothing of the service's.                  *)
LEMMA NextSplits ==
    ASSUME [Next]_vars
    PROVE  \/ \E s \in Sessions : Service(s) \/ \E r \in Requests : G!Call(s, r) /\ UNCHANGED wazuh
           \/ \E s \in Sessions : Adapter(s)
           \/ Abandon
           \/ UNCHANGED <<service, wait>>
<1>1. ASSUME NEW c \in commands, Run(c) PROVE UNCHANGED <<service, wait>>
  BY <1>1 DEF Run
<1>2. ASSUME NEW m \in posted, Submit(m) PROVE UNCHANGED <<service, wait>>
  BY <1>2 DEF Submit
<1>3. CASE Tick \/ UNCHANGED vars
  BY <1>3 DEF Tick, vars, wazuh
<1> QED
  BY <1>1, <1>2, <1>3, Zenon DEF Next, Step, Abandon

(* The service's own steps count nothing; they are GovernedContainment's.  *)
LEMMA ServiceSteps ==
    ASSUME NEW s \in Sessions, Service(s)
    PROVE  Q!Step(s) /\ UNCHANGED <<executes, isolated, wait>>
<1>1. Q!Step(s) /\ UNCHANGED wait
  BY SameStep DEF Service, Q!Step, wazuh
<1>2. UNCHANGED <<executes, isolated>>
  BY DEF Service, G!InsertRequest, G!DecisionCommit, G!Decide, G!ClaimExecution, G!RecordExecution,
     G!RollbackLoadRequest, G!RollbackLoadExecution, G!RecordRollback, G!AuditRead, G!AuditAppend
<1> QED
  BY <1>1, <1>2

LEMMA InitService == Init => ServiceInv
<1> SUFFICES ASSUME Init PROVE ServiceInv
  OBVIOUS
<1>1. Q!PromiseInv /\ Q!EnforceInv
  BY Assumed, SameInit, Q!InitPromise, Q!InitEnforce DEF Init
<1> QED BY <1>1 DEF Init, ServiceInv, Sent, Waits, NoWait

LEMMA StepService ==
    ASSUME Inv, ServiceInv, [Next]_vars
    PROVE  ServiceInv'
<1> USE DEF ServiceInv
<1>0. /\ Q!TypeOK /\ Q!GovernInv /\ \A q \in Requests : executes[q] \in Nat
      /\ \A t \in Sessions : ~Waits(t, "idle") => pc[t] \in {"execute", "undo"}
  BY DEF Inv, Q!TypeOK
<1>1. ASSUME NEW s \in Sessions, Service(s) \/ \E r \in Requests : G!Call(s, r) /\ UNCHANGED wazuh
      PROVE  ServiceInv'
  <2>1. Q!PromiseInv' /\ Q!EnforceInv'
    BY <1>0, <1>1, Assumed, ServiceStep, Q!StepPromise, Q!StepEnforce
  <2>2. /\ \A t \in Sessions \ {s} : pc'[t] = pc[t] /\ job'[t] = job[t]
        /\ UNCHANGED <<executes, wait>> /\ pc[s] \notin {"execute", "undo"}
    <3>1. CASE Service(s)
      <4>1. pc[s] \notin {"execute", "undo"}
        BY <3>1 DEF Service, G!InsertRequest, G!DecisionCommit, G!ClaimExecution, G!RecordExecution,
           G!RollbackLoadRequest, G!RollbackLoadExecution, G!RecordRollback, G!AuditRead, G!AuditAppend
      <4> QED BY <1>0, <3>1, <4>1, Assumed, ServiceSteps, Q!StepIsLocal
    <3>2. ASSUME NEW r \in Requests, G!Call(s, r), UNCHANGED wazuh
          PROVE  /\ \A t \in Sessions \ {s} : pc'[t] = pc[t] /\ job'[t] = job[t]
                 /\ UNCHANGED <<executes, wait>> /\ pc[s] \notin {"execute", "undo"}
      <4>1. Q!Call(s, r)
        BY <3>2, SameCall
      <4>2. pc[s] = "idle"
        BY <3>2 DEF G!Call, G!RequestRead, G!DecisionRead, G!ExecuteRead, G!RollbackRead, G!Start
      <4> QED BY <1>0, <3>2, <4>1, <4>2, Assumed, Q!CallIsLocal DEF wazuh
    <3> QED BY <1>1, <3>1, <3>2
  <2>3. Sent'
    BY <1>0, <2>2 DEF Sent, Waits
  <2> QED BY <2>1, <2>3
<1>2. ASSUME NEW s \in Sessions, Adapter(s) PROVE ServiceInv'
  <2> DEFINE r == job[s].req
  <2>0. /\ r \in Requests /\ pc[s] \in {"execute", "undo"}
        /\ UNCHANGED <<rows, rollbacks>>
        /\ \A t \in Sessions \ {s} : pc'[t] = pc[t] /\ job'[t] = job[t]
        /\ \A t \in Sessions : pc[t] # "idle" => job[t].req \in Requests
        /\ wait \in [Sessions -> WaitStates]
    BY <1>2, AdapterWrites, AtAdapter DEF Inv, Q!TypeOK
  <2>1. /\ \A q \in Requests : executes'[q] \in Nat /\ executes'[q] >= executes[q]
        /\ pc[s] = "execute" => executes'[r] > 0
        /\ \A q \in Requests : executes'[q] # executes[q] => pc[s] = "execute" /\ q = r
    <3>1. CASE pc[s] = "execute" /\ Waits(s, "idle") /\ executes' = [executes EXCEPT ![r] = @ + 1]
      BY <1>0, <2>0, <3>1 DEF Inv, Q!TypeOK
    <3>2. CASE (pc[s] = "undo" \/ ~Waits(s, "idle")) /\ UNCHANGED executes
      <4>1. pc[s] = "execute" => executes[r] > 0
        BY <3>2 DEF Sent
      <4> QED BY <1>0, <3>2, <4>1
    <3> QED BY <1>2, <3>1, <3>2, AdapterWrites
  <2>2. CASE Answered(s)
    <3>1. /\ pc'[s] = "audit_read" /\ job'[s].req = r
          /\ job'[s].act = IF pc[s] = "execute" THEN "executed" ELSE "rolled_back"
          /\ job'[s].reversible => job'[s].ok
          /\ wait'[s] = NoWait /\ \A t \in Sessions \ {s} : wait'[t] = wait[t]
      BY <2>0, <2>2 DEF Answered
    <3>2. Q!PromiseInv'
      <4>1. pc[s] = "undo" => execution[r].reversible
        BY DEF Q!PromiseInv, Q!Undoing
      <4>2. ASSUME NEW t \in Sessions
            PROVE /\ Q!Enforced(t)' => executes'[job'[t].req] > 0 /\ (job'[t].reversible => job'[t].ok)
                  /\ Q!Undoing(t)' => execution'[job'[t].req].reversible
        <5>1. CASE t = s
          BY <2>0, <2>1, <3>1, <4>1, <5>1 DEF Q!Enforced, Q!Undoing, Q!InAudit, rows
        <5>2. CASE t # s
          <6>1. /\ Q!Enforced(t)' <=> Q!Enforced(t)
                /\ Q!Undoing(t)' <=> Q!Undoing(t)
            BY <2>0, <5>2 DEF Q!Enforced, Q!Undoing, Q!InAudit
          <6>2. Q!Enforced(t) => executes[job[t].req] > 0 /\ job[t].req \in Requests
            BY <2>0 DEF Q!PromiseInv, Q!Enforced, Q!InAudit
          <6> QED BY <1>0, <2>0, <2>1, <5>2, <6>1, <6>2 DEF Q!PromiseInv, rows
        <5> QED BY <5>1, <5>2
      <4> QED BY <2>0, <4>2 DEF Q!PromiseInv, rows
    <3>3. Q!EnforceInv'
      BY <1>0, <2>0, <2>1, <3>1 DEF Q!EnforceInv, rows
    <3>4. Sent'
      BY <1>0, <2>0, <2>1, <3>1 DEF Sent, Waits, NoWait
    <3> QED BY <3>2, <3>3, <3>4
  <2>3. CASE GoesOn(s)
    <3>1. UNCHANGED <<pc, job>> /\ \A t \in Sessions \ {s} : wait'[t] = wait[t]
      BY <2>3 DEF GoesOn
    <3>2. Q!PromiseInv'
      <4>1. \A t \in Sessions : Q!Enforced(t) => executes'[job[t].req] > 0
        BY <1>0, <2>0, <2>1 DEF Q!PromiseInv, Q!Enforced, Q!InAudit
      <4> QED BY <2>0, <3>1, <4>1 DEF Q!PromiseInv, Q!Enforced, Q!Undoing, Q!InAudit, rows
    <3>3. Q!EnforceInv'
      BY <1>0, <2>0, <2>1, <3>1 DEF Q!EnforceInv, rows
    <3>4. Sent'
      BY <1>0, <2>0, <2>1, <3>1 DEF Sent, Waits
    <3> QED BY <3>2, <3>3, <3>4
  <2> QED BY <1>2, <2>2, <2>3, AdapterWrites
<1>3. CASE UNCHANGED <<service, wait>>
  BY <1>3 DEF service, rows, Sent, Waits, Q!PromiseInv, Q!Enforced, Q!Undoing, Q!InAudit, Q!EnforceInv
<1>4. CASE Abandon
  <2>1. Q!PromiseInv' /\ Q!EnforceInv'
    BY <1>0, <1>4, Assumed, SameAbandon, Q!StepPromise, Q!StepEnforce
  <2>2. Sent'
    BY <1>4, AbandonKeeps DEF Sent, Waits, NoWait
  <2> QED BY <2>1, <2>2
<1> QED
  BY <1>1, <1>2, <1>3, <1>4, NextSplits

(* Every step is a step of the promise or changes nothing it speaks of.    *)
LEMMA StepKeepsPromise ==
    ASSUME Inv, ServiceInv, [Next]_vars
    PROVE  [Q!Promise!Next]_(Q!Promise!promise)
<1>0. ASSUME UNCHANGED <<approval, execution, executes>> PROVE UNCHANGED Q!Promise!promise
  BY <1>0 DEF Q!Promise!promise
<1>1. ASSUME NEW s \in Sessions, Service(s) \/ \E r \in Requests : G!Call(s, r) /\ UNCHANGED wazuh
      PROVE  [Q!Promise!Next]_(Q!Promise!promise)
  BY <1>1, Assumed, ServiceStep, Q!Simulation DEF Inv, ServiceInv
<1>2. ASSUME NEW s \in Sessions, Adapter(s) PROVE [Q!Promise!Next]_(Q!Promise!promise)
  <2>0. UNCHANGED <<approval, execution>>
    BY <1>2, AdapterWrites DEF rows
  <2>1. CASE UNCHANGED executes
    BY <1>0, <2>0, <2>1
  <2>2. CASE pc[s] = "execute" /\ executes' = [executes EXCEPT ![job[s].req] = @ + 1]
    <3>1. job[s].req \in Requests /\ approval[job[s].req] = "approved" /\ executes \in [Requests -> Nat]
      BY <2>2, AtAdapter DEF Inv, Q!TypeOK
    <3>2. [r \in Requests |-> executes'[r] > 0]
          = [[r \in Requests |-> executes[r] > 0] EXCEPT ![job[s].req] = TRUE]
      <4>1. \A r \in Requests : /\ r = job[s].req => executes'[r] > 0
                                /\ r # job[s].req => executes'[r] = executes[r]
        BY <2>2, <3>1
      <4> QED BY <3>1, <4>1, Zenon
    <3>3. Q!Promise!Enforce(job[s].req)
      BY <2>0, <3>1, <3>2 DEF Q!Promise!Enforce
    <3> QED BY <3>1, <3>3 DEF Q!Promise!Next, Q!Promise!Enforce
  <2> QED BY <1>2, <2>1, <2>2, AdapterWrites
<1>3. CASE UNCHANGED <<service, wait>>
  BY <1>0, <1>3 DEF service, rows
<1>4. CASE Abandon
  BY <1>0, <1>4, AbandonKeeps DEF rows
<1> QED
  BY <1>1, <1>2, <1>3, <1>4, NextSplits

(* GovernedContainmentService with WazuhActiveResponseContainmentAdapter   *)
(* implements what governed containment promises about each request: late  *)
(* commands and receipts that are lost or come twice take nothing of it    *)
(* back.                                                                   *)
THEOREM ResponseKeepsPromise == Spec => Q!KeepsPromise
<1>1. Init => Q!Promise!Init
  BY Assumed, SameInit, Q!InitSimulation DEF Init
<1>2. Inv /\ ServiceInv /\ [Next]_vars => [Q!Promise!Next]_(Q!Promise!promise)
  BY StepKeepsPromise
<1>3. Inv /\ ServiceInv /\ [Next]_vars => (Inv /\ ServiceInv)'
  BY StepInv, StepService
<1> QED
  BY <1>1, <1>2, <1>3, InitInv, InitService, PTL DEF Spec, Q!KeepsPromise, Q!Promise!Spec
----------------------------------------------------------------------------
(***************************************************************************)
(* Two calls of execute() between the read that found the request approved *)
(* and the UPDATE that claims it, as in GovernedContainment_proofs: with   *)
(* this adapter too, nothing else sends a command twice, though a call now *)
(* waits at the adapter while others of the same request come and go.      *)
(***************************************************************************)
OneClaim == Q!OneClaim

ClaimInv ==
    /\ G!AtMostOneExecution
    /\ \A s \in Sessions : pc[s] = "claim" => status[job[s].req] = "approved"
    /\ \A s \in Sessions : pc[s] = "execute" /\ Waits(s, "idle") => executes[job[s].req] = 0
    /\ \A s, t \in Sessions :
         pc[s] = "execute" /\ pc[t] = "execute" /\ job[s].req = job[t].req => s = t

LEMMA InitClaim == Init => ClaimInv
  BY DEF Init, G!Init, ClaimInv, G!AtMostOneExecution

LEMMA ServiceClaim ==
    ASSUME Inv, ServiceInv, OneClaim, ClaimInv, NEW s \in Sessions, Service(s)
    PROVE  ClaimInv'
<1> DEFINE r == job[s].req
<1>0. /\ r \in Requests /\ \A q \in Requests : executes[q] \in Nat
      /\ \A t \in Sessions \ {s} : pc'[t] = pc[t] /\ job'[t] = job[t]
      /\ pc'[s] # "idle" => job'[s].req = r
      /\ \A t \in Sessions : pc[t] # "idle" => job[t].req \in Requests
      /\ Q!TypeOK /\ Q!GovernInv /\ Q!PromiseInv /\ Q!EnforceInv
      /\ executes' = executes /\ wait' = wait /\ Q!Step(s)
      /\ \A q \in Requests \ {r} : status'[q] = status[q]
  <2>1. Q!Step(s) /\ executes' = executes /\ wait' = wait
    BY ServiceSteps
  <2>2. Q!TypeOK
    BY DEF Inv
  <2> QED BY <2>1, <2>2, Assumed, Q!StepIsLocal, Q!StepWrites DEF Inv, ServiceInv, Q!TypeOK
<1>1. G!AtMostOneExecution'
  BY <1>0 DEF ClaimInv, G!AtMostOneExecution
(* A write of the status leaves the claimants of the request alone when    *)
(* there is none.                                                          *)
<1>2. ASSUME pc'[s] \notin {"claim", "execute"}, \A t \in Sessions \ {s} : pc[t] = "claim" => job[t].req # r
      PROVE  ClaimInv'
  <2>1. \A t \in Sessions : pc'[t] \in {"claim", "execute"} => t # s
    BY <1>2
  <2>2. \A t \in Sessions : pc'[t] = "claim" => status'[job'[t].req] = "approved"
    BY <1>0, <1>2, <2>1 DEF ClaimInv
  <2> QED BY <1>0, <1>1, <2>1, <2>2 DEF ClaimInv, Waits
<1>3. CASE UNCHANGED status /\ pc'[s] \notin {"claim", "execute"}
  <2>1. \A t \in Sessions : pc'[t] \in {"claim", "execute"} => t # s
    BY <1>3
  <2> QED BY <1>0, <1>1, <1>3, <2>1 DEF ClaimInv, Waits
<1>4. CASE pc[s] = "insert" /\ status[r] = "absent" /\ pc'[s] = "audit_read"
  BY <1>0, <1>2, <1>4 DEF ClaimInv
<1>5. CASE pc[s] = "decide" /\ approval[r] = "none" /\ pc'[s] = "audit_read"
  BY <1>0, <1>2, <1>5 DEF Q!GovernInv, Q!Enforcing
<1>6. CASE pc[s] = "claim" /\ pc'[s] = "execute"
  <2>1. status[r] = "approved" /\ executes[r] = 0
    BY <1>0, <1>6 DEF ClaimInv, Q!EnforceInv, Q!Unenforced
  <2>2. \A t \in Sessions \ {s} : pc[t] = "claim" => job[t].req # r
    BY <1>6 DEF OneClaim, Q!OneClaim
  <2>3. \A t \in Sessions : pc[t] = "execute" => job[t].req # r
    BY <1>0, <2>1 DEF Q!EnforceInv, Q!Unenforced
  <2>4. \A t \in Sessions : pc'[t] = "claim" => status'[job'[t].req] = "approved"
    BY <1>0, <1>6, <2>2 DEF ClaimInv
  <2>5. \A t \in Sessions : pc'[t] = "execute" /\ wait'[t].step = "idle" => executes'[job'[t].req] = 0
    BY <1>0, <1>6, <2>1 DEF ClaimInv, Waits
  <2>6. \A t, u \in Sessions :
          pc'[t] = "execute" /\ pc'[u] = "execute" /\ job'[t].req = job'[u].req => t = u
    BY <1>0, <1>6, <2>3 DEF ClaimInv
  <2> QED BY <1>1, <2>4, <2>5, <2>6 DEF ClaimInv, Waits
<1>7. CASE pc[s] = "execute" /\ executes'[r] = executes[r] + 1
  BY <1>0, <1>7
<1>8. CASE pc[s] \in {"record", "record_undo"} /\ pc'[s] = "idle"
  <2>1. executes[r] > 0
    BY <1>0, <1>8 DEF Q!PromiseInv, Q!Enforced, Q!Undoing, Q!EnforceInv
  <2>2. \A t \in Sessions : pc[t] = "claim" => job[t].req # r
    BY <1>0, <2>1 DEF ClaimInv, Q!EnforceInv, Q!Unenforced
  <2> QED BY <1>2, <1>8, <2>2
<1> QED
  BY <1>0, <1>3, <1>4, <1>5, <1>6, <1>7, <1>8, Assumed, Q!StepWrites

LEMMA StepClaim ==
    ASSUME Inv, ServiceInv, OneClaim, ClaimInv, [Next]_vars
    PROVE  ClaimInv'
<1>1. ASSUME NEW s \in Sessions, NEW r \in Requests, G!Call(s, r), UNCHANGED wazuh PROVE ClaimInv'
  <2>1. /\ \A t \in Sessions \ {s} : pc'[t] = pc[t] /\ job'[t] = job[t]
        /\ job'[s].req = r /\ UNCHANGED <<status, executes, wait>>
    <3>1. Q!Call(s, r) /\ Q!TypeOK
      BY <1>1, SameCall DEF Inv
    <3> QED BY <1>1, <3>1, Assumed, Q!CallIsLocal DEF wazuh
  <2>2. pc'[s] # "execute" /\ (pc'[s] = "claim" => status[r] = "approved")
    BY <1>1 DEF G!Call, G!RequestRead, G!DecisionRead, G!ExecuteRead, G!RollbackRead, G!Start, G!Goto,
       Inv, Q!TypeOK
  <2>3. G!AtMostOneExecution'
    BY <2>1 DEF ClaimInv, G!AtMostOneExecution
  <2> QED BY <2>1, <2>2, <2>3 DEF ClaimInv, Waits
<1>2. ASSUME NEW s \in Sessions, Adapter(s) PROVE ClaimInv'
  <2> DEFINE r == job[s].req
  <2>0. /\ r \in Requests /\ pc[s] \in {"execute", "undo"} /\ status' = status
        /\ \A t \in Sessions \ {s} : pc'[t] = pc[t] /\ job'[t] = job[t]
        /\ \A t \in Sessions : pc[t] # "idle" => job[t].req \in Requests
        /\ \A q \in Requests : executes[q] \in Nat
        /\ wait \in [Sessions -> WaitStates]
    BY <1>2, AdapterWrites, AtAdapter DEF Inv, Q!TypeOK, rows
  <2>1. /\ \A t \in Sessions \ {s} : wait'[t] = wait[t]
        /\ pc'[s] # "claim"
        /\ pc'[s] = "execute" => pc[s] = "execute" /\ job'[s] = job[s] /\ wait'[s].step # "idle"
    BY <1>2, <2>0, AdapterWrites DEF Answered, GoesOn
  <2>2. CASE UNCHANGED executes
    <3>1. G!AtMostOneExecution'
      BY <2>2 DEF ClaimInv, G!AtMostOneExecution
    <3> QED BY <2>0, <2>1, <2>2, <3>1 DEF ClaimInv, Waits
  <2>3. CASE pc[s] = "execute" /\ Waits(s, "idle") /\ executes' = [executes EXCEPT ![r] = @ + 1]
    <3>1. executes[r] = 0 /\ \A t \in Sessions \ {s} : pc[t] = "execute" => job[t].req # r
      BY <2>3 DEF ClaimInv
    <3>2. executes'[r] = 1 /\ \A q \in Requests \ {r} : executes'[q] = executes[q]
      BY <2>0, <2>3, <3>1 DEF Inv, Q!TypeOK
    <3>3. G!AtMostOneExecution'
      BY <2>0, <3>2 DEF ClaimInv, G!AtMostOneExecution
    <3>4. \A t \in Sessions : pc'[t] = "execute" /\ wait'[t].step = "idle" => executes'[job'[t].req] = 0
      BY <2>0, <2>1, <3>1, <3>2 DEF ClaimInv, Waits
    <3> QED BY <2>0, <2>1, <3>3, <3>4 DEF ClaimInv, Waits
  <2> QED BY <1>2, <2>2, <2>3, AdapterWrites
<1>3. CASE UNCHANGED <<service, wait>>
  BY <1>3 DEF service, rows, ClaimInv, Waits, G!AtMostOneExecution
<1>4. CASE Abandon
  <2>1. G!AtMostOneExecution'
    BY <1>4, AbandonKeeps DEF ClaimInv, G!AtMostOneExecution
  <2> QED BY <1>4, <2>1, AbandonKeeps DEF ClaimInv, Waits, NoWait, rows
<1> QED
  BY <1>1, <1>2, <1>3, <1>4, NextSplits, ServiceClaim

(* execute() over Wazuh: as long as no two calls claim one request         *)
(* together, the command that isolates its endpoint is sent at most once,  *)
(* however long calls wait for receipts and whatever is lost.              *)
THEOREM OneExecution == Spec /\ []OneClaim => []G!AtMostOneExecution
<1>1. ClaimInv => G!AtMostOneExecution
  BY DEF ClaimInv
<1>2. Inv /\ ServiceInv /\ [Next]_vars => (Inv /\ ServiceInv)'
  BY StepInv, StepService
<1>3. Inv /\ ServiceInv /\ OneClaim /\ ClaimInv /\ [Next]_vars => ClaimInv'
  BY StepClaim
<1> QED
  BY <1>1, <1>2, <1>3, InitInv, InitService, InitClaim, PTL DEF Spec

(* End to end: as long as no two calls claim one request together, what an *)
(* operator reads is true of the endpoint, wherever commands and receipts  *)
(* are late or lost.                                                       *)
THEOREM StatusEndToEnd ==
    ASSUME OwnEndpoints
    PROVE  Spec /\ []OneClaim => []G!StatusTellsEndpoint
<1>1. G!AtMostOneExecution /\ StatusTellsEndpoint => G!StatusTellsEndpoint
  BY DEF G!AtMostOneExecution, StatusTellsEndpoint
<1> QED
  BY <1>1, OneExecution, StatusIsTrue, PTL
=============================================================================
