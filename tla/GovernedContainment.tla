------------------------ MODULE GovernedContainment ------------------------
(***************************************************************************)
(* GovernedContainmentService (soar_engine/governed_containment.py): the   *)
(* lifecycle of a high-impact containment request.  An analyst or a policy *)
(* requests it, an approver decides it, an operator executes it through an *)
(* adapter and may roll it back.  Every operation is a coroutine that opens*)
(* several database sessions one after the other and awaits between them,  *)
(* in an API process and in the correlation consumer, so a step below is   *)
(* one transaction, one adapter call or one read that a later step uses.   *)
(*                                                                         *)
(* One tenant: every query of the service carries the tenant id, and the   *)
(* audit chain is per tenant.                                              *)
(***************************************************************************)
EXTENDS Naturals, Sequences

CONSTANTS
    Requests,      \* request ids, each a fresh uuid of one call of request()
    Keys,          \* idempotency keys
    KeyOf,         \* the key the caller of request() sends
    Targets,       \* endpoints
    TargetOf,      \* the endpoint a request is about
    Sessions,      \* the operations that can be in flight together
    MaxRollbacks,  \* bound: rollbacks started per request
    CanFail,       \* do calls raise, and processes restart, half way?
    None

ASSUME ContainmentAssumption ==
    /\ KeyOf \in [Requests -> Keys]
    /\ TargetOf \in [Requests -> Targets]
    /\ MaxRollbacks \in Nat
    /\ CanFail \in BOOLEAN
    /\ None \notin Requests

VARIABLES
    status,     \* ContainmentRequestRow.status, "absent" before the insert
    approval,   \* ContainmentApprovalRow.decision (request_id is unique)
    execution,  \* ContainmentExecutionRow (request_id is unique)
    audit,      \* ContainmentAuditRecordRow in id order
    signing,    \* are the HMAC key and its id configured in the process?
    isolated,   \* the endpoints' real network state
    executes,   \* adapter.execute calls made for a request
    rollbacks,  \* rollback calls that passed their guard
    pc,         \* where the operation of a session is
    job         \* what it has read and computed so far

rows == <<status, approval, execution>>
vars == <<rows, audit, signing, isolated, executes, rollbacks, pc, job>>

Statuses == {"absent", "requested", "approved", "rejected", "executing",
             "verified", "failed", "rolled_back"}
Acts == {"requested", "approved", "rejected", "executed", "rolled_back"}
Steps == {"idle", "insert", "decide", "claim", "execute", "undo",
          "audit_read", "audit_append", "record",
          "undo_request", "undo_evidence", "record_undo"}

Entry == [req : Requests, act : Acts, ok : BOOLEAN, prev : Nat, signed : BOOLEAN]
Execution == [status : {"none", "verified", "failed", "rolled_back"},
              reversible : BOOLEAN, hash : Nat]
Job == [req : Requests \cup {None}, act : Acts \cup {None}, ok : BOOLEAN,
        reversible : BOOLEAN, head : Nat, hash : Nat, omits : SUBSET {"request", "execution"}]

NoExecution == [status |-> "none", reversible |-> FALSE, hash |-> 0]
NoJob == [req |-> None, act |-> None, ok |-> FALSE, reversible |-> FALSE,
          head |-> 0, hash |-> 0, omits |-> {}]

Init ==
    /\ status = [r \in Requests |-> "absent"]
    /\ approval = [r \in Requests |-> "none"]
    /\ execution = [r \in Requests |-> NoExecution]
    /\ audit = <<>>
    /\ signing \in BOOLEAN
    /\ isolated = [t \in Targets |-> FALSE]
    /\ executes = [r \in Requests |-> 0]
    /\ rollbacks = [r \in Requests |-> 0]
    /\ pc = [s \in Sessions |-> "idle"]
    /\ job = [s \in Sessions |-> NoJob]

Goto(s, step, j) ==
    /\ pc' = [pc EXCEPT ![s] = step]
    /\ job' = [job EXCEPT ![s] = j]

Return(s) == Goto(s, "idle", NoJob)

Start(s, step, r) ==
    /\ pc[s] = "idle"
    /\ Goto(s, step, [NoJob EXCEPT !.req = r])

----------------------------------------------------------------------------
(* request(): look the idempotency key up, insert, then audit.             *)

KeyTaken(r) == \E q \in Requests : KeyOf[q] = KeyOf[r] /\ status[q] # "absent"

RequestRead(s, r) ==
    /\ signing
    /\ status[r] = "absent"
    /\ \A t \in Sessions : ~(pc[t] = "insert" /\ job[t].req = r)
    /\ ~KeyTaken(r)
    /\ Start(s, "insert", r)
    /\ UNCHANGED <<rows, audit, signing, isolated, executes, rollbacks>>

(* Mutant: the table has no unique constraint on the key.                  *)
InsertRequest_NoConstraint(s) ==
    /\ pc[s] = "insert"
    /\ status' = [status EXCEPT ![job[s].req] = "requested"]
    /\ Goto(s, "audit_read", [job[s] EXCEPT !.act = "requested"])
    /\ UNCHANGED <<approval, execution, audit, signing, isolated, executes, rollbacks>>

(* uq_containment_tenant_idempotency: the loser of a race gets an          *)
(* IntegrityError, which nothing catches.                                  *)
InsertRequest(s) ==
    /\ pc[s] = "insert"
    /\ LET r == job[s].req IN
         IF KeyTaken(r)
           THEN Return(s) /\ UNCHANGED status
           ELSE /\ status' = [status EXCEPT ![r] = "requested"]
                /\ Goto(s, "audit_read", [job[s] EXCEPT !.act = "requested"])
    /\ UNCHANGED <<approval, execution, audit, signing, isolated, executes, rollbacks>>

----------------------------------------------------------------------------
(* approve(): the decision row and the status change are one transaction.  *)

DecisionRead(s, r) ==
    /\ status[r] = "requested"
    /\ Start(s, "decide", r)
    /\ UNCHANGED <<rows, audit, signing, isolated, executes, rollbacks>>

(* What a committed decision writes, shared with the mutants below.        *)
Decide(s, decision) ==
    LET r == job[s].req IN
    /\ approval' = [approval EXCEPT ![r] = decision]
    /\ status' = [status EXCEPT ![r] = decision]
    /\ Goto(s, "audit_read", [job[s] EXCEPT !.act = decision])
    /\ UNCHANGED <<execution, audit, signing, isolated, executes, rollbacks>>

(* Mutant: a request may have several decision rows.                       *)
DecisionCommit_NoConstraint(s) ==
    /\ pc[s] = "decide"
    /\ \E decision \in {"approved", "rejected"} : Decide(s, decision)

(* Mutant: the API passes any decision string on.                          *)
DecisionCommit_AnyDecision(s) ==
    /\ pc[s] = "decide"
    /\ approval[job[s].req] = "none"
    /\ \E decision \in {"approved", "rejected", "deferred"} : Decide(s, decision)

DecisionCommit(s) ==
    /\ pc[s] = "decide"
    /\ IF approval[job[s].req] = "none"
         THEN \E decision \in {"approved", "rejected"} : Decide(s, decision)
         ELSE Return(s) /\ UNCHANGED <<rows, audit, signing, isolated, executes, rollbacks>>

----------------------------------------------------------------------------
(* execute(): claim the request, call the adapter, audit, record evidence. *)

(* Mutant: the request's own status is not checked.                        *)
ExecuteRead_AnyStatus(s, r) ==
    /\ signing
    /\ execution[r].status = "none"
    /\ approval[r] = "approved"
    /\ Start(s, "claim", r)
    /\ UNCHANGED <<rows, audit, signing, isolated, executes, rollbacks>>

ExecuteRead(s, r) ==
    /\ signing
    /\ execution[r].status = "none"
    /\ approval[r] = "approved"
    /\ status[r] = "approved"
    /\ Start(s, "claim", r)
    /\ UNCHANGED <<rows, audit, signing, isolated, executes, rollbacks>>

(* The UPDATE is keyed by the row's id alone: it does not look at the      *)
(* status again.                                                           *)
ClaimExecution(s) ==
    /\ pc[s] = "claim"
    /\ status' = [status EXCEPT ![job[s].req] = "executing"]
    /\ Goto(s, "execute", job[s])
    /\ UNCHANGED <<approval, execution, audit, signing, isolated, executes, rollbacks>>

(* A verified result means the endpoint was seen isolated; an unverified   *)
(* one (rejection, timeout) may or may not have isolated it.               *)
AdapterExecute(s) ==
    /\ pc[s] = "execute"
    /\ \E ok \in BOOLEAN, reversible \in BOOLEAN :
         LET t == TargetOf[job[s].req] IN
         /\ reversible => ok
         /\ \E up \in (IF ok THEN {TRUE} ELSE {TRUE, isolated[t]}) :
              isolated' = [isolated EXCEPT ![t] = up]
         /\ Goto(s, "audit_read", [job[s] EXCEPT !.act = "executed", !.ok = ok,
                                                 !.reversible = reversible])
    /\ executes' = [executes EXCEPT ![job[s].req] = @ + 1]
    /\ UNCHANGED <<rows, audit, signing, rollbacks>>

(* The evidence row and the status change are one transaction.             *)
Record(s) ==
    LET r == job[s].req
        outcome == IF job[s].ok THEN "verified" ELSE "failed" IN
    /\ execution' = [execution EXCEPT ![r] =
           [status |-> outcome, reversible |-> job[s].reversible, hash |-> job[s].hash]]
    /\ status' = [status EXCEPT ![r] = outcome]

(* Mutant: evidence is written over the evidence that is there.            *)
RecordExecution_Upsert(s) ==
    /\ pc[s] = "record"
    /\ Record(s)
    /\ Return(s)
    /\ UNCHANGED <<approval, audit, signing, isolated, executes, rollbacks>>

(* Mutant: only a verified execution leaves evidence.                      *)
RecordExecution_VerifiedOnly(s) ==
    /\ pc[s] = "record"
    /\ IF job[s].ok /\ execution[job[s].req].status = "none"
         THEN Record(s)
         ELSE UNCHANGED <<status, execution>>
    /\ Return(s)
    /\ UNCHANGED <<approval, audit, signing, isolated, executes, rollbacks>>

RecordExecution(s) ==
    /\ pc[s] = "record"
    /\ IF execution[job[s].req].status = "none"
         THEN Record(s)
         ELSE UNCHANGED <<status, execution>>
    /\ Return(s)
    /\ UNCHANGED <<approval, audit, signing, isolated, executes, rollbacks>>

----------------------------------------------------------------------------
(* rollback(): read the evidence, call the adapter, audit, overwrite it.   *)

RollbackRead(s, r) ==
    /\ signing
    /\ execution[r].status = "verified"
    /\ execution[r].reversible
    /\ rollbacks[r] < MaxRollbacks
    /\ rollbacks' = [rollbacks EXCEPT ![r] = @ + 1]
    /\ Start(s, "undo", r)
    /\ UNCHANGED <<rows, audit, signing, isolated, executes>>

AdapterRollback(s) ==
    /\ pc[s] = "undo"
    /\ \E ok \in BOOLEAN :
         LET t == TargetOf[job[s].req] IN
         /\ \E up \in (IF ok THEN {FALSE} ELSE {FALSE, isolated[t]}) :
              isolated' = [isolated EXCEPT ![t] = up]
         /\ Goto(s, "audit_read", [job[s] EXCEPT !.act = "rolled_back", !.ok = ok])
    /\ UNCHANGED <<rows, audit, signing, executes, rollbacks>>

(* The result is written to two rows that are loaded one after the other   *)
(* and locked by neither query.  The ORM's UPDATE of a row leaves out a    *)
(* column whose loaded value is the new one, whatever the column holds by  *)
(* then: job.omits names the rows whose status it will leave out.          *)

Outcome(s) == IF job[s].ok THEN "rolled_back" ELSE "failed"

RollbackLoadRequest(s) ==
    /\ pc[s] = "undo_request"
    /\ Goto(s, "undo_evidence",
            [job[s] EXCEPT !.omits = IF status[job[s].req] = Outcome(s) THEN {"request"} ELSE {}])
    /\ UNCHANGED <<rows, audit, signing, isolated, executes, rollbacks>>

RollbackLoadExecution(s) ==
    /\ pc[s] = "undo_evidence"
    /\ Goto(s, "record_undo",
            [job[s] EXCEPT !.omits =
                @ \cup (IF execution[job[s].req].status = Outcome(s) THEN {"execution"} ELSE {})])
    /\ UNCHANGED <<rows, audit, signing, isolated, executes, rollbacks>>

(* Mutant: a rollback the adapter could not verify counts as done.         *)
RecordRollback_Unverified(s) ==
    /\ pc[s] = "record_undo"
    /\ LET r == job[s].req IN
         /\ execution' = [execution EXCEPT ![r] =
                             [@ EXCEPT !.status = "rolled_back", !.hash = job[s].hash]]
         /\ status' = [status EXCEPT ![r] = "rolled_back"]
    /\ Return(s)
    /\ UNCHANGED <<approval, audit, signing, isolated, executes, rollbacks>>

RecordRollback(s) ==
    /\ pc[s] = "record_undo"
    /\ LET r == job[s].req
           Written(row, old) == IF row \in job[s].omits THEN old ELSE Outcome(s) IN
         /\ execution' = [execution EXCEPT ![r] =
                [@ EXCEPT !.status = Written("execution", execution[r].status),
                          !.hash = job[s].hash]]
         /\ status' = [status EXCEPT ![r] = Written("request", status[r])]
    /\ Return(s)
    /\ UNCHANGED <<approval, audit, signing, isolated, executes, rollbacks>>

----------------------------------------------------------------------------
(* _audit(): read the tenant's latest record hash, then append a record    *)
(* that names it.  The two are separated by an await and hold no lock.     *)
(* prev is the position of the record whose hash was read, 0 for GENESIS.  *)

(* Mutant: the records are read oldest first.                              *)
AuditRead_Oldest(s) ==
    /\ pc[s] = "audit_read"
    /\ Goto(s, "audit_append", [job[s] EXCEPT !.head = IF audit = <<>> THEN 0 ELSE 1])
    /\ UNCHANGED <<rows, audit, signing, isolated, executes, rollbacks>>

AuditRead(s) ==
    /\ pc[s] = "audit_read"
    /\ Goto(s, "audit_append", [job[s] EXCEPT !.head = Len(audit)])
    /\ UNCHANGED <<rows, audit, signing, isolated, executes, rollbacks>>

(* Mutant: the hash handed on is the one the new record was chained to.    *)
AfterAudit_PreviousHash(s, hash) ==
    CASE job[s].act = "executed"    -> Goto(s, "record", [job[s] EXCEPT !.hash = job[s].head])
      [] job[s].act = "rolled_back" -> Goto(s, "undo_request", [job[s] EXCEPT !.hash = job[s].head])
      [] OTHER                      -> Return(s)

AfterAudit(s, hash) ==
    CASE job[s].act = "executed"    -> Goto(s, "record", [job[s] EXCEPT !.hash = hash])
      [] job[s].act = "rolled_back" -> Goto(s, "undo_request", [job[s] EXCEPT !.hash = hash])
      [] OTHER                      -> Return(s)

AuditAppend(s) ==
    /\ pc[s] = "audit_append"
    /\ audit' = Append(audit, [req |-> job[s].req, act |-> job[s].act, ok |-> job[s].ok,
                               prev |-> job[s].head, signed |-> signing])
    /\ AfterAudit(s, Len(audit) + 1)
    /\ UNCHANGED <<rows, signing, isolated, executes, rollbacks>>

----------------------------------------------------------------------------
(* An await that raises (a lost connection, an adapter error, a cancelled  *)
(* call) abandons the operation where it is; nothing catches it and no     *)
(* compensation is written.                                                *)
Fail(s) ==
    /\ CanFail
    /\ pc[s] # "idle"
    /\ Return(s)
    /\ UNCHANGED <<rows, audit, signing, isolated, executes, rollbacks>>

(* The processes stop and come back, perhaps with another environment.     *)
Restart ==
    /\ CanFail
    /\ pc' = [s \in Sessions |-> "idle"]
    /\ job' = [s \in Sessions |-> NoJob]
    /\ signing' \in BOOLEAN
    /\ UNCHANGED <<rows, audit, isolated, executes, rollbacks>>

Step(s) ==
    \/ InsertRequest(s) \/ DecisionCommit(s)
    \/ ClaimExecution(s) \/ AdapterExecute(s) \/ RecordExecution(s)
    \/ AdapterRollback(s)
    \/ RollbackLoadRequest(s) \/ RollbackLoadExecution(s) \/ RecordRollback(s)
    \/ AuditRead(s) \/ AuditAppend(s)

Call(s, r) ==
    RequestRead(s, r) \/ DecisionRead(s, r) \/ ExecuteRead(s, r) \/ RollbackRead(s, r)

Next ==
    \/ \E s \in Sessions : Step(s) \/ Fail(s) \/ \E r \in Requests : Call(s, r)
    \/ Restart

Spec == Init /\ [][Next]_vars
----------------------------------------------------------------------------
(* The rows, the chain and the operations in flight have their types; an   *)
(* operation under way knows its request, and one that audits its act.     *)
TypeOK ==
    /\ status \in [Requests -> Statuses]
    /\ approval \in [Requests -> {"none", "approved", "rejected"}]
    /\ execution \in [Requests -> Execution]
    /\ audit \in Seq(Entry)
    /\ signing \in BOOLEAN
    /\ isolated \in [Targets -> BOOLEAN]
    /\ executes \in [Requests -> Nat]
    /\ rollbacks \in [Requests -> Nat]
    /\ pc \in [Sessions -> Steps]
    /\ job \in [Sessions -> Job]
    /\ \A s \in Sessions : pc[s] # "idle" => job[s].req \in Requests
    /\ \A s \in Sessions : pc[s] \in {"audit_read", "audit_append"} => job[s].act \in Acts

(* However calls to approve() and execute() race, the adapter is called    *)
(* only for a request whose one recorded decision is "approved", and a     *)
(* rejected request keeps that status for ever.                            *)
DecisionGoverns ==
    \A r \in Requests :
        /\ executes[r] > 0 => approval[r] = "approved"
        /\ approval[r] = "rejected" => status[r] = "rejected"

(* Racing calls of request() with one idempotency key create one request:  *)
(* the lookup before the insert cannot promise it, the constraint does.    *)
OneRequestPerKey ==
    \A q, r \in Requests :
        q # r /\ KeyOf[q] = KeyOf[r] => "absent" \in {status[q], status[r]}

(* The evidence row of a request always names a signed audit record of an  *)
(* execution or a rollback of that request, and its status is one that a   *)
(* signed record of the request tells, through races, abandoned calls and  *)
(* restarts with another environment.  The record it names is the one that *)
(* tells its status as long as no three rollbacks of the request began: of *)
(* three that run together, one may overwrite the hash and leave out the   *)
(* status.                                                                 *)
Tells(entry) ==
    CASE entry.act = "executed" /\ entry.ok    -> {"verified"}
      [] entry.act = "rolled_back" /\ entry.ok -> {"rolled_back"}
      [] entry.act \in {"executed", "rolled_back"} /\ ~entry.ok -> {"failed"}
      [] OTHER -> {}

Supports(entry, r) ==
    entry.req = r /\ entry.signed /\ entry.act \in {"executed", "rolled_back"}

EvidenceIsAudited ==
    \A r \in Requests :
        execution[r].status # "none" =>
            /\ execution[r].hash \in DOMAIN audit
            /\ Supports(audit[execution[r].hash], r)
            /\ \E i \in DOMAIN audit :
                 Supports(audit[i], r) /\ execution[r].status \in Tells(audit[i])
            /\ rollbacks[r] <= 2 => execution[r].status \in Tells(audit[execution[r].hash])

(* While nothing races, a request is enforced at most once, whatever       *)
(* fails and however often it is retried: the claim is committed before    *)
(* the adapter is called.                                                  *)
AtMostOneExecution == \A r \in Requests : executes[r] <= 1

(* While nothing races, the status an operator reads is true of the        *)
(* endpoint: verified means isolated unless a rollback was begun (one that *)
(* is abandoned after the adapter call leaves the status behind); rolled   *)
(* back, rejected or not yet executed means not isolated.                  *)
StatusTellsEndpoint ==
    \A r \in Requests :
        /\ status[r] = "verified" /\ rollbacks[r] = 0 => isolated[TargetOf[r]]
        /\ status[r] \in {"absent", "requested", "approved", "rejected", "rolled_back"} =>
               ~isolated[TargetOf[r]]

(* verify_chain over the tenant's records in id order: each one names the  *)
(* hash of the one before it.                                              *)
ChainLinked == \A i \in DOMAIN audit : audit[i].prev = i - 1

(* When no call fails, an enforced request gets its evidence row, also     *)
(* when calls race and all but one of them lose the insert.                *)
EnforcementLeavesEvidence ==
    \A r \in Requests : executes[r] > 0 ~> execution[r].status # "none"
----------------------------------------------------------------------------
(* Every step of the service, racing, failing or not, is a step of the     *)
(* promise or changes nothing the promise speaks of.                       *)
Promise == INSTANCE ContainmentPromise WITH
    decision   <- approval,
    enforced   <- [r \in Requests |-> executes[r] > 0],
    outcome    <- [r \in Requests |-> execution[r].status],
    reversible <- [r \in Requests |-> execution[r].reversible]

KeepsPromise == Promise!Spec
=============================================================================
