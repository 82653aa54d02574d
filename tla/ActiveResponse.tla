--------------------------- MODULE ActiveResponse ---------------------------
(***************************************************************************)
(* GovernedContainmentService with the Wazuh adapter in the place of the   *)
(* adapter GovernedContainment knows only by its answers.                  *)
(*                                                                         *)
(* WazuhActiveResponseContainmentAdapter sends a named command to one      *)
(* endpoint and polls for a signed receipt until a deadline.  The script   *)
(* on the endpoint (deploy/wazuh-response/agent) runs the command when it  *)
(* gets it, late perhaps, and posts one receipt if the executor verified   *)
(* the network state; WazuhResponseReceiptService stores it if it is fresh.*)
(* A rollback sends the release command of the same request.               *)
(*                                                                         *)
(* The requests are the isolate_endpoint requests that name an agent       *)
(* (response_adapter_router.py), about one endpoint.  Signatures and       *)
(* fingerprints hold: a command or a receipt is what its sender made.      *)
(***************************************************************************)
EXTENDS Naturals, Sequences

CONSTANTS
    Requests, Keys, KeyOf, Targets, TargetOf, Sessions, MaxRollbacks, CanFail, None,
    RequestTimeout,  \* request_timeout_seconds, of the HTTP calls to Wazuh
    Timeout,  \* verification_timeout_seconds
    Poll,     \* receipt_poll_interval_seconds
    MaxAge,   \* max_age_seconds of a receipt
    MaxTime   \* bound on the clock

VARIABLES
    status, approval, execution, audit, signing, isolated, executes, rollbacks, pc, job,
    clock,
    wait,      \* what the adapter call of a session waits for
    commands,  \* commands the endpoint was sent and has not run
    posted,    \* receipts on their way
    receipts,  \* WazuhResponseReceiptRow
    proven     \* history: what the executor verified, and for which request

G == INSTANCE GovernedContainment

ASSUME ResponseAssumption ==
    /\ G!ContainmentAssumption
    /\ {RequestTimeout, Timeout, Poll, MaxAge, MaxTime} \subseteq Nat

rows == <<status, approval, execution>>
service == <<rows, audit, signing, executes, rollbacks, pc, job>>
wazuh == <<clock, wait, commands, posted, receipts, proven>>
vars == <<service, isolated, wazuh>>

NoWait == [step |-> "idle", since |-> 0, deadline |-> 0, wake |-> 0]

Init ==
    /\ G!Init
    /\ clock = 0
    /\ wait = [s \in Sessions |-> NoWait]
    /\ commands = {} /\ posted = {} /\ receipts = {} /\ proven = {}

Waits(s, step) == wait[s].step = step

(* rollback() calls execute() with the action replaced.                    *)
Action(s) == IF pc[s] = "execute" THEN "isolate" ELSE "release"

(* The adapter answers; an unverified answer is never reversible, and      *)
(* neither is a release.                                                   *)
Answer(s, verified) ==
    /\ G!Goto(s, "audit_read",
              [job[s] EXCEPT !.act = IF Action(s) = "isolate" THEN "executed" ELSE "rolled_back",
                             !.ok = verified,
                             !.reversible = verified /\ Action(s) = "isolate"])
    /\ wait' = [wait EXCEPT ![s] = NoWait]
----------------------------------------------------------------------------
(* execute() of the adapter, its dispatch over HTTP in two steps.          *)

(* The adapter is disabled or not configured for the endpoint, or Wazuh    *)
(* gives no token: nothing is sent.                                        *)
Refuse(s) ==
    /\ pc[s] \in {"execute", "undo"} /\ Waits(s, "idle")
    /\ Answer(s, FALSE)
    /\ executes' = IF Action(s) = "isolate" THEN [executes EXCEPT ![job[s].req] = @ + 1] ELSE executes
    /\ UNCHANGED <<rows, audit, signing, rollbacks, isolated, clock, commands, posted, receipts, proven>>

(* The request reaches Wazuh, which sends the command on or does not.      *)
Send(s) ==
    /\ pc[s] \in {"execute", "undo"} /\ Waits(s, "idle")
    /\ clock + RequestTimeout + Timeout + Poll <= MaxTime
    /\ commands' \in {commands, commands \cup {[from |-> s, req |-> job[s].req, action |-> Action(s)]}}
    /\ wait' = [wait EXCEPT ![s] = [NoWait EXCEPT !.step = "sent", !.since = clock]]
    /\ executes' = IF Action(s) = "isolate" THEN [executes EXCEPT ![job[s].req] = @ + 1] ELSE executes
    /\ UNCHANGED <<rows, audit, signing, rollbacks, pc, job, isolated, clock, posted, receipts, proven>>

(* Mutant: the acknowledgement of Wazuh counts as verification.            *)
Acknowledge_Verified(s) ==
    /\ Waits(s, "sent")
    /\ \E verified \in BOOLEAN : Answer(s, verified)
    /\ UNCHANGED <<rows, audit, signing, executes, rollbacks, isolated, clock, commands, posted,
                   receipts, proven>>

(* The deadline counts from the acknowledgement.  An error or a timeout is *)
(* answered at once, whether the command was sent on or not.               *)
Acknowledge(s) ==
    /\ Waits(s, "sent")
    /\ \/ /\ wait' = [wait EXCEPT ![s] = [@ EXCEPT !.step = "poll", !.deadline = clock + Timeout]]
          /\ UNCHANGED <<pc, job>>
       \/ Answer(s, FALSE)
    /\ UNCHANGED <<rows, audit, signing, executes, rollbacks, isolated, clock, commands, posted,
                   receipts, proven>>

(* Mutant: any receipt of the request is taken.                            *)
Found_AnyAction(s) ==
    \E m \in receipts : /\ m.req = job[s].req
                        /\ m.at + MaxAge >= clock /\ m.at >= wait[s].since

(* find_verified_receipt(): an exact receipt, received since the dispatch  *)
(* began and not longer ago than the maximal age.                          *)
Found(s) ==
    \E m \in receipts : /\ m.req = job[s].req /\ m.action = Action(s)
                        /\ m.at + MaxAge >= clock /\ m.at >= wait[s].since

(* Mutant: every round of the loop has a deadline of its own.              *)
LookUp_Renewed(s) ==
    /\ Waits(s, "poll")
    /\ IF Found(s) THEN Answer(s, TRUE)
       ELSE /\ wait' = [wait EXCEPT ![s] = [@ EXCEPT !.step = "sleep", !.wake = clock + Poll,
                                                     !.deadline = clock + Poll + Timeout]]
            /\ UNCHANGED <<pc, job>>
    /\ UNCHANGED <<rows, audit, signing, executes, rollbacks, isolated, clock, commands, posted,
                   receipts, proven>>

(* The loop: past the deadline it does not look again; a query that raises *)
(* fails closed.                                                           *)
LookUp(s) ==
    /\ Waits(s, "poll")
    /\ \/ clock <= wait[s].deadline /\ Found(s) /\ Answer(s, TRUE)
       \/ /\ clock <= wait[s].deadline /\ ~Found(s)
          /\ wait' = [wait EXCEPT ![s] = [@ EXCEPT !.step = "sleep", !.wake = clock + Poll]]
          /\ UNCHANGED <<pc, job>>
       \/ Answer(s, FALSE)
    /\ UNCHANGED <<rows, audit, signing, executes, rollbacks, isolated, clock, commands, posted,
                   receipts, proven>>

Wake(s) ==
    /\ Waits(s, "sleep") /\ clock >= wait[s].wake
    /\ wait' = [wait EXCEPT ![s] = [@ EXCEPT !.step = "poll"]]
    /\ UNCHANGED <<service, isolated, clock, commands, posted, receipts, proven>>
----------------------------------------------------------------------------
(* The script on the endpoint gets a command, whether the call that sent   *)
(* it still waits or not.  It verifies the envelope and runs the executor; *)
(* what fails leaves no receipt, but may have changed the network.         *)

(* Mutant: the receipt is posted whatever the executor answered.           *)
Run_Unverified(c) ==
    /\ commands' = commands \ {c}
    /\ LET t == TargetOf[c.req]
           done == [isolated EXCEPT ![t] = c.action = "isolate"] IN
         /\ \/ isolated' = done /\ proven' = proven \cup {<<c.req, c.action>>}
            \/ isolated' \in {isolated, done} /\ UNCHANGED proven
         /\ posted' = posted \cup {[req |-> c.req, action |-> c.action, observed |-> clock]}
    /\ UNCHANGED <<service, clock, wait, receipts>>

Run(c) ==
    /\ commands' = commands \ {c}
    /\ LET t == TargetOf[c.req]
           done == [isolated EXCEPT ![t] = c.action = "isolate"] IN
         \/ /\ isolated' = done
            /\ proven' = proven \cup {<<c.req, c.action>>}
            /\ posted' = posted \cup {[req |-> c.req, action |-> c.action, observed |-> clock]}
         \/ isolated' \in {isolated, done} /\ UNCHANGED <<proven, posted>>
    /\ UNCHANGED <<service, clock, wait, receipts>>

(* submit(): the receipt is checked against the approved request, and must *)
(* not be stale.  It may also be lost; the script posts it once.           *)
Submit(m) ==
    /\ posted' = posted \ {m}
    /\ \/ /\ m.observed + MaxAge >= clock
          /\ approval[m.req] = "approved"
          /\ receipts' = receipts \cup {[req |-> m.req, action |-> m.action, at |-> clock]}
       \/ UNCHANGED receipts
    /\ UNCHANGED <<service, isolated, clock, wait, commands, proven>>

(* Time is counted while a call waits or a receipt is on its way; the HTTP *)
(* call gives up in time.                                                  *)
Tick ==
    /\ clock < MaxTime
    /\ posted # {} \/ \E s \in Sessions : ~Waits(s, "idle")
    /\ \A s \in Sessions : Waits(s, "sent") => clock < wait[s].since + RequestTimeout
    /\ clock' = clock + 1
    /\ UNCHANGED <<service, isolated, wait, commands, posted, receipts, proven>>
----------------------------------------------------------------------------
(* The steps of the service but for its calls of the adapter.              *)
Service(s) ==
    /\ \/ G!InsertRequest(s) \/ G!DecisionCommit(s) \/ G!ClaimExecution(s)
       \/ G!RecordExecution(s) \/ G!AuditRead(s) \/ G!AuditAppend(s)
       \/ G!RollbackLoadRequest(s) \/ G!RollbackLoadExecution(s) \/ G!RecordRollback(s)
    /\ UNCHANGED wazuh

Adapter(s) == Refuse(s) \/ Send(s) \/ Acknowledge(s) \/ LookUp(s) \/ Wake(s)

(* An await that raises, or a stop of the process, also ends an adapter's  *)
(* wait for its receipt: what was sent and posted goes its own way.        *)
Fail(s) ==
    /\ G!Fail(s)
    /\ wait' = [wait EXCEPT ![s] = NoWait]
    /\ UNCHANGED <<clock, commands, posted, receipts, proven>>

Restart ==
    /\ G!Restart
    /\ wait' = [s \in Sessions |-> NoWait]
    /\ UNCHANGED <<clock, commands, posted, receipts, proven>>

Step(s) == Service(s) \/ Adapter(s)

Next ==
    \/ \E s \in Sessions :
           \/ Step(s) \/ Fail(s)
           \/ \E r \in Requests : G!Call(s, r) /\ UNCHANGED wazuh
    \/ Restart
    \/ \E c \in commands : Run(c)
    \/ \E m \in posted : Submit(m)
    \/ Tick

Spec == Init /\ [][Next]_vars

(* The event loop runs started operations, and time passes.  Endpoints and *)
(* the network owe nothing.                                                *)
FairSpec == Spec /\ WF_vars(Tick) /\ \A s \in Sessions : WF_vars(Step(s))
----------------------------------------------------------------------------
(* The parts have their types, and a receipt is about an approved request. *)
TypeOK ==
    /\ G!TypeOK
    /\ clock \in 0..MaxTime
    /\ \A s \in Sessions : ~Waits(s, "idle") => pc[s] \in {"execute", "undo"}
    /\ \A c \in commands : c.from \in Sessions /\ approval[c.req] = "approved"
    /\ \A m \in posted \cup receipts : <<m.req, m.action>> \in proven
    /\ \A p \in proven : p \in Requests \X {"isolate", "release"}

(* A request is recorded as verified, or as rolled back, only if the       *)
(* executor on the endpoint verified that state for that very request,     *)
(* although commands run late, receipts are delayed or lost, and two calls *)
(* for one request may wait for the same receipts.                         *)
RecordIsProven ==
    \A r \in Requests :
        /\ execution[r].status = "verified"    => <<r, "isolate">> \in proven
        /\ execution[r].status = "rolled_back" => <<r, "release">> \in proven

(* Unless a request was executed twice, the status an operator reads is    *)
(* true of the endpoint, as it is of the adapter GovernedContainment       *)
(* assumes: a late command can only belong to a call that reads as failed. *)
StatusTellsEndpoint ==
    (\A r \in Requests : executes[r] <= 1) => G!StatusTellsEndpoint

(* Every enforcement attempt gets its evidence row: the adapter gives up   *)
(* on receipts that do not come, and a loser of the insert leaves the      *)
(* winner's row.                                                           *)
EnforcementLeavesEvidence == G!EnforcementLeavesEvidence

(* What the adapter answers when it gives up: no fresh matching receipt    *)
(* had arrived before the deadline.                                        *)
NothingArrived ==
    [][\A s \in Sessions :
         Waits(s, "poll") /\ clock > wait[s].deadline /\ wait'[s] = NoWait =>
             ~\E m \in receipts :
                 /\ m.req = job[s].req /\ m.action = Action(s)
                 /\ wait[s].since <= m.at /\ m.at <= wait[s].deadline]_vars
=============================================================================
