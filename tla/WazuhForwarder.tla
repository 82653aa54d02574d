--------------------------- MODULE WazuhForwarder ---------------------------
(***************************************************************************)
(* Wazuh telemetry: the forwarder beside the Wazuh manager                 *)
(* (integrations/wazuh_pilot_forwarder/forwarder.py), which either tails   *)
(* the manager's alert file or drains a spool of alert files, and          *)
(* stream_batch() of PhantomNet (endpoint_inventory_service/forwarders.py),*)
(* which accepts numbered batches.                                         *)
(*                                                                         *)
(* One forwarder.  The forwarder keeps its sequence, and the tailer its    *)
(* offset, in a state file; PhantomNet keeps the last sequence it accepted *)
(* in the forwarder's row, which a handler locks while it works.           *)
(***************************************************************************)
EXTENDS Naturals, Sequences, FiniteSets

CONSTANTS
    Alerts,     \* alerts, numbered in the order of their spool file names
    KindOf,     \* what becomes of an alert
    BatchSize,
    Handlers,   \* stream_batch() calls that can be in flight together
    MaxFaults,  \* bound: lost answers, failures and stops in a behavior
    None

Kinds == {"selected",   \* passes the filter, PhantomNet stores it
          "refused",    \* passes the filter, PhantomNet's contract refuses it
          "filtered",   \* the forwarder's rule filter drops it
          "malformed"}  \* not a JSON object

ASSUME ForwarderAssumption ==
    /\ Alerts \subseteq Nat
    /\ KindOf \in [Alerts -> Kinds]
    /\ BatchSize \in Nat \ {0}
    /\ MaxFaults \in Nat
    /\ None \notin Handlers

VARIABLES
    mode,       \* how the forwarder was installed: "tail" or "spool"
    source,     \* the alerts Wazuh raised; the lines of the alert file
    pending,    \* the files of the spool
    offset,     \* state file: the lines the tailer is done with
    sequence,   \* state file: next_sequence
    client,     \* the forwarder's run_once() or drain_once()
    handlers,   \* the stream_batch() calls
    status,     \* WazuhForwarderRow.status
    batches,    \* WazuhForwarderBatchRow, by sequence; last_sequence is its length
    evidence,   \* alerts whose ingest_wazuh_alert() was committed
    faults      \* how many there were

disk == <<source, pending, offset, sequence>>
server == <<status, batches, evidence>>
vars == <<mode, disk, client, handlers, server, faults>>

Modes == {"tail", "spool"}
Passes(a) == KindOf[a] \in {"selected", "refused"}
Idle == [pc |-> "idle", sequence |-> 0, batch |-> {}, upto |-> 0, handler |-> None]
NoCall == [pc |-> "idle", sequence |-> 0, batch |-> {}, todo |-> {}]

Raised == {source[i] : i \in DOMAIN source}
Unread == {source[i] : i \in offset + 1 .. Len(source)}
Held == IF mode = "spool" THEN pending ELSE {a \in Unread : Passes(a)}

(* The order of a batch: by line, or by file name.                         *)
Before(a, b) ==
    IF mode = "spool" THEN a < b
    ELSE \E i, j \in DOMAIN source : i < j /\ source[i] = a /\ source[j] = b
IsFirst(a, S) == a \in S /\ \A b \in S \ {a} : Before(a, b)

Init ==
    /\ mode \in Modes
    /\ source = <<>> /\ pending = {}
    /\ offset = 0 /\ sequence = 1
    /\ client = Idle
    /\ handlers = [h \in Handlers |-> NoCall]
    /\ status = "active" /\ batches = <<>> /\ evidence = {}
    /\ faults = 0
----------------------------------------------------------------------------
(* Wazuh writes an alert to its file, or hands it to enqueue_file(), which *)
(* filters and stores it in one rename.                                    *)
Raise(a) ==
    /\ a \notin Raised
    /\ source' = Append(source, a)
    /\ pending' = IF mode = "spool" /\ Passes(a) THEN pending \cup {a} ELSE pending
    /\ UNCHANGED <<mode, offset, sequence, client, handlers, server, faults>>

(* run_once() reads lines until it has BatchSize that pass, or no more.    *)
Accepted(upto) == {source[i] : i \in {j \in offset + 1 .. upto : Passes(source[j])}}
IsReadEnd(upto) ==
    /\ upto \in offset .. Len(source)
    /\ \A u \in offset .. upto - 1 : Cardinality(Accepted(u)) < BatchSize
    /\ upto = Len(source) \/ Cardinality(Accepted(upto)) = BatchSize

Deliver(h, batch, upto) ==
    /\ handlers[h].pc = "idle"
    /\ client' = [pc |-> "sent", sequence |-> sequence, batch |-> batch,
                  upto |-> upto, handler |-> h]
    /\ handlers' = [handlers EXCEPT ![h] =
                      [pc |-> "admit", sequence |-> sequence, batch |-> batch, todo |-> batch]]

(* run_once(): a batch of the lines after the offset; a malformed one      *)
(* raises.                                                                 *)
TailBegin(h) ==
    /\ mode = "tail" /\ client = Idle
    /\ \E upto \in offset .. Len(source) :
         /\ IsReadEnd(upto)
         /\ \A i \in offset + 1 .. upto : KindOf[source[i]] # "malformed"
         /\ Accepted(upto) # {}
         /\ Deliver(h, Accepted(upto), upto)
    /\ UNCHANGED <<mode, disk, server, faults>>

(* No line passes: the offset alone is written.                            *)
TailSkip ==
    /\ mode = "tail" /\ client = Idle /\ offset < Len(source)
    /\ \A i \in offset + 1 .. Len(source) : KindOf[source[i]] = "filtered"
    /\ offset' = Len(source)
    /\ UNCHANGED <<mode, source, pending, sequence, client, handlers, server, faults>>

(* drain_once(): the first files of the spool by name.                     *)
DrainBegin(h) ==
    /\ mode = "spool" /\ client = Idle
    /\ pending # {}
    /\ Deliver(h, {a \in pending : Cardinality({b \in pending : b < a}) < BatchSize}, 0)
    /\ UNCHANGED <<mode, disk, server, faults>>
----------------------------------------------------------------------------
(* stream_batch()                                                          *)
(* Mutant: the SELECT is without FOR UPDATE.                               *)
Locked_Never == FALSE

(* The row lock of a handler's transaction, held until it ends.            *)
Locked == \E h \in Handlers : handlers[h].pc = "ingest"

(* SELECT ... FOR UPDATE, then the status, the credential and the sequence.*)
(* A batch id names its sequence: a new sequence has a new id.             *)
Admit(h) ==
    /\ handlers[h].pc = "admit" /\ ~Locked
    /\ handlers' = [handlers EXCEPT ![h].pc =
                      IF status = "active" /\ handlers[h].sequence = Len(batches) + 1
                        THEN "ingest" ELSE "refused"]
    /\ UNCHANGED <<mode, disk, client, server, faults>>

(* Mutant: an alert the contract refuses is skipped.                       *)
IngestAlert_Lenient(h) ==
    /\ handlers[h].pc = "ingest"
    /\ \E a \in handlers[h].todo :
         /\ IsFirst(a, handlers[h].todo)
         /\ handlers' = [handlers EXCEPT ![h].todo = @ \ {a}]
         /\ evidence' = IF KindOf[a] = "refused" THEN evidence ELSE evidence \cup {a}
    /\ UNCHANGED <<mode, disk, client, status, batches, faults>>

(* ingest_wazuh_alert(): committed in sessions of its own, before the      *)
(* batch is; an alert that is stored already is left alone.  A refused     *)
(* alert raises, and the batch with it.                                    *)
IngestAlert(h) ==
    /\ handlers[h].pc = "ingest"
    /\ \E a \in handlers[h].todo :
         /\ IsFirst(a, handlers[h].todo)
         /\ IF KindOf[a] = "refused"
              THEN /\ handlers' = [handlers EXCEPT ![h].pc = "refused"]
                   /\ UNCHANGED evidence
              ELSE /\ handlers' = [handlers EXCEPT ![h].todo = @ \ {a}]
                   /\ evidence' = evidence \cup {a}
    /\ UNCHANGED <<mode, disk, client, status, batches, faults>>

(* The batch and last_sequence, in one transaction; then 202.              *)
Record(h) ==
    /\ handlers[h].pc = "ingest" /\ handlers[h].todo = {}
    /\ batches' = Append(batches, handlers[h].batch)
    /\ handlers' = [handlers EXCEPT ![h].pc = "accepted"]
    /\ UNCHANGED <<mode, disk, client, status, evidence, faults>>

(* Mutant: an answer 409 to an old sequence is taken for "delivered".      *)
Answer_ConflictIsDone(h) ==
    /\ handlers[h].pc \in {"accepted", "refused"}
    /\ handlers' = [handlers EXCEPT ![h] = NoCall]
    /\ client' = IF client.pc # "sent" \/ client.handler # h THEN client
                 ELSE IF handlers[h].sequence <= Len(batches)
                        THEN [client EXCEPT !.pc = "release", !.handler = None]
                        ELSE Idle
    /\ UNCHANGED <<mode, disk, server, faults>>

(* Mutant: the status of the answer is not looked at.                      *)
Answer_AnyStatus(h) ==
    /\ handlers[h].pc \in {"accepted", "refused"}
    /\ handlers' = [handlers EXCEPT ![h] = NoCall]
    /\ client' = IF client.pc # "sent" \/ client.handler # h THEN client
                 ELSE [client EXCEPT !.pc = "release", !.handler = None]
    /\ UNCHANGED <<mode, disk, server, faults>>

(* Mutant: the error leaves run_forever(), and nothing calls again.        *)
Answer_EndsLoop(h) ==
    /\ handlers[h].pc \in {"accepted", "refused"}
    /\ handlers' = [handlers EXCEPT ![h] = NoCall]
    /\ client' = IF client.pc # "sent" \/ client.handler # h THEN client
                 ELSE IF handlers[h].pc = "accepted"
                        THEN [client EXCEPT !.pc = "release", !.handler = None]
                        ELSE [client EXCEPT !.handler = None]
    /\ UNCHANGED <<mode, disk, server, faults>>

(* The answer, if the forwarder is still waiting for it.  deliver() raises *)
(* for everything but 202, and nothing is written.                         *)
Answer(h) ==
    /\ handlers[h].pc \in {"accepted", "refused"}
    /\ handlers' = [handlers EXCEPT ![h] = NoCall]
    /\ client' = IF client.pc # "sent" \/ client.handler # h THEN client
                 ELSE IF handlers[h].pc = "accepted"
                        THEN [client EXCEPT !.pc = "release", !.handler = None]
                        ELSE Idle
    /\ UNCHANGED <<mode, disk, server, faults>>

(* revoke(): its UPDATE waits for the row lock.                            *)
Revoke ==
    /\ status = "active" /\ ~Locked
    /\ status' = "revoked"
    /\ UNCHANGED <<mode, disk, client, handlers, batches, evidence, faults>>
----------------------------------------------------------------------------
(* Mutant: the spool is emptied by a listing made after the answer.        *)
Unlink_Listing ==
    /\ mode = "spool" /\ client.pc = "release" /\ client.batch # {}
    /\ pending' = {}
    /\ client' = [client EXCEPT !.batch = {}]
    /\ UNCHANGED <<mode, source, offset, sequence, handlers, server, faults>>

(* drain_once() unlinks the files of an accepted batch one by one.         *)
Unlink ==
    /\ mode = "spool" /\ client.pc = "release"
    /\ \E a \in client.batch :
         /\ IsFirst(a, client.batch)
         /\ pending' = pending \ {a}
         /\ client' = [client EXCEPT !.batch = @ \ {a}]
    /\ UNCHANGED <<mode, source, offset, sequence, handlers, server, faults>>

(* The state file is replaced, and the call returns.                       *)
WriteState ==
    /\ client.pc = "release"
    /\ mode = "spool" => client.batch = {}
    /\ sequence' = client.sequence + 1
    /\ offset' = IF mode = "tail" THEN client.upto ELSE offset
    /\ client' = Idle
    /\ UNCHANGED <<mode, source, pending, handlers, server, faults>>
----------------------------------------------------------------------------
(* deliver() times out, or the answer is lost: the handler works on.  Or   *)
(* the forwarder is stopped, anywhere.                                     *)
ClientFails ==
    /\ client # Idle /\ faults < MaxFaults
    /\ faults' = faults + 1
    /\ client' = Idle
    /\ UNCHANGED <<mode, disk, handlers, server>>

(* A handler raises or is cancelled: its transaction is rolled back, the   *)
(* alerts it ingested stay.                                                *)
HandlerFails(h) ==
    /\ handlers[h].pc \in {"admit", "ingest"} /\ faults < MaxFaults
    /\ faults' = faults + 1
    /\ handlers' = [handlers EXCEPT ![h].pc = "refused"]
    /\ UNCHANGED <<mode, disk, client, server>>

(* The operator stops the forwarder and sets its sequence to PhantomNet's. *)
Reconcile ==
    /\ client = Idle /\ sequence # Len(batches) + 1
    /\ sequence' = Len(batches) + 1
    /\ UNCHANGED <<mode, source, pending, offset, client, handlers, server, faults>>

Begin == TailSkip \/ \E h \in Handlers : TailBegin(h) \/ DrainBegin(h)
Release == Unlink \/ WriteState
Handle(h) == Admit(h) \/ IngestAlert(h) \/ Record(h) \/ Answer(h)

Next ==
    \/ \E a \in Alerts : Raise(a)
    \/ Begin \/ Release
    \/ \E h \in Handlers : Handle(h) \/ HandlerFails(h)
    \/ Revoke \/ ClientFails \/ Reconcile

Spec == Init /\ [][Next]_vars

(* run_forever() and drain_forever() poll for ever and a handler that has  *)
(* started is kept scheduled.  A conflict that keeps coming back is        *)
(* reconciled, as the runbook says.  Alerts, faults, and the revocation    *)
(* are not owed.                                                           *)
FairSpec ==
    /\ Spec
    /\ WF_vars(Begin)
    /\ WF_vars(Release)
    /\ \A h \in Handlers : WF_vars(Handle(h))
    /\ SF_vars(Reconcile)
----------------------------------------------------------------------------
(* A call has a batch exactly while it works; the checkpoint lies within   *)
(* what was raised and the sequence never runs ahead of PhantomNet's.      *)
TypeOK ==
    /\ mode \in Modes
    /\ source \in Seq(Alerts)
    /\ pending \in SUBSET Alerts
    /\ offset \in 0 .. Len(source)
    /\ sequence \in 1 .. Len(batches) + 1
    /\ client \in [pc : {"idle", "sent", "release"}, sequence : Nat, batch : SUBSET Alerts,
                   upto : 0 .. Len(source), handler : Handlers \cup {None}]
    /\ handlers \in [Handlers -> [pc : {"idle", "admit", "ingest", "accepted", "refused"},
                                  sequence : Nat, batch : SUBSET Alerts, todo : SUBSET Alerts]]
    /\ status \in {"active", "revoked"}
    /\ batches \in Seq(SUBSET Alerts)
    /\ evidence \in SUBSET Alerts
    /\ faults \in 0 .. MaxFaults

(* An alert that passes the filter is never given up undelivered: when the *)
(* forwarder's checkpoint is past it, or its file is gone, PhantomNet has  *)
(* it.  Lost answers, retries that overtake their first attempt, stops     *)
(* between any two file operations and reconciliations included.           *)
NothingDropped == \A a \in Raised : Passes(a) => a \in Held \cup evidence

(* A batch is recorded, and its sequence used up, only when PhantomNet has *)
(* every alert of it, although they are committed one at a time before it. *)
RecordedIsEvidence == \A n \in DOMAIN batches : batches[n] \subseteq evidence

(* After a forwarder is revoked nothing of it is ingested or recorded,     *)
(* not even the rest of a batch that was admitted before.                  *)
RevokedStaysOut ==
    [][status = "revoked" => UNCHANGED <<batches, evidence>>]_vars

(* The forwarder and stream_batch() together implement the handoff.        *)
Handoff == INSTANCE TelemetryHandoff WITH
    held <- Held, delivered <- evidence
KeepsHandoff == Handoff!Spec

(* Every alert that passes arrives, after any finite number of faults,     *)
(* unless the forwarder is revoked or an alert that cannot be delivered is *)
(* in the way.                                                             *)
Undeliverable == \E a \in Raised :
    KindOf[a] = "refused" \/ (mode = "tail" /\ KindOf[a] = "malformed")
EveryAlertArrives ==
    \A a \in Alerts :
        a \in Held ~> a \in evidence \/ status = "revoked" \/ Undeliverable
=============================================================================
