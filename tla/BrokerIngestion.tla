-------------------------- MODULE BrokerIngestion --------------------------
(***************************************************************************)
(* The correlation engine's ingestion of normalized events: the Kafka      *)
(* consumer loop (consumer.py), the canonical processor (ingestion.py),    *)
(* the detection repository (detection_store.py), the dead letters and     *)
(* their replay by analysts (ingestion_reliability.py), and the alert      *)
(* workflow, which is AlertWorkflow.                                       *)
(*                                                                         *)
(* One partition of the topic.  Workers run the processor: the consumer,   *)
(* one delivery after the other, and the replay requests.  Each await of   *)
(* the processor ends a step.                                              *)
(***************************************************************************)
EXTENDS Naturals, Sequences, FiniteSets

CONSTANTS
    Log,        \* the partition: what each offset delivers
    Events,     \* event ids; a producer may publish an event twice
    Keys, KeyOf, Window, MaxTime, MaxAlerts,  \* of AlertWorkflow
    Consumer,   \* the consumer loop
    Replayers,  \* replay requests that can be in flight together
    CanFail,    \* do awaits raise?
    CanRestart, \* are processes restarted while they work?
    None

Kinds == {"suspicious", "quiet", "invalid", "unparsable"}

VARIABLES
    committed,  \* the group's committed position: deliveries before it are done
    position,   \* the consumer's own position
    running,    \* is the consumer loop running?
    letters,    \* IngestionDeadLetterRow.status of an offset
    observed,   \* calls of the detection observers about an event's detection
    processed,  \* history: the offsets process() returned for
    replays,    \* history: how often it did for a replay, counted up to 2
    pc, job,    \* where a worker is, the offset it is about, and whether its
                \* persist() created the detection
    alerts, detectedAt, clock, call, ingested  \* of AlertWorkflow

Workers == {Consumer} \cup Replayers
Offsets == DOMAIN Log

A == INSTANCE AlertWorkflow WITH
    Detections <- Events, Sessions <- Workers, Analysts <- FALSE, raced <- FALSE

ASSUME BrokerAssumption ==
    /\ Log \in Seq([event : Events, kind : Kinds])
    /\ CanFail \in BOOLEAN /\ CanRestart \in BOOLEAN
    /\ Consumer \notin Replayers
    /\ None \notin Nat
    /\ A!AlertAssumption

broker == <<committed, position, running>>
alerting == <<alerts, detectedAt, clock, call, ingested>>
history == <<observed, processed, replays>>
vars == <<broker, letters, history, pc, job, alerting>>

Steps == {"idle", "persist", "alert", "alert_write", "observe", "replicate",
          "letter", "stop", "commit", "finish"}
NoJob == [off |-> 0, created |-> FALSE]
EventOf(w) == Log[job[w].off].event
KindOf(w) == Log[job[w].off].kind

Init ==
    /\ committed = 0
    /\ position = 0
    /\ running = TRUE
    /\ letters = [o \in Offsets |-> "none"]
    /\ observed = [e \in Events |-> 0]
    /\ processed = {}
    /\ replays = [o \in Offsets |-> 0]
    /\ pc = [w \in Workers |-> "idle"]
    /\ job = [w \in Workers |-> NoJob]
    /\ A!Init

At(w, step) == pc[w] = step
Goto(w, step) == pc' = [pc EXCEPT ![w] = step] /\ UNCHANGED job
Return(w) ==
    /\ pc' = [pc EXCEPT ![w] = "idle"]
    /\ job' = [job EXCEPT ![w] = NoJob]
Begin(w, o) ==
    /\ At(w, "idle")
    /\ pc' = [pc EXCEPT ![w] = CASE Log[o].kind = "unparsable" -> "letter"
                                 [] Log[o].kind = "invalid"    -> "letter"
                                 [] Log[o].kind = "quiet"      -> "replicate"
                                 [] Log[o].kind = "suspicious" -> "persist"]
    /\ job' = [job EXCEPT ![w] = [off |-> o, created |-> FALSE]]
----------------------------------------------------------------------------
(* start_kafka_consumer(): the next delivery.  json.loads() or the         *)
(* validation of the envelope refuses some of them.                        *)
Poll ==
    /\ running
    /\ position < Len(Log)
    /\ position' = position + 1
    /\ Begin(Consumer, position + 1)
    /\ UNCHANGED <<committed, running, letters, history, alerting>>

(* replay(): an open dead letter that has a tenant, which an unparsable    *)
(* delivery does not.                                                      *)
Replay(w, o) ==
    /\ letters[o] = "open"
    /\ Log[o].kind # "unparsable"
    /\ Begin(w, o)
    /\ UNCHANGED <<broker, letters, history, alerting>>
----------------------------------------------------------------------------
(* CanonicalBrokerProcessor.process()                                      *)

(* DetectionRepository.persist(): the unique detection id decides who      *)
(* created the row.                                                        *)
Persist(w) ==
    /\ At(w, "persist")
    /\ LET e == EventOf(w) IN
         IF detectedAt[e] = None
           THEN A!Detect(e) /\ job' = [job EXCEPT ![w].created = TRUE]
           ELSE UNCHANGED <<alerting, job>>
    /\ pc' = [pc EXCEPT ![w] = "alert"]
    /\ UNCHANGED <<broker, letters, history>>

AlertRead(w) ==
    /\ At(w, "alert")
    /\ A!IngestRead(w, EventOf(w))
    /\ Goto(w, IF call'[w] = A!Idle THEN "observe" ELSE "alert_write")
    /\ UNCHANGED <<broker, letters, history>>

AlertWrite(w) ==
    /\ At(w, "alert_write")
    /\ A!IngestInsert(w) \/ A!IngestLink(w)
    /\ Goto(w, "observe")
    /\ UNCHANGED <<broker, letters, history>>

(* Mutant: a detection that was already there is observed again.           *)
Observe_Always(w) ==
    /\ At(w, "observe")
    /\ observed' = [observed EXCEPT ![EventOf(w)] = @ + 1]
    /\ Goto(w, "replicate")
    /\ UNCHANGED <<broker, letters, processed, replays, alerting>>

(* The response proposals and the autonomous decisions, for a detection    *)
(* this call created.                                                      *)
Observe(w) ==
    /\ At(w, "observe")
    /\ IF job[w].created
         THEN observed' = [observed EXCEPT ![EventOf(w)] = @ + 1]
         ELSE UNCHANGED observed
    /\ Goto(w, "replicate")
    /\ UNCHANGED <<broker, letters, processed, replays, alerting>>

(* The event observers (regional replication), and process() returns.      *)
Replicate(w) ==
    /\ At(w, "replicate")
    /\ processed' = processed \cup {job[w].off}
    /\ replays' = IF w = Consumer \/ replays[job[w].off] = 2 THEN replays
                  ELSE [replays EXCEPT ![job[w].off] = @ + 1]
    /\ Goto(w, IF w = Consumer THEN "commit" ELSE "finish")
    /\ UNCHANGED <<broker, letters, observed, alerting>>

(* Any await of the processor may raise.                                   *)
Raise(w) ==
    /\ CanFail
    /\ pc[w] \in {"persist", "alert", "alert_write", "observe", "replicate"}
    /\ Goto(w, "letter")
    /\ IF At(w, "alert_write") THEN A!Abandon(w) ELSE UNCHANGED alerting
    /\ UNCHANGED <<broker, letters, history>>
----------------------------------------------------------------------------
(* IngestionDeadLetterRepository                                           *)

(* Mutant: a failed replay reopens a letter another replay has finished.   *)
RecordFailure_Reopen(w) ==
    /\ At(w, "letter")
    /\ letters' = [letters EXCEPT ![job[w].off] = "open"]
    /\ IF w = Consumer THEN Goto(w, "stop") ELSE Return(w)
    /\ UNCHANGED <<broker, history, alerting>>

(* record_failure(): an open letter counts another attempt (not modelled), *)
(* a replayed one is left alone.  The consumer then logs the receipt,      *)
(* see StopConsumer; a replay raises to its caller.                        *)
RecordFailure(w) ==
    /\ At(w, "letter")
    /\ letters' = [letters EXCEPT ![job[w].off] = IF @ = "none" THEN "open" ELSE @]
    /\ IF w = Consumer THEN Goto(w, "stop") ELSE Return(w)
    /\ UNCHANGED <<broker, history, alerting>>

(* replay(), after the processor returned: the letter must still be open.  *)
FinishReplay(w) ==
    /\ At(w, "finish")
    /\ letters' = [letters EXCEPT ![job[w].off] = IF @ = "open" THEN "replayed" ELSE @]
    /\ Return(w)
    /\ UNCHANGED <<broker, history, alerting>>

(* Every await of the "letter" step, and what follows the processor in the *)
(* consumer (enrichment, rules) or in a replay, may raise too.             *)
RaiseOutside(w) ==
    /\ CanFail
    /\ pc[w] \in {"letter", "commit", "finish"}
    /\ IF w = Consumer THEN Goto(w, "stop") ELSE Return(w)
    /\ UNCHANGED <<broker, letters, history, alerting>>
----------------------------------------------------------------------------
(* The consumer's handlers                                                 *)

(* Mutant: the position committed is that of the delivery itself.          *)
Commit_OwnOffset(w) ==
    /\ At(w, "commit")
    /\ committed' = position - 1
    /\ Return(w)
    /\ UNCHANGED <<position, running, letters, history, alerting>>

(* Mutant: one more than the next delivery is committed.                   *)
Commit_Beyond(w) ==
    /\ At(w, "commit")
    /\ committed' = position + 1
    /\ Return(w)
    /\ UNCHANGED <<position, running, letters, history, alerting>>

(* commit() commits the consumer's position, the delivery after this one.  *)
Commit(w) ==
    /\ At(w, "commit")
    /\ committed' = position
    /\ Return(w)
    /\ UNCHANGED <<position, running, letters, history, alerting>>

(* Mutant: the handlers log, leave the offset alone, and take the next     *)
(* delivery.                                                               *)
StopConsumer_Continue(w) ==
    /\ At(w, "stop")
    /\ Return(w)
    /\ UNCHANGED <<broker, letters, history, alerting>>

(* Each except handler of the loop calls logger.error() of the standard    *)
(* library with keyword arguments, which raises a TypeError: the handler   *)
(* commits nothing, and the loop and its task end.                         *)
StopConsumer(w) ==
    /\ At(w, "stop")
    /\ running' = FALSE
    /\ Return(w)
    /\ UNCHANGED <<committed, position, letters, history, alerting>>

(* The service is restarted, in the middle of anything or because its      *)
(* consumer stopped, and the group resumes where it committed.             *)
Restart ==
    /\ CanRestart \/ ~running
    /\ running' = TRUE
    /\ position' = committed
    /\ pc' = [w \in Workers |-> "idle"]
    /\ job' = [w \in Workers |-> NoJob]
    /\ call' = [w \in Workers |-> A!Idle]
    /\ UNCHANGED <<committed, letters, history, alerts, detectedAt, clock, ingested>>

Time == A!Tick /\ UNCHANGED <<broker, letters, history, pc, job>>

Step(w) ==
    \/ Persist(w) \/ AlertRead(w) \/ AlertWrite(w) \/ Observe(w) \/ Replicate(w)
    \/ RecordFailure(w) \/ FinishReplay(w) \/ Commit(w) \/ StopConsumer(w)

Next ==
    \/ Poll
    \/ \E w \in Workers : Step(w) \/ Raise(w) \/ RaiseOutside(w)
    \/ \E w \in Replayers, o \in Offsets : Replay(w, o)
    \/ Restart
    \/ Time

Spec == Init /\ [][Next]_vars

(* The loop keeps polling and a started call is kept scheduled; whoever    *)
(* operates the service restarts a consumer that stopped.                  *)
FairSpec ==
    /\ Spec
    /\ WF_vars(Poll)
    /\ \A w \in Workers : WF_vars(Step(w))
    /\ WF_vars(Restart /\ ~running)
----------------------------------------------------------------------------
(* Positions lie in the partition and the committed one never passes the   *)
(* consumer's; a worker has a delivery exactly while it works, and an      *)
(* alert call exactly while it is about to write.                          *)
TypeOK ==
    /\ committed \in 0..Len(Log)
    /\ position \in committed..Len(Log)
    /\ running \in BOOLEAN
    /\ letters \in [Offsets -> {"none", "open", "replayed"}]
    /\ observed \in [Events -> Nat]
    /\ processed \in SUBSET Offsets
    /\ replays \in [Offsets -> 0..2]
    /\ pc \in [Workers -> Steps]
    /\ job \in [Workers -> [off : 0..Len(Log), created : BOOLEAN]]
    /\ \A w \in Workers : At(w, "idle") <=> job[w].off = 0
    /\ \A w \in Workers : call[w] # A!Idle <=> At(w, "alert_write")

(* The consumer commits past a delivery only when it leaves evidence: a    *)
(* dead letter, or, if the event is suspicious, a detection that some      *)
(* alert lists.  Exceptions and restarts at any step included.  It needs   *)
(* that calls about one suppression key do not race: keys of their own, or *)
(* no replay beside the consumer.                                          *)
CommittedHasEvidence ==
    \A o \in 1..committed :
        \/ letters[o] # "none"
        \/ /\ o \in processed
           /\ Log[o].kind = "suspicious" =>
                \E i \in DOMAIN alerts : Log[o].event \in alerts[i].ids

(* The observers, which propose containment and take autonomous decisions, *)
(* hear of a detection at most once, through redelivery, duplicates and    *)
(* replays that race the consumer.                                         *)
ObservedAtMostOnce == \A e \in Events : observed[e] <= 1

(* A dead letter is opened once and replayed for good, and only after the  *)
(* processor returned for that delivery.                                   *)
LetterLifecycle ==
    [][\A o \in Offsets :
         letters'[o] # letters[o] =>
            \/ letters[o] = "none" /\ letters'[o] = "open"
            \/ letters[o] = "open" /\ letters'[o] = "replayed" /\ replays[o] > 0]_vars

(* A delivery whose failure has a durable receipt does not hold up the     *)
(* partition: its offset is committed.                                     *)
ReceiptReleasesPartition ==
    \A o \in Offsets : letters[o] # "none" ~> committed >= o

(* Deliveries that can be processed are, and the partition drains.         *)
Drains == <>[](committed = Len(Log))
=============================================================================
