# Verification of PhantomNet's governed detection and response path

TLA+ models of the part of PhantomNet that decides what happens after an event
arrives: telemetry handed over by Wazuh forwarders, durable detections, analyst
alerts and cases, dead letters and their replay, autonomous decisions, and the
containment of endpoints after human approval, down to the endpoint script that
carries it out. TLC model-checks the models
on small instances; TLAPS proves the central properties for every value of the
constants. Paths below are relative to the repository.

## 1. Inventory

### Components on the governed path

| Component | State | Operations | Talks to | What is hard |
|---|---|---|---|---|
| Correlation consumer, `correlation_engine/consumer.py` | Kafka position and committed offset, running or not | poll, process, commit, except handlers | ingestion, dead letters | commit against failure, restarts, handlers that raise |
| Canonical ingestion, `ingestion.py`, `detection_store.py` | `detection_records` | `process`, `persist` | alert workflow, detection and event observers | at-least-once delivery, a stop between any two awaits |
| Dead letters, `ingestion_reliability.py` | `ingestion_dead_letters` | `record_failure`, `replay` | the processor | replay racing a replay, or a redelivery |
| Alert workflow, `alert_workflow.py` | `analyst_alerts` | `ingest_detection`, `transition` | consumer, analysts, cases | read, await, write without a lock; windows |
| Governed containment, `soar_engine/governed_containment.py` | requests, approvals, executions, audit chain | `request`, `approve`, `execute`, `rollback` | adapters, observers, analysts | several transactions per operation, external effects, chain of hashes |
| Containment adapters, `soar_engine/*adapter*.py`, `local_enforcement.py` | endpoints, cloud security groups | `execute`, `rollback` | endpoints, AWS, Wazuh | timeouts, partial effects, late answers |
| Wazuh active response, `wazuh_active_response_adapter.py`, `wazuh_response_receipts.py`, `deploy/wazuh-response` | receipts, nonces | dispatch, accept a receipt, poll | endpoint script | an answer after the deadline |
| Wazuh telemetry, `endpoint_inventory_service/forwarders.py`, `integrations/wazuh_pilot_forwarder` | batch sequence, spool files | enqueue, drain, tail, `stream_batch` | ingestion | lost answers, a stop between file operations |
| Response proposals and autonomous defense, `response_automation.py`, `autonomous_defense.py` | policies, decisions | observe a detection | containment | cooldowns read before concurrent writes |
| Cases, `case_management_service/workflow.py` | cases, playbook runs | create from alert, transitions | alerts | two creators, timelines written back whole |
| Replication, `telemetry_replication.py` | targets, receipts | replicate, retry | other regions | duplicate delivery, reservations |
| Governed rules, `governed_correlation.py` | rules, revisions, matches | evaluate, publish | ingestion | revisions during evaluation |
| Signed telemetry, `telemetry_ingestor/signed_auth.py` | credentials, nonces | admit | Kafka | nonce committed before publication |

A normalized event is delivered by Kafka to the consumer. The processor persists
the detections, hands each to the alert workflow and, when it created the
detection, to the observers that propose containment. A failure becomes a dead
letter that an analyst may replay. Requests for containment are decided by a
human, executed by an operator through an adapter, recorded as evidence in a
per-tenant chain of audit records, and may be rolled back. API processes and the
consumer run these coroutines side by side over one database.

The other directories (gateway, identity, AI services, hunting, query engines,
legacy SOAR, user interfaces, the endpoint agent, infrastructure) are listed in
`PROJECT.json` with the reason why each is left out.

### What makes each modelled component correct

* Containment: one human decision per request; only approved requests are ever
  enforced; evidence appears once, names a signed audit record of its request and
  has a status that the audit tells; one request per idempotency key; while calls do not race, one
  enforcement per request and a status that is true of the endpoint.
* Alerts: count and list of detections agree; a linked detection stays linked;
  one active alert per suppression key; legal lifecycles.
* Ingestion: an offset is committed only with durable evidence; observers hear of
  a detection at most once; a dead letter moves one way; deliveries drain.
* Forwarding: an alert that passes the filter is held until PhantomNet has it; a
  batch counts only when all of it is evidence; revocation is final; whatever can
  be delivered arrives.
* Cases: a playbook run that runs was approved; an alert with a case is not new;
  while calls do not overlap, one case per alert, timelines that tell the status,
  and legal lifecycles of alerts, cases and runs together.
* Autonomous defense: a proposal names the one request of its policy and detection;
  while evaluations do not overlap, one decision per pair, within the limits.
* Active response: a verified record was proven by the endpoint for that very
  request; the status tells of the endpoint; every attempt leaves its record.

## 2. Modules

| Module | Models |
|---|---|
| `GovernedContainment` | `GovernedContainmentService` and its tables |
| `ContainmentPromise` | abstract: what containment promises of a request |
| `AlertWorkflow` | `AlertWorkflow` and `analyst_alerts` |
| `BrokerIngestion` | consumer loop, processor, detection store, dead letters; **composes** `AlertWorkflow` |
| `CaseWorkflow` | cases and playbook runs, and analysts' transitions that name a case; **composes** `AlertWorkflow` |
| `ActiveResponse` | the Wazuh adapter, the endpoint script, receipts; **composes** `GovernedContainment`, whose adapter steps it replaces |
| `AutonomousDefense` | decisions of policies about detections, and their requests |
| `WazuhForwarder` | tailer and spool forwarder against `stream_batch` |
| `TelemetryHandoff` | abstract: what the forwarder promises of an alert |
| `..._proofs` | theorems about the module of that name |
| `MC...` | constants, logs and symmetry sets for TLC |

**Granularity.** A coroutine can be interrupted at each `await`, and several
processes share the database, so a step is one transaction, one call of an
adapter, or one read that a later step relies on. The code locks one row, a
forwarder's, while a batch is ingested. Elsewhere a read and the UPDATE that uses it
are separate steps wherever the UPDATE depends on what was read. SQLAlchemy keys the
UPDATE by the row's id and writes the columns whose value differs from the one
loaded: a stale write overwrites those columns and no others, and leaves a column
out that it found to have the new value already. That decides `rollback()`, whose
last session is therefore three steps, two loads and a commit. Where a load and its
write are one step (the end of `execute()`, the letters), the value written
differs from any that could be loaded, the insert beside it refuses the transaction,
or the column moves one way. Columns outside the models (`rolled_back`, the
verification, `last_seen` of a transition, counts of attempts) are not followed.
Unique constraints are checked by the step that inserts.

**GovernedContainment.** `status`, `approval`, `execution` are the three tables,
`audit` the chain in id order, where `prev` is the position of the record whose
hash was read. `isolated` is the real network state of the endpoints; an adapter
call may report and do everything the adapters can: a verified result means that
the endpoint was seen isolated, an unverified one tells nothing. `pc` and `job`
hold where an operation is and what it has read. `RequestRead` to `InsertRequest`
is `request()`, `DecisionRead`/`DecisionCommit` is `approve()`,
`ExecuteRead`/`ClaimExecution`/`AdapterExecute`/`RecordExecution` is `execute()`,
`RollbackRead`/`AdapterRollback`/`RollbackLoadRequest`/`RollbackLoadExecution`/`RecordRollback`
is `rollback()`, where `omits` names the rows whose status the UPDATE leaves out; each
audits through `AuditRead` and `AuditAppend`. Early returns and refused guards change
nothing and are no steps. `Fail` abandons an operation at any step, `Restart` all
of them, perhaps with another environment. One tenant: every query carries the
tenant and the chain is per tenant.

**AlertWorkflow.** `alerts` is the table in insertion order, `detectedAt` the
stored detection times, `call` what a call in flight has read. `IngestRead`
makes the query, returns for a duplicate, and otherwise goes on to
`IngestInsert` or `IngestLink`; `TransitionRead` and `TransitionWrite` are
`transition()`. `ingested` and `raced` are history variables. Time counts suppression
windows; two equal model times stand for two close ones. All detections of a
model have one window length.

**BrokerIngestion.** One partition `Log`, a consumer and some replay requests,
each a worker that walks the processor: `Persist`, `AlertRead`, `AlertWrite`,
`Observe`, `Replicate`. An event leads to one detection or none. A delivery may be
unparsable (not JSON), invalid (refused by the envelope), quiet or suspicious.
`Raise` leads to the dead letter, `RaiseOutside` is a failure that leaves none.
`StopConsumer` is what each except handler comes to: `logger` is
`logging.getLogger(...)`, whose `error()` rejects the keyword arguments the
handlers pass, so the handler raises before its `commit()` and the loop ends. The
`logger.info` calls with keyword arguments return without formatting at the
default level and are no step. `Restart` resumes at the committed offset.
`observed`, `processed` and `replays` are history variables.

**CaseWorkflow.** `cases` and `runs` are the tables, `caseOf` the `case_id` of the
alerts; `alerts` and the calls on them are those of the instance of
`AlertWorkflow`. Each operation reads and writes in separate steps
(`CreateRead`/`CreateWrite`, `TransitionRead`/`TransitionWrite`,
`RequestRead`/`RequestWrite`), a playbook transition also reads the case in between
(`RunRead`, `RunReadCase`, `RunWrite`). The sessions do not autoflush, so nothing is
written or locked before the commit. `NameCase` is the alert transition that
carries a `case_id`, which is stored unchecked. A timeline is abstracted to the
last entry about the case and about each run. `overlapped` and `named` are history.

**ActiveResponse.** The service's steps are `GovernedContainment`'s; where it would
call the adapter, `Refuse`, `Send`, `Acknowledge`, `LookUp` and `Wake` are the
coroutine of the Wazuh adapter, with a clock for its timeouts. `commands` are with
Wazuh and run (`Run`) whenever the endpoint gets them; `posted` receipts are on
their way and stored, refused or lost by `Submit`. `Fail` and `Restart` end the waiting
with its call; what was sent to the endpoint goes on. `proven` is history: what the
executor verified. One endpoint; signatures and fingerprints hold.

**AutonomousDefense.** A call is a walk over the policies: `CheckExisting`,
`CheckCooldown`, `CheckWindow`, `RequestRead`/`RequestInsert`/`RequestAudit`,
`Persist`. `requests` is keyed by policy and detection, as the idempotency key is.
Settings are chosen at the start. The amount of linked evidence stands for
evidence, kinds and confidence; a decision's hash covers it.

**WazuhForwarder.** `mode` says how the forwarder was installed. `source` is the
alert file, `pending` the spool, `offset` and `sequence` the state file; `batches`,
`status` the rows of PhantomNet, `evidence` what was ingested. `client` is the
forwarder's one call, `handlers` are the server's, which a timeout leaves working
and a retry may meet. `Locked` is the row lock of `SELECT ... FOR UPDATE`.
`ClientFails` is a lost answer, a timeout or a stop; `Reconcile` is what the runbook
asks of the operator (docs/WAZUH_INTEGRATION_AND_MIGRATION_GUIDE.md:195).

## 3. Runs

Deadlock checking is off everywhere: users may stop calling, and the bounded logs
end.

| Run | Instance | Question |
|---|---|---|
| `containment_race` | 2 requests, one key, 2 operations in flight, failures, restarts | `TypeOK`, `DecisionGoverns`, `OneRequestPerKey`, `EvidenceIsAudited`, and the refinement `KeepsPromise` survive every race |
| `containment_sequence` | 2 requests, 2 endpoints, 1 operation in flight, failures, restarts | `AtMostOneExecution`, `StatusTellsEndpoint`, `ChainLinked` hold while nothing races |
| `active_response` | 1 request, 2 operations in flight, Wazuh adapter, 1 rollback, failures, restarts | `TypeOK`, `RecordIsProven`, `StatusTellsEndpoint` with late commands, lost receipts and calls that end while they wait |
| `active_response_settles` | 2 racing operations, fair, time passes | `EnforcementLeavesEvidence` |
| `alerts` | 2 detections, 2 calls in flight, analysts | `TypeOK`, `CountTellsDetections` in every race; `OneActiveAlert`, `IngestedIsLinked`, `LifecycleLegal` while nothing races |
| `case_work` | 1 alert, 2 cases, 2 calls of the case service, 1 of the alert workflow | `TypeOK`, `RunsAreApproved`, `EscalatedIsTriaged` in every race; `OneCasePerAlert`, `TimelineTells`, `LifecyclesLegal` while nothing overlaps |
| `defense` | 1 policy of either setting, 2 detections, 2 evaluations in flight | `TypeOK`, `ProposalIsRequested` in every race; `OneDecision`, `CooldownHolds`, `HourlyLimitHolds` while nothing overlaps |
| `forwarding` | 4 alerts, 2 handlers, 2 faults, both modes, fair | `TypeOK`, `NothingDropped`, `RecordedIsEvidence`, `RevokedStaysOut`, the refinement `KeepsHandoff`, and `EveryAlertArrives` |
| `ingestion_replay` | 4 deliveries, one event twice, one invalid; 1 replay beside the consumer; failures, restarts | `TypeOK`, `CommittedHasEvidence`, `ObservedAtMostOnce`, `LetterLifecycle` |
| `ingestion_drains` | 5 deliveries with one suppression key, nothing fails, fair | `CommittedHasEvidence`, `Drains` |
| `ingestion_poison` | violation | `ReceiptReleasesPartition` |
| `active_response_late` | violation | `NothingArrived` |

**Bounds, and why they are enough.** Two operations in flight are what every race
on this path needs: one reads, the other writes in between.

* Containment: two requests are the fewest that can share a key or an endpoint
  chain; two rollbacks per request (`MaxRollbacks`) let a second one meet the
  result of the first, also between its loads and its commit. What three do takes three
  operations in flight; `EvidenceAudited` covers any number.
* `alerts`: two detections of one suppression key, and a window (`Window` = 0) the
  clock passes, so that the second falls inside it or beyond. `MaxAlerts` bounds
  the alerts there are when a call goes on to open another, so that racing calls
  exceed it. `OneActiveAlert`, `LifecycleLegal` and `IngestedIsLinked` speak of behaviors
  in which no two calls were ever in flight (`raced`); the first two fail in the
  others at this size. A race loses a detection only with three of them, an alert
  and two links: there `EvidenceIsKept` (section 4) says which race that is.
* `case_work`: one alert, and two calls of the case service (`Desks`) beside one of
  the alert workflow. `MaxCases` = 2 lets a call, after another has returned, try to open
  a second case of the alert, which only the look for an existing one prevents; and it
  lets two racing calls open one each. One run (`MaxRuns`) goes through approval,
  cancellation and start. `Targets` are the statuses that analysts ask cases and runs
  to get: for a case `in_progress` and `closed` (`resolved` is left to
  `LifecyclesUnlessMovedTwice`), for a run all but `completed` and `failed`, which behave as
  `cancelled` does. Alerts are asked to get any.
* `defense`: `Pausing` has a cooldown of an hour and two decisions per hour,
  `Asking` needs evidence that may be linked late and makes one proposal per hour.
  Time (`MaxTime` = 3) passes three hours, so each limit is met and outlived;
  two identifiers (`MaxIds`) let a proposal be repeated after a failure.
* `forwarding`: a batch size of 2 and four alerts, one refused and one filtered,
  raised in any order: batches are full or not, the refused alert is alone, first
  or second, and a filtered one is skipped alone or within a batch. Two handlers
  let a retry overtake its first attempt, two faults let the retry fail too.
* `active_response`: a timeout, a poll interval and a maximal age of 1 within two units
  of time let the adapter look twice and let commands and receipts come after the
  call that sent them has given up or was stopped, or meet a second call for the same
  request. Dispatching interleaves with everything but takes no time on the clock
  (`RequestTimeout` = 0); in `active_response_settles` it takes up to one unit of three.
  A stop may come at any step of either call. `active_response_settles` has none: a call
  stopped between its claim and its evidence leaves no record.
  `active_response_late` has a poll interval longer than the timeout, as settings
  allow (2 and 1); with the defaults the last sleep is shorter, and the gap is too.
* `ingestion_replay` repeats an event behind another and ends with the delivery the
  contract refuses, because no consumer gets past it. Each event has a suppression
  key of its own; with a shared one a replay and the consumer can overwrite each
  other's link, and `ingestion_drains` has the shared key. It also runs past the
  window.

Symmetry is used for sessions, callers and detections, in runs without liveness
only.

**Fairness.** Started operations keep being scheduled by the event loop in every
fair specification; nobody is obliged to start one, except where a loop of the
code does.

* `ActiveResponse!FairSpec`: started operations, and time. Endpoints and the network
  owe nothing: commands and receipts may never come.
* `WazuhForwarder!FairSpec`: `run_forever()` and `drain_forever()` poll for ever (`Begin`,
  `Release`), and handlers continue. `Reconcile` is strongly fair: an operator who
  sees conflicts again and again does what the runbook says
  (docs/WAZUH_INTEGRATION_AND_MIGRATION_GUIDE.md:195). A call in flight disables it
  now and then, which is why weak fairness would not do. Alerts, faults and
  the revocation are not owed.
* `BrokerIngestion!FairSpec`: the loop polls, a started worker continues, and a
  consumer that has stopped is restarted, by whoever operates the service (the code
  does not restart its task; with less, `ReceiptReleasesPartition` would fail for want
  of a restart).

Every property of a passing run has a mutant in its module (`Name_Variant`, just
before `Name`), a plausible bug in the code under which TLC finds it violated.

### Disagreements between code and documents

Shown by a run:

* A failed delivery, receipt or not, ends the consumer and is never passed
  (`ingestion_poison`, docs/canonical-ingestion-reliability.md:16).
* The adapter sleeps past its deadline and does not look again: a receipt that
  arrived in time is not found, and the isolation reads as failed
  (`active_response_late`, wazuh_active_response_adapter.py:399).

Seen while modelling, and not kept as runs:

* `approve()` commits before it audits: an execution can run with no audit
  evidence of its approval (README.md:25). In a process without the signing key it
  appends an unsigned record.
* The audit chain forks under concurrent operations and is then rejected by
  `verify_chain` (README.md:30).
* `execute()` called twice at once can call the adapter twice, and the status may
  then tell what the endpoint is not.
* Three rollbacks of one request at once: one records `failed`; two others load that, and
  the verified one commits `rolled_back`; the last leaves the unchanged status out
  and writes its hash only. The row then says `rolled_back` and names a record that tells
  `failed`. Two rollbacks cannot do so (`EvidenceIsAudited`).
* Two replays of a letter both reprocess it
  (docs/canonical-ingestion-reliability.md:29).
* Alerts: with a second call in flight a link is lost, a key has two active alerts,
  a closed alert is active again. A detection delivered again after its alert was
  closed opens a second alert, and so may one whose alert was moved out of the
  window when an older detection was linked late.
* Cases: two calls open two cases of one alert, and overwrite each other's timeline.
  A `case_id` given with an alert transition is stored unchecked.
* Autonomous defense: concurrent evaluations decide twice and pass both limits. The
  loser of a racing proposal leaves the observer with an `IntegrityError`, although
  autonomous_defense.py:470 says that it cannot interrupt the storage of detections.
  A decision that was rate limited restarts the cooldown.
* Forwarding: an accepted batch whose answer is lost makes every later batch a
  conflict, until an operator reconciles; an alert the contract refuses, or in tail
  mode a malformed line, is in the way for ever.

## 4. Proofs

Every theorem holds for all values of the constants that the assumption of its
module allows (`ContainmentAssumption`, `AlertAssumption`, ...: the shape of the
constants). Type correctness (`TypeCorrect`) comes first in each module, by
induction with one case per action, and the other invariants rest on it.

### What may overlap, and what may not

The services lock few rows: a call writes what it computed from what it read some
awaits earlier. The theorems below say which overlap each property cannot bear, and
that it bears all the others, with any failures, stops and retries. The hypothesis
is a state predicate that two calls at the named place falsify; `Spec /\ []P => []Q`
then covers every behaviour in which that pair of calls never meets.

| Hypothesis | Excluded: two calls at once that are ... | What then holds |
|---|---|---|
| `OneClaim` | between the read that found a request approved and the UPDATE that claims it | `OneExecution`: at most one execution; with endpoints of their own, `StatusIsTrue` |
| `OneAppender` | between the read of the latest audit record and the insert | `ChainIsLinked` |
| `OneLink` | about to link different detections to one alert | `EvidenceIsKept`, `EvidenceOnlyGrows`, `CommittedEvidence`, `EvidenceSurvivesCases` |
| `OneTransition` | about to move one alert to different statuses | `LifecycleUnlessMovedTwice` |
| `OneInsert` (with `OneTransition`) | about to open an alert of one key | `OneActiveUnlessOpenedTwice`, while nothing is older than the window |
| `OneEvaluation` | past the check that a detection was not decided under a policy | `OnceUnlessEvaluatedTwice` |
| `OneActing` | acting for a policy, past the check of its cooldown | `LimitsUnlessActingTwice`: cooldown and hourly limit |
| `OneOpening` | about to open a case of one alert | `OneCaseUnlessOpenedTwice` |
| `OneTelling` | about to write one case's timeline back | `TimelineUnlessToldTwice` |
| `OneMove` | about to move one alert, case or run to different statuses | `LifecyclesUnlessMovedTwice` |

Where the runs' properties say `~raced` or `~overlapped`, theorems about them follow:
while no calls overlap, none of these pairs meets. Those need finitely many callers
(in the models overlapping is a matter of counting calls under way). Where a
constant excludes the pair, corollaries drop the hypothesis:
`SequentialOperations`, `ConsumerAlone`, `OneActiveThroughRedelivery`,
`OwnKeysEvidence`.

### The arguments

`GovernedContainment_proofs`, for any requests, keys, endpoints and number of
operations:

* `DecisionsGovern`: `DecisionGoverns` is not inductive: a rejected request must
  also be safe from an operation that is under way. `GovernInv` adds that
  the status reflects the decision and that an operation past its claim read is
  about an approved request.
* `EvidenceAudited`: the evidence written at the end names the record appended
  before. `EvidenceInv` adds that an operation about to record holds the
  position of a signed record of its own request and outcome. `signing` enters
  because an operation that enforces started in a process with the key and does
  not outlive it. That a row's status is told by some signed record holds of any number
  of rollbacks: who writes a status has a record that tells it, and who leaves it out
  has changed nothing. That the named record tells it needs `UndoInv`, of at most two
  rollbacks: they start on a verified row, so the first to commit writes both columns;
  the second either loaded before that and writes both too, or it loaded the first's
  result, and leaves out its own outcome, which nobody else changes any more.
* `RequestPerKey`: every write of a status is about a request that is there, except
  the insert, whose key is free in the step that inserts (`KeyInv`).
* `ContainmentKeepsPromise`: under `PromiseInv` every step maps to a step of
  `ContainmentPromise` or to a stutter; each action is a case.
* `OneExecution`: a request about to be claimed is still approved and not executed,
  and who has claimed it is alone with it (`ClaimInv`). No status leads back to
  `approved`, so that a stale read is harmful only at the claim.
* `ChainIsLinked`: who is about to append holds the head there is (`ChainInv`).
* `StatusOfOneExecution`, when requests have endpoints of their own: a request that was
  executed at most once has had one change of its endpoint to isolated, and what
  the adapter was seen to do stays so until it is recorded (`AtEndpoint`). Rollbacks
  may race as they like. `StatusIsTrue` combines it with `OneExecution`.

`ActiveResponse_proofs`, for any requests, deadlines and clocks, reuses these: every
step is one of that service or leaves it alone, and a call that fails or is stopped during
the adapter's wait is one that the service abandons (`Abandon`).

* `RecordsProven`: a call with a verified result to audit or to record found a receipt,
  and a posted or stored receipt is proven by its endpoint.
* `StatusIsTrue`: `EndpointInv` counts, while a request was executed once, at most one
  isolation command on its way and none after its receipt, so that no late
  command isolates an endpoint that was released.
* `ResponseKeepsPromise` carries the refinement of `ContainmentPromise` over: a
  call that waits at the adapter while others come and go is, for the promise,
  an operation that has not started or has not recorded yet.
* `OneExecution` and `StatusEndToEnd`: the same single race, `OneClaim`, as without
  the adapter's waits, from the API call to the script on the endpoint.

`AlertWorkflow_proofs`, for any detections, keys, window and number of calls:

* `CountCorrect`: a call writes the count it read plus one, so `CountInv` adds
  that what a pending link read is consistent, and lacks its detection. Then a
  stale write replaces one consistent pair by another: that is why the count
  survives races which lose detections.
* `AlertsOfOneKey`: a link is about an alert of the detection's key, which no call
  changes.
* `EvidenceIsKept`, `EvidenceOnlyGrows`: what a call will write contains all the alert
  lists (`LinkInv`). Transitions leave the list alone, and the same detection twice
  writes the same list; only another detection's link makes what was read stale.
* `LifecycleUnlessMovedTwice`: the status a pending transition will write is the
  alert's or follows it (`MoveInv`), also after links and other calls' identical moves.
* `OneActiveUnlessOpenedTwice`: no alert of its key is active when a call inserts one
  (`ActiveInv`), which needs `MoveInv` because a stale transition could make an
  ended alert active again. While `clock <= Window` no alert is out of the
  window (`Times`); beyond it two active alerts of a key are what the code intends.
* `IngestedLinked`, `OneActivePerKey`, `LifecycleKept`, what the run `alerts` checks:
  `SoloInv` says that while calls have not overlapped at most one is pending.

`BrokerIngestion_proofs`, for any log, alerts, stops and number of replayers, takes the
steps that write alerts from `AlertWorkflow_proofs`:

* `ObservedOnce`: a detection has at most one creator under way, and until that one
  tells the observers nobody has (`ObserveInv`). A redelivery finds the row and is
  not a creator.
* `LettersMoveOneWay`: a worker marks a letter replayed only after the processor
  returned (`FinishInv`).
* `CommittedEvidence`: everything before the delivery at hand was processed
  (`CommitInv`), a worker past the alert step has its event listed (`EvidenceInv`),
  and what is listed stays (`LinkInv`, under `OneLink`). A stop leaves all three
  alone because the position restarts at the committed offset.
* `OwnKeysEvidence`: on keys of their own no call ever links, by `KeyInv` of the
  alerts: this is the log of `ingestion_replay`.
* `CountSurvivesRestarts`, `OneActiveUnlessOpenedTwice`: invariants of the alerts carried
  over stops between any two steps. A stop ends calls without a write.

`WazuhForwarder_proofs`, for any alerts, files, batches and number of requests, stops
and lost answers:

* `NothingIsDropped` and `RecordedBatches` need what each side knows of the other. At
  most one request is between the row lock and its commit, its sequence is the next
  one, and what it has done of its batch is evidence (`HandlersInv`). The forwarder
  releases a batch only when it is recorded and evidence, and in tail mode a batch is
  exactly what the filter accepts up to its checkpoint (`ClientInv`).
* `RevokedStays` follows from the same invariant: a request past the lock is about an
  active forwarder, so that none is under way when the revocation takes the lock.
  No hypothesis on races is needed anywhere: here the code locks the row.
* `ForwarderKeepsHandoff`: every step maps to a step of `TelemetryHandoff` or to a
  stutter. What is held there is what `Held` collects: the unread part of the file, the
  pending files and the batch under way.

`CaseWorkflow_proofs`, for any number of desks and alerts, reuses the lemmas of
`AlertWorkflow_proofs` through an instance:

* `RunsApproved`: a call that goes on to start or end a run has read it as approved,
  and no transition takes the approval away.
* `EscalatedTriaged`: a call that will not triage its alert has read it as not new,
  and no transition makes an alert new again.
* `OneCaseUnlessOpenedTwice`: a call that will open a case has found none (`OpenInv`).
  Alerts that an analyst linked to a case by hand (`named`) are left out, as in
  `OneCasePerAlert`.
* `TimelineUnlessToldTwice`: what a call will write back is the timeline that is there
  and its entry (`TellInv`).
* `LifecyclesUnlessMovedTwice`: the status a call will write follows the one there is,
  for alerts, cases and runs (`MoveInv`). The opening of a case triages an alert: it
  is a move, and its only rival is a transition that does not lead to `triaged`.
* The first two assume finite sets of callers because the model's columns are bounded:
  `AlertRoom` and `RunRoom` show that the bounds suffice for the calls under way.
* `CountSurvivesCases`, `EvidenceSurvivesCases`: what the alert workflow keeps alone it
  keeps beside the case service, which writes alerts with no regard to it.
* `OneCase`, `TimelineTrue`, `LifecyclesKept` (`Counted`: finitely many sessions and
  desks) are what the run `case_work` checks.

`AutonomousDefense_proofs`, for any policies, detections and callers:

* `ProposalsRequested`: a request stays the one under its key once it is there, so that
  what a call read of it before the decision is true when the decision is stored.
* `OnceUnlessEvaluatedTwice`: past its first check a call's pair is still undecided
  (`OnceInv`).
* `LimitsUnlessActingTwice`: what a call that acts for a policy found of the cooldown
  and counted of the last hour is still there when it stores (`ActInv`), though the
  clock went on. The hourly limit follows because any window of an hour that holds
  too many decisions would be the window of its latest one, which that call counted.
* `DecidesOnce`, `CooldownKept`, `HourlyLimitKept` follow for evaluations that do not
  overlap.

**Only model-checked:** liveness (`EnforcementLeavesEvidence`, `Drains`,
`EveryAlertArrives`), which is out of the prover's reach. Every invariant and action
property of the passing runs has a theorem. That the excluded overlaps do break
their properties is not a theorem: TLC finds it when `~raced` or `~overlapped` is
taken out of the property (with a third detection for `IngestedIsLinked`), and when
`containment_sequence` is given a second session.

## 5. Not modelled

Abstracted in what is modelled: hash and HMAC computation (a hash is the position
of its record, a signature a Boolean), payload validation, severities, MITRE data,
tenants (one), pagination and read-only operations; attempt counts of dead letters,
and payload hashes (a coordinate always delivers one payload).

Left out of modelled components: rotation of the alert file (the tailer starts a new
file at offset 0), two drainers of one spool, and the limits on sizes and clocks of
the forwarder's batches; changes of policies while evaluations run; the other
containment adapters (AWS, local enforcement), whose every answer
`GovernedContainment` already allows; what the observers and the replication do.

Components without a module are in `PROJECT.json`, each with its reason. Those of the
governed path are telemetry replication, governed correlation rules, signed
admission and response proposals; the plan has them. The rest is either request
handling around an AI service, a query engine or a database (state is one row per
request, and nothing relates two of them), or a legacy of the governed path which
no deployment starts.

## 6. Plan

Done: containment, alerts, broker ingestion, Wazuh forwarding, cases, Wazuh active
response, autonomous defense. Next, most important first:

1. `TelemetryReplication`: reservations and retries against duplicate delivery; a slow
   attempt whose failure overwrites what its retry delivered
   (telemetry_replication.py:256).
2. `SignedTelemetry`: nonces committed before publication.
3. The AWS adapter with partial failure, in the place `ActiveResponse` has shown.
4. Governed correlation rules: revisions published while an evaluation runs.
