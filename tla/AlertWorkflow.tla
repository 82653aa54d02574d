--------------------------- MODULE AlertWorkflow ---------------------------
(***************************************************************************)
(* AlertWorkflow (correlation_engine/alert_workflow.py): detections become *)
(* analyst alerts.  A detection whose suppression key has an active alert  *)
(* seen within the rule's window is linked to it, any other one opens an   *)
(* alert; analysts move alerts along a lifecycle.  ingest_detection() and  *)
(* transition() each read a row, await, and write the columns they changed *)
(* from what they read; no row is locked, and no constraint is on the      *)
(* suppression key.  Times count detection windows, not seconds.           *)
(***************************************************************************)
EXTENDS Naturals, Sequences, FiniteSets

CONSTANTS
    Detections,  \* detection ids
    Keys,        \* suppression keys: tenant, rule, correlation id, payload
    KeyOf,       \* suppression_key_for()
    Window,      \* suppression window of the rules
    Sessions,    \* calls that can be in flight together
    Analysts,    \* do analysts work on the alerts?
    MaxTime,     \* bound: the clock
    MaxAlerts,   \* bound: alerts there are when a call goes on to open one
    None

ASSUME AlertAssumption ==
    /\ KeyOf \in [Detections -> Keys]
    /\ Window \in Nat /\ MaxTime \in Nat /\ MaxAlerts \in Nat
    /\ Analysts \in BOOLEAN
    /\ None \notin Detections

VARIABLES
    alerts,      \* AnalystAlertRow, in insertion order
    detectedAt,  \* detected_at of the persisted detections, None before
    clock,       \* utcnow()
    call,        \* what the call of a session has read
    ingested,    \* history: detections an ingest_detection() call returned for
    raced        \* history: were two calls ever in flight?

vars == <<alerts, detectedAt, clock, call, ingested, raced>>

Active == {"new", "triaged", "in_progress"}
Statuses == Active \cup {"resolved", "closed", "suppressed"}

Allowed == [new         |-> {"triaged", "suppressed", "closed"},
            triaged     |-> {"in_progress", "resolved", "closed"},
            in_progress |-> {"resolved", "closed"},
            resolved    |-> {"closed"},
            suppressed  |-> {"closed"},
            closed      |-> {}]

Idle == [step |-> "idle"]
Alert == [key : Keys, status : Statuses, ids : SUBSET Detections, count : Nat, seen : Nat]
Calls == {Idle}
    \cup [step : {"insert"}, det : Detections]
    \cup [step : {"link"}, det : Detections, alert : Nat, ids : SUBSET Detections, count : Nat]
    \cup [step : {"transition"}, alert : Nat, to : Statuses]

Init ==
    /\ alerts = <<>>
    /\ detectedAt = [d \in Detections |-> None]
    /\ clock = 0
    /\ call = [s \in Sessions |-> Idle]
    /\ ingested = {}
    /\ raced = FALSE

(* A detection is persisted, with the time of its evaluation.              *)
Detect(d) ==
    /\ detectedAt[d] = None
    /\ detectedAt' = [detectedAt EXCEPT ![d] = clock]
    /\ UNCHANGED <<alerts, clock, call, ingested>>
----------------------------------------------------------------------------
(* ingest_detection()                                                      *)

(* Mutant: an alert an analyst works on no longer suppresses.              *)
Matching_Untouched(d) ==
    {i \in DOMAIN alerts : /\ alerts[i].key = KeyOf[d]
                           /\ alerts[i].status \in Active \ {"in_progress"}
                           /\ alerts[i].seen + Window >= detectedAt[d]}

(* The alerts a detection may be suppressed by, and the one the query      *)
(* takes: the most recently seen.                                          *)
Matching(d) ==
    {i \in DOMAIN alerts : /\ alerts[i].key = KeyOf[d]
                           /\ alerts[i].status \in Active
                           /\ alerts[i].seen + Window >= detectedAt[d]}
Latest(is) == {i \in is : \A k \in is : alerts[k].seen <= alerts[i].seen}

IngestRead(s, d) ==
    /\ call[s] = Idle
    /\ detectedAt[d] # None
    /\ \/ /\ Matching(d) = {}
          /\ Len(alerts) < MaxAlerts
          /\ call' = [call EXCEPT ![s] = [step |-> "insert", det |-> d]]
          /\ UNCHANGED ingested
       \/ \E i \in Latest(Matching(d)) :
            IF d \in alerts[i].ids
              THEN ingested' = ingested \cup {d} /\ UNCHANGED call
              ELSE /\ call' = [call EXCEPT ![s] =
                         [step |-> "link", det |-> d, alert |-> i,
                          ids |-> alerts[i].ids, count |-> alerts[i].count]]
                   /\ UNCHANGED ingested
    /\ UNCHANGED <<alerts, detectedAt, clock>>

Done(s) ==
    /\ call' = [call EXCEPT ![s] = Idle]
    /\ ingested' = ingested \cup {call[s].det}
    /\ UNCHANGED <<detectedAt, clock>>

(* Mutant: alerts open in a status the lifecycle does not know.            *)
IngestInsert_Open(s) ==
    /\ call[s].step = "insert"
    /\ LET d == call[s].det IN
         alerts' = Append(alerts, [key |-> KeyOf[d], status |-> "open", ids |-> {d},
                                   count |-> 1, seen |-> detectedAt[d]])
    /\ Done(s)

IngestInsert(s) ==
    /\ call[s].step = "insert"
    /\ LET d == call[s].det IN
         alerts' = Append(alerts, [key |-> KeyOf[d], status |-> "new", ids |-> {d},
                                   count |-> 1, seen |-> detectedAt[d]])
    /\ Done(s)

(* Mutant: the count is incremented in the database, the ids are not.      *)
IngestLink_CountInDatabase(s) ==
    /\ call[s].step = "link"
    /\ LET c == call[s] IN
         alerts' = [alerts EXCEPT ![c.alert] =
                       [@ EXCEPT !.ids = c.ids \cup {c.det}, !.count = @ + 1,
                                 !.seen = detectedAt[c.det]]]
    /\ Done(s)

(* Mutant: a repeat only refreshes the alert.                              *)
IngestLink_CountOnly(s) ==
    /\ call[s].step = "link"
    /\ LET c == call[s] IN
         alerts' = [alerts EXCEPT ![c.alert] = [@ EXCEPT !.seen = detectedAt[c.det]]]
    /\ Done(s)

IngestLink(s) ==
    /\ call[s].step = "link"
    /\ LET c == call[s] IN
         alerts' = [alerts EXCEPT ![c.alert] =
                       [@ EXCEPT !.ids = c.ids \cup {c.det}, !.count = c.count + 1,
                                 !.seen = detectedAt[c.det]]]
    /\ Done(s)
----------------------------------------------------------------------------
(* transition()                                                            *)

(* Mutant: any status may follow any other.                                *)
TransitionRead_Any(s, i, to) ==
    /\ Analysts
    /\ call[s] = Idle
    /\ call' = [call EXCEPT ![s] = [step |-> "transition", alert |-> i, to |-> to]]
    /\ UNCHANGED <<alerts, detectedAt, clock, ingested>>

TransitionRead(s, i, to) ==
    /\ Analysts
    /\ call[s] = Idle
    /\ to \in Allowed[alerts[i].status]
    /\ call' = [call EXCEPT ![s] = [step |-> "transition", alert |-> i, to |-> to]]
    /\ UNCHANGED <<alerts, detectedAt, clock, ingested>>

TransitionWrite(s) ==
    /\ call[s].step = "transition"
    /\ alerts' = [alerts EXCEPT ![call[s].alert] =
                     [@ EXCEPT !.status = call[s].to, !.seen = clock]]
    /\ call' = [call EXCEPT ![s] = Idle]
    /\ UNCHANGED <<detectedAt, clock, ingested>>
----------------------------------------------------------------------------
(* A call that raises, or whose process stops, has written nothing.        *)
Abandon(s) ==
    /\ call[s] # Idle
    /\ call' = [call EXCEPT ![s] = Idle]
    /\ UNCHANGED <<alerts, detectedAt, clock, ingested>>

Tick ==
    /\ clock < MaxTime
    /\ clock' = clock + 1
    /\ UNCHANGED <<alerts, detectedAt, call, ingested>>

Step(s) == IngestInsert(s) \/ IngestLink(s) \/ TransitionWrite(s) \/ Abandon(s)

Next ==
    \/ \E s \in Sessions :
         \/ Step(s)
         \/ \E d \in Detections : IngestRead(s, d)
         \/ \E i \in DOMAIN alerts, to \in Statuses : TransitionRead(s, i, to)
    \/ \E d \in Detections : Detect(d)
    \/ Tick

Racing == raced' = (raced \/ Cardinality({s \in Sessions : call'[s] # Idle}) > 1)

Spec == Init /\ [][Next /\ Racing]_vars
----------------------------------------------------------------------------
(* The rows and the calls in flight have their types: alerts are in a      *)
(* status of the lifecycle, and a pending link is about an alert there is. *)
TypeOK ==
    /\ alerts \in Seq(Alert)
    /\ detectedAt \in [Detections -> Nat \cup {None}]
    /\ clock \in Nat
    /\ call \in [Sessions -> Calls]
    /\ ingested \in SUBSET Detections
    /\ \A s \in Sessions : call[s].step = "link" => call[s].alert \in DOMAIN alerts

(* However ingest calls overwrite each other, an alert's occurrence count  *)
(* is the number of detections it lists: the two are read and written as   *)
(* one.                                                                    *)
CountTellsDetections ==
    \A i \in DOMAIN alerts : alerts[i].count = Cardinality(alerts[i].ids)

(* While calls do not race, a detection whose ingest call returned is      *)
(* evidence of some alert.                                                 *)
IngestedIsLinked ==
    ~raced => \A d \in ingested : \E i \in DOMAIN alerts : d \in alerts[i].ids

(* While calls do not race and no alert is older than the window, repeated *)
(* evidence has at most one active alert, whatever analysts do to it.      *)
OneActiveAlert ==
    ~raced /\ clock <= Window =>
        \A i, k \in DOMAIN alerts :
            /\ alerts[i].key = alerts[k].key
            /\ alerts[i].status \in Active /\ alerts[k].status \in Active
            => i = k

(* While calls do not race, alerts move along the analyst lifecycle only.  *)
LifecycleLegal ==
    [][~raced' =>
         \A i \in DOMAIN alerts :
             alerts'[i].status # alerts[i].status => alerts'[i].status \in Allowed[alerts[i].status]]_vars
=============================================================================
