------------------------ MODULE AlertWorkflow_proofs ------------------------
(***************************************************************************)
(* Theorems about AlertWorkflow, for any detections, keys, window and      *)
(* number of concurrent calls.                                             *)
(***************************************************************************)
EXTENDS AlertWorkflow, SequenceTheorems, FiniteSetTheorems, TLAPS

(* A call that is about to write is about a persisted detection.           *)
Persisted ==
    \A s \in Sessions : call[s].step \in {"insert", "link"} => detectedAt[call[s].det] # None

(* What the type of the state rests on.                                    *)
TypeInv == TypeOK /\ Persisted

(* A record, alert or snapshot, whose count is that of its detections.     *)
Counted(a) == IsFiniteSet(a.ids) /\ a.count = Cardinality(a.ids)

(* CountTellsDetections is not inductive: a call writes the count it read, *)
(* so that what it read must have been consistent, and without its         *)
(* detection.                                                              *)
CountInv ==
    /\ TypeInv
    /\ \A i \in DOMAIN alerts : Counted(alerts[i])
    /\ \A s \in Sessions : call[s].step = "link" => Counted(call[s]) /\ call[s].det \notin call[s].ids
----------------------------------------------------------------------------
(***************************************************************************)
(* Replacing an alert, or adding one, keeps a sequence of alerts one, with *)
(* the alerts there were.                                                  *)
(***************************************************************************)
LEMMA ReplaceAlert ==
    ASSUME TypeOK, NEW i, NEW a, i \in DOMAIN alerts => a \in Alert,
           alerts' = [alerts EXCEPT ![i] = a]
    PROVE  /\ alerts' \in Seq(Alert)
           /\ DOMAIN alerts' = DOMAIN alerts
           /\ \A k \in DOMAIN alerts : alerts'[k] = IF k = i THEN a ELSE alerts[k]
<1>1. alerts \in Seq(Alert) /\ DOMAIN alerts = 1..Len(alerts)
  BY DEF TypeOK
<1>2. CASE i \in DOMAIN alerts
  <2>1. a \in Alert
    BY <1>2
  <2>2. /\ [alerts EXCEPT ![i] = a] \in Seq(Alert)
        /\ Len([alerts EXCEPT ![i] = a]) = Len(alerts)
        /\ \A k \in 1..Len(alerts) : [alerts EXCEPT ![i] = a][k] = IF k = i THEN a ELSE alerts[k]
    BY <1>1, <1>2, <2>1, ExceptSeq
  <2> QED BY <1>1, <2>2
<1>3. CASE i \notin DOMAIN alerts
  <2>1. alerts' = alerts
    BY <1>1, <1>3
  <2> QED BY <1>1, <1>3, <2>1
<1> QED BY <1>2, <1>3

LEMMA AddAlert ==
    ASSUME TypeOK, NEW a \in Alert, alerts' = Append(alerts, a)
    PROVE  /\ alerts' \in Seq(Alert)
           /\ DOMAIN alerts \subseteq DOMAIN alerts'
           /\ \A k \in DOMAIN alerts' : alerts'[k] = IF k \in DOMAIN alerts THEN alerts[k] ELSE a
<1>1. alerts \in Seq(Alert) /\ DOMAIN alerts = 1..Len(alerts) /\ Len(alerts) \in Nat
  BY DEF TypeOK
<1>2. /\ alerts' \in Seq(Alert)
      /\ Len(alerts') = Len(alerts) + 1
      /\ \A k \in 1..Len(alerts) : alerts'[k] = alerts[k]
      /\ alerts'[Len(alerts) + 1] = a
  BY <1>1, AppendProperties
<1>3. DOMAIN alerts' = 1..(Len(alerts) + 1)
  BY <1>2
<1> QED BY <1>1, <1>2, <1>3

(***************************************************************************)
(* What a call holds, by the step it is at.                                *)
(***************************************************************************)
LEMMA CallKinds ==
    ASSUME NEW c \in Calls
    PROVE  /\ c.step = "insert" => c.det \in Detections
           /\ c.step = "link" => /\ c.det \in Detections /\ c.alert \in Nat
                                 /\ c.ids \subseteq Detections /\ c.count \in Nat
           /\ c.step = "transition" => c.alert \in Nat /\ c.to \in Statuses
  BY DEF Calls, Idle

LEMMA IdleCall == Idle \in Calls /\ Idle.step = "idle"
  BY DEF Calls, Idle

(***************************************************************************)
(* The call of one session changes to one that fits the alerts: the calls  *)
(* stay well typed.                                                        *)
(***************************************************************************)
LEMMA SetCall ==
    ASSUME TypeInv, NEW s \in Sessions, NEW c \in Calls,
           call' = [call EXCEPT ![s] = c],
           c.step = "link" => c.alert \in DOMAIN alerts,
           c.step \in {"insert", "link"} => detectedAt[c.det] # None,
           DOMAIN alerts \subseteq DOMAIN alerts', UNCHANGED detectedAt
    PROVE  /\ call' \in [Sessions -> Calls]
           /\ \A t \in Sessions : call'[t].step = "link" => call'[t].alert \in DOMAIN alerts'
           /\ Persisted'
  BY DEF TypeInv, TypeOK, Persisted
(***************************************************************************)
(* The alerts that the three writes leave.                                 *)
(***************************************************************************)
InsertedAlert(s) ==
    [key |-> KeyOf[call[s].det], status |-> "new", ids |-> {call[s].det}, count |-> 1,
     seen |-> detectedAt[call[s].det]]

LEMMA InsertedType ==
    ASSUME TypeInv, NEW s \in Sessions, IngestInsert(s)
    PROVE  InsertedAlert(s) \in Alert /\ call[s].det \in Detections
<1>1. call[s].det \in Detections
  BY CallKinds DEF TypeInv, TypeOK, IngestInsert
<1>2. detectedAt[call[s].det] \in Nat
  BY <1>1 DEF TypeInv, TypeOK, Persisted, IngestInsert
<1>3. KeyOf[call[s].det] \in Keys
  BY <1>1, AlertAssumption
<1> QED BY <1>1, <1>2, <1>3 DEF InsertedAlert, Alert, Statuses, Active

LinkedAlert(s) ==
    [alerts[call[s].alert] EXCEPT !.ids = call[s].ids \cup {call[s].det},
                                  !.count = call[s].count + 1,
                                  !.seen = detectedAt[call[s].det]]

LEMMA LinkedType ==
    ASSUME TypeInv, NEW s \in Sessions, IngestLink(s)
    PROVE  /\ LinkedAlert(s) \in Alert /\ call[s].det \in Detections
           /\ LinkedAlert(s).ids = call[s].ids \cup {call[s].det}
           /\ LinkedAlert(s).count = call[s].count + 1
           /\ alerts' = [alerts EXCEPT ![call[s].alert] = LinkedAlert(s)]
<1>1. /\ call[s].det \in Detections /\ call[s].ids \subseteq Detections /\ call[s].count \in Nat
  BY CallKinds DEF TypeInv, TypeOK, IngestLink
<1>2. detectedAt[call[s].det] \in Nat
  BY <1>1 DEF TypeInv, TypeOK, Persisted, IngestLink
<1>3. alerts[call[s].alert] \in Alert
  BY DEF TypeInv, TypeOK, IngestLink
<1>4. alerts' = [alerts EXCEPT ![call[s].alert] = LinkedAlert(s)]
  BY DEF IngestLink, LinkedAlert
<1> DEFINE a == alerts[call[s].alert]
           ids == call[s].ids \cup {call[s].det}
           n == call[s].count + 1
           seen == detectedAt[call[s].det]
<1>5. ids \in SUBSET Detections /\ n \in Nat /\ seen \in Nat /\ a \in Alert
  BY <1>1, <1>2, <1>3
<1>6. LinkedAlert(s) = [a EXCEPT !.ids = ids, !.count = n, !.seen = seen]
  BY DEF LinkedAlert
<1> HIDE DEF a, ids, n, seen
<1>7. LinkedAlert(s) \in Alert /\ LinkedAlert(s).ids = ids /\ LinkedAlert(s).count = n
  BY <1>5, <1>6 DEF Alert
<1> QED BY <1>1, <1>4, <1>7 DEF ids, n

LEMMA TransitionAlerts ==
    ASSUME TypeInv, NEW s \in Sessions, TransitionWrite(s)
    PROVE  /\ alerts' \in Seq(Alert) /\ DOMAIN alerts' = DOMAIN alerts
           /\ \A k \in DOMAIN alerts :
                alerts'[k].ids = alerts[k].ids /\ alerts'[k].count = alerts[k].count
<1> DEFINE i == call[s].alert
           a == [alerts[i] EXCEPT !.status = call[s].to, !.seen = clock]
<1>1. call[s].to \in Statuses /\ clock \in Nat
  BY CallKinds DEF TypeInv, TypeOK, TransitionWrite
<1>2. \A k \in DOMAIN alerts : alerts[k] \in Alert
  BY DEF TypeInv, TypeOK
<1>3. i \in DOMAIN alerts =>
        a \in Alert /\ a.ids = alerts[i].ids /\ a.count = alerts[i].count
  BY <1>1, <1>2 DEF Alert
<1>4. alerts' = [alerts EXCEPT ![i] = a]
  BY DEF TransitionWrite
<1> HIDE DEF a
<1>5. /\ alerts' \in Seq(Alert)
      /\ DOMAIN alerts' = DOMAIN alerts
      /\ \A k \in DOMAIN alerts : alerts'[k] = IF k = i THEN a ELSE alerts[k]
  BY <1>3, <1>4, ReplaceAlert DEF TypeInv
<1> QED BY <1>3, <1>5

----------------------------------------------------------------------------
LEMMA InitType == Init => TypeInv
<1> SUFFICES ASSUME Init PROVE TypeInv
  OBVIOUS
<1>1. <<>> \in Seq(Alert)
  OBVIOUS
<1> QED
  BY <1>1, IdleCall DEF Init, TypeInv, TypeOK, Persisted

(***************************************************************************)
(* The state never leaves its types.                                       *)
(***************************************************************************)
LEMMA StepType == TypeInv /\ [Next]_vars => TypeInv'
<1> SUFFICES ASSUME TypeInv, [Next]_vars PROVE TypeInv'
  OBVIOUS
<1>1. ASSUME NEW d \in Detections, Detect(d) PROVE TypeInv'
  <2>1. detectedAt' \in [Detections -> Nat \cup {None}]
    BY <1>1 DEF Detect, TypeInv, TypeOK
  <2>2. \A e \in Detections : detectedAt[e] # None => detectedAt'[e] # None
    BY <1>1 DEF Detect, TypeInv, TypeOK
  <2>3. Persisted'
    <3>1. \A s \in Sessions : call[s].step \in {"insert", "link"} => call[s].det \in Detections
      BY CallKinds DEF TypeInv, TypeOK
    <3> QED BY <1>1, <2>2, <3>1 DEF Detect, Persisted, TypeInv
  <2> QED BY <1>1, <2>1, <2>3 DEF Detect, TypeInv, TypeOK
<1>2. ASSUME NEW s \in Sessions, NEW d \in Detections, IngestRead(s, d) PROVE TypeInv'
  <2>1. ASSUME NEW c \in Calls, call' = [call EXCEPT ![s] = c], UNCHANGED ingested,
               c.step = "link" => c.alert \in DOMAIN alerts,
               c.det = d
        PROVE  TypeInv'
    BY <1>2, <2>1, SetCall DEF IngestRead, TypeInv, TypeOK
  <2>2. CASE /\ call' = [call EXCEPT ![s] = [step |-> "insert", det |-> d]]
             /\ UNCHANGED ingested
    <3>1. [step |-> "insert", det |-> d] \in Calls
      BY DEF Calls
    <3> QED BY <2>1, <2>2, <3>1
  <2>3. CASE ingested' = ingested \cup {d} /\ UNCHANGED call
    BY <1>2, <2>3 DEF IngestRead, TypeInv, TypeOK, Persisted
  <2>4. ASSUME NEW i \in Latest(Matching(d)),
               call' = [call EXCEPT ![s] = [step |-> "link", det |-> d, alert |-> i,
                                            ids |-> alerts[i].ids, count |-> alerts[i].count]],
               UNCHANGED ingested
        PROVE  TypeInv'
    <3>1. i \in DOMAIN alerts /\ i \in Nat /\ alerts[i] \in Alert
      BY DEF Latest, Matching, TypeInv, TypeOK
    <3> DEFINE c == [step |-> "link", det |-> d, alert |-> i,
                     ids |-> alerts[i].ids, count |-> alerts[i].count]
    <3>2. c \in Calls /\ c.alert = i /\ c.det = d
      BY <3>1 DEF Calls, Alert
    <3>3. call' = [call EXCEPT ![s] = c]
      BY <2>4
    <3> HIDE DEF c
    <3> QED BY <2>1, <2>4, <3>1, <3>2, <3>3
  <2> QED BY <1>2, <2>2, <2>3, <2>4 DEF IngestRead
<1>3. ASSUME NEW s \in Sessions, call[s].det \in Detections, Done(s),
             alerts' \in Seq(Alert), DOMAIN alerts \subseteq DOMAIN alerts'
      PROVE  TypeInv'
  <2>1. call' = [call EXCEPT ![s] = Idle] /\ UNCHANGED detectedAt
    BY <1>3 DEF Done
  <2>2. /\ call' \in [Sessions -> Calls]
        /\ \A t \in Sessions : call'[t].step = "link" => call'[t].alert \in DOMAIN alerts'
        /\ Persisted'
    BY <1>3, <2>1, IdleCall, SetCall
  <2> QED BY <1>3, <2>2 DEF Done, TypeInv, TypeOK
<1>4. ASSUME NEW s \in Sessions, IngestInsert(s) PROVE TypeInv'
  <2>1. InsertedAlert(s) \in Alert /\ call[s].det \in Detections
    BY <1>4, InsertedType
  <2>2. alerts' = Append(alerts, InsertedAlert(s)) /\ Done(s)
    BY <1>4 DEF IngestInsert, InsertedAlert
  <2>3. alerts' \in Seq(Alert) /\ DOMAIN alerts \subseteq DOMAIN alerts'
    BY <2>1, <2>2, AddAlert DEF TypeInv
  <2> QED BY <1>3, <2>1, <2>2, <2>3
<1>5. ASSUME NEW s \in Sessions, IngestLink(s) PROVE TypeInv'
  <2>1. /\ LinkedAlert(s) \in Alert /\ call[s].det \in Detections
        /\ alerts' = [alerts EXCEPT ![call[s].alert] = LinkedAlert(s)]
    BY <1>5, LinkedType
  <2>2. alerts' \in Seq(Alert) /\ DOMAIN alerts' = DOMAIN alerts
    BY <2>1, ReplaceAlert DEF TypeInv
  <2>3. Done(s)
    BY <1>5 DEF IngestLink
  <2> QED BY <1>3, <2>1, <2>2, <2>3
<1>6. ASSUME NEW s \in Sessions, NEW i \in DOMAIN alerts, NEW to \in Statuses,
             TransitionRead(s, i, to)
      PROVE  TypeInv'
  <2> DEFINE c == [step |-> "transition", alert |-> i, to |-> to]
  <2>1. c \in Calls /\ c.step = "transition"
    BY DEF Calls, TypeInv, TypeOK
  <2>2. call' = [call EXCEPT ![s] = c] /\ UNCHANGED <<alerts, detectedAt, clock, ingested>>
    BY <1>6 DEF TransitionRead
  <2> HIDE DEF c
  <2> QED BY <2>1, <2>2, SetCall DEF TypeInv, TypeOK
<1>7. ASSUME NEW s \in Sessions, TransitionWrite(s) PROVE TypeInv'
  <2>1. /\ alerts' \in Seq(Alert) /\ DOMAIN alerts' = DOMAIN alerts
    BY <1>7, TransitionAlerts
  <2>2. call' = [call EXCEPT ![s] = Idle] /\ UNCHANGED <<detectedAt, clock, ingested>>
    BY <1>7 DEF TransitionWrite
  <2> QED BY <2>1, <2>2, IdleCall, SetCall DEF TypeInv, TypeOK
<1>8. ASSUME NEW s \in Sessions, Abandon(s) PROVE TypeInv'
  BY <1>8, IdleCall, SetCall DEF Abandon, TypeInv, TypeOK
<1>9. CASE Tick
  BY <1>9 DEF Tick, TypeInv, TypeOK, Persisted
<1>10. CASE UNCHANGED vars
  BY <1>10 DEF vars, TypeInv, TypeOK, Persisted
<1> QED
  BY <1>1, <1>2, <1>4, <1>5, <1>6, <1>7, <1>8, <1>9, <1>10 DEF Next, Step

(* AlertWorkflow: TypeOK holds in every reachable state.                   *)
THEOREM TypeCorrect == Spec => []TypeOK
<1>1. TypeInv => TypeOK
  BY DEF TypeInv
<1>2. [Next /\ Racing]_vars => [Next]_vars
  OBVIOUS
<1> QED
  BY <1>1, <1>2, InitType, StepType, PTL DEF Spec
----------------------------------------------------------------------------
LEMMA InitCounted == Init => CountInv
<1> SUFFICES ASSUME Init PROVE CountInv
  OBVIOUS
<1>1. DOMAIN alerts = {}
  BY DEF Init
<1> QED
  BY <1>1, InitType, IdleCall DEF Init, CountInv

LEMMA StepCounted == CountInv /\ [Next]_vars => CountInv'
<1> SUFFICES ASSUME CountInv, [Next]_vars PROVE CountInv'
  OBVIOUS
<1>1. TypeInv /\ TypeInv' /\ TypeOK
  BY StepType DEF CountInv, TypeInv
<1>2. call \in [Sessions -> Calls] /\ \A i \in DOMAIN alerts : i \in Nat /\ alerts[i] \in Alert
  BY <1>1 DEF TypeOK
<1>3. ASSUME NEW s \in Sessions, call' = [call EXCEPT ![s] = Idle],
             \A i \in DOMAIN alerts' : Counted(alerts'[i])
      PROVE  CountInv'
  BY <1>1, <1>2, <1>3, IdleCall DEF CountInv, Counted
<1>4. ASSUME NEW s \in Sessions, NEW d \in Detections, IngestRead(s, d) PROVE CountInv'
  <2>1. CASE /\ call' = [call EXCEPT ![s] = [step |-> "insert", det |-> d]]
             /\ UNCHANGED alerts
    BY <1>1, <1>2, <2>1 DEF CountInv, Counted
  <2>2. CASE UNCHANGED <<call, alerts>>
    BY <1>1, <2>2 DEF CountInv, Counted
  <2>3. ASSUME NEW i \in Latest(Matching(d)), d \notin alerts[i].ids,
               call' = [call EXCEPT ![s] = [step |-> "link", det |-> d, alert |-> i,
                                            ids |-> alerts[i].ids, count |-> alerts[i].count]],
               UNCHANGED alerts
        PROVE  CountInv'
    <3> DEFINE c == [step |-> "link", det |-> d, alert |-> i,
                     ids |-> alerts[i].ids, count |-> alerts[i].count]
    <3>1. Counted(alerts[i])
      BY DEF Latest, Matching, CountInv
    <3>2. Counted(c) /\ c.det \notin c.ids
      BY <2>3, <3>1 DEF Counted
    <3>3. call' = [call EXCEPT ![s] = c]
      BY <2>3
    <3> HIDE DEF c
    <3> QED BY <1>1, <1>2, <2>3, <3>2, <3>3 DEF CountInv, Counted
  <2> QED BY <1>4, <2>1, <2>2, <2>3 DEF IngestRead
<1>5. ASSUME NEW s \in Sessions, IngestInsert(s) PROVE CountInv'
  <2>1. InsertedAlert(s) \in Alert
    BY <1>1, <1>5, InsertedType
  <2>2. alerts' = Append(alerts, InsertedAlert(s)) /\ call' = [call EXCEPT ![s] = Idle]
    BY <1>5 DEF IngestInsert, InsertedAlert, Done
  <2>3. Counted(InsertedAlert(s))
    BY FS_Singleton DEF InsertedAlert, Counted
  <2>4. \A k \in DOMAIN alerts' :
          alerts'[k] = IF k \in DOMAIN alerts THEN alerts[k] ELSE InsertedAlert(s)
    BY <1>1, <2>1, <2>2, AddAlert
  <2>5. \A k \in DOMAIN alerts' : Counted(alerts'[k])
    BY <2>3, <2>4 DEF CountInv
  <2> QED BY <1>3, <2>2, <2>5
<1>6. ASSUME NEW s \in Sessions, IngestLink(s) PROVE CountInv'
  <2>1. /\ LinkedAlert(s) \in Alert
        /\ alerts' = [alerts EXCEPT ![call[s].alert] = LinkedAlert(s)]
    BY <1>1, <1>6, LinkedType
  <2>2. Counted(LinkedAlert(s))
    <3> DEFINE c == call[s]
    <3>1. IsFiniteSet(c.ids) /\ c.count = Cardinality(c.ids) /\ c.det \notin c.ids
      BY <1>6 DEF IngestLink, CountInv, Counted
    <3>2. IsFiniteSet(c.ids \cup {c.det}) /\ Cardinality(c.ids \cup {c.det}) = c.count + 1
      BY <3>1, FS_AddElement
    <3>3. LinkedAlert(s).ids = c.ids \cup {c.det} /\ LinkedAlert(s).count = c.count + 1
      BY <1>1, <1>6, LinkedType
    <3> QED BY <3>2, <3>3 DEF Counted
  <2>3. /\ DOMAIN alerts' = DOMAIN alerts
        /\ \A k \in DOMAIN alerts :
             alerts'[k] = IF k = call[s].alert THEN LinkedAlert(s) ELSE alerts[k]
    BY <1>1, <2>1, ReplaceAlert
  <2>4. \A k \in DOMAIN alerts' : Counted(alerts'[k])
    BY <2>2, <2>3 DEF CountInv
  <2> QED BY <1>3, <1>6, <2>4 DEF IngestLink, Done
<1>7. ASSUME NEW s \in Sessions, NEW i \in DOMAIN alerts, NEW to \in Statuses,
             TransitionRead(s, i, to)
      PROVE  CountInv'
  <2>1. call' = [call EXCEPT ![s] = [step |-> "transition", alert |-> i, to |-> to]]
        /\ UNCHANGED alerts
    BY <1>7 DEF TransitionRead
  <2> QED BY <1>1, <1>2, <2>1 DEF CountInv, Counted
<1>8. ASSUME NEW s \in Sessions, TransitionWrite(s) PROVE CountInv'
  <2>1. /\ DOMAIN alerts' = DOMAIN alerts
        /\ \A k \in DOMAIN alerts :
             alerts'[k].ids = alerts[k].ids /\ alerts'[k].count = alerts[k].count
    BY <1>1, <1>8, TransitionAlerts
  <2>2. \A k \in DOMAIN alerts' : Counted(alerts'[k])
    BY <2>1 DEF CountInv, Counted
  <2> QED BY <1>3, <1>8, <2>2 DEF TransitionWrite
<1>9. ASSUME NEW s \in Sessions, Abandon(s) PROVE CountInv'
  BY <1>3, <1>9 DEF Abandon, CountInv
<1>10. CASE UNCHANGED <<alerts, call>>
  BY <1>1, <1>10 DEF CountInv, Counted
<1> QED
  BY <1>4, <1>5, <1>6, <1>7, <1>8, <1>9, <1>10 DEF Next, Step, Detect, Tick, vars

(* alert_workflow.py: occurrence_count is the number of detection_ids of   *)
(* every alert, whatever calls overwrite each other.                       *)
THEOREM CountCorrect == Spec => []CountTellsDetections
<1>1. CountInv => CountTellsDetections
  BY DEF CountInv, Counted, CountTellsDetections
<1>2. [Next /\ Racing]_vars => [Next]_vars
  OBVIOUS
<1> QED
  BY <1>1, <1>2, InitCounted, StepCounted, PTL DEF Spec
----------------------------------------------------------------------------
(***************************************************************************)
(* Calls that race.  No row is locked and no version is checked, so a call *)
(* writes what it computed from what it read; what follows is which races  *)
(* that leaves harmless and which it does not.                             *)
(***************************************************************************)

(* No two calls are about to link different detections to one alert: the   *)
(* later write would drop the earlier one's detection.                     *)
OneLink ==
    \A s, t \in Sessions :
        call[s].step = "link" /\ call[t].step = "link" /\ call[s].alert = call[t].alert
        => call[s].det = call[t].det

(* No two calls are about to move one alert to different statuses.         *)
OneTransition ==
    \A s, t \in Sessions :
        call[s].step = "transition" /\ call[t].step = "transition" /\ call[s].alert = call[t].alert
        => call[s].to = call[t].to

(* No two calls are about to open an alert of one key.                     *)
OneInsert ==
    \A s, t \in Sessions :
        call[s].step = "insert" /\ call[t].step = "insert" /\ KeyOf[call[s].det] = KeyOf[call[t].det]
        => s = t

(* What a call is about to write has everything the alert lists.           *)
LinkInv ==
    \A s \in Sessions : call[s].step = "link" =>
        /\ call[s].ids \subseteq alerts[call[s].alert].ids
        /\ alerts[call[s].alert].ids \subseteq call[s].ids \cup {call[s].det}

Listed == \A d \in ingested : \E i \in DOMAIN alerts : d \in alerts[i].ids

(* An alert lists detections of its suppression key, and one at least.     *)
Keyed(ids, key) == ids # {} /\ \A d \in ids : KeyOf[d] = key

KeyInv ==
    /\ \A i \in DOMAIN alerts : Keyed(alerts[i].ids, alerts[i].key)
    /\ \A s \in Sessions : call[s].step = "link" =>
         /\ Keyed(call[s].ids, alerts[call[s].alert].key)
         /\ KeyOf[call[s].det] = alerts[call[s].alert].key

(* Nobody is about to link a detection to an alert.                        *)
NoLink == \A s \in Sessions : call[s].step # "link"

(* The status a call is about to write still follows the one there is.     *)
MoveInv ==
    \A s \in Sessions : call[s].step = "transition" =>
        /\ call[s].alert \in DOMAIN alerts
        /\ LET status == alerts[call[s].alert].status IN
             call[s].to = status \/ call[s].to \in Allowed[status]

Legal == \A i \in DOMAIN alerts :
             alerts'[i].status # alerts[i].status => alerts'[i].status \in Allowed[alerts[i].status]

IsActive(a, key) == a.key = key /\ a.status \in Active

OneActive ==
    \A i, k \in DOMAIN alerts :
        alerts[i].key = alerts[k].key /\ alerts[i].status \in Active /\ alerts[k].status \in Active
        => i = k

(* A call that is about to open an alert has looked while nothing is older *)
(* than the window, so that the key has no active alert.                   *)
ActiveInv ==
    clock <= Window =>
        /\ OneActive
        /\ \A s \in Sessions : call[s].step = "insert" =>
             \A i \in DOMAIN alerts : ~IsActive(alerts[i], KeyOf[call[s].det])

Times == \A d \in Detections : detectedAt[d] # None => detectedAt[d] <= clock
----------------------------------------------------------------------------
(***************************************************************************)
(* What each step of a call does, whatever races with it.                  *)
(***************************************************************************)
LEMMA CallChanges ==
    ASSUME TypeInv, NEW s \in Sessions, NEW c, call' = [call EXCEPT ![s] = c]
    PROVE  call'[s] = c /\ \A t \in Sessions \ {s} : call'[t] = call[t]
  BY DEF TypeInv, TypeOK

LEMMA InsertFacts ==
    ASSUME TypeInv, NEW s \in Sessions, IngestInsert(s)
    PROVE  /\ call[s].step = "insert" /\ call'[s].step = "idle"
           /\ \A t \in Sessions \ {s} : call'[t] = call[t]
           /\ clock' = clock /\ ingested' = ingested \cup {call[s].det}
           /\ \E n : /\ n \notin DOMAIN alerts /\ DOMAIN alerts' = DOMAIN alerts \cup {n}
                     /\ \A k \in DOMAIN alerts : alerts'[k] = alerts[k]
                     /\ alerts'[n].key = KeyOf[call[s].det] /\ alerts'[n].ids = {call[s].det}
<1> DEFINE a == InsertedAlert(s)
<1>1. /\ a \in Alert /\ a.key = KeyOf[call[s].det] /\ a.ids = {call[s].det}
  BY InsertedType DEF InsertedAlert
<1>2. alerts' = Append(alerts, a) /\ Done(s) /\ call[s].step = "insert"
  BY DEF IngestInsert, InsertedAlert
<1> HIDE DEF a
<1>3. /\ Len(alerts) + 1 \notin DOMAIN alerts /\ DOMAIN alerts' = DOMAIN alerts \cup {Len(alerts) + 1}
      /\ \A k \in DOMAIN alerts : alerts'[k] = alerts[k]
      /\ alerts'[Len(alerts) + 1] = a
  <2>1. alerts \in Seq(Alert) /\ Len(alerts) \in Nat /\ DOMAIN alerts = 1..Len(alerts)
    BY DEF TypeInv, TypeOK
  <2>2. /\ DOMAIN alerts' = 1..(Len(alerts) + 1) /\ alerts'[Len(alerts) + 1] = a
        /\ \A k \in 1..Len(alerts) : alerts'[k] = alerts[k]
    BY <1>1, <1>2, <2>1, AppendProperties
  <2>3. 1..(Len(alerts) + 1) = (1..Len(alerts)) \cup {Len(alerts) + 1}
    BY <2>1
  <2> QED BY <2>1, <2>2, <2>3
<1>4. \E n : /\ n \notin DOMAIN alerts /\ DOMAIN alerts' = DOMAIN alerts \cup {n}
             /\ \A k \in DOMAIN alerts : alerts'[k] = alerts[k]
             /\ alerts'[n].key = KeyOf[call[s].det] /\ alerts'[n].ids = {call[s].det}
  BY <1>1, <1>3, Zenon
<1>5. call'[s] = Idle /\ \A t \in Sessions \ {s} : call'[t] = call[t]
  BY <1>2, CallChanges DEF Done
<1>6. clock' = clock /\ ingested' = ingested \cup {call[s].det}
  BY <1>2 DEF Done
<1>7. call'[s].step = "idle"
  BY <1>5, IdleCall
<1> QED
  BY <1>2, <1>4, <1>5, <1>6, <1>7

LEMMA LinkFacts ==
    ASSUME TypeInv, NEW s \in Sessions, IngestLink(s)
    PROVE  /\ call[s].step = "link" /\ call'[s].step = "idle" /\ call[s].alert \in DOMAIN alerts
           /\ \A t \in Sessions \ {s} : call'[t] = call[t]
           /\ clock' = clock /\ ingested' = ingested \cup {call[s].det}
           /\ DOMAIN alerts' = DOMAIN alerts
           /\ \A k \in DOMAIN alerts :
                /\ alerts'[k].key = alerts[k].key /\ alerts'[k].status = alerts[k].status
                /\ alerts'[k].ids = IF k = call[s].alert THEN call[s].ids \cup {call[s].det}
                                    ELSE alerts[k].ids
<1> DEFINE a == LinkedAlert(s)
           i == call[s].alert
<1>1. /\ a \in Alert /\ a.ids = call[s].ids \cup {call[s].det}
      /\ alerts' = [alerts EXCEPT ![i] = a]
  BY LinkedType
<1>2. Done(s) /\ call[s].step = "link" /\ i \in DOMAIN alerts
  BY DEF IngestLink, TypeInv, TypeOK
<1>3. a.key = alerts[i].key /\ a.status = alerts[i].status
  <2>1. alerts[i] \in Alert
    BY <1>2 DEF TypeInv, TypeOK
  <2> QED BY <2>1 DEF LinkedAlert, Alert
<1> HIDE DEF a
<1>4. /\ DOMAIN alerts' = DOMAIN alerts
      /\ \A k \in DOMAIN alerts : alerts'[k] = IF k = i THEN a ELSE alerts[k]
  BY <1>1, ReplaceAlert DEF TypeInv
<1> QED
  BY <1>1, <1>2, <1>3, <1>4, IdleCall, CallChanges DEF Done

LEMMA MoveFacts ==
    ASSUME TypeInv, NEW s \in Sessions, TransitionWrite(s)
    PROVE  /\ call[s].step = "transition" /\ call'[s].step = "idle"
           /\ \A t \in Sessions \ {s} : call'[t] = call[t]
           /\ UNCHANGED <<clock, ingested>>
           /\ DOMAIN alerts' = DOMAIN alerts
           /\ \A k \in DOMAIN alerts :
                /\ alerts'[k].key = alerts[k].key /\ alerts'[k].ids = alerts[k].ids
                /\ alerts'[k].status = IF k = call[s].alert THEN call[s].to ELSE alerts[k].status
<1> DEFINE i == call[s].alert
           a == [alerts[i] EXCEPT !.status = call[s].to, !.seen = clock]
<1>1. call[s].to \in Statuses /\ clock \in Nat
  BY CallKinds DEF TypeInv, TypeOK, TransitionWrite
<1>2. i \in DOMAIN alerts =>
        a \in Alert /\ a.status = call[s].to /\ a.key = alerts[i].key /\ a.ids = alerts[i].ids
  <2>1. i \in DOMAIN alerts => alerts[i] \in Alert
    BY DEF TypeInv, TypeOK
  <2> QED BY <1>1, <2>1 DEF Alert
<1>3. alerts' = [alerts EXCEPT ![i] = a]
  BY DEF TransitionWrite
<1> HIDE DEF a
<1>4. /\ DOMAIN alerts' = DOMAIN alerts
      /\ \A k \in DOMAIN alerts : alerts'[k] = IF k = i THEN a ELSE alerts[k]
  BY <1>2, <1>3, ReplaceAlert DEF TypeInv
<1> QED
  BY <1>2, <1>4, IdleCall, CallChanges DEF TransitionWrite

(* A call begins, for a detection or an alert, or ends without a write.    *)
LEMMA CallFacts ==
    ASSUME TypeInv, [Next]_vars
    PROVE  \/ \E s \in Sessions : IngestInsert(s) \/ IngestLink(s) \/ TransitionWrite(s)
           \/ /\ UNCHANGED <<alerts, clock>>
              /\ \E s \in Sessions, d \in Detections : 
                   /\ IngestRead(s, d) /\ \A t \in Sessions \ {s} : call'[t] = call[t]
           \/ /\ UNCHANGED <<alerts, clock, ingested>>
              /\ \E s \in Sessions, i \in DOMAIN alerts, to \in Statuses : 
                   /\ to \in Allowed[alerts[i].status]
                   /\ call'[s].step = "transition" /\ call'[s].alert = i /\ call'[s].to = to
                   /\ \A t \in Sessions \ {s} : call'[t] = call[t]
           \/ /\ UNCHANGED <<alerts, ingested>> /\ clock <= clock' /\ clock' \in Nat
              /\ \A s \in Sessions : call'[s] = call[s] \/ call'[s].step = "idle"
<1>0. call \in [Sessions -> Calls] /\ clock \in Nat
  BY DEF TypeInv, TypeOK
<1>1. ASSUME NEW s \in Sessions, NEW d \in Detections, IngestRead(s, d)
      PROVE  UNCHANGED <<alerts, clock>> /\ \A t \in Sessions \ {s} : call'[t] = call[t]
  BY <1>0, <1>1 DEF IngestRead
<1>2. ASSUME NEW s \in Sessions, NEW i \in DOMAIN alerts, NEW to \in Statuses, TransitionRead(s, i, to)
      PROVE  /\ to \in Allowed[alerts[i].status]
             /\ call'[s].step = "transition" /\ call'[s].alert = i /\ call'[s].to = to
             /\ \A t \in Sessions \ {s} : call'[t] = call[t]
             /\ UNCHANGED <<alerts, clock, ingested>>
  <2> DEFINE c == [step |-> "transition", alert |-> i, to |-> to]
  <2>1. c.step = "transition" /\ c.alert = i /\ c.to = to
    OBVIOUS
  <2>2. call' = [call EXCEPT ![s] = c] /\ to \in Allowed[alerts[i].status]
        /\ UNCHANGED <<alerts, clock, ingested>>
    BY <1>2 DEF TransitionRead
  <2> HIDE DEF c
  <2> QED BY <2>1, <2>2, CallChanges
<1>3. ASSUME NEW s \in Sessions, Abandon(s)
      PROVE  /\ UNCHANGED <<alerts, ingested, clock>>
             /\ \A t \in Sessions : call'[t] = call[t] \/ call'[t].step = "idle"
  BY <1>0, <1>3, IdleCall DEF Abandon
<1>4. ASSUME (\E d \in Detections : Detect(d)) \/ Tick \/ UNCHANGED vars
      PROVE  UNCHANGED <<alerts, ingested, call>> /\ clock <= clock' /\ clock' \in Nat
  BY <1>0, <1>4 DEF Detect, Tick, vars
<1> QED
  BY <1>0, <1>1, <1>2, <1>3, <1>4 DEF Next, Step

(* What ingest_detection() has read when its call goes on.                 *)
LEMMA ReadFacts ==
    ASSUME TypeInv, NEW s \in Sessions, NEW d \in Detections, IngestRead(s, d)
    PROVE  \/ /\ call'[s].step = "insert" /\ call'[s].det = d
              /\ Matching(d) = {} /\ ingested' = ingested
           \/ /\ call'[s].step = "idle" /\ ingested' = ingested \cup {d}
              /\ \E i \in DOMAIN alerts : d \in alerts[i].ids
           \/ /\ call'[s].step = "link" /\ call'[s].det = d /\ ingested' = ingested
              /\ call'[s].alert \in DOMAIN alerts
              /\ call'[s].ids = alerts[call'[s].alert].ids
              /\ alerts[call'[s].alert].key = KeyOf[d] /\ d \notin alerts[call'[s].alert].ids
<1>1. CASE /\ Matching(d) = {} /\ UNCHANGED ingested
           /\ call' = [call EXCEPT ![s] = [step |-> "insert", det |-> d]]
  <2>1. call'[s] = [step |-> "insert", det |-> d]
    BY <1>1, CallChanges
  <2> QED BY <1>1, <2>1
<1>2. ASSUME NEW i \in Latest(Matching(d)), d \in alerts[i].ids,
             ingested' = ingested \cup {d}, UNCHANGED call
      PROVE  call'[s].step = "idle" /\ \E k \in DOMAIN alerts : d \in alerts[k].ids
  BY <1>2, IdleCall DEF IngestRead, Latest, Matching
<1>3. ASSUME NEW i \in Latest(Matching(d)), d \notin alerts[i].ids, UNCHANGED ingested,
             call' = [call EXCEPT ![s] = [step |-> "link", det |-> d, alert |-> i,
                                          ids |-> alerts[i].ids, count |-> alerts[i].count]]
      PROVE  /\ call'[s].step = "link" /\ call'[s].det = d
             /\ call'[s].alert \in DOMAIN alerts
             /\ call'[s].ids = alerts[call'[s].alert].ids
             /\ alerts[call'[s].alert].key = KeyOf[d] /\ d \notin alerts[call'[s].alert].ids
  <2> DEFINE c == [step |-> "link", det |-> d, alert |-> i,
                   ids |-> alerts[i].ids, count |-> alerts[i].count]
  <2>1. c.step = "link" /\ c.det = d /\ c.alert = i /\ c.ids = alerts[i].ids
    OBVIOUS
  <2>2. call' = [call EXCEPT ![s] = c]
    BY <1>3
  <2>3. i \in DOMAIN alerts /\ alerts[i].key = KeyOf[d]
    BY DEF Latest, Matching
  <2> HIDE DEF c
  <2>4. call'[s] = c
    BY <2>2 DEF TypeInv, TypeOK
  <2> QED BY <1>3, <2>1, <2>3, <2>4
<1> QED
  BY <1>1, <1>2, <1>3 DEF IngestRead
----------------------------------------------------------------------------
(***************************************************************************)
(* Links.  A call that races with another one about the same detection, or *)
(* with a transition, or with calls about other alerts, loses nothing.     *)
(***************************************************************************)
LEMMA LinkGrows ==
    ASSUME TypeInv, LinkInv, [Next]_vars
    PROVE  \A i \in DOMAIN alerts : i \in DOMAIN alerts' /\ alerts[i].ids \subseteq alerts'[i].ids
<1>1. ASSUME NEW s \in Sessions, IngestInsert(s)
      PROVE  \A i \in DOMAIN alerts : i \in DOMAIN alerts' /\ alerts[i].ids \subseteq alerts'[i].ids
  BY <1>1, InsertFacts
<1>2. ASSUME NEW s \in Sessions, IngestLink(s)
      PROVE  \A i \in DOMAIN alerts : i \in DOMAIN alerts' /\ alerts[i].ids \subseteq alerts'[i].ids
  BY <1>2, LinkFacts DEF LinkInv
<1>3. ASSUME NEW s \in Sessions, TransitionWrite(s)
      PROVE  \A i \in DOMAIN alerts : i \in DOMAIN alerts' /\ alerts[i].ids \subseteq alerts'[i].ids
  BY <1>3, MoveFacts
<1> QED
  BY <1>1, <1>2, <1>3, CallFacts

LEMMA StepLink ==
    ASSUME TypeInv, LinkInv, OneLink, [Next]_vars
    PROVE  LinkInv'
<1>0. \A s \in Sessions : call[s].step = "link" => call[s].alert \in DOMAIN alerts
  BY DEF TypeInv, TypeOK
<1>1. ASSUME NEW s \in Sessions, IngestInsert(s) PROVE LinkInv'
  <2>1. /\ call'[s].step = "idle" /\ \A t \in Sessions \ {s} : call'[t] = call[t]
        /\ \A k \in DOMAIN alerts : alerts'[k] = alerts[k]
    BY <1>1, InsertFacts
  <2>2. ASSUME NEW t \in Sessions, call'[t].step = "link"
        PROVE  call'[t] = call[t] /\ alerts'[call[t].alert] = alerts[call[t].alert]
    BY <1>0, <2>1, <2>2
  <2> QED BY <2>2 DEF LinkInv
<1>2. ASSUME NEW s \in Sessions, IngestLink(s) PROVE LinkInv'
  <2>1. ASSUME NEW t \in Sessions, call'[t].step = "link"
        PROVE  /\ call'[t].ids \subseteq alerts'[call'[t].alert].ids
               /\ alerts'[call'[t].alert].ids \subseteq call'[t].ids \cup {call'[t].det}
    <3>0. /\ call[s].step = "link" /\ call'[s].step = "idle"
          /\ \A u \in Sessions \ {s} : call'[u] = call[u]
          /\ \A k \in DOMAIN alerts :
               alerts'[k].ids = IF k = call[s].alert THEN call[s].ids \cup {call[s].det}
                                ELSE alerts[k].ids
      BY <1>2, LinkFacts
    <3>1. t # s /\ call'[t] = call[t] /\ call[t].alert \in DOMAIN alerts
      BY <1>0, <2>1, <3>0
    <3>2. CASE call[t].alert # call[s].alert
      <4>1. alerts'[call[t].alert].ids = alerts[call[t].alert].ids
        BY <3>0, <3>1, <3>2
      <4> QED BY <2>1, <3>1, <4>1 DEF LinkInv
    <3>3. CASE call[t].alert = call[s].alert
      <4>1. call[t].det = call[s].det /\ alerts'[call[t].alert].ids = call[s].ids \cup {call[s].det}
        BY <2>1, <3>0, <3>1, <3>3 DEF OneLink
      <4>2. /\ call[s].ids \subseteq alerts[call[t].alert].ids
            /\ alerts[call[t].alert].ids \subseteq call[s].ids \cup {call[s].det}
            /\ call[t].ids \subseteq alerts[call[t].alert].ids
            /\ alerts[call[t].alert].ids \subseteq call[t].ids \cup {call[t].det}
        BY <2>1, <3>0, <3>1, <3>3 DEF LinkInv
      <4> QED BY <3>1, <4>1, <4>2
    <3> QED BY <3>2, <3>3
  <2> QED BY <2>1 DEF LinkInv
<1>3. ASSUME NEW s \in Sessions, TransitionWrite(s) PROVE LinkInv'
  BY <1>0, <1>3, MoveFacts DEF LinkInv
<1>4. ASSUME NEW s \in Sessions, NEW d \in Detections, IngestRead(s, d), UNCHANGED alerts,
             \A t \in Sessions \ {s} : call'[t] = call[t]
      PROVE  LinkInv'
  BY <1>4, ReadFacts DEF LinkInv
<1>5. CASE /\ UNCHANGED alerts
           /\ \A s \in Sessions : call'[s] = call[s] \/ call'[s].step \in {"idle", "transition"}
  BY <1>5 DEF LinkInv
<1> QED
  BY <1>1, <1>2, <1>3, <1>4, <1>5, CallFacts

LEMMA StepListed ==
    ASSUME TypeInv, LinkInv, Listed, [Next]_vars
    PROVE  Listed'
<1>1. \A i \in DOMAIN alerts : i \in DOMAIN alerts' /\ alerts[i].ids \subseteq alerts'[i].ids
  BY LinkGrows
<1>2. \A d \in ingested : \E i \in DOMAIN alerts' : d \in alerts'[i].ids
  BY <1>1 DEF Listed
<1>3. ASSUME NEW d \in ingested', d \notin ingested PROVE \E i \in DOMAIN alerts' : d \in alerts'[i].ids
  <2>1. ASSUME NEW s \in Sessions, IngestInsert(s) PROVE \E i \in DOMAIN alerts' : d \in alerts'[i].ids
    <3>1. d = call[s].det
      BY <1>3, <2>1, InsertFacts
    <3> QED BY <2>1, <3>1, InsertFacts
  <2>2. ASSUME NEW s \in Sessions, IngestLink(s) PROVE \E i \in DOMAIN alerts' : d \in alerts'[i].ids
    <3>1. /\ d = call[s].det /\ call[s].alert \in DOMAIN alerts
          /\ DOMAIN alerts' = DOMAIN alerts
          /\ alerts'[call[s].alert].ids = call[s].ids \cup {call[s].det}
      <4>1. /\ call[s].alert \in DOMAIN alerts /\ DOMAIN alerts' = DOMAIN alerts
            /\ ingested' = ingested \cup {call[s].det}
            /\ \A k \in DOMAIN alerts :
                 alerts'[k].ids = IF k = call[s].alert THEN call[s].ids \cup {call[s].det}
                                  ELSE alerts[k].ids
        BY <2>2, LinkFacts
      <4> QED BY <1>3, <4>1
    <3>2. d \in alerts'[call[s].alert].ids /\ call[s].alert \in DOMAIN alerts'
      BY <3>1
    <3> QED BY <3>2
  <2>3. ASSUME NEW s \in Sessions, NEW e \in Detections, IngestRead(s, e)
        PROVE \E i \in DOMAIN alerts' : d \in alerts'[i].ids
    <3>1. d = e /\ \E i \in DOMAIN alerts : e \in alerts[i].ids
      BY <1>3, <2>3, ReadFacts
    <3> QED BY <1>1, <3>1
  <2>4. ASSUME NEW s \in Sessions, TransitionWrite(s) PROVE ingested' = ingested
    BY <2>4, MoveFacts
  <2> QED BY <1>3, <2>1, <2>2, <2>3, <2>4, CallFacts
<1> QED
  BY <1>2, <1>3 DEF Listed

(***************************************************************************)
(* Keys.  Whatever races, a detection is listed under its own key.         *)
(***************************************************************************)
LEMMA StepKey ==
    ASSUME TypeInv, KeyInv, [Next]_vars
    PROVE  KeyInv'
<1>0. \A s \in Sessions : call[s].step = "link" => call[s].alert \in DOMAIN alerts
  BY DEF TypeInv, TypeOK
<1>1. ASSUME DOMAIN alerts \subseteq DOMAIN alerts',
             \A k \in DOMAIN alerts : alerts'[k].key = alerts[k].key,
             \A k \in DOMAIN alerts' : Keyed(alerts'[k].ids, alerts'[k].key),
             \A t \in Sessions : call'[t].step = "link" => call'[t] = call[t]
      PROVE  KeyInv'
  <2>1. ASSUME NEW t \in Sessions, call'[t].step = "link"
        PROVE  /\ Keyed(call'[t].ids, alerts'[call'[t].alert].key)
               /\ KeyOf[call'[t].det] = alerts'[call'[t].alert].key
    <3>1. /\ call'[t] = call[t] /\ call[t].alert \in DOMAIN alerts
          /\ alerts'[call[t].alert].key = alerts[call[t].alert].key
      BY <1>0, <1>1, <2>1
    <3> QED BY <2>1, <3>1 DEF KeyInv
  <2> QED BY <1>1, <2>1 DEF KeyInv, Keyed
<1>2. ASSUME NEW s \in Sessions, IngestInsert(s) PROVE KeyInv'
  <2>1. PICK n : /\ n \notin DOMAIN alerts /\ DOMAIN alerts' = DOMAIN alerts \cup {n}
                 /\ \A k \in DOMAIN alerts : alerts'[k] = alerts[k]
                 /\ alerts'[n].key = KeyOf[call[s].det] /\ alerts'[n].ids = {call[s].det}
    BY <1>2, InsertFacts
  <2>2. \A t \in Sessions : call'[t].step = "link" => call'[t] = call[t]
    BY <1>2, InsertFacts
  <2>3. \A k \in DOMAIN alerts' : Keyed(alerts'[k].ids, alerts'[k].key)
    BY <2>1 DEF KeyInv, Keyed
  <2> QED BY <1>1, <2>1, <2>2, <2>3
<1>3. ASSUME NEW s \in Sessions, IngestLink(s) PROVE KeyInv'
  <2>1. /\ call[s].step = "link" /\ call[s].alert \in DOMAIN alerts /\ DOMAIN alerts' = DOMAIN alerts
        /\ \A k \in DOMAIN alerts :
             /\ alerts'[k].key = alerts[k].key
             /\ alerts'[k].ids = IF k = call[s].alert THEN call[s].ids \cup {call[s].det}
                                 ELSE alerts[k].ids
    BY <1>3, LinkFacts
  <2>2. \A t \in Sessions : call'[t].step = "link" => call'[t] = call[t]
    BY <1>3, LinkFacts
  <2>3. \A k \in DOMAIN alerts' : Keyed(alerts'[k].ids, alerts'[k].key)
    BY <2>1 DEF KeyInv, Keyed
  <2> QED BY <1>1, <2>1, <2>2, <2>3
<1>4. ASSUME NEW s \in Sessions, TransitionWrite(s) PROVE KeyInv'
  <2>1. /\ DOMAIN alerts' = DOMAIN alerts
        /\ \A k \in DOMAIN alerts : alerts'[k].key = alerts[k].key /\ alerts'[k].ids = alerts[k].ids
    BY <1>4, MoveFacts
  <2>2. \A t \in Sessions : call'[t].step = "link" => call'[t] = call[t]
    BY <1>4, MoveFacts
  <2>3. \A k \in DOMAIN alerts' : Keyed(alerts'[k].ids, alerts'[k].key)
    BY <2>1 DEF KeyInv
  <2> QED BY <1>1, <2>1, <2>2, <2>3
<1>5. ASSUME NEW s \in Sessions, NEW d \in Detections, IngestRead(s, d), UNCHANGED alerts,
             \A t \in Sessions \ {s} : call'[t] = call[t]
      PROVE  KeyInv'
  <2>1. call'[s].step = "link" =>
          /\ Keyed(call'[s].ids, alerts[call'[s].alert].key)
          /\ KeyOf[call'[s].det] = alerts[call'[s].alert].key
    BY <1>5, ReadFacts DEF KeyInv
  <2> QED BY <1>5, <2>1 DEF KeyInv
<1>6. CASE /\ UNCHANGED alerts
           /\ \A s \in Sessions : call'[s] = call[s] \/ call'[s].step \in {"idle", "transition"}
  <2>1. \A t \in Sessions : call'[t].step = "link" => call'[t] = call[t]
    BY <1>6
  <2> QED BY <1>1, <1>6, <2>1 DEF KeyInv
<1> QED
  BY <1>2, <1>3, <1>4, <1>5, <1>6, CallFacts

(* A detection that has its key for itself is listed when it is looked up. *)
LEMMA StepNoLink ==
    ASSUME \A d, e \in Detections : KeyOf[d] = KeyOf[e] => d = e,
           TypeInv, KeyInv, NoLink, [Next]_vars
    PROVE  NoLink'
<1>1. ASSUME NEW s \in Sessions, NEW d \in Detections, IngestRead(s, d) PROVE call'[s].step # "link"
  <2> SUFFICES ASSUME call'[s].step = "link" PROVE FALSE
    OBVIOUS
  <2> DEFINE i == call'[s].alert
  <2>1. i \in DOMAIN alerts /\ alerts[i].key = KeyOf[d] /\ d \notin alerts[i].ids
    BY <1>1, ReadFacts
  <2>2. PICK e \in alerts[i].ids : KeyOf[e] = KeyOf[d]
    BY <2>1 DEF KeyInv, Keyed
  <2>3. alerts[i] \in Alert
    BY <2>1 DEF TypeInv, TypeOK
  <2>4. e \in Detections
    BY <2>2, <2>3 DEF Alert
  <2> QED BY <2>1, <2>2, <2>4
<1>2. ASSUME NEW s \in Sessions, IngestInsert(s) \/ TransitionWrite(s) PROVE NoLink'
  <2>1. call'[s].step = "idle" /\ \A t \in Sessions \ {s} : call'[t] = call[t]
    BY <1>2, InsertFacts, MoveFacts
  <2> QED BY <2>1 DEF NoLink
<1>3. ASSUME NEW s \in Sessions, IngestLink(s) PROVE FALSE
  BY <1>3, LinkFacts DEF NoLink
<1>4. ASSUME NEW s \in Sessions, call'[s].step # "link", \A t \in Sessions \ {s} : call'[t] = call[t]
      PROVE  NoLink'
  BY <1>4 DEF NoLink
<1>5. CASE \A s \in Sessions : call'[s] = call[s] \/ call'[s].step = "idle"
  BY <1>5 DEF NoLink
<1> QED
  BY <1>1, <1>2, <1>3, <1>4, <1>5, CallFacts

(***************************************************************************)
(* Transitions.                                                            *)
(***************************************************************************)
LEMMA StepMove ==
    ASSUME TypeInv, MoveInv, OneTransition, [Next]_vars
    PROVE  MoveInv'
<1>0. ASSUME \A k \in DOMAIN alerts : k \in DOMAIN alerts' /\ alerts'[k].status = alerts[k].status,
             \A t \in Sessions : call'[t].step = "transition" => call'[t] = call[t]
      PROVE  MoveInv'
  BY <1>0 DEF MoveInv
<1>1. ASSUME NEW s \in Sessions, IngestInsert(s) PROVE MoveInv'
  <2>1. \A t \in Sessions : call'[t].step = "transition" => call'[t] = call[t]
    BY <1>1, InsertFacts
  <2>2. \A k \in DOMAIN alerts : k \in DOMAIN alerts' /\ alerts'[k].status = alerts[k].status
    BY <1>1, InsertFacts
  <2> QED BY <1>0, <2>1, <2>2
<1>2. ASSUME NEW s \in Sessions, IngestLink(s) PROVE MoveInv'
  <2>1. \A t \in Sessions : call'[t].step = "transition" => call'[t] = call[t]
    BY <1>2, LinkFacts
  <2>2. \A k \in DOMAIN alerts : k \in DOMAIN alerts' /\ alerts'[k].status = alerts[k].status
    BY <1>2, LinkFacts
  <2> QED BY <1>0, <2>1, <2>2
<1>3. ASSUME NEW s \in Sessions, TransitionWrite(s) PROVE MoveInv'
  <2>0. /\ call[s].step = "transition" /\ call'[s].step = "idle"
        /\ \A t \in Sessions \ {s} : call'[t] = call[t]
        /\ DOMAIN alerts' = DOMAIN alerts
        /\ \A k \in DOMAIN alerts :
             alerts'[k].status = IF k = call[s].alert THEN call[s].to ELSE alerts[k].status
    BY <1>3, MoveFacts
  <2>1. ASSUME NEW t \in Sessions, call'[t].step = "transition"
        PROVE  /\ call'[t] = call[t] /\ call[t].alert \in DOMAIN alerts
               /\ call[t].alert = call[s].alert => call[t].to = call[s].to
    BY <2>0, <2>1 DEF MoveInv, OneTransition
  <2> QED BY <2>0, <2>1 DEF MoveInv
<1>4. ASSUME NEW s \in Sessions, NEW d \in Detections, IngestRead(s, d), UNCHANGED alerts,
             \A t \in Sessions \ {s} : call'[t] = call[t]
      PROVE  MoveInv'
  <2>1. call'[s].step # "transition"
    BY <1>4, ReadFacts
  <2> QED BY <1>4, <2>1 DEF MoveInv
<1>5. ASSUME NEW s \in Sessions, NEW i \in DOMAIN alerts, NEW to \in Statuses, UNCHANGED alerts,
             to \in Allowed[alerts[i].status],
             call'[s].step = "transition" /\ call'[s].alert = i /\ call'[s].to = to,
             \A t \in Sessions \ {s} : call'[t] = call[t]
      PROVE  MoveInv'
  BY <1>5 DEF MoveInv
<1>6. CASE UNCHANGED alerts /\ \A s \in Sessions : call'[s] = call[s] \/ call'[s].step = "idle"
  BY <1>6 DEF MoveInv
<1> QED
  BY <1>1, <1>2, <1>3, <1>4, <1>5, <1>6, CallFacts

LEMMA MovesLegally ==
    ASSUME TypeInv, MoveInv, [Next]_vars
    PROVE  Legal
<1>1. ASSUME NEW s \in Sessions, IngestInsert(s) PROVE Legal
  BY <1>1, InsertFacts DEF Legal
<1>2. ASSUME NEW s \in Sessions, IngestLink(s) PROVE Legal
  BY <1>2, LinkFacts DEF Legal
<1>3. ASSUME NEW s \in Sessions, TransitionWrite(s) PROVE Legal
  BY <1>3, MoveFacts DEF Legal, MoveInv
<1> QED
  BY <1>1, <1>2, <1>3, CallFacts DEF Legal

(***************************************************************************)
(* Inserts.  A stale transition can not make an alert active again that a  *)
(* call took for inactive, as it still follows the status there is.        *)
(***************************************************************************)
LEMMA Lifecycle ==
    ASSUME NEW from \in Statuses, NEW to \in Allowed[from], to \in Active
    PROVE  from \in Active
  BY DEF Statuses, Active, Allowed

LEMMA StepTimes ==
    ASSUME TypeInv, Times, [Next]_vars
    PROVE  Times'
<1>1. /\ clock \in Nat /\ detectedAt \in [Detections -> Nat \cup {None}]
      /\ \A d \in Detections : detectedAt[d] # None => detectedAt[d] <= clock
  BY DEF TypeInv, TypeOK, Times
<1>2. CASE UNCHANGED <<detectedAt, clock>>
  BY <1>1, <1>2 DEF Times
<1>3. ASSUME NEW d \in Detections, Detect(d) PROVE Times'
  BY <1>1, <1>3 DEF Detect, Times
<1>4. CASE Tick
  BY <1>1, <1>4 DEF Tick, Times
<1> QED
  BY <1>2, <1>3, <1>4
     DEF Next, Step, IngestRead, IngestInsert, IngestLink, TransitionRead, TransitionWrite, Done,
         Abandon, vars

LEMMA StepActive ==
    ASSUME TypeInv, Times, MoveInv, ActiveInv, OneInsert, [Next]_vars
    PROVE  ActiveInv'
<1>0. \A k \in DOMAIN alerts : alerts[k] \in Alert /\ alerts[k].status \in Statuses
  <2>1. \A k \in DOMAIN alerts : alerts[k] \in Alert
    BY DEF TypeInv, TypeOK
  <2> QED BY <2>1 DEF Alert
(* No alert becomes active, none is new, and nobody is about to open one   *)
(* who was not.                                                            *)
<1>1. ASSUME clock <= clock', clock \in Nat, clock' \in Nat, DOMAIN alerts' = DOMAIN alerts,
             \A k \in DOMAIN alerts : /\ alerts'[k].key = alerts[k].key
                                      /\ alerts'[k].status \in Active => alerts[k].status \in Active,
             \A s \in Sessions : call'[s].step = "insert" => call'[s] = call[s]
      PROVE  ActiveInv'
  <2>1. clock' <= Window => clock <= Window
    BY <1>1, AlertAssumption
  <2> QED BY <1>1, <2>1 DEF ActiveInv, OneActive, IsActive
<1>2. clock \in Nat /\ Window \in Nat
  BY AlertAssumption DEF TypeInv, TypeOK
<1>3. ASSUME NEW s \in Sessions, IngestInsert(s) PROVE ActiveInv'
  <2>1. PICK n : /\ n \notin DOMAIN alerts /\ DOMAIN alerts' = DOMAIN alerts \cup {n}
                 /\ \A k \in DOMAIN alerts : alerts'[k] = alerts[k]
                 /\ alerts'[n].key = KeyOf[call[s].det]
    BY <1>3, InsertFacts
  <2>2. /\ call[s].step = "insert" /\ call'[s].step = "idle" /\ clock' = clock
        /\ \A t \in Sessions \ {s} : call'[t] = call[t]
    BY <1>3, InsertFacts
  <2>3. \A t \in Sessions : call'[t].step = "insert" =>
          t # s /\ call'[t] = call[t] /\ KeyOf[call[t].det] # KeyOf[call[s].det]
    BY <2>2 DEF OneInsert
  <2>4. ASSUME clock <= Window
        PROVE  /\ OneActive'
               /\ \A t \in Sessions : call'[t].step = "insert" =>
                    \A i \in DOMAIN alerts' : ~IsActive(alerts'[i], KeyOf[call'[t].det])
    <3>1. OneActive /\ \A i \in DOMAIN alerts : ~IsActive(alerts[i], KeyOf[call[s].det])
      BY <2>2, <2>4 DEF ActiveInv
    <3>2. OneActive'
      BY <2>1, <3>1 DEF OneActive, IsActive
    <3>3. ASSUME NEW t \in Sessions, call'[t].step = "insert", NEW i \in DOMAIN alerts'
          PROVE ~IsActive(alerts'[i], KeyOf[call'[t].det])
      <4>1. CASE i \in DOMAIN alerts
        BY <2>1, <2>3, <2>4, <3>3, <4>1 DEF ActiveInv
      <4>2. CASE i = n
        BY <2>1, <2>3, <3>3, <4>2 DEF IsActive
      <4> QED BY <2>1, <4>1, <4>2
    <3> QED BY <3>2, <3>3
  <2> QED BY <2>2, <2>4 DEF ActiveInv
<1>4. ASSUME NEW s \in Sessions, IngestLink(s) PROVE ActiveInv'
  <2>1. clock' = clock /\ \A t \in Sessions : call'[t].step = "insert" => call'[t] = call[t]
    BY <1>4, LinkFacts
  <2>2. /\ DOMAIN alerts' = DOMAIN alerts
        /\ \A k \in DOMAIN alerts : alerts'[k].key = alerts[k].key /\ alerts'[k].status = alerts[k].status
    BY <1>4, LinkFacts
  <2> QED BY <1>1, <1>2, <2>1, <2>2
<1>5. ASSUME NEW s \in Sessions, TransitionWrite(s) PROVE ActiveInv'
  <2>1. \A k \in DOMAIN alerts : alerts'[k].status \in Active => alerts[k].status \in Active
    BY <1>0, <1>5, MoveFacts, Lifecycle DEF MoveInv
  <2> QED BY <1>1, <1>2, <1>5, <2>1, MoveFacts
<1>6. ASSUME NEW s \in Sessions, NEW d \in Detections, IngestRead(s, d), UNCHANGED <<alerts, clock>>,
             \A t \in Sessions \ {s} : call'[t] = call[t]
      PROVE  ActiveInv'
  <2>1. CASE call'[s].step # "insert"
    BY <1>1, <1>2, <1>6, <2>1
  <2>2. CASE call'[s].step = "insert"
    <3>1. call'[s].det = d /\ Matching(d) = {} /\ detectedAt[d] # None
      BY <1>6, <2>2, ReadFacts DEF IngestRead
    <3>2. ASSUME clock <= Window, NEW i \in DOMAIN alerts, IsActive(alerts[i], KeyOf[d]) PROVE FALSE
      <4>1. alerts[i].seen \in Nat
        BY <1>0 DEF Alert
      <4>2. detectedAt[d] \in Nat /\ detectedAt[d] <= clock
        BY <3>1 DEF TypeInv, TypeOK, Times
      <4>3. alerts[i].seen + Window >= detectedAt[d]
        BY <1>2, <3>2, <4>1, <4>2
      <4>4. i \in Matching(d)
        BY <3>2, <4>3 DEF Matching, IsActive
      <4> QED BY <3>1, <4>4
    <3> QED BY <1>6, <3>1, <3>2 DEF ActiveInv, OneActive
  <2> QED BY <2>1, <2>2
<1>7. CASE /\ UNCHANGED alerts /\ clock <= clock' /\ clock' \in Nat
           /\ \A s \in Sessions : call'[s].step = "insert" => call'[s] = call[s]
  BY <1>1, <1>2, <1>7
<1>8. ASSUME NEW s \in Sessions, UNCHANGED <<alerts, clock>>, call'[s].step = "transition",
             \A t \in Sessions \ {s} : call'[t] = call[t]
      PROVE  ActiveInv'
  <2>1. \A t \in Sessions : call'[t].step = "insert" => call'[t] = call[t]
    BY <1>8
  <2> QED BY <1>2, <1>7, <1>8, <2>1
<1> QED
  BY <1>3, <1>4, <1>5, <1>6, <1>7, <1>8, CallFacts
----------------------------------------------------------------------------
LEMMA InitRaces == Init => LinkInv /\ Listed /\ MoveInv /\ ActiveInv /\ Times
<1> SUFFICES ASSUME Init PROVE LinkInv /\ Listed /\ MoveInv /\ ActiveInv /\ Times
  OBVIOUS
<1>1. DOMAIN alerts = {} /\ \A s \in Sessions : call[s].step = "idle"
  BY IdleCall DEF Init
<1> QED BY <1>1 DEF Init, LinkInv, Listed, MoveInv, ActiveInv, OneActive, Times

LEMMA InitKey == Init => KeyInv /\ NoLink
<1> SUFFICES ASSUME Init PROVE KeyInv /\ NoLink
  OBVIOUS
<1>1. DOMAIN alerts = {} /\ \A s \in Sessions : call[s].step = "idle"
  BY IdleCall DEF Init
<1> QED BY <1>1 DEF KeyInv, NoLink

(* The suppression key holds the tenant and the correlation id: an alert   *)
(* never lists evidence of another key, whatever calls overwrite it.       *)
THEOREM AlertsOfOneKey ==
    Spec => [](\A i \in DOMAIN alerts : \A d \in alerts[i].ids : KeyOf[d] = alerts[i].key)
<1>1. KeyInv => \A i \in DOMAIN alerts : \A d \in alerts[i].ids : KeyOf[d] = alerts[i].key
  BY DEF KeyInv, Keyed
<1>2. TypeInv /\ KeyInv /\ [Next]_vars => KeyInv'
  BY StepKey
<1>3. [Next /\ Racing]_vars => [Next]_vars
  OBVIOUS
<1> QED
  BY <1>1, <1>2, <1>3, InitType, StepType, InitKey, PTL DEF Spec

(* ingest_detection(): as long as no two calls are about to link different *)
(* detections to one alert, whatever a call returned for stays listed,     *)
(* however calls of analysts and of ingestion race otherwise.              *)
THEOREM EvidenceIsKept == Spec /\ []OneLink => []Listed
<1>1. TypeInv /\ LinkInv /\ OneLink /\ [Next]_vars => LinkInv'
  BY StepLink
<1>2. TypeInv /\ LinkInv /\ Listed /\ [Next]_vars => Listed'
  BY StepListed
<1>3. [Next /\ Racing]_vars => [Next]_vars
  OBVIOUS
<1> QED
  BY <1>1, <1>2, <1>3, InitType, StepType, InitRaces, PTL DEF Spec

(* No alert ever loses a detection, under the same condition.              *)
THEOREM EvidenceOnlyGrows ==
    Spec /\ []OneLink =>
        [][\A i \in DOMAIN alerts : i \in DOMAIN alerts' /\ alerts[i].ids \subseteq alerts'[i].ids]_vars
<1>1. TypeInv /\ LinkInv /\ OneLink /\ [Next]_vars => LinkInv'
  BY StepLink
<1>2. TypeInv /\ LinkInv /\ [Next]_vars
        => [\A i \in DOMAIN alerts : i \in DOMAIN alerts' /\ alerts[i].ids \subseteq alerts'[i].ids]_vars
  BY LinkGrows
<1>3. [Next /\ Racing]_vars => [Next]_vars
  OBVIOUS
<1> QED
  BY <1>1, <1>2, <1>3, InitType, StepType, InitRaces, PTL DEF Spec

(* transition(): as long as no two calls are about to move one alert to    *)
(* different statuses, alerts keep to their lifecycle, whatever ingestion  *)
(* writes to them meanwhile.                                               *)
THEOREM LifecycleUnlessMovedTwice == Spec /\ []OneTransition => [][Legal]_vars
<1>1. TypeInv /\ MoveInv /\ OneTransition /\ [Next]_vars => MoveInv'
  BY StepMove
<1>2. TypeInv /\ MoveInv /\ [Next]_vars => [Legal]_vars
  BY MovesLegally
<1>3. [Next /\ Racing]_vars => [Next]_vars
  OBVIOUS
<1> QED
  BY <1>1, <1>2, <1>3, InitType, StepType, InitRaces, PTL DEF Spec

(* As long as no two calls are about to open an alert of one key, nor to   *)
(* move one alert apart, and nothing is older than the window, a key has   *)
(* one active alert at most.                                               *)
THEOREM OneActiveUnlessOpenedTwice ==
    Spec /\ []OneTransition /\ []OneInsert => [](clock <= Window => OneActive)
<1>1. ActiveInv => (clock <= Window => OneActive)
  BY DEF ActiveInv
<1>2. TypeInv /\ MoveInv /\ OneTransition /\ [Next]_vars => MoveInv'
  BY StepMove
<1>3. TypeInv /\ Times /\ [Next]_vars => Times'
  BY StepTimes
<1>4. TypeInv /\ Times /\ MoveInv /\ ActiveInv /\ OneInsert /\ [Next]_vars => ActiveInv'
  BY StepActive
<1>5. [Next /\ Racing]_vars => [Next]_vars
  OBVIOUS
<1> QED
  BY <1>1, <1>2, <1>3, <1>4, <1>5, InitType, StepType, InitRaces, PTL DEF Spec
----------------------------------------------------------------------------
(***************************************************************************)
(* Behaviors in which no two calls were in flight have none of the races.  *)
(***************************************************************************)
Alone == \A s, t \in Sessions : call[s] # Idle /\ call[t] # Idle => s = t

SoloInv ==
    /\ Times
    /\ ~raced => Alone /\ LinkInv /\ Listed /\ MoveInv /\ ActiveInv

(* What Racing tells when it does not count a second call.                 *)
LEMMA StillAlone ==
    ASSUME IsFiniteSet(Sessions), Racing, ~raced'
    PROVE  ~raced /\ Alone'
<1> DEFINE S == {s \in Sessions : call'[s] # Idle}
<1>1. ~raced /\ ~(Cardinality(S) > 1)
  BY DEF Racing
<1>2. ASSUME NEW s \in S, NEW t \in S, s # t PROVE FALSE
  <2>1. IsFiniteSet(S) /\ {s, t} \subseteq S
    BY FS_Subset
  <2>2. Cardinality({s, t}) <= Cardinality(S) /\ IsFiniteSet({s, t})
    BY <2>1, FS_Subset
  <2>3. Cardinality({s, t}) = 2
    <3>1. IsFiniteSet({s}) /\ Cardinality({s}) = 1
      BY FS_Singleton
    <3>2. Cardinality({s} \cup {t}) = Cardinality({s}) + 1
      BY <1>2, <3>1, FS_AddElement
    <3>3. {s} \cup {t} = {s, t}
      OBVIOUS
    <3> QED BY <3>1, <3>2, <3>3
  <2>4. Cardinality(S) \in Nat
    BY <2>1, FS_CardinalityType
  <2> QED BY <1>1, <2>2, <2>3, <2>4
<1> QED BY <1>1, <1>2 DEF Alone

LEMMA InitSolo == Init => SoloInv
<1> SUFFICES ASSUME Init PROVE SoloInv
  OBVIOUS
<1>1. Alone
  BY DEF Init, Alone
<1> QED BY <1>1, InitRaces DEF SoloInv

LEMMA StepSolo ==
    ASSUME IsFiniteSet(Sessions), TypeInv, SoloInv, [Next /\ Racing]_vars
    PROVE  SoloInv'
<1>1. Times'
  BY StepTimes DEF SoloInv
<1>2. CASE UNCHANGED vars
  BY <1>1, <1>2 DEF vars, SoloInv, Alone, LinkInv, Listed, MoveInv, ActiveInv, OneActive
<1>3. ASSUME Next, Racing, ~raced' PROVE Alone' /\ LinkInv' /\ Listed' /\ MoveInv' /\ ActiveInv'
  <2>1. Alone' /\ Alone /\ LinkInv /\ Listed /\ MoveInv /\ ActiveInv /\ Times
    BY <1>3, StillAlone DEF SoloInv
  <2>2. \A s, t \in Sessions : call[s].step # "idle" /\ call[t].step # "idle" => s = t
    BY <2>1, IdleCall DEF Alone
  <2>3. OneLink /\ OneTransition /\ OneInsert
    BY <2>2 DEF OneLink, OneTransition, OneInsert
  <2> QED BY <1>3, <2>1, <2>3, StepLink, StepListed, StepMove, StepActive
<1> QED
  BY <1>1, <1>2, <1>3 DEF SoloInv

(* ingest_detection(): while no two calls are in flight, what a call       *)
(* returned for is listed by an alert, whatever analysts do in between.    *)
THEOREM IngestedLinked ==
    ASSUME IsFiniteSet(Sessions)
    PROVE  Spec => []IngestedIsLinked
<1>1. SoloInv => IngestedIsLinked
  BY DEF SoloInv, Listed, IngestedIsLinked
<1>2. TypeInv /\ SoloInv /\ [Next /\ Racing]_vars => SoloInv'
  BY StepSolo
<1>3. [Next /\ Racing]_vars => [Next]_vars
  OBVIOUS
<1> QED
  BY <1>1, <1>2, <1>3, InitType, StepType, InitSolo, PTL DEF Spec

(* While no two calls are in flight and nothing is older than the window,  *)
(* a suppression key has at most one active alert: the query misses none.  *)
THEOREM OneActivePerKey ==
    ASSUME IsFiniteSet(Sessions)
    PROVE  Spec => []OneActiveAlert
<1>1. SoloInv => OneActiveAlert
  BY DEF SoloInv, ActiveInv, OneActive, OneActiveAlert
<1>2. TypeInv /\ SoloInv /\ [Next /\ Racing]_vars => SoloInv'
  BY StepSolo
<1>3. [Next /\ Racing]_vars => [Next]_vars
  OBVIOUS
<1> QED
  BY <1>1, <1>2, <1>3, InitType, StepType, InitSolo, PTL DEF Spec

(* transition(): while no two calls are in flight, no status is written    *)
(* that the lifecycle does not allow after the one that is there.          *)
THEOREM LifecycleKept ==
    ASSUME IsFiniteSet(Sessions)
    PROVE  Spec => LifecycleLegal
<1>1. TypeInv /\ SoloInv /\ [Next /\ Racing]_vars
        => [~raced' => \A i \in DOMAIN alerts :
              alerts'[i].status # alerts[i].status =>
                alerts'[i].status \in Allowed[alerts[i].status]]_vars
  <2> SUFFICES ASSUME TypeInv, SoloInv, Next, Racing, ~raced' PROVE Legal
    BY DEF Legal
  <2>1. MoveInv
    BY StillAlone DEF SoloInv
  <2> QED BY <2>1, MovesLegally
<1>2. TypeInv /\ SoloInv /\ [Next /\ Racing]_vars => SoloInv'
  BY StepSolo
<1>3. [Next /\ Racing]_vars => [Next]_vars
  OBVIOUS
<1> QED
  BY <1>1, <1>2, <1>3, InitType, StepType, InitSolo, PTL DEF Spec, LifecycleLegal
=============================================================================
