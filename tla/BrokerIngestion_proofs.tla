----------------------- MODULE BrokerIngestion_proofs -----------------------
(***************************************************************************)
(* Theorems about BrokerIngestion, for any partition, suppression keys and *)
(* number of replays in flight.                                            *)
(***************************************************************************)
EXTENDS BrokerIngestion, SequenceTheorems, TLAPS

(* What is known of the alerts.                                            *)
P == INSTANCE AlertWorkflow_proofs WITH
    Detections <- Events, Sessions <- Workers, Analysts <- FALSE, raced <- FALSE

Jobs == [off : 0..Len(Log), created : BOOLEAN]

TypeInv == P!TypeInv /\ TypeOK

(* A worker that created a detection and has not told the observers yet.   *)
Creating(w) == job[w].created /\ pc[w] \in {"persist", "alert", "alert_write", "observe"}

(* ObservedAtMostOnce is not inductive: the observers have not heard of a  *)
(* detection whose creator is under way, and it has one creator.           *)
ObserveInv ==
    /\ ObservedAtMostOnce
    /\ \A e \in Events : observed[e] > 0 => detectedAt[e] # None
    /\ \A w \in Workers : Creating(w) => detectedAt[EventOf(w)] # None /\ observed[EventOf(w)] = 0
    /\ \A v, w \in Workers : Creating(v) /\ Creating(w) /\ EventOf(v) = EventOf(w) => v = w

(* A replay is finished only after the processor returned for it.          *)
FinishInv == \A w \in Workers : At(w, "finish") => replays[job[w].off] > 0

(* Evidence of an event.                                                   *)
Linked(e) == \E i \in DOMAIN alerts : e \in alerts[i].ids

(* The race that could drop it: see AlertWorkflow_proofs.                  *)
OneLink == P!OneLink

(* A delivery that went through the alert step is listed by an alert.      *)
Through(w) ==
    /\ At(w, "alert_write") => call[w].det = EventOf(w)
    /\ pc[w] \in {"observe", "replicate"} /\ KindOf(w) = "suspicious" => Linked(EventOf(w))

EvidenceInv ==
    /\ \A o \in processed : Log[o].kind = "suspicious" => Linked(Log[o].event)
    /\ \A w \in Workers : Through(w)

(* Everything before the delivery the consumer works on was processed.     *)
CommitInv ==
    /\ \A o \in 1..committed : o \in processed
    /\ ~At(Consumer, "finish")
    /\ \A w \in Replayers : pc[w] \notin {"stop", "commit"}
    /\ At(Consumer, "idle") /\ running => position = committed
    /\ ~At(Consumer, "idle") => /\ running
                               /\ position = committed + 1 /\ job[Consumer].off = position
    /\ At(Consumer, "commit") => position \in processed
----------------------------------------------------------------------------
(***************************************************************************)
(* The steps of the alerts are those AlertWorkflow_proofs speaks of.       *)
(***************************************************************************)
LEMMA SameIdle == A!Idle = P!Idle /\ P!Idle.step = "idle"
  BY DEF A!Idle, P!Idle

LEMMA SameDetect == \A e : A!Detect(e) => P!Detect(e)
  BY DEF A!Detect, P!Detect

LEMMA SameRead == \A w, e : A!IngestRead(w, e) => P!IngestRead(w, e)
<1>1. \A e : A!Matching(e) = P!Matching(e)
  BY DEF A!Matching, P!Matching, A!Active, P!Active
<1>2. \A S : A!Latest(S) = P!Latest(S)
  BY DEF A!Latest, P!Latest
<1> QED
  BY <1>1, <1>2, Zenon DEF A!IngestRead, P!IngestRead, A!Idle, P!Idle

LEMMA SameWrite ==
    /\ \A w : A!IngestInsert(w) => P!IngestInsert(w)
    /\ \A w : A!IngestLink(w) => P!IngestLink(w)
    /\ \A w : A!Abandon(w) => P!Abandon(w)
    /\ A!Tick => P!Tick
  BY Zenon DEF A!IngestInsert, P!IngestInsert, A!IngestLink, P!IngestLink, A!Abandon, P!Abandon,
     A!Idle, P!Idle, A!Done, P!Done, A!Tick, P!Tick

LEMMA Assumed == P!AlertAssumption /\ None \notin Nat /\ Log \in Seq([event : Events, kind : Kinds])
  BY BrokerAssumption DEF A!AlertAssumption, P!AlertAssumption, BrokerAssumption

LEMMA AlertInit == A!Init => P!Init
  BY DEF A!Init, P!Init, A!Idle, P!Idle

(* What a step of the alerts keeps.                                        *)
LEMMA AlertKeeps ==
    ASSUME P!TypeInv,
           \/ \E e \in Events : A!Detect(e)
           \/ \E w \in Workers, e \in Events : A!IngestRead(w, e)
           \/ \E w \in Workers : A!IngestInsert(w) \/ A!IngestLink(w) \/ A!Abandon(w)
           \/ A!Tick
           \/ UNCHANGED alerting
    PROVE  P!TypeInv'
<1>1. P!Next \/ UNCHANGED alerting
  BY SameDetect, SameRead, SameWrite DEF P!Next, P!Step
<1>2. [P!Next]_(P!vars)
  BY <1>1 DEF P!vars, alerting
<1> QED
  BY <1>2, Assumed, P!StepType

LEMMA CallIsFunction ==
    ASSUME TypeInv
    PROVE  /\ call \in [Workers -> P!Calls] /\ detectedAt \in [Events -> Nat \cup {None}]
           /\ clock \in Nat
           /\ alerts \in Seq(P!Alert) /\ Len(alerts) \in Nat /\ DOMAIN alerts = 1..Len(alerts)
  BY DEF TypeInv, P!TypeInv, P!TypeOK

LEMMA Delivered ==
    ASSUME NEW o \in Offsets
    PROVE  Log[o].event \in Events /\ Log[o].kind \in Kinds /\ o \in Nat /\ o # 0
           /\ o \in 0..Len(Log) /\ Len(Log) \in Nat
<1>1. DOMAIN Log = 1..Len(Log) /\ Len(Log) \in Nat
  BY Assumed
<1>2. o \in 1..Len(Log)
  BY <1>1 DEF Offsets
<1>3. Log[o] \in [event : Events, kind : Kinds]
  BY <1>2, Assumed, ElementOfSeq
<1> QED
  BY <1>1, <1>2, <1>3

(* A worker that works has a delivery.                                     *)
LEMMA Working ==
    ASSUME TypeOK, NEW w \in Workers, pc[w] # "idle"
    PROVE  job[w].off \in Offsets /\ EventOf(w) \in Events /\ KindOf(w) \in Kinds
<1>1. job[w].off \in 0..Len(Log) /\ job[w].off # 0 /\ Len(Log) \in Nat
  BY Assumed DEF TypeOK, At
<1>2. job[w].off \in Offsets
  BY <1>1, Assumed DEF Offsets
<1> QED
  BY <1>2, Delivered DEF EventOf, KindOf
----------------------------------------------------------------------------
(***************************************************************************)
(* One worker moves: the control state stays well typed.                   *)
(***************************************************************************)
Moves(w, s, j) == pc' = [pc EXCEPT ![w] = s] /\ job' = [job EXCEPT ![w] = j]

Control ==
    /\ pc \in [Workers -> Steps] /\ job \in [Workers -> Jobs]
    /\ \A w \in Workers : At(w, "idle") <=> job[w].off = 0
    /\ \A w \in Workers : call[w] # A!Idle <=> At(w, "alert_write")

LEMMA TypeParts ==
    TypeOK <=> /\ Control
               /\ committed \in 0..Len(Log) /\ position \in committed..Len(Log)
               /\ running \in BOOLEAN /\ letters \in [Offsets -> {"none", "open", "replayed"}]
               /\ observed \in [Events -> Nat] /\ processed \in SUBSET Offsets
               /\ replays \in [Offsets -> 0..2]
  BY DEF TypeOK, Control, Jobs

LEMMA TypeFrom ==
    ASSUME P!TypeInv', Control',
           committed' \in 0..Len(Log), position' \in committed'..Len(Log),
           running' \in BOOLEAN, letters' \in [Offsets -> {"none", "open", "replayed"}],
           observed' \in [Events -> Nat], processed' \in SUBSET Offsets,
           replays' \in [Offsets -> 0..2]
    PROVE  TypeInv'
<1>1. TypeOK'
  BY DEF TypeOK, Control, Jobs
<1> QED
  BY <1>1 DEF TypeInv

LEMMA ControlMoves ==
    ASSUME Control, NEW w \in Workers, NEW s \in Steps, NEW j \in Jobs, Moves(w, s, j),
           s = "idle" <=> j.off = 0,
           call'[w] # A!Idle <=> s = "alert_write",
           \A v \in Workers \ {w} : call'[v] = call[v]
    PROVE  Control'
<1>1. pc' \in [Workers -> Steps] /\ job' \in [Workers -> Jobs]
  BY DEF Moves, Control
<1>2. ASSUME NEW v \in Workers
      PROVE  /\ pc'[v] = "idle" <=> job'[v].off = 0
             /\ call'[v] # A!Idle <=> pc'[v] = "alert_write"
  <2>1. CASE v = w
    BY <2>1 DEF Moves, Control
  <2>2. CASE v # w
    BY <2>2 DEF Moves, Control, At
  <2> QED BY <2>1, <2>2
<1>3. A!Idle' = A!Idle
  BY DEF A!Idle
<1> QED
  BY <1>1, <1>2, <1>3 DEF Control, At

LEMMA ControlGoto ==
    ASSUME Control, NEW w \in Workers, NEW s \in Steps \ {"idle"}, Goto(w, s), pc[w] # "idle",
           call'[w] # A!Idle <=> s = "alert_write",
           \A v \in Workers \ {w} : call'[v] = call[v]
    PROVE  Control'
<1>1. job[w] \in Jobs /\ Moves(w, s, job[w]) /\ job[w].off # 0
  BY DEF Control, Goto, Moves, At
<1> QED
  BY <1>1, ControlMoves

LEMMA ControlReturn ==
    ASSUME Control, NEW w \in Workers, Return(w), pc[w] # "alert_write", UNCHANGED call
    PROVE  Control'
<1>1. NoJob \in Jobs /\ NoJob.off = 0 /\ "idle" \in Steps
  BY Assumed DEF NoJob, Jobs, Steps
<1>2. call[w] = A!Idle
  BY DEF Control, At
<1> QED
  BY <1>1, <1>2, ControlMoves DEF Return, Moves

(* A delivery goes to the step its kind calls for.                         *)
LEMMA BeginMoves ==
    ASSUME NEW w \in Workers, NEW o \in Offsets, Begin(w, o)
    PROVE  \E s \in {"letter", "replicate", "persist"} :
             Moves(w, s, [off |-> o, created |-> FALSE])
  BY Delivered DEF Begin, Moves, Kinds

LEMMA ControlBegin ==
    ASSUME Control, NEW w \in Workers, NEW o \in Offsets, Begin(w, o), UNCHANGED call
    PROVE  Control'
<1>1. PICK s \in {"letter", "replicate", "persist"} : Moves(w, s, [off |-> o, created |-> FALSE])
  BY BeginMoves
<1>2. [off |-> o, created |-> FALSE] \in Jobs /\ o # 0 /\ s \in Steps
  BY Delivered DEF Jobs, Steps
<1>3. call[w] = A!Idle
  BY DEF Control, Begin, At
<1> QED
  BY <1>1, <1>2, <1>3, ControlMoves
----------------------------------------------------------------------------
LEMMA InitType == Init => TypeInv
<1> SUFFICES ASSUME Init PROVE TypeInv
  OBVIOUS
<1>1. P!TypeInv
  BY Assumed, AlertInit, P!InitType DEF Init
<1>2. Control
  <2>1. NoJob \in Jobs /\ NoJob.off = 0 /\ "idle" \in Steps
    BY Assumed DEF NoJob, Jobs, Steps
  <2> QED BY <2>1 DEF Init, A!Init, Control, At
<1>3. Len(Log) \in Nat
  BY Assumed
<1> QED
  BY <1>1, <1>2, <1>3, TypeParts DEF Init, TypeInv

LEMMA StepType == TypeInv /\ [Next]_vars => TypeInv'
<1> SUFFICES ASSUME TypeInv, [Next]_vars PROVE TypeInv'
  OBVIOUS
<1>0. /\ TypeOK /\ P!TypeInv /\ Control /\ Len(Log) \in Nat
      /\ committed \in 0..Len(Log) /\ position \in committed..Len(Log)
      /\ running \in BOOLEAN /\ letters \in [Offsets -> {"none", "open", "replayed"}]
      /\ observed \in [Events -> Nat] /\ processed \in SUBSET Offsets
      /\ replays \in [Offsets -> 0..2] /\ call \in [Workers -> P!Calls]
  BY TypeParts, Assumed, CallIsFunction DEF TypeInv
<1> USE DEF broker, history
<1>1. CASE Poll
  <2>1. Consumer \in Workers /\ position + 1 \in Offsets
    BY <1>0, <1>1, Assumed DEF Poll, Workers, Offsets
  <2>2. Begin(Consumer, position + 1) /\ UNCHANGED <<alerting, call>>
    BY <1>1 DEF Poll, alerting
  <2>3. Control' /\ P!TypeInv'
    BY <1>0, <2>1, <2>2, ControlBegin, AlertKeeps
  <2> QED BY <1>0, <1>1, <2>3, TypeFrom DEF Poll
<1>2. ASSUME NEW w \in Replayers, NEW o \in Offsets, Replay(w, o) PROVE TypeInv'
  <2>1. w \in Workers /\ Begin(w, o) /\ UNCHANGED <<alerting, call>>
    BY <1>2 DEF Replay, Workers, alerting
  <2>2. Control' /\ P!TypeInv'
    BY <1>0, <2>1, ControlBegin, AlertKeeps
  <2> QED BY <1>0, <1>2, <2>2, TypeFrom DEF Replay
<1>3. ASSUME NEW w \in Workers, Persist(w) PROVE TypeInv'
  <2>1. /\ pc[w] = "persist" /\ pc' = [pc EXCEPT ![w] = "alert"] /\ call[w] = A!Idle
        /\ EventOf(w) \in Events /\ job[w] \in Jobs /\ job[w].off # 0 /\ "alert" \in Steps
    BY <1>0, <1>3, Working DEF Persist, At, Control, Steps
  <2>2. PICK j \in Jobs : Moves(w, "alert", j) /\ j.off = job[w].off
    <3>1. [job[w] EXCEPT !.created = TRUE] \in Jobs
          /\ [job[w] EXCEPT !.created = TRUE].off = job[w].off
      BY <2>1 DEF Jobs
    <3>2. \/ job' = [job EXCEPT ![w] = [job[w] EXCEPT !.created = TRUE]]
          \/ job' = [job EXCEPT ![w] = job[w]]
      BY <1>0, <1>3 DEF Persist, Control
    <3> QED BY <2>1, <3>1, <3>2 DEF Moves
  <2>3. /\ P!TypeInv' /\ UNCHANGED call
    BY <1>0, <1>3, <2>1, AlertKeeps DEF Persist, A!Detect, alerting
  <2>4. Control'
    BY <1>0, <2>1, <2>2, <2>3, ControlMoves
  <2> QED BY <1>0, <1>3, <2>3, <2>4, TypeFrom DEF Persist
<1>4. ASSUME NEW w \in Workers, AlertRead(w) PROVE TypeInv'
  <2>1. pc[w] = "alert" /\ EventOf(w) \in Events /\ A!IngestRead(w, EventOf(w))
    BY <1>0, <1>4, Working DEF AlertRead, At
  <2>2. P!TypeInv'
    BY <1>0, <2>1, AlertKeeps
  <2>3. \A v \in Workers \ {w} : call'[v] = call[v]
    BY <1>0, <2>1 DEF A!IngestRead
  <2>4. \/ Goto(w, "observe") /\ call'[w] = A!Idle
        \/ Goto(w, "alert_write") /\ call'[w] # A!Idle
    BY <1>4 DEF AlertRead
  <2>5. Control'
    BY <1>0, <2>1, <2>3, <2>4, ControlGoto DEF Steps
  <2> QED BY <1>0, <1>4, <2>2, <2>5, TypeFrom DEF AlertRead
<1>5. ASSUME NEW w \in Workers, AlertWrite(w) PROVE TypeInv'
  <2>1. pc[w] = "alert_write" /\ call \in [Workers -> P!Calls]
    BY <1>0, <1>5 DEF AlertWrite, At
  <2>2. P!TypeInv'
    BY <1>0, <1>5, AlertKeeps DEF AlertWrite
  <2>3. call' = [call EXCEPT ![w] = A!Idle]
    BY <1>5 DEF AlertWrite, A!IngestInsert, A!IngestLink, A!Done
  <2>4. Goto(w, "observe") /\ "observe" \in Steps
    BY <1>5 DEF AlertWrite, Steps
  <2>5. Control'
    BY <1>0, <2>1, <2>3, <2>4, ControlGoto
  <2> QED BY <1>0, <1>5, <2>2, <2>5, TypeFrom DEF AlertWrite
<1>6. ASSUME NEW w \in Workers, Observe(w) PROVE TypeInv'
  <2>1. /\ pc[w] = "observe" /\ EventOf(w) \in Events /\ Goto(w, "replicate")
        /\ UNCHANGED <<alerting, call>> /\ call[w] = A!Idle /\ "replicate" \in Steps
    BY <1>0, <1>6, Working DEF Observe, At, alerting, Steps, Control
  <2>2. Control' /\ P!TypeInv'
    BY <1>0, <2>1, ControlGoto, AlertKeeps
  <2>3. observed' \in [Events -> Nat]
    BY <1>0, <1>6, <2>1 DEF Observe
  <2> QED BY <1>0, <1>6, <2>2, <2>3, TypeFrom DEF Observe
<1>7. ASSUME NEW w \in Workers, Replicate(w) PROVE TypeInv'
  <2>1. /\ pc[w] = "replicate" /\ job[w].off \in Offsets /\ call[w] = A!Idle
        /\ UNCHANGED <<alerting, call>>
    BY <1>0, <1>7, Working DEF Replicate, At, alerting, Control
  <2>2. Goto(w, "commit") \/ Goto(w, "finish")
    BY <1>7 DEF Replicate
  <2>3. Control' /\ P!TypeInv'
    BY <1>0, <2>1, <2>2, ControlGoto, AlertKeeps DEF Steps
  <2>4. processed' \in SUBSET Offsets /\ replays' \in [Offsets -> 0..2]
    BY <1>0, <1>7, <2>1 DEF Replicate
  <2> QED BY <1>0, <1>7, <2>3, <2>4, TypeFrom DEF Replicate
<1>8. ASSUME NEW w \in Workers, Raise(w) PROVE TypeInv'
  <2>1. Goto(w, "letter") /\ pc[w] # "idle" /\ "letter" \in Steps \ {"idle"}
    BY <1>8 DEF Raise, Steps
  <2>2. P!TypeInv'
    BY <1>0, <1>8, AlertKeeps DEF Raise
  <2>3. /\ call'[w] = A!Idle
        /\ \A v \in Workers \ {w} : call'[v] = call[v]
    <3>1. CASE pc[w] = "alert_write"
      BY <1>0, <1>8, <3>1 DEF Raise, At, A!Abandon
    <3>2. CASE pc[w] # "alert_write"
      BY <1>0, <1>8, <3>2 DEF Raise, At, alerting, Control
    <3> QED BY <3>1, <3>2
  <2>4. Control'
    BY <1>0, <2>1, <2>3, ControlGoto
  <2> QED BY <1>0, <1>8, <2>2, <2>4, TypeFrom DEF Raise
<1>9. ASSUME NEW w \in Workers,
             RecordFailure(w) \/ FinishReplay(w) \/ Commit(w) \/ StopConsumer(w) \/ RaiseOutside(w)
      PROVE  TypeInv'
  <2>1. /\ pc[w] \in {"letter", "finish", "commit", "stop"} /\ UNCHANGED <<alerting, call>>
        /\ Goto(w, "stop") \/ Return(w)
    BY <1>9 DEF RecordFailure, FinishReplay, Commit, StopConsumer, RaiseOutside, At, alerting
  <2>2. call[w] = A!Idle /\ job[w].off \in Offsets /\ "stop" \in Steps \ {"idle"}
    BY <1>0, <2>1, Working DEF Control, At, Steps
  <2>3. Control' /\ P!TypeInv'
    BY <1>0, <2>1, <2>2, ControlGoto, ControlReturn, AlertKeeps
  <2>4. /\ letters' \in [Offsets -> {"none", "open", "replayed"}]
        /\ UNCHANGED <<observed, processed, replays>>
    BY <1>0, <1>9, <2>2 DEF RecordFailure, FinishReplay, Commit, StopConsumer, RaiseOutside
  <2>5. /\ committed' \in {committed, position} /\ position' = position /\ running' \in BOOLEAN
    BY <1>0, <1>9 DEF RecordFailure, FinishReplay, Commit, StopConsumer, RaiseOutside
  <2>6. committed' \in 0..Len(Log) /\ position' \in committed'..Len(Log)
    BY <1>0, <2>5
  <2> QED BY <1>0, <2>3, <2>4, <2>5, <2>6, TypeFrom
<1>10. CASE Restart
  <2>1. /\ call' = [w \in Workers |-> P!Idle]
        /\ UNCHANGED <<committed, letters, history, alerts, detectedAt, clock, ingested>>
    BY <1>10, SameIdle DEF Restart
  <2>2. P!TypeInv'
    BY <1>0, <2>1, P!IdleCall, Assumed DEF P!TypeInv, P!TypeOK, P!Persisted
  <2>3. Control'
    <3>1. NoJob \in Jobs /\ NoJob.off = 0 /\ "idle" \in Steps
      BY Assumed DEF NoJob, Jobs, Steps
    <3> QED BY <1>10, <3>1 DEF Restart, Control, At, A!Idle
  <2> QED BY <1>0, <1>10, <2>2, <2>3, TypeFrom DEF Restart
<1>11. CASE Time
  <2>1. P!TypeInv' /\ UNCHANGED call
    BY <1>0, <1>11, AlertKeeps DEF Time, A!Tick
  <2>2. Control'
    BY <1>0, <1>11, <2>1 DEF Time, Control, At, A!Idle
  <2> QED BY <1>0, <1>11, <2>1, <2>2, TypeFrom DEF Time
<1>12. CASE UNCHANGED vars
  <2>1. P!TypeInv'
    BY <1>0, <1>12, AlertKeeps DEF vars
  <2>2. Control'
    BY <1>0, <1>12 DEF vars, alerting, Control, At, A!Idle
  <2> QED BY <1>0, <1>12, <2>1, <2>2, TypeFrom DEF vars
<1> QED
  BY <1>1, <1>2, <1>3, <1>4, <1>5, <1>6, <1>7, <1>8, <1>9, <1>10, <1>11, <1>12 DEF Next, Step

(* Positions, letters, workers and their deliveries keep their types; a    *)
(* worker holds an alert call exactly while it is about to write.          *)
THEOREM TypeCorrect == Spec => []TypeOK
<1>1. TypeInv => TypeOK
  BY DEF TypeInv
<1> QED
  BY <1>1, InitType, StepType, PTL DEF Spec
----------------------------------------------------------------------------
LEMMA InitObserve == Init => ObserveInv
  BY DEF Init, ObserveInv, ObservedAtMostOnce, Creating

(* A step that makes no creator and tells the observers nothing.           *)
LEMMA ObserveFrame ==
    ASSUME TypeInv, ObserveInv, UNCHANGED observed,
           \A e \in Events : detectedAt[e] # None => detectedAt'[e] # None,
           \A w \in Workers : Creating(w)' => Creating(w) /\ job'[w].off = job[w].off
    PROVE  ObserveInv'
<1>1. ASSUME NEW w \in Workers, Creating(w)'
      PROVE  Creating(w) /\ EventOf(w)' = EventOf(w) /\ EventOf(w) \in Events
  <2>1. Creating(w) /\ EventOf(w)' = EventOf(w)
    BY <1>1 DEF EventOf
  <2> QED BY <2>1, Working DEF Creating, TypeInv
<1>2. ObservedAtMostOnce'
  BY DEF ObserveInv, ObservedAtMostOnce
<1>3. \A e \in Events : observed'[e] > 0 => detectedAt'[e] # None
  BY DEF ObserveInv
<1>4. \A w \in Workers : Creating(w)' => detectedAt'[EventOf(w)'] # None /\ observed'[EventOf(w)'] = 0
  BY <1>1 DEF ObserveInv
<1>5. \A v, w \in Workers : Creating(v)' /\ Creating(w)' /\ EventOf(v)' = EventOf(w)' => v = w
  BY <1>1 DEF ObserveInv
<1> QED
  BY <1>2, <1>3, <1>4, <1>5 DEF ObserveInv

LEMMA ReturnObserve ==
    ASSUME TypeInv, ObserveInv, NEW w \in Workers, Return(w) \/ Goto(w, "letter") \/ Goto(w, "stop"),
           UNCHANGED <<observed, detectedAt>>
    PROVE  ObserveInv'
<1>1. pc \in [Workers -> Steps] /\ job \in [Workers -> Jobs]
  BY DEF TypeInv, TypeOK, Jobs
<1>2. \A v \in Workers : Creating(v)' => Creating(v) /\ job'[v].off = job[v].off
  BY <1>1 DEF Creating, Return, Goto, NoJob
<1> QED
  BY <1>2, ObserveFrame

(***************************************************************************)
(* The unique detection id makes one creator, and its call tells the       *)
(* observers once or not at all.                                           *)
(***************************************************************************)
LEMMA StepObserve == TypeInv /\ ObserveInv /\ [Next]_vars => ObserveInv'
<1> SUFFICES ASSUME TypeInv, ObserveInv, [Next]_vars PROVE ObserveInv'
  OBVIOUS
<1>0. /\ TypeOK /\ pc \in [Workers -> Steps] /\ job \in [Workers -> Jobs]
      /\ observed \in [Events -> Nat] /\ detectedAt \in [Events -> Nat \cup {None}]
      /\ clock \in Nat
  BY CallIsFunction DEF TypeInv, TypeOK, Jobs
<1> USE DEF broker, history
<1>1. ASSUME NEW w \in Workers, NEW o \in Offsets, Begin(w, o), UNCHANGED <<observed, alerting>>
      PROVE  ObserveInv'
  <2>1. PICK s \in {"letter", "replicate", "persist"} : Moves(w, s, [off |-> o, created |-> FALSE])
    BY <1>1, BeginMoves
  <2>2. \A v \in Workers : Creating(v)' => Creating(v) /\ job'[v].off = job[v].off
    BY <1>0, <2>1 DEF Creating, Moves
  <2> QED BY <1>1, <2>2, ObserveFrame DEF alerting
<1>2. CASE Poll
  <2>1. Consumer \in Workers /\ position + 1 \in Offsets
    BY <1>0, <1>2, Assumed DEF Poll, Workers, Offsets, TypeOK
  <2> QED BY <1>1, <1>2, <2>1 DEF Poll
<1>3. ASSUME NEW w \in Replayers, NEW o \in Offsets, Replay(w, o) PROVE ObserveInv'
  BY <1>1, <1>3 DEF Replay, Workers
<1>4. ASSUME NEW w \in Workers, Persist(w) PROVE ObserveInv'
  <2> DEFINE e == EventOf(w)
  <2>1. pc[w] = "persist" /\ pc' = [pc EXCEPT ![w] = "alert"] /\ e \in Events /\ UNCHANGED observed
    BY <1>0, <1>4, Working DEF Persist, At
  <2>2. CASE detectedAt[e] # None
    <3>1. UNCHANGED <<alerting, job>>
      BY <1>4, <2>2 DEF Persist
    <3>2. \A v \in Workers : Creating(v)' => Creating(v) /\ job'[v].off = job[v].off
      BY <1>0, <2>1, <3>1 DEF Creating
    <3> QED BY <2>1, <3>1, <3>2, ObserveFrame DEF alerting
  <2>3. CASE detectedAt[e] = None
    <3>1. /\ detectedAt' = [detectedAt EXCEPT ![e] = clock]
          /\ job' = [job EXCEPT ![w].created = TRUE]
      BY <1>4, <2>3 DEF Persist, A!Detect
    <3>2. detectedAt'[e] # None /\ \A d \in Events : detectedAt[d] # None => detectedAt'[d] # None
      BY <1>0, <2>1, <3>1, Assumed
    <3>3. observed[e] = 0
      BY <1>0, <2>1, <2>3 DEF ObserveInv
    <3>4. ASSUME NEW v \in Workers \ {w}, Creating(v)'
          PROVE  Creating(v) /\ EventOf(v)' = EventOf(v) /\ EventOf(v) \in Events /\ EventOf(v) # e
      <4>1. Creating(v) /\ EventOf(v)' = EventOf(v)
        BY <1>0, <2>1, <3>1, <3>4 DEF Creating, EventOf
      <4>2. EventOf(v) \in Events
        BY <1>0, <4>1, Working DEF Creating
      <4> QED BY <2>3, <4>1, <4>2 DEF ObserveInv
    <3>5. EventOf(w)' = e
      BY <1>0, <3>1 DEF EventOf, Jobs
    <3>6. ObservedAtMostOnce' /\ \A d \in Events : observed'[d] > 0 => detectedAt'[d] # None
      BY <2>1, <3>2 DEF ObserveInv, ObservedAtMostOnce
    <3>7. \A v \in Workers : Creating(v)' => detectedAt'[EventOf(v)'] # None /\ observed'[EventOf(v)'] = 0
      BY <2>1, <3>2, <3>3, <3>4, <3>5 DEF ObserveInv
    <3>8. \A u, v \in Workers : Creating(u)' /\ Creating(v)' /\ EventOf(u)' = EventOf(v)' => u = v
      BY <3>4, <3>5 DEF ObserveInv
    <3> QED BY <3>6, <3>7, <3>8 DEF ObserveInv
  <2> QED BY <2>2, <2>3
<1>5. ASSUME NEW w \in Workers, AlertRead(w) \/ AlertWrite(w) PROVE ObserveInv'
  <2>1. /\ UNCHANGED <<observed, detectedAt>> /\ pc[w] \in {"alert", "alert_write"} /\ UNCHANGED job
        /\ \E s \in Steps : pc' = [pc EXCEPT ![w] = s]
    BY <1>5 DEF AlertRead, AlertWrite, At, Goto, A!IngestRead, A!IngestInsert, A!IngestLink, A!Done, Steps
  <2>2. \A v \in Workers : Creating(v)' => Creating(v) /\ job'[v].off = job[v].off
    BY <1>0, <2>1 DEF Creating
  <2> QED BY <2>1, <2>2, ObserveFrame
<1>6. ASSUME NEW w \in Workers, Observe(w) PROVE ObserveInv'
  <2> DEFINE e == EventOf(w)
  <2>1. /\ pc[w] = "observe" /\ pc' = [pc EXCEPT ![w] = "replicate"] /\ e \in Events
        /\ UNCHANGED <<job, detectedAt>>
    BY <1>0, <1>6, Working DEF Observe, At, Goto, alerting
  <2>2. \A v \in Workers : Creating(v)' => Creating(v) /\ v # w /\ EventOf(v)' = EventOf(v)
    BY <1>0, <2>1 DEF Creating, EventOf
  <2>3. CASE ~job[w].created
    <3>1. UNCHANGED observed
      BY <1>6, <2>3 DEF Observe
    <3> QED BY <2>1, <2>2, <3>1, ObserveFrame
  <2>4. CASE job[w].created
    <3>1. observed' = [observed EXCEPT ![e] = observed[e] + 1] /\ Creating(w)
      BY <1>6, <2>1, <2>4 DEF Observe, Creating
    <3>2. observed[e] = 0 /\ detectedAt[e] # None
      BY <3>1 DEF ObserveInv
    <3>3. \A v \in Workers : Creating(v)' => EventOf(v) # e /\ EventOf(v) \in Events
      BY <1>0, <2>2, <3>1, Working DEF ObserveInv, Creating
    <3>4. observed'[e] = 1 /\ \A d \in Events : d # e => observed'[d] = observed[d]
      BY <1>0, <2>1, <3>1, <3>2
    <3>5. ObservedAtMostOnce' /\ \A d \in Events : observed'[d] > 0 => detectedAt'[d] # None
      BY <2>1, <3>2, <3>4 DEF ObserveInv, ObservedAtMostOnce
    <3>6. \A v \in Workers : Creating(v)' => detectedAt'[EventOf(v)'] # None /\ observed'[EventOf(v)'] = 0
      BY <2>1, <2>2, <3>3, <3>4 DEF ObserveInv
    <3>7. \A u, v \in Workers : Creating(u)' /\ Creating(v)' /\ EventOf(u)' = EventOf(v)' => u = v
      BY <2>2 DEF ObserveInv
    <3> QED BY <3>5, <3>6, <3>7 DEF ObserveInv
  <2> QED BY <2>3, <2>4
<1>7. ASSUME NEW w \in Workers, Replicate(w) PROVE ObserveInv'
  <2>1. UNCHANGED <<observed, detectedAt, job>>
        /\ \E s \in {"commit", "finish"} : pc' = [pc EXCEPT ![w] = s]
    BY <1>7 DEF Replicate, Goto, alerting
  <2>2. \A v \in Workers : Creating(v)' => Creating(v) /\ job'[v].off = job[v].off
    BY <1>0, <2>1 DEF Creating
  <2> QED BY <2>1, <2>2, ObserveFrame
<1>8. ASSUME NEW w \in Workers,
             \/ Raise(w) \/ RecordFailure(w) \/ FinishReplay(w) \/ Commit(w) \/ StopConsumer(w)
             \/ RaiseOutside(w)
      PROVE  ObserveInv'
  <2>1. /\ Return(w) \/ Goto(w, "letter") \/ Goto(w, "stop")
        /\ UNCHANGED <<observed, detectedAt>>
    BY <1>8 DEF Raise, RecordFailure, FinishReplay, Commit, StopConsumer, RaiseOutside, A!Abandon, alerting
  <2> QED BY <2>1, ReturnObserve
<1>9. CASE Restart
  BY <1>9, ObserveFrame DEF Restart, Creating, NoJob
<1>10. CASE Time \/ UNCHANGED vars
  BY <1>10, ObserveFrame DEF Time, A!Tick, vars, alerting, Creating
<1> QED
  BY <1>2, <1>3, <1>4, <1>5, <1>6, <1>7, <1>8, <1>9, <1>10 DEF Next, Step

(* For any log and any number of replays, through exceptions and restarts: *)
(* the observers, which propose containment, hear of a detection at most   *)
(* once.                                                                   *)
THEOREM ObservedOnce == Spec => []ObservedAtMostOnce
<1>1. ObserveInv => ObservedAtMostOnce
  BY DEF ObserveInv
<1> QED
  BY <1>1, InitType, StepType, InitObserve, StepObserve, PTL DEF Spec
----------------------------------------------------------------------------
(***************************************************************************)
(* The dead letters.                                                       *)
(***************************************************************************)
LEMMA InitFinish == Init => FinishInv
  BY DEF Init, FinishInv, At

(* Counts of replays do not shrink, and only Replicate leads to "finish".  *)
LEMMA StepFinish == TypeInv /\ FinishInv /\ [Next]_vars => FinishInv'
<1> SUFFICES ASSUME TypeInv, FinishInv, [Next]_vars PROVE FinishInv'
  OBVIOUS
<1>0. /\ TypeOK /\ pc \in [Workers -> Steps] /\ job \in [Workers -> Jobs]
      /\ replays \in [Offsets -> 0..2]
  BY DEF TypeInv, TypeOK, Jobs
<1> USE DEF broker, history
<1>1. ASSUME NEW w \in Workers, NEW s \in Steps \ {"finish"}, NEW j,
             pc' = [pc EXCEPT ![w] = s], job' = [job EXCEPT ![w] = j], UNCHANGED replays
      PROVE  FinishInv'
  BY <1>0, <1>1 DEF FinishInv, At
<1>2. ASSUME NEW w \in Workers, NEW o \in Offsets, Begin(w, o), UNCHANGED replays
      PROVE  FinishInv'
  <2>1. PICK s \in {"letter", "replicate", "persist"} : Moves(w, s, [off |-> o, created |-> FALSE])
    BY <1>2, BeginMoves
  <2> QED BY <1>1, <1>2, <2>1 DEF Moves, Steps
<1>3. CASE Poll
  <2>1. Consumer \in Workers /\ position + 1 \in Offsets
    BY <1>0, <1>3, Assumed DEF Poll, Workers, Offsets, TypeOK
  <2> QED BY <1>2, <1>3, <2>1 DEF Poll
<1>4. ASSUME NEW w \in Replayers, NEW o \in Offsets, Replay(w, o) PROVE FinishInv'
  BY <1>2, <1>4 DEF Replay, Workers
<1>5. ASSUME NEW w \in Workers,
             Persist(w) \/ AlertRead(w) \/ AlertWrite(w) \/ Observe(w) \/ Raise(w) \/ RecordFailure(w)
                \/ FinishReplay(w) \/ Commit(w) \/ StopConsumer(w) \/ RaiseOutside(w)
      PROVE  FinishInv'
  <2>1. UNCHANGED replays
    BY <1>5 DEF Persist, AlertRead, AlertWrite, Observe, Raise, RecordFailure, FinishReplay,
       Commit, StopConsumer, RaiseOutside
  <2>2. PICK s \in Steps \ {"finish"} : pc' = [pc EXCEPT ![w] = s]
    BY <1>5 DEF Persist, AlertRead, AlertWrite, Observe, Raise, RecordFailure, FinishReplay,
       Commit, StopConsumer, RaiseOutside, Return, Goto, Steps
  <2>3. \E j : job' = [job EXCEPT ![w] = j]
    <3>1. job = [job EXCEPT ![w] = job[w]]
      BY <1>0
    <3> QED BY <1>5, <3>1 DEF Persist, AlertRead, AlertWrite, Observe, Raise, RecordFailure,
               FinishReplay, Commit, StopConsumer, RaiseOutside, Return, Goto
  <2> QED BY <1>1, <2>1, <2>2, <2>3
<1>6. ASSUME NEW w \in Workers, Replicate(w) PROVE FinishInv'
  <2>1. /\ pc[w] = "replicate" /\ UNCHANGED job /\ job[w].off \in Offsets
        /\ pc' = [pc EXCEPT ![w] = IF w = Consumer THEN "commit" ELSE "finish"]
    BY <1>0, <1>6, Working DEF Replicate, At, Goto
  <2>2. /\ \A o \in Offsets : replays[o] > 0 => replays'[o] > 0
        /\ w # Consumer => replays'[job[w].off] > 0
    BY <1>0, <1>6, <2>1 DEF Replicate
  <2>3. \A v \in Workers : pc[v] = "finish" => job[v].off \in Offsets
    BY <1>0, Working
  <2> QED BY <1>0, <2>1, <2>2, <2>3 DEF FinishInv, At
<1>7. CASE Restart
  BY <1>7 DEF Restart, FinishInv, At
<1>8. CASE Time \/ UNCHANGED vars
  BY <1>8 DEF Time, vars, FinishInv, At
<1> QED
  BY <1>3, <1>4, <1>5, <1>6, <1>7, <1>8 DEF Next, Step

(***************************************************************************)
(* Only RecordFailure and FinishReplay write letters.                      *)
(***************************************************************************)
LEMMA StepLetters ==
    ASSUME TypeInv, FinishInv, [Next]_vars
    PROVE  \A o \in Offsets :
             letters'[o] # letters[o] =>
                \/ letters[o] = "none" /\ letters'[o] = "open"
                \/ letters[o] = "open" /\ letters'[o] = "replayed" /\ replays[o] > 0
<1>0. TypeOK /\ letters \in [Offsets -> {"none", "open", "replayed"}]
  BY DEF TypeInv, TypeOK
<1>1. ASSUME NEW w \in Workers, RecordFailure(w)
      PROVE  letters' = [letters EXCEPT ![job[w].off] = IF @ = "none" THEN "open" ELSE @]
  BY <1>1 DEF RecordFailure
<1>2. ASSUME NEW w \in Workers, FinishReplay(w)
      PROVE  /\ letters' = [letters EXCEPT ![job[w].off] = IF @ = "open" THEN "replayed" ELSE @]
             /\ replays[job[w].off] > 0
  BY <1>2 DEF FinishReplay, FinishInv
<1>3. \/ UNCHANGED letters
      \/ \E w \in Workers : RecordFailure(w) \/ FinishReplay(w)
  BY DEF Next, Poll, Step, Persist, AlertRead, AlertWrite, Observe, Replicate, Commit, StopConsumer,
     Raise, RaiseOutside, Replay, Restart, Time, vars
<1> QED
  BY <1>0, <1>1, <1>2, <1>3

(* For any log and any number of replays: a dead letter is opened once and *)
(* replayed for good, and only after the processor returned for it.        *)
THEOREM LettersMoveOneWay == Spec => LetterLifecycle
<1>1. TypeInv /\ FinishInv /\ [Next]_vars
        => [\A o \in Offsets :
              letters'[o] # letters[o] =>
                \/ letters[o] = "none" /\ letters'[o] = "open"
                \/ letters[o] = "open" /\ letters'[o] = "replayed" /\ replays[o] > 0]_vars
  BY StepLetters
<1> QED
  BY <1>1, InitType, StepType, InitFinish, StepFinish, PTL DEF Spec, LetterLifecycle
----------------------------------------------------------------------------
(***************************************************************************)
(* Evidence.  The consumer and the replays race with each other; only two  *)
(* links of different detections to one alert lose anything.               *)
(***************************************************************************)
LEMMA AlertStep ==
    ASSUME TypeInv, [Next]_vars
    PROVE  \/ [P!Next]_(P!vars)
           \/ /\ UNCHANGED <<alerts, detectedAt, clock>>
              /\ \A w \in Workers : call'[w].step = "idle"
<1>0. TypeOK
  BY DEF TypeInv
<1>1. CASE \/ \E e \in Events : A!Detect(e)
           \/ \E w \in Workers, e \in Events : A!IngestRead(w, e)
           \/ \E w \in Workers : A!IngestInsert(w) \/ A!IngestLink(w) \/ A!Abandon(w)
           \/ A!Tick
           \/ UNCHANGED alerting
  <2>1. P!Next \/ UNCHANGED alerting
    BY <1>1, SameDetect, SameRead, SameWrite DEF P!Next, P!Step
  <2> QED BY <2>1 DEF P!vars, alerting
<1>2. ASSUME NEW w \in Workers, Persist(w) PROVE (\E e \in Events : A!Detect(e)) \/ UNCHANGED alerting
  BY <1>0, <1>2, Working DEF Persist, At
<1>3. ASSUME NEW w \in Workers, AlertRead(w) PROVE \E e \in Events : A!IngestRead(w, e)
  BY <1>0, <1>3, Working DEF AlertRead, At
<1>4. ASSUME NEW w \in Workers, AlertWrite(w) PROVE A!IngestInsert(w) \/ A!IngestLink(w)
  BY <1>4 DEF AlertWrite
<1>5. ASSUME NEW w \in Workers, Raise(w) PROVE A!Abandon(w) \/ UNCHANGED alerting
  BY <1>5 DEF Raise
<1>6. ASSUME NEW w \in Workers,
             Observe(w) \/ Replicate(w) \/ RecordFailure(w) \/ FinishReplay(w) \/ Commit(w)
                \/ StopConsumer(w) \/ RaiseOutside(w)
      PROVE  UNCHANGED alerting
  BY <1>6 DEF Observe, Replicate, RecordFailure, FinishReplay, Commit, StopConsumer, RaiseOutside
<1>7. CASE Restart
  BY <1>7, SameIdle DEF Restart
<1> QED
  BY <1>1, <1>2, <1>3, <1>4, <1>5, <1>6, <1>7 DEF Next, Step, Poll, Replay, Time, vars

LEMMA StepLinks ==
    ASSUME TypeInv, P!LinkInv, OneLink, [Next]_vars
    PROVE  P!LinkInv'
<1>0. P!TypeInv
  BY DEF TypeInv
<1>1. CASE [P!Next]_(P!vars)
  BY <1>0, <1>1, Assumed, P!StepLink DEF OneLink
<1>2. CASE \A w \in Workers : call'[w].step = "idle"
  BY <1>2 DEF P!LinkInv
<1> QED
  BY <1>1, <1>2, AlertStep

LEMMA LinkedStays ==
    ASSUME TypeInv, P!LinkInv, [Next]_vars
    PROVE  \A e : Linked(e) => Linked(e)'
<1>0. P!TypeInv
  BY DEF TypeInv
<1>1. CASE [P!Next]_(P!vars)
  <2>1. \A i \in DOMAIN alerts : i \in DOMAIN alerts' /\ alerts[i].ids \subseteq alerts'[i].ids
    BY <1>0, <1>1, Assumed, P!LinkGrows
  <2> QED BY <2>1 DEF Linked
<1>2. CASE UNCHANGED alerts
  BY <1>2 DEF Linked
<1> QED
  BY <1>1, <1>2, AlertStep

(* What AlertRead leaves for the step after it.                            *)
LEMMA ReadLinks ==
    ASSUME TypeInv, NEW w \in Workers, NEW e \in Events, A!IngestRead(w, e)
    PROVE  \/ call'[w] = A!Idle /\ Linked(e)
           \/ call'[w] # A!Idle /\ call'[w].det = e
<1>1. call \in [Workers -> P!Calls]
  BY CallIsFunction
<1>2. CASE call' = [call EXCEPT ![w] = [step |-> "insert", det |-> e]]
  <2>1. call'[w] = [step |-> "insert", det |-> e]
    BY <1>1, <1>2
  <2> QED BY <2>1 DEF A!Idle
<1>3. ASSUME NEW i \in A!Latest(A!Matching(e)), e \in alerts[i].ids, UNCHANGED call
      PROVE  call'[w] = A!Idle /\ Linked(e)
  BY <1>3 DEF A!IngestRead, A!Latest, A!Matching, Linked
<1>4. ASSUME NEW i \in A!Latest(A!Matching(e)),
             call' = [call EXCEPT ![w] = [step |-> "link", det |-> e, alert |-> i,
                                          ids |-> alerts[i].ids, count |-> alerts[i].count]]
      PROVE  call'[w] # A!Idle /\ call'[w].det = e
  <2>1. call'[w] = [step |-> "link", det |-> e, alert |-> i,
                    ids |-> alerts[i].ids, count |-> alerts[i].count]
    BY <1>1, <1>4
  <2> QED BY <2>1 DEF A!Idle
<1> QED
  BY <1>2, <1>3, <1>4 DEF A!IngestRead

(* AlertWrite links what its call is about.                                *)
LEMMA WriteLinks ==
    ASSUME TypeInv, NEW w \in Workers, P!IngestInsert(w) \/ P!IngestLink(w)
    PROVE  \A e : e = call[w].det => Linked(e)'
<1>0. P!TypeInv
  BY DEF TypeInv
<1>1. CASE P!IngestInsert(w)
  <2>1. PICK n : /\ n \notin DOMAIN alerts /\ DOMAIN alerts' = DOMAIN alerts \cup {n}
                 /\ \A k \in DOMAIN alerts : alerts'[k] = alerts[k]
                 /\ alerts'[n].key = KeyOf[call[w].det] /\ alerts'[n].ids = {call[w].det}
    BY <1>0, <1>1, Assumed, P!InsertFacts
  <2> QED BY <2>1 DEF Linked
<1>2. CASE P!IngestLink(w)
  <2>1. /\ call[w].alert \in DOMAIN alerts /\ DOMAIN alerts' = DOMAIN alerts
        /\ \A k \in DOMAIN alerts :
             /\ alerts'[k].key = alerts[k].key /\ alerts'[k].status = alerts[k].status
             /\ alerts'[k].ids = IF k = call[w].alert THEN call[w].ids \cup {call[w].det}
                                 ELSE alerts[k].ids
    BY <1>0, <1>2, Assumed, P!LinkFacts
  <2> QED BY <2>1 DEF Linked
<1> QED
  BY <1>1, <1>2

(* A step is one worker's: the others stay where they are.                 *)
Others(w) == \A v \in Workers \ {w} : pc'[v] = pc[v] /\ job'[v] = job[v] /\ call'[v] = call[v]

LEMMA OneMoves ==
    ASSUME TypeInv, NEW w \in Workers,
           \/ Step(w) \/ Raise(w) \/ RaiseOutside(w)
           \/ w = Consumer /\ Poll
           \/ \E o \in Offsets : Replay(w, o)
    PROVE  Others(w)
<1>1. pc \in [Workers -> Steps] /\ job \in [Workers -> Jobs] /\ call \in [Workers -> P!Calls]
  BY CallIsFunction DEF TypeInv, TypeOK, Jobs
<1>2. CASE (w = Consumer /\ Poll) \/ \E o \in Offsets : Replay(w, o)
  BY <1>1, <1>2 DEF Poll, Replay, Begin, Others, alerting
<1>3. CASE Persist(w)
  BY <1>1, <1>3 DEF Persist, Others, A!Detect, alerting
<1>4. CASE AlertRead(w)
  BY <1>1, <1>4 DEF AlertRead, Goto, Others, A!IngestRead
<1>5. CASE AlertWrite(w)
  BY <1>1, <1>5 DEF AlertWrite, Goto, Others, A!IngestInsert, A!IngestLink, A!Done
<1>6. CASE Raise(w)
  BY <1>1, <1>6 DEF Raise, Goto, Others, A!Abandon, alerting
<1>7. CASE Observe(w) \/ Replicate(w)
  BY <1>1, <1>7 DEF Observe, Replicate, Goto, Others, alerting
<1>8. CASE RecordFailure(w) \/ FinishReplay(w) \/ Commit(w) \/ StopConsumer(w) \/ RaiseOutside(w)
  BY <1>1, <1>8 DEF RecordFailure, FinishReplay, Commit, StopConsumer, RaiseOutside, Goto, Return,
     Others, alerting
<1> QED
  BY <1>2, <1>3, <1>4, <1>5, <1>6, <1>7, <1>8 DEF Step

LEMMA InitEvidence == Init => P!LinkInv /\ EvidenceInv /\ CommitInv
<1> SUFFICES ASSUME Init PROVE P!LinkInv /\ EvidenceInv /\ CommitInv
  OBVIOUS
<1>1. Consumer \in Workers
  BY DEF Workers
<1>2. \A w \in Workers : call[w].step = "idle"
  BY SameIdle DEF Init, A!Init
<1>3. P!LinkInv
  BY <1>2 DEF P!LinkInv
<1>4. \A w \in Workers : pc[w] = "idle"
  BY DEF Init
<1>5. EvidenceInv
  BY <1>4 DEF Init, EvidenceInv, Through, At
<1>6. CommitInv
  <2>1. 1..committed = {} /\ \A w \in Replayers : w \in Workers
    BY DEF Init, Workers
  <2> QED BY <1>1, <1>4, <2>1 DEF Init, CommitInv, At
<1> QED
  BY <1>3, <1>5, <1>6

LEMMA StepEvidence ==
    ASSUME TypeInv, P!LinkInv, EvidenceInv, [Next]_vars
    PROVE  EvidenceInv'
<1>0. /\ TypeOK /\ pc \in [Workers -> Steps] /\ job \in [Workers -> Jobs]
      /\ call \in [Workers -> P!Calls] /\ Consumer \in Workers
  BY CallIsFunction DEF TypeInv, TypeOK, Jobs, Workers
<1> USE DEF broker, history
<1>1. \A e : Linked(e) => Linked(e)'
  BY LinkedStays
<1>2. ASSUME UNCHANGED processed
      PROVE  \A o \in processed' : Log[o].kind = "suspicious" => Linked(Log[o].event)'
  BY <1>1, <1>2 DEF EvidenceInv
(* The step of a worker that ends where nothing is asked of it.            *)
<1>3. ASSUME NEW w \in Workers, Others(w), Through(w)',
             \A o \in processed' : Log[o].kind = "suspicious" => Linked(Log[o].event)'
      PROVE  EvidenceInv'
  <2>1. ASSUME NEW v \in Workers \ {w} PROVE Through(v)'
    <3>1. /\ pc'[v] = pc[v] /\ job'[v] = job[v] /\ call'[v] = call[v] /\ Through(v)
          /\ EventOf(v)' = EventOf(v) /\ KindOf(v)' = KindOf(v)
      BY <1>3 DEF Others, EvidenceInv, EventOf, KindOf
    <3> QED BY <1>1, <3>1 DEF Through, At
  <2> QED BY <1>3, <2>1 DEF EvidenceInv
<1>4. ASSUME NEW w \in Workers, Others(w), UNCHANGED processed,
             pc'[w] \notin {"alert_write", "observe", "replicate"}
      PROVE  EvidenceInv'
  BY <1>2, <1>3, <1>4 DEF Through, At
<1>5. ASSUME NEW w \in Workers, NEW o \in Offsets, Begin(w, o), Others(w), UNCHANGED processed
      PROVE  EvidenceInv'
  <2>1. PICK s \in {"letter", "replicate", "persist"} : Moves(w, s, [off |-> o, created |-> FALSE])
    BY <1>5, BeginMoves
  <2>2. pc'[w] = s /\ job'[w].off = o
    BY <1>0, <2>1 DEF Moves
  <2>3. s = "replicate" => Log[o].kind # "suspicious"
    BY <1>0, <1>5, <2>2, Delivered DEF Begin, Kinds
  <2>4. KindOf(w)' = Log[o].kind
    BY <2>2 DEF KindOf
  <2> QED BY <1>2, <1>3, <1>5, <2>2, <2>3, <2>4 DEF Through, At
<1>6. CASE Poll
  <2>1. position + 1 \in Offsets /\ Others(Consumer) /\ UNCHANGED processed
    BY <1>0, <1>6, Assumed, OneMoves DEF Poll, Offsets, TypeOK
  <2> QED BY <1>0, <1>5, <1>6, <2>1 DEF Poll
<1>7. ASSUME NEW w \in Replayers, NEW o \in Offsets, Replay(w, o) PROVE EvidenceInv'
  <2>1. w \in Workers /\ UNCHANGED processed
    BY <1>7 DEF Workers, Replay
  <2> QED BY <1>5, <1>7, <2>1, OneMoves DEF Replay
<1>8. ASSUME NEW w \in Workers,
             Persist(w) \/ Raise(w) \/ RecordFailure(w) \/ FinishReplay(w) \/ Commit(w)
                \/ StopConsumer(w) \/ RaiseOutside(w)
      PROVE  EvidenceInv'
  <2>1. UNCHANGED processed
    BY <1>8 DEF Persist, Raise, RecordFailure, FinishReplay, Commit, StopConsumer, RaiseOutside
  <2>2. pc'[w] \in {"alert", "letter", "stop", "idle"}
    BY <1>0, <1>8 DEF Persist, Raise, RecordFailure, FinishReplay, Commit, StopConsumer,
       RaiseOutside, Goto, Return
  <2>3. Others(w)
    BY <1>8, OneMoves DEF Step
  <2> QED BY <1>4, <2>1, <2>2, <2>3
<1>9. ASSUME NEW w \in Workers, AlertRead(w) PROVE EvidenceInv'
  <2>1. /\ pc[w] = "alert" /\ A!IngestRead(w, EventOf(w)) /\ UNCHANGED <<job, processed, alerts>>
        /\ pc'[w] = IF call'[w] = A!Idle THEN "observe" ELSE "alert_write"
    BY <1>0, <1>9 DEF AlertRead, At, Goto, A!IngestRead
  <2>2. EventOf(w) \in Events /\ EventOf(w)' = EventOf(w)
    BY <1>0, <2>1, Working DEF EventOf
  <2>3. \/ pc'[w] = "observe" /\ Linked(EventOf(w))
        \/ pc'[w] = "alert_write" /\ call'[w].det = EventOf(w)
    BY <2>1, <2>2, ReadLinks
  <2>4. Through(w)'
    BY <1>1, <2>2, <2>3 DEF Through, At
  <2> QED BY <1>2, <1>3, <1>9, <2>1, <2>4, OneMoves DEF Step
<1>10. ASSUME NEW w \in Workers, AlertWrite(w) PROVE EvidenceInv'
  <2>1. /\ pc[w] = "alert_write" /\ pc'[w] = "observe" /\ UNCHANGED <<job, processed>>
        /\ call[w].det = EventOf(w) /\ EventOf(w)' = EventOf(w)
    BY <1>0, <1>10 DEF AlertWrite, At, Goto, EvidenceInv, Through, EventOf
  <2>2. P!IngestInsert(w) \/ P!IngestLink(w)
    BY <1>10, SameWrite DEF AlertWrite
  <2>3. Linked(EventOf(w))'
    <3>1. \A e : e = call[w].det => Linked(e)'
      BY <2>2, WriteLinks
    <3> QED BY <2>1, <3>1 DEF Linked
  <2>4. Through(w)'
    BY <2>1, <2>3 DEF Through, At
  <2> QED BY <1>2, <1>3, <1>10, <2>1, <2>4, OneMoves DEF Step
<1>11. ASSUME NEW w \in Workers, Observe(w) PROVE EvidenceInv'
  <2>1. /\ pc[w] = "observe" /\ pc'[w] = "replicate" /\ UNCHANGED <<job, processed>>
        /\ KindOf(w)' = KindOf(w) /\ EventOf(w)' = EventOf(w)
    BY <1>0, <1>11 DEF Observe, At, Goto, KindOf, EventOf
  <2>2. Through(w)'
    BY <1>1, <2>1 DEF Through, At, EvidenceInv
  <2> QED BY <1>2, <1>3, <1>11, <2>1, <2>2, OneMoves DEF Step
<1>12. ASSUME NEW w \in Workers, Replicate(w) PROVE EvidenceInv'
  <2>1. /\ pc[w] = "replicate" /\ pc'[w] \in {"commit", "finish"}
        /\ processed' = processed \cup {job[w].off}
    BY <1>0, <1>12 DEF Replicate, At, Goto
  <2>2. KindOf(w) = "suspicious" => Linked(EventOf(w))
    BY <2>1 DEF EvidenceInv, Through
  <2>3. \A o \in processed' : Log[o].kind = "suspicious" => Linked(Log[o].event)
    BY <2>1, <2>2 DEF EvidenceInv, KindOf, EventOf
  <2>4. Through(w)'
    BY <2>1 DEF Through, At
  <2> QED BY <1>1, <1>3, <1>12, <2>3, <2>4, OneMoves DEF Step
<1>13. CASE Restart
  BY <1>1, <1>13 DEF Restart, EvidenceInv, Through, At
<1>14. CASE Time \/ UNCHANGED vars
  BY <1>1, <1>14 DEF Time, A!Tick, vars, alerting, EvidenceInv, Through, At, KindOf, EventOf
<1> QED
  BY <1>6, <1>7, <1>8, <1>9, <1>10, <1>11, <1>12, <1>13, <1>14 DEF Next, Step

LEMMA StepCommit ==
    ASSUME TypeInv, CommitInv, [Next]_vars
    PROVE  CommitInv'
<1>0. /\ TypeOK /\ pc \in [Workers -> Steps] /\ job \in [Workers -> Jobs]
      /\ committed \in Nat /\ position \in Nat /\ Len(Log) \in Nat /\ position <= Len(Log)
      /\ Consumer \in Workers /\ Consumer \notin Replayers
  BY Assumed, BrokerAssumption DEF TypeInv, TypeOK, Jobs, Workers
<1> USE DEF broker, history
<1>1. ASSUME processed \subseteq processed', UNCHANGED <<committed, position, running>>,
             pc'[Consumer] = pc[Consumer], job'[Consumer] = job[Consumer],
             \A w \in Replayers : pc'[w] \notin {"stop", "commit"}
      PROVE  CommitInv'
  BY <1>1 DEF CommitInv, At
<1>2. \A w \in Replayers : w \in Workers /\ w # Consumer /\ pc[w] \notin {"stop", "commit"}
  BY <1>0 DEF Workers, CommitInv
(* A replay: it adds to what is processed.                                 *)
<1>3. ASSUME NEW w \in Replayers, Others(w), pc'[w] \notin {"stop", "commit"},
             processed \subseteq processed', UNCHANGED <<committed, position, running>>
      PROVE  CommitInv'
  <2>1. pc'[Consumer] = pc[Consumer] /\ job'[Consumer] = job[Consumer]
    BY <1>0, <1>2, <1>3 DEF Others
  <2>2. \A v \in Replayers : pc'[v] \notin {"stop", "commit"}
    BY <1>2, <1>3 DEF Others
  <2> QED BY <1>1, <1>3, <2>1, <2>2
<1>4. ASSUME NEW w \in Replayers, NEW o \in Offsets, Replay(w, o) PROVE CommitInv'
  <2>1. PICK s \in {"letter", "replicate", "persist"} : pc' = [pc EXCEPT ![w] = s]
    BY <1>2, <1>4, BeginMoves DEF Replay, Moves
  <2>2. pc'[w] = s
    BY <1>0, <1>2, <2>1
  <2> QED BY <1>2, <1>3, <1>4, <2>2, OneMoves DEF Replay
<1>5. ASSUME NEW w \in Replayers, Step(w) \/ Raise(w) \/ RaiseOutside(w) PROVE CommitInv'
  <2>1. w \in Workers /\ w # Consumer /\ ~Commit(w) /\ ~StopConsumer(w)
    BY <1>2 DEF Commit, StopConsumer, At
  <2>2. processed \subseteq processed' /\ UNCHANGED <<committed, position, running>>
    BY <1>5, <2>1 DEF Step, Persist, AlertRead, AlertWrite, Observe, Replicate, RecordFailure,
       FinishReplay, Raise, RaiseOutside
  <2>3. PICK s \in Steps \ {"stop", "commit"} : pc' = [pc EXCEPT ![w] = s]
    BY <1>5, <2>1 DEF Step, Persist, AlertRead, AlertWrite, Observe, Replicate, RecordFailure,
       FinishReplay, Raise, RaiseOutside, Goto, Return, Steps
  <2>4. pc'[w] \notin {"stop", "commit"}
    BY <1>0, <2>1, <2>3
  <2> QED BY <1>3, <1>5, <2>1, <2>2, <2>4, OneMoves
(* The consumer: it commits what it processed.                             *)
<1>6. ASSUME Others(Consumer)
      PROVE  \A v \in Replayers : pc'[v] \notin {"stop", "commit"}
  BY <1>2, <1>6 DEF Others
<1>7. CASE Poll
  <2>1. position + 1 \in Offsets /\ Begin(Consumer, position + 1) /\ Others(Consumer)
    BY <1>0, <1>7, Assumed, OneMoves DEF Poll, Offsets
  <2>2. PICK s \in {"letter", "replicate", "persist"} :
          Moves(Consumer, s, [off |-> position + 1, created |-> FALSE])
    BY <1>0, <2>1, BeginMoves
  <2>3. pc'[Consumer] = s /\ job'[Consumer].off = position + 1
    BY <1>0, <2>2 DEF Moves
  <2>4. At(Consumer, "idle") /\ running /\ UNCHANGED <<processed, committed, running>>
        /\ position' = position + 1
    BY <1>7 DEF Poll, Begin, At
  <2> QED BY <1>6, <2>1, <2>3, <2>4 DEF CommitInv, At
<1>8. CASE Persist(Consumer) \/ AlertRead(Consumer) \/ AlertWrite(Consumer) \/ Observe(Consumer)
           \/ Raise(Consumer) \/ RecordFailure(Consumer) \/ RaiseOutside(Consumer)
  <2>1. /\ pc[Consumer] # "idle" /\ UNCHANGED <<processed, committed, position, running>>
        /\ Others(Consumer)
    BY <1>0, <1>8, OneMoves DEF Step, Persist, AlertRead, AlertWrite, Observe, Raise, RecordFailure,
       RaiseOutside, At
  <2>2. pc'[Consumer] \in {"alert", "observe", "alert_write", "replicate", "letter", "stop"}
    BY <1>0, <1>8 DEF Persist, AlertRead, AlertWrite, Observe, Raise, RecordFailure, RaiseOutside, Goto
  <2>3. job'[Consumer].off = job[Consumer].off
    BY <1>0, <1>8 DEF Persist, AlertRead, AlertWrite, Observe, Raise, RecordFailure, RaiseOutside,
       Goto, Jobs
  <2> QED BY <1>6, <2>1, <2>2, <2>3 DEF CommitInv, At
<1>9. CASE Replicate(Consumer)
  <2>1. /\ pc[Consumer] = "replicate" /\ pc'[Consumer] = "commit" /\ UNCHANGED job
        /\ UNCHANGED <<committed, position, running>> /\ Others(Consumer)
        /\ processed' = processed \cup {job[Consumer].off}
    BY <1>0, <1>9, OneMoves DEF Step, Replicate, At, Goto
  <2> QED BY <1>6, <2>1 DEF CommitInv, At
<1>10. CASE Commit(Consumer)
  <2>1. /\ pc[Consumer] = "commit" /\ pc'[Consumer] = "idle" /\ Others(Consumer)
        /\ committed' = position /\ UNCHANGED <<processed, position, running>>
    BY <1>0, <1>10, OneMoves DEF Step, Commit, At, Return
  <2>2. position = committed + 1 /\ position \in processed
    BY <2>1 DEF CommitInv, At
  <2>3. \A o \in 1..committed' : o \in processed'
    <3>1. 1..committed' = (1..committed) \cup {position}
      BY <1>0, <2>1, <2>2
    <3> QED BY <2>1, <2>2, <3>1 DEF CommitInv
  <2> QED BY <1>6, <2>1, <2>3 DEF CommitInv, At
<1>11. CASE StopConsumer(Consumer)
  <2>1. /\ pc'[Consumer] = "idle" /\ running' = FALSE /\ Others(Consumer)
        /\ UNCHANGED <<processed, committed, position>>
    BY <1>0, <1>11, OneMoves DEF Step, StopConsumer, Return
  <2> QED BY <1>6, <2>1 DEF CommitInv, At
<1>12. CASE FinishReplay(Consumer)
  BY <1>12 DEF FinishReplay, At, CommitInv
<1>13. CASE Restart
  <2>1. /\ \A w \in Workers : pc'[w] = "idle"
        /\ position' = committed /\ UNCHANGED <<processed, committed>>
    BY <1>13 DEF Restart
  <2> QED BY <1>0, <1>2, <2>1 DEF CommitInv, At
<1>14. CASE Time \/ UNCHANGED vars
  <2>1. UNCHANGED <<pc, job, processed, committed, position, running>>
    BY <1>14 DEF Time, vars
  <2> QED BY <2>1 DEF CommitInv, At
<1>15. \A w \in Workers : w = Consumer \/ w \in Replayers
  BY DEF Workers
<1> QED
  BY <1>4, <1>5, <1>7, <1>8, <1>9, <1>10, <1>11, <1>12, <1>13, <1>14, <1>15 DEF Next, Step

(* On any log, with exceptions and restarts at any step and any number of  *)
(* replays beside the consumer: as long as no two calls are about to link  *)
(* different detections to one alert, nothing is committed past without    *)
(* the evidence it should leave.                                           *)
THEOREM CommittedEvidence == Spec /\ []OneLink => []CommittedHasEvidence
<1>1. EvidenceInv /\ CommitInv => CommittedHasEvidence
  BY DEF EvidenceInv, CommitInv, CommittedHasEvidence, Linked
<1>2. TypeInv /\ P!LinkInv /\ OneLink /\ [Next]_vars => P!LinkInv'
  BY StepLinks
<1>3. TypeInv /\ P!LinkInv /\ EvidenceInv /\ [Next]_vars => EvidenceInv'
  BY StepEvidence
<1>4. TypeInv /\ CommitInv /\ [Next]_vars => CommitInv'
  BY StepCommit
<1> QED
  BY <1>1, <1>2, <1>3, <1>4, InitType, StepType, InitEvidence, PTL DEF Spec

(* The consumer alone never races: it needs no such condition.             *)
COROLLARY ConsumerAlone ==
    ASSUME Replayers = {}
    PROVE  Spec => []CommittedHasEvidence
<1>1. OneLink
  <2>1. \A s, t \in Workers : s = t
    BY DEF Workers
  <2> QED BY <2>1 DEF OneLink, P!OneLink
<1> QED
  BY <1>1, CommittedEvidence, PTL

(* Nor do replays beside it, when every event has its suppression key for  *)
(* itself: whatever calls are in flight, none links anything.              *)
THEOREM OwnKeysEvidence ==
    ASSUME \A e, f \in Events : KeyOf[e] = KeyOf[f] => e = f
    PROVE  Spec => []CommittedHasEvidence
<1> DEFINE Inv == P!KeyInv /\ P!NoLink
<1>1. Init => Inv
  BY AlertInit, Assumed, P!InitKey DEF Init
<1>2. TypeInv /\ Inv /\ [Next]_vars => Inv'
  <2> SUFFICES ASSUME TypeInv, P!KeyInv, P!NoLink, [Next]_vars PROVE P!KeyInv' /\ P!NoLink'
    OBVIOUS
  <2>1. P!TypeInv
    BY DEF TypeInv
  <2>2. CASE [P!Next]_(P!vars)
    BY <2>1, <2>2, Assumed, P!StepKey, P!StepNoLink
  <2>3. CASE UNCHANGED alerts /\ \A w \in Workers : call'[w].step = "idle"
    BY <2>3 DEF P!KeyInv, P!NoLink, P!Keyed
  <2> QED BY <2>2, <2>3, AlertStep
<1>3. Inv => OneLink
  BY DEF P!NoLink, OneLink, P!OneLink
<1> QED
  BY <1>1, <1>2, <1>3, InitType, StepType, CommittedEvidence, PTL DEF Spec
----------------------------------------------------------------------------
(***************************************************************************)
(* What AlertWorkflow promises of its alerts, through exceptions, restarts *)
(* and redelivery.                                                         *)
(***************************************************************************)

(* No analyst moves an alert here.                                         *)
NoTransition == \A w \in Workers : call[w].step # "transition"

LEMMA StepNoTransition ==
    ASSUME TypeInv, NoTransition, [Next]_vars
    PROVE  NoTransition'
<1>0. P!TypeInv
  BY DEF TypeInv
<1>1. ASSUME NEW w \in Workers, call'[w].step # "transition", \A v \in Workers \ {w} : call'[v] = call[v]
      PROVE  NoTransition'
  BY <1>1 DEF NoTransition
<1>2. ASSUME NEW w \in Workers, P!IngestInsert(w) PROVE NoTransition'
  <2>1. call'[w].step = "idle" /\ \A v \in Workers \ {w} : call'[v] = call[v]
    BY <1>0, <1>2, Assumed, P!InsertFacts
  <2> QED BY <1>1, <2>1
<1>3. ASSUME NEW w \in Workers, P!IngestLink(w) PROVE NoTransition'
  <2>1. call'[w].step = "idle" /\ \A v \in Workers \ {w} : call'[v] = call[v]
    BY <1>0, <1>3, Assumed, P!LinkFacts
  <2> QED BY <1>1, <2>1
<1>4. ASSUME NEW w \in Workers, NEW e \in Events, P!IngestRead(w, e) PROVE NoTransition'
  <2>1. call'[w].step \in {"insert", "idle", "link"}
    BY <1>0, <1>4, Assumed, P!ReadFacts
  <2>2. \A v \in Workers \ {w} : call'[v] = call[v]
    <3>1. \/ call' = call
          \/ \E c : call' = [call EXCEPT ![w] = c]
      BY <1>4 DEF P!IngestRead
    <3>2. call \in [Workers -> P!Calls]
      BY <1>0 DEF P!TypeInv, P!TypeOK
    <3> QED BY <3>1, <3>2
  <2> QED BY <1>1, <2>1, <2>2
<1>5. ASSUME NEW w \in Workers, P!Abandon(w) PROVE NoTransition'
  <2>1. call' = [call EXCEPT ![w] = P!Idle] /\ P!Idle.step = "idle" /\ call \in [Workers -> P!Calls]
    BY <1>0, <1>5, SameIdle DEF P!Abandon, P!TypeInv, P!TypeOK
  <2> QED BY <2>1 DEF NoTransition
<1>6. CASE [P!Next]_(P!vars)
  <2>1. ASSUME NEW w \in Workers PROVE ~P!TransitionWrite(w)
    BY DEF P!TransitionWrite, NoTransition
  <2>2. ASSUME UNCHANGED call PROVE NoTransition'
    BY <2>2 DEF NoTransition
  <2> QED
    BY <1>2, <1>3, <1>4, <1>5, <1>6, <2>1, <2>2
       DEF P!Next, P!Step, P!TransitionRead, P!Detect, P!Tick, P!vars
<1>7. CASE \A w \in Workers : call'[w].step = "idle"
  BY <1>7 DEF NoTransition
<1> QED BY <1>6, <1>7, AlertStep

(* The count of an alert is that of its detections.                        *)
THEOREM CountSurvivesRestarts == Spec => []P!CountTellsDetections
<1>1. Init => P!CountInv
  BY AlertInit, Assumed, P!InitCounted DEF Init
<1>2. TypeInv /\ P!CountInv /\ [Next]_vars => P!CountInv'
  <2> SUFFICES ASSUME TypeInv, P!CountInv, [Next]_vars PROVE P!CountInv'
    OBVIOUS
  <2>1. CASE [P!Next]_(P!vars)
    BY <2>1, Assumed, P!StepCounted
  <2>2. CASE UNCHANGED alerts /\ \A w \in Workers : call'[w].step = "idle"
    <3>1. P!TypeInv'
      BY StepType DEF TypeInv
    <3> QED BY <2>2, <3>1 DEF P!CountInv, P!Counted
  <2> QED BY <2>1, <2>2, AlertStep
<1>3. P!CountInv => P!CountTellsDetections
  BY DEF P!CountInv, P!Counted, P!CountTellsDetections
<1> QED
  BY <1>1, <1>2, <1>3, InitType, StepType, PTL DEF Spec

(* Redelivered or replayed, an event opens no second alert of its key      *)
(* while nothing is older than the window: for that, two calls must be     *)
(* about to open one.                                                      *)
THEOREM OneActiveUnlessOpenedTwice ==
    Spec /\ []P!OneInsert => [](clock <= Window => P!OneActive)
<1> DEFINE Inv == P!Times /\ P!MoveInv /\ P!ActiveInv /\ NoTransition
<1>1. Init => Inv
  <2>1. Init => P!Init
    BY AlertInit DEF Init
  <2>2. P!Init => NoTransition
    BY SameIdle DEF P!Init, NoTransition
  <2> QED BY <2>1, <2>2, Assumed, P!InitRaces
<1>2. TypeInv /\ Inv /\ P!OneInsert /\ [Next]_vars => Inv'
  <2> SUFFICES ASSUME TypeInv, P!Times, P!MoveInv, P!ActiveInv, NoTransition, P!OneInsert, [Next]_vars
               PROVE  Inv'
    OBVIOUS
  <2>0. P!TypeInv /\ P!OneTransition /\ NoTransition'
    BY StepNoTransition DEF TypeInv, NoTransition, P!OneTransition
  <2>1. CASE [P!Next]_(P!vars)
    <3>1. P!Times'
      BY <2>0, <2>1, Assumed, P!StepTimes
    <3>2. P!MoveInv'
      BY <2>0, <2>1, Assumed, P!StepMove
    <3>3. P!ActiveInv'
      BY <2>0, <2>1, Assumed, P!StepActive
    <3> QED BY <2>0, <3>1, <3>2, <3>3
  <2>2. CASE UNCHANGED <<alerts, detectedAt, clock>> /\ \A w \in Workers : call'[w].step = "idle"
    BY <2>0, <2>2 DEF P!Times, P!MoveInv, P!ActiveInv, P!OneActive, P!IsActive
  <2> QED BY <2>1, <2>2, AlertStep
<1>3. Inv => (clock <= Window => P!OneActive)
  BY DEF P!ActiveInv
<1> QED
  BY <1>1, <1>2, <1>3, InitType, StepType, PTL DEF Spec

(* The consumer alone opens one alert of a key, however often it restarts  *)
(* and is delivered the same events again.                                 *)
COROLLARY OneActiveThroughRedelivery ==
    ASSUME Replayers = {}
    PROVE  Spec => [](clock <= Window => P!OneActive)
<1>1. P!OneInsert
  <2>1. \A s, t \in Workers : s = t
    BY DEF Workers
  <2> QED BY <2>1 DEF P!OneInsert
<1> QED
  BY <1>1, OneActiveUnlessOpenedTwice, PTL
=============================================================================
