----------------------- MODULE WazuhForwarder_proofs -----------------------
(***************************************************************************)
(* Theorems about WazuhForwarder, for any alerts, batch size, number of    *)
(* handlers at work and number of faults.                                  *)
(***************************************************************************)
EXTENDS WazuhForwarder, SequenceTheorems, TLAPS

Steps == {"idle", "admit", "ingest", "accepted", "refused"}
Call == [pc : Steps, sequence : Nat, batch : SUBSET Alerts, todo : SUBSET Alerts]

(* The alerts a batch may have.                                            *)
Passing == {a \in Raised : Passes(a)}

(* What the handlers have done so far: one has the row lock, a batch that  *)
(* it accepts is the next one, and what is not left to do is evidence.     *)
HandlersInv ==
    /\ \A h \in Handlers :
         /\ handlers[h].todo \subseteq handlers[h].batch
         /\ handlers[h].batch \subseteq Passing
         /\ handlers[h].pc = "admit" => handlers[h].todo = handlers[h].batch
         /\ handlers[h].pc = "ingest" =>
              /\ status = "active" /\ handlers[h].sequence = Len(batches) + 1
              /\ handlers[h].batch \ handlers[h].todo \subseteq evidence
         /\ handlers[h].pc = "accepted" =>
              /\ handlers[h].sequence \in DOMAIN batches
              /\ handlers[h].batch \subseteq evidence
    /\ \A h, k \in Handlers : handlers[h].pc = "ingest" /\ handlers[k].pc = "ingest" => h = k

(* What the forwarder knows: the handler it waits for has its batch, and   *)
(* what it may release is evidence.                                        *)
ClientInv ==
    /\ client.pc = "sent" =>
         /\ client.handler \in Handlers
         /\ handlers[client.handler].pc # "idle"
         /\ handlers[client.handler].batch = client.batch
         /\ handlers[client.handler].sequence = client.sequence
    /\ client.pc = "release" =>
         /\ client.sequence \in DOMAIN batches
         /\ client.batch \subseteq evidence
    /\ client.pc # "idle" /\ mode = "tail" =>
         /\ client.upto >= offset
         /\ client.batch = Accepted(client.upto)

(* What was not raised is nowhere, and what passes is held or evidence.    *)
AlertsInv ==
    /\ pending \subseteq Passing /\ evidence \subseteq Passing
    /\ \A n \in DOMAIN batches : batches[n] \subseteq evidence
    /\ \A a \in Raised : Passes(a) => a \in Held \cup evidence

Inv == TypeOK /\ HandlersInv /\ ClientInv /\ AlertsInv
----------------------------------------------------------------------------
(***************************************************************************)
(* One more alert: the lines there were stay where they are.               *)
(***************************************************************************)
LEMMA RaiseFacts ==
    ASSUME TypeOK, NEW a \in Alerts, source' = Append(source, a), UNCHANGED offset
    PROVE  /\ source' \in Seq(Alerts) /\ Len(source') = Len(source) + 1
           /\ Raised' = Raised \cup {a}
           /\ Unread' = Unread \cup {a}
           /\ \A u \in 0 .. Len(source) : Accepted(u)' = Accepted(u)
<1>1. source \in Seq(Alerts) /\ Len(source) \in Nat /\ offset \in 0 .. Len(source)
  BY DEF TypeOK
<1>2. /\ source' \in Seq(Alerts) /\ Len(source') = Len(source) + 1
      /\ DOMAIN source = 1 .. Len(source) /\ DOMAIN source' = 1 .. Len(source) + 1
      /\ \A i \in 1 .. Len(source) : source'[i] = source[i]
      /\ source'[Len(source) + 1] = a
  BY <1>1, AppendProperties
<1>3. Raised' = Raised \cup {a}
  BY <1>1, <1>2 DEF Raised
<1>4. Unread' = Unread \cup {a}
  BY <1>1, <1>2 DEF Unread
<1>5. ASSUME NEW u \in 0 .. Len(source) PROVE Accepted(u)' = Accepted(u)
  BY <1>1, <1>2 DEF Accepted, Passes
<1> QED
  BY <1>2, <1>3, <1>4, <1>5

(***************************************************************************)
(* The call of one handler changes.                                        *)
(***************************************************************************)
LEMMA SetHandler ==
    ASSUME TypeOK, NEW h \in Handlers, NEW c \in Call, handlers' = [handlers EXCEPT ![h] = c]
    PROVE  /\ handlers' \in [Handlers -> Call]
           /\ handlers'[h] = c
           /\ \A k \in Handlers \ {h} : handlers'[k] = handlers[k]
  BY DEF TypeOK, Call, Steps

LEMMA SetPc ==
    ASSUME TypeOK, NEW h \in Handlers, NEW p \in Steps, handlers' = [handlers EXCEPT ![h].pc = p]
    PROVE  /\ handlers' \in [Handlers -> Call]
           /\ handlers'[h].pc = p
           /\ handlers'[h].sequence = handlers[h].sequence
           /\ handlers'[h].batch = handlers[h].batch
           /\ handlers'[h].todo = handlers[h].todo
           /\ \A k \in Handlers \ {h} : handlers'[k] = handlers[k]
<1> DEFINE c == [handlers[h] EXCEPT !.pc = p]
<1>1. handlers[h] \in Call
  BY DEF TypeOK, Call, Steps
<1>2. /\ c \in Call /\ c.pc = p /\ c.sequence = handlers[h].sequence
      /\ c.batch = handlers[h].batch /\ c.todo = handlers[h].todo
  BY <1>1 DEF Call
<1>3. handlers' = [handlers EXCEPT ![h] = c]
  OBVIOUS
<1> HIDE DEF c
<1> QED
  BY <1>2, <1>3, SetHandler
----------------------------------------------------------------------------
LEMMA InitInv == Init => Inv
<1> SUFFICES ASSUME Init PROVE Inv
  OBVIOUS
<1> USE DEF Init
<1>1. TypeOK
  BY ForwarderAssumption DEF TypeOK, Idle, NoCall
<1>2. HandlersInv
  BY DEF HandlersInv, NoCall
<1>3. ClientInv
  BY DEF ClientInv, Idle
<1>4. AlertsInv
  BY DEF AlertsInv, Raised
<1> QED
  BY <1>1, <1>2, <1>3, <1>4 DEF Inv

LEMMA RaiseInv ==
    ASSUME Inv, NEW a \in Alerts, Raise(a)
    PROVE  Inv'
<1>1. /\ source' = Append(source, a)
      /\ pending' = IF mode = "spool" /\ Passes(a) THEN pending \cup {a} ELSE pending
      /\ UNCHANGED <<mode, offset, sequence, client, handlers, server, faults>>
  BY DEF Raise
<1>2. /\ source' \in Seq(Alerts) /\ Len(source') = Len(source) + 1
      /\ Raised' = Raised \cup {a} /\ Unread' = Unread \cup {a}
      /\ \A u \in 0 .. Len(source) : Accepted(u)' = Accepted(u)
  BY <1>1, RaiseFacts DEF Inv
<1>3. Len(source) \in Nat
  BY DEF Inv, TypeOK
<1>4. TypeOK'
  BY <1>1, <1>2, <1>3 DEF Inv, TypeOK, server
<1>5. Passing \subseteq Passing' /\ (Passes(a) => a \in Passing')
  BY <1>2 DEF Passing, Passes
<1>6. HandlersInv'
  BY <1>1, <1>5 DEF Inv, HandlersInv, server
<1>7. ClientInv'
  <2>1. client.upto \in 0 .. Len(source)
    BY DEF Inv, TypeOK
  <2> QED BY <1>1, <1>2, <2>1 DEF Inv, ClientInv, server
<1>8. AlertsInv'
  <2>1. pending' \subseteq Passing' /\ evidence' \subseteq Passing'
    BY <1>1, <1>5 DEF Inv, AlertsInv, server
  <2>2. Held \subseteq Held' /\ (Passes(a) => a \in Held')
    BY <1>1, <1>2 DEF Held, Passes
  <2>3. \A b \in Raised' : Passes(b)' => b \in Held' \cup evidence'
    BY <1>1, <1>2, <2>2 DEF Inv, AlertsInv, server, Passes
  <2> QED BY <1>1, <2>1, <2>3 DEF Inv, AlertsInv, server
<1> QED
  BY <1>4, <1>6, <1>7, <1>8 DEF Inv

(***************************************************************************)
(* A call of the forwarder reaches an idle handler.                        *)
(***************************************************************************)
LEMMA DeliverInv ==
    ASSUME Inv, client = Idle, NEW h \in Handlers, NEW batch \in SUBSET Passing,
           NEW upto \in 0 .. Len(source), Deliver(h, batch, upto),
           mode = "tail" => upto >= offset /\ batch = Accepted(upto),
           UNCHANGED <<mode, disk, server, faults>>
    PROVE  Inv'
<1> DEFINE c == [pc |-> "admit", sequence |-> sequence, batch |-> batch, todo |-> batch]
<1>1. Passing \subseteq Alerts /\ sequence \in Nat
  BY DEF Inv, TypeOK, Passing, Raised
<1>2. c \in Call
  BY <1>1 DEF Call, Steps
<1>3. /\ handlers[h].pc = "idle" /\ handlers' = [handlers EXCEPT ![h] = c]
      /\ client' = [pc |-> "sent", sequence |-> sequence, batch |-> batch,
                    upto |-> upto, handler |-> h]
  BY DEF Deliver
<1>4. /\ handlers' \in [Handlers -> Call] /\ handlers'[h] = c
      /\ \A k \in Handlers \ {h} : handlers'[k] = handlers[k]
  BY <1>2, <1>3, SetHandler DEF Inv
<1>5. Passing' = Passing /\ Held' = Held /\ Raised' = Raised
      /\ \A u \in 0 .. Len(source) : Accepted(u)' = Accepted(u)
  BY DEF Passing, Raised, Held, Unread, Accepted, Passes, disk
<1>6. TypeOK'
  BY <1>1, <1>3, <1>4 DEF Inv, TypeOK, Call, Steps, disk, server
<1>7. HandlersInv'
  BY <1>4, <1>5 DEF Inv, HandlersInv, server
<1>8. ClientInv'
  BY <1>3, <1>4, <1>5 DEF ClientInv, disk
<1>9. AlertsInv'
  BY <1>5 DEF Inv, AlertsInv, disk, server, Passes
<1> QED
  BY <1>6, <1>7, <1>8, <1>9 DEF Inv

LEMMA TailBeginInv ==
    ASSUME Inv, NEW h \in Handlers, TailBegin(h)
    PROVE  Inv'
<1>1. PICK upto \in offset .. Len(source) : Deliver(h, Accepted(upto), upto)
  BY DEF TailBegin
<1>2. offset \in Nat /\ Len(source) \in Nat /\ DOMAIN source = 1 .. Len(source)
  BY DEF Inv, TypeOK
<1>3. Accepted(upto) \subseteq Passing
  BY <1>2 DEF Accepted, Passing, Raised
<1> QED
  BY <1>1, <1>2, <1>3, DeliverInv DEF TailBegin

LEMMA DrainBeginInv ==
    ASSUME Inv, NEW h \in Handlers, DrainBegin(h)
    PROVE  Inv'
<1> DEFINE batch == {a \in pending : Cardinality({b \in pending : b < a}) < BatchSize}
<1>1. /\ Deliver(h, batch, 0) /\ mode = "spool" /\ client = Idle
      /\ UNCHANGED <<mode, disk, server, faults>>
  BY DEF DrainBegin
<1>2. batch \subseteq Passing /\ 0 \in 0 .. Len(source)
  BY DEF Inv, AlertsInv, TypeOK
<1> HIDE DEF batch
<1> QED
  BY <1>1, <1>2, DeliverInv

LEMMA TailSkipInv ==
    ASSUME Inv, TailSkip
    PROVE  Inv'
<1>1. /\ client = Idle /\ mode = "tail" /\ offset' = Len(source)
      /\ \A i \in offset + 1 .. Len(source) : KindOf[source[i]] = "filtered"
      /\ UNCHANGED <<mode, source, pending, sequence, client, handlers, server, faults>>
  BY DEF TailSkip
<1>2. offset \in 0 .. Len(source) /\ Len(source) \in Nat
  BY DEF Inv, TypeOK
<1>3. Passing' = Passing /\ Raised' = Raised
  BY <1>1 DEF Passing, Raised, Passes
<1>4. Held = {} /\ Held' = {}
  BY <1>1, <1>2 DEF Held, Unread, Passes
<1>5. TypeOK'
  BY <1>1, <1>2 DEF Inv, TypeOK, server
<1>6. HandlersInv'
  BY <1>1, <1>3 DEF Inv, HandlersInv, server
<1>7. ClientInv'
  BY <1>1 DEF ClientInv, Idle
<1>8. AlertsInv'
  BY <1>1, <1>3, <1>4 DEF Inv, AlertsInv, server, Passes
<1> QED
  BY <1>5, <1>6, <1>7, <1>8 DEF Inv
----------------------------------------------------------------------------
(***************************************************************************)
(* A step of the server alone does not change what the forwarder has.      *)
(***************************************************************************)
LEMMA SameDisk ==
    ASSUME UNCHANGED <<mode, disk>>
    PROVE  /\ Passing' = Passing /\ Held' = Held /\ Raised' = Raised
           /\ \A u \in Nat : Accepted(u)' = Accepted(u)
  BY DEF Passing, Raised, Held, Unread, Accepted, Passes, disk

LEMMA AdmitInv ==
    ASSUME Inv, NEW h \in Handlers, Admit(h)
    PROVE  Inv'
<1> DEFINE p == IF status = "active" /\ handlers[h].sequence = Len(batches) + 1
                  THEN "ingest" ELSE "refused"
<1>1. /\ handlers[h].pc = "admit" /\ ~Locked
      /\ handlers' = [handlers EXCEPT ![h].pc = p]
      /\ UNCHANGED <<mode, disk, client, server, faults>>
  BY DEF Admit
<1>2. p \in {"ingest", "refused"}
      /\ (p = "ingest" => status = "active" /\ handlers[h].sequence = Len(batches) + 1)
  OBVIOUS
<1> HIDE DEF p
<1>3. p \in Steps
  BY <1>2 DEF Steps
<1>4. /\ handlers' \in [Handlers -> Call]
      /\ handlers'[h].pc = p
      /\ handlers'[h].sequence = handlers[h].sequence
      /\ handlers'[h].batch = handlers[h].batch
      /\ handlers'[h].todo = handlers[h].todo
      /\ \A k \in Handlers \ {h} : handlers'[k] = handlers[k]
  BY <1>1, <1>3, SetPc DEF Inv
<1>5. TypeOK'
  BY <1>1, <1>4 DEF Inv, TypeOK, Call, Steps, disk, server
<1>6. HandlersInv'
  BY <1>1, <1>2, <1>4, SameDisk DEF Inv, HandlersInv, Locked, server
<1>7. ClientInv'
  BY <1>1, <1>2, <1>4, SameDisk DEF Inv, ClientInv, TypeOK, disk, server
<1>8. AlertsInv'
  BY <1>1, SameDisk DEF Inv, AlertsInv, Passes, disk, server
<1> QED
  BY <1>5, <1>6, <1>7, <1>8 DEF Inv

(***************************************************************************)
(* A handler refuses the batch, or fails: what it ingested stays.          *)
(***************************************************************************)
LEMMA RefusedInv ==
    ASSUME Inv, NEW h \in Handlers, handlers[h].pc \in {"admit", "ingest"},
           handlers' = [handlers EXCEPT ![h].pc = "refused"],
           UNCHANGED <<mode, disk, client, server>>, faults' \in 0 .. MaxFaults
    PROVE  Inv'
<1>1. /\ handlers' \in [Handlers -> Call]
      /\ handlers'[h].pc = "refused"
      /\ handlers'[h].sequence = handlers[h].sequence
      /\ handlers'[h].batch = handlers[h].batch
      /\ handlers'[h].todo = handlers[h].todo
      /\ \A k \in Handlers \ {h} : handlers'[k] = handlers[k]
  BY SetPc DEF Inv, Steps
<1>2. TypeOK'
  BY <1>1 DEF Inv, TypeOK, Call, Steps, disk, server
<1>3. HandlersInv'
  BY <1>1, SameDisk DEF Inv, HandlersInv, server
<1>4. ClientInv'
  BY <1>1, SameDisk DEF Inv, ClientInv, TypeOK, disk, server
<1>5. AlertsInv'
  BY SameDisk DEF Inv, AlertsInv, Passes, disk, server
<1> QED
  BY <1>2, <1>3, <1>4, <1>5 DEF Inv

LEMMA IngestAlertInv ==
    ASSUME Inv, NEW h \in Handlers, IngestAlert(h)
    PROVE  Inv'
<1>1. PICK a \in handlers[h].todo :
        IF KindOf[a] = "refused"
          THEN /\ handlers' = [handlers EXCEPT ![h].pc = "refused"]
               /\ UNCHANGED evidence
          ELSE /\ handlers' = [handlers EXCEPT ![h].todo = @ \ {a}]
               /\ evidence' = evidence \cup {a}
  BY DEF IngestAlert
<1>2. handlers[h].pc = "ingest" /\ UNCHANGED <<mode, disk, client, status, batches, faults>>
  BY DEF IngestAlert
<1>3. handlers[h] \in Call /\ a \in Passing /\ Passing \subseteq Alerts
  BY DEF Inv, TypeOK, Call, Steps, HandlersInv, Passing, Raised
<1>4. CASE KindOf[a] = "refused"
  <2>1. handlers' = [handlers EXCEPT ![h].pc = "refused"] /\ UNCHANGED server
    BY <1>1, <1>2, <1>4 DEF server
  <2>2. faults' \in 0 .. MaxFaults
    BY <1>2 DEF Inv, TypeOK
  <2> QED BY <1>2, <2>1, <2>2, RefusedInv
<1>5. CASE KindOf[a] # "refused"
  <2> DEFINE c == [handlers[h] EXCEPT !.todo = @ \ {a}]
  <2>1. /\ c \in Call /\ c.pc = "ingest" /\ c.sequence = handlers[h].sequence
        /\ c.batch = handlers[h].batch /\ c.todo = handlers[h].todo \ {a}
    BY <1>2, <1>3 DEF Call
  <2>2. handlers' = [handlers EXCEPT ![h] = c] /\ evidence' = evidence \cup {a}
    BY <1>1, <1>5
  <2> HIDE DEF c
  <2>3. /\ handlers' \in [Handlers -> Call] /\ handlers'[h] = c
        /\ \A k \in Handlers \ {h} : handlers'[k] = handlers[k]
    BY <2>1, <2>2, SetHandler DEF Inv
  <2>4. TypeOK'
    BY <1>2, <1>3, <2>2, <2>3 DEF Inv, TypeOK, Call, Steps, disk
  <2>5. HandlersInv'
    BY <1>2, <2>1, <2>2, <2>3, SameDisk DEF Inv, HandlersInv
  <2>6. ClientInv'
    BY <1>2, <2>1, <2>2, <2>3, SameDisk DEF Inv, ClientInv, TypeOK, disk
  <2>7. AlertsInv'
    BY <1>2, <1>3, <2>2, SameDisk DEF Inv, AlertsInv, Passes, disk
  <2> QED BY <2>4, <2>5, <2>6, <2>7 DEF Inv
<1> QED
  BY <1>4, <1>5

LEMMA RecordInv ==
    ASSUME Inv, NEW h \in Handlers, Record(h)
    PROVE  Inv'
<1>1. /\ handlers[h].pc = "ingest" /\ handlers[h].todo = {}
      /\ batches' = Append(batches, handlers[h].batch)
      /\ handlers' = [handlers EXCEPT ![h].pc = "accepted"]
      /\ UNCHANGED <<mode, disk, client, status, evidence, faults>>
  BY DEF Record
<1>2. /\ handlers' \in [Handlers -> Call]
      /\ handlers'[h].pc = "accepted"
      /\ handlers'[h].sequence = handlers[h].sequence
      /\ handlers'[h].batch = handlers[h].batch
      /\ handlers'[h].todo = handlers[h].todo
      /\ \A k \in Handlers \ {h} : handlers'[k] = handlers[k]
  BY <1>1, SetPc DEF Inv, Steps
<1>3. batches \in Seq(SUBSET Alerts) /\ handlers[h].batch \in SUBSET Alerts /\ Len(batches) \in Nat
  BY DEF Inv, TypeOK
<1>4. /\ batches' \in Seq(SUBSET Alerts) /\ Len(batches') = Len(batches) + 1
      /\ DOMAIN batches = 1 .. Len(batches) /\ DOMAIN batches' = 1 .. Len(batches) + 1
      /\ \A n \in 1 .. Len(batches) : batches'[n] = batches[n]
      /\ batches'[Len(batches) + 1] = handlers[h].batch
  BY <1>1, <1>3, AppendProperties
<1>5. handlers[h].sequence = Len(batches) + 1 /\ handlers[h].batch \subseteq evidence
  BY <1>1 DEF Inv, HandlersInv
<1>6. TypeOK'
  <2>1. sequence \in 1 .. Len(batches') + 1
    BY <1>3, <1>4 DEF Inv, TypeOK
  <2> QED BY <1>1, <1>2, <1>4, <2>1 DEF Inv, TypeOK, Call, Steps, disk
<1>7. HandlersInv'
  BY <1>1, <1>2, <1>3, <1>4, <1>5, SameDisk DEF Inv, HandlersInv
<1>8. ClientInv'
  BY <1>1, <1>2, <1>3, <1>4, SameDisk DEF Inv, ClientInv, TypeOK, disk
<1>9. AlertsInv'
  BY <1>1, <1>3, <1>4, <1>5, SameDisk DEF Inv, AlertsInv, Passes, disk
<1> QED
  BY <1>6, <1>7, <1>8, <1>9 DEF Inv

(***************************************************************************)
(* The answer to the forwarder, if it waits for this one.                  *)
(***************************************************************************)
LEMMA AnswerInv ==
    ASSUME Inv, NEW h \in Handlers, Answer(h)
    PROVE  Inv'
<1>1. /\ handlers[h].pc \in {"accepted", "refused"}
      /\ handlers' = [handlers EXCEPT ![h] = NoCall]
      /\ UNCHANGED <<mode, disk, server, faults>>
  BY DEF Answer
<1>2. NoCall \in Call /\ NoCall.pc = "idle" /\ NoCall.todo = {} /\ NoCall.batch = {}
  BY DEF Call, Steps, NoCall
<1>3. /\ handlers' \in [Handlers -> Call] /\ handlers'[h] = NoCall
      /\ \A k \in Handlers \ {h} : handlers'[k] = handlers[k]
  BY <1>1, <1>2, SetHandler DEF Inv
<1>4. HandlersInv'
  BY <1>1, <1>2, <1>3, SameDisk DEF Inv, HandlersInv, server
<1>5. AlertsInv'
  BY <1>1, SameDisk DEF Inv, AlertsInv, Passes, disk, server
<1>6. Idle.pc = "idle" /\ Idle.upto = 0 /\ Idle.sequence = 0 /\ Idle.batch = {} /\ Idle.handler = None
  BY DEF Idle
<1> DEFINE Client == [pc : {"idle", "sent", "release"}, sequence : Nat, batch : SUBSET Alerts,
                      upto : 0 .. Len(source), handler : Handlers \cup {None}]
<1>7. client \in Client /\ Idle \in Client /\ Len(source) \in Nat
  BY DEF Inv, TypeOK, Idle
<1>8. client' \in Client /\ ClientInv'
  <2>1. CASE client.pc # "sent" \/ client.handler # h
    <3>1. client' = client
      BY <2>1 DEF Answer
    <3>2. ClientInv'
      BY <1>1, <1>3, <2>1, <3>1, SameDisk DEF Inv, ClientInv, TypeOK, disk, server
    <3> QED BY <1>7, <3>1, <3>2
  <2>2. CASE client.pc = "sent" /\ client.handler = h /\ handlers[h].pc = "accepted"
    <3> DEFINE c == [client EXCEPT !.pc = "release", !.handler = None]
    <3>1. client' = c
      BY <2>2 DEF Answer
    <3>2. /\ c \in Client /\ c.pc = "release" /\ c.batch = client.batch
          /\ c.sequence = client.sequence /\ c.upto = client.upto
      BY <1>7
    <3> HIDE DEF c
    <3>3. client.sequence \in DOMAIN batches /\ client.batch \subseteq evidence
      BY <2>2 DEF Inv, HandlersInv, ClientInv
    <3>4. ClientInv'
      BY <1>1, <1>7, <2>2, <3>1, <3>2, <3>3, SameDisk DEF Inv, ClientInv, disk, server
    <3> QED BY <3>1, <3>2, <3>4
  <2>3. CASE client.pc = "sent" /\ client.handler = h /\ handlers[h].pc # "accepted"
    <3>1. client' = Idle
      BY <2>3 DEF Answer
    <3> QED BY <1>6, <1>7, <3>1 DEF ClientInv
  <2> QED BY <2>1, <2>2, <2>3
<1>9. TypeOK'
  BY <1>1, <1>3, <1>8 DEF Inv, TypeOK, Call, Steps, disk, server
<1> QED
  BY <1>4, <1>5, <1>8, <1>9 DEF Inv
----------------------------------------------------------------------------
LEMMA RevokeInv ==
    ASSUME Inv, Revoke
    PROVE  Inv'
<1>1. /\ ~Locked /\ status' = "revoked"
      /\ UNCHANGED <<mode, disk, client, handlers, batches, evidence, faults>>
  BY DEF Revoke
<1>2. TypeOK'
  BY <1>1 DEF Inv, TypeOK, disk
<1>3. HandlersInv'
  BY <1>1, SameDisk DEF Inv, HandlersInv, Locked
<1>4. ClientInv'
  BY <1>1, SameDisk DEF Inv, ClientInv, TypeOK, disk
<1>5. AlertsInv'
  BY <1>1, SameDisk DEF Inv, AlertsInv, Passes, disk
<1> QED
  BY <1>2, <1>3, <1>4, <1>5 DEF Inv

LEMMA UnlinkInv ==
    ASSUME Inv, Unlink
    PROVE  Inv'
<1>1. PICK a \in client.batch : /\ pending' = pending \ {a}
                                /\ client' = [client EXCEPT !.batch = @ \ {a}]
  BY DEF Unlink
<1>2. /\ mode = "spool" /\ client.pc = "release" /\ a \in evidence
      /\ UNCHANGED <<mode, source, offset, sequence, handlers, server, faults>>
  BY <1>1 DEF Unlink, Inv, ClientInv
<1> DEFINE Client == [pc : {"idle", "sent", "release"}, sequence : Nat, batch : SUBSET Alerts,
                      upto : 0 .. Len(source), handler : Handlers \cup {None}]
           c == [client EXCEPT !.batch = @ \ {a}]
<1>3. client \in Client
  BY DEF Inv, TypeOK
<1>4. /\ c \in Client /\ c.pc = "release" /\ c.batch = client.batch \ {a}
      /\ c.sequence = client.sequence
  BY <1>2, <1>3
<1>5. client' = c
  BY <1>1
<1> HIDE DEF c
<1>6. Passing' = Passing /\ Raised' = Raised
  BY <1>2 DEF Passing, Raised, Passes
<1>7. TypeOK'
  BY <1>1, <1>2, <1>4, <1>5 DEF Inv, TypeOK, server
<1>8. HandlersInv'
  BY <1>2, <1>6 DEF Inv, HandlersInv, server
<1>9. ClientInv'
  BY <1>2, <1>4, <1>5 DEF Inv, ClientInv, server
<1>10. AlertsInv'
  <2>1. Held = pending /\ Held' = pending'
    BY <1>2 DEF Held
  <2> QED BY <1>1, <1>2, <1>6, <2>1 DEF Inv, AlertsInv, server, Passes
<1> QED
  BY <1>7, <1>8, <1>9, <1>10 DEF Inv

LEMMA WriteStateInv ==
    ASSUME Inv, WriteState
    PROVE  Inv'
<1>1. /\ client.pc = "release" /\ sequence' = client.sequence + 1 /\ client' = Idle
      /\ offset' = IF mode = "tail" THEN client.upto ELSE offset
      /\ UNCHANGED <<mode, source, pending, handlers, server, faults>>
  BY DEF WriteState
<1>2. /\ client.sequence \in 1 .. Len(batches) /\ client.batch \subseteq evidence
      /\ client.upto \in 0 .. Len(source) /\ offset \in 0 .. Len(source)
      /\ Len(source) \in Nat /\ Len(batches) \in Nat
      /\ mode = "tail" => client.upto >= offset /\ client.batch = Accepted(client.upto)
  BY <1>1 DEF Inv, TypeOK, ClientInv
<1>3. Passing' = Passing /\ Raised' = Raised
  BY <1>1 DEF Passing, Raised, Passes
<1>4. TypeOK'
  BY <1>1, <1>2 DEF Inv, TypeOK, server, Idle
<1>5. HandlersInv'
  BY <1>1, <1>3 DEF Inv, HandlersInv, server
<1>6. ClientInv'
  BY <1>1 DEF ClientInv, Idle
<1>7. Held \subseteq Held' \cup evidence
  <2>1. CASE mode = "spool"
    BY <1>1, <2>1 DEF Held
  <2>2. ASSUME mode # "spool", NEW a \in Held PROVE a \in Held' \cup evidence
    <3>1. mode = "tail" /\ Passes(a)
      BY <2>2 DEF Inv, TypeOK, Modes, Held
    <3>2. PICK i \in offset + 1 .. Len(source) : source[i] = a
      BY <2>2 DEF Held, Unread
    <3>3. CASE i <= client.upto
      <4>1. a \in Accepted(client.upto)
        BY <1>2, <3>1, <3>2, <3>3 DEF Accepted
      <4> QED BY <1>2, <3>1, <4>1
    <3>4. CASE i > client.upto
      <4>1. a \in Unread'
        BY <1>1, <1>2, <3>1, <3>2, <3>4 DEF Unread
      <4> QED BY <1>1, <2>2, <3>1, <4>1 DEF Held, Passes
    <3> QED BY <1>2, <3>2, <3>3, <3>4
  <2> QED BY <2>1, <2>2
<1>8. AlertsInv'
  BY <1>1, <1>3, <1>7 DEF Inv, AlertsInv, server, Passes
<1> QED
  BY <1>4, <1>5, <1>6, <1>8 DEF Inv

LEMMA FaultInv ==
    ASSUME Inv, ClientFails \/ \E h \in Handlers : HandlerFails(h)
    PROVE  Inv'
<1>1. faults < MaxFaults => faults + 1 \in 0 .. MaxFaults
  BY ForwarderAssumption DEF Inv, TypeOK
<1>2. CASE ClientFails
  <2>1. client' = Idle /\ faults' = faults + 1 /\ faults < MaxFaults
        /\ UNCHANGED <<mode, disk, handlers, server>>
    BY <1>2 DEF ClientFails
  <2>2. TypeOK'
    BY <1>1, <2>1 DEF Inv, TypeOK, Idle, disk, server
  <2>3. HandlersInv'
    BY <2>1, SameDisk DEF Inv, HandlersInv, server
  <2>4. ClientInv'
    BY <2>1 DEF ClientInv, Idle
  <2>5. AlertsInv'
    BY <2>1, SameDisk DEF Inv, AlertsInv, Passes, disk, server
  <2> QED BY <2>2, <2>3, <2>4, <2>5 DEF Inv
<1>3. ASSUME NEW h \in Handlers, HandlerFails(h) PROVE Inv'
  BY <1>1, <1>3, RefusedInv DEF HandlerFails
<1> QED
  BY <1>2, <1>3

LEMMA ReconcileInv ==
    ASSUME Inv, Reconcile
    PROVE  Inv'
<1>1. /\ client = Idle /\ sequence' = Len(batches) + 1
      /\ UNCHANGED <<mode, source, pending, offset, client, handlers, server, faults>>
  BY DEF Reconcile
<1>2. Passing' = Passing /\ Raised' = Raised /\ Held' = Held
  BY <1>1 DEF Passing, Raised, Held, Unread, Passes
<1>3. Len(batches) \in Nat
  BY DEF Inv, TypeOK
<1>4. TypeOK'
  BY <1>1, <1>3 DEF Inv, TypeOK, server
<1>5. HandlersInv'
  BY <1>1, <1>2 DEF Inv, HandlersInv, server
<1>6. ClientInv'
  BY <1>1 DEF ClientInv, Idle
<1>7. AlertsInv'
  BY <1>1, <1>2 DEF Inv, AlertsInv, server, Passes
<1> QED
  BY <1>4, <1>5, <1>6, <1>7 DEF Inv

LEMMA StepInv == Inv /\ [Next]_vars => Inv'
<1> SUFFICES ASSUME Inv, [Next]_vars PROVE Inv'
  OBVIOUS
<1>1. CASE UNCHANGED vars
  <2>1. UNCHANGED <<mode, disk, client, handlers, server, faults>>
    BY <1>1 DEF vars
  <2>2. TypeOK'
    BY <2>1 DEF Inv, TypeOK, disk, server
  <2>3. HandlersInv' /\ ClientInv'
    BY <2>1, SameDisk DEF Inv, HandlersInv, ClientInv, TypeOK, disk, server
  <2>4. AlertsInv'
    BY <2>1, SameDisk DEF Inv, AlertsInv, Passes, disk, server
  <2> QED BY <2>2, <2>3, <2>4 DEF Inv
<1>2. CASE Next
  BY <1>2, RaiseInv, TailBeginInv, DrainBeginInv, TailSkipInv, AdmitInv, IngestAlertInv,
     RecordInv, AnswerInv, RevokeInv, UnlinkInv, WriteStateInv, FaultInv, ReconcileInv
     DEF Next, Begin, Release, Handle
<1> QED
  BY <1>1, <1>2
----------------------------------------------------------------------------
(***************************************************************************)
(* The rows, the checkpoint and the calls in flight always have their      *)
(* types: the sequence of the forwarder never runs ahead of PhantomNet's.  *)
(***************************************************************************)
THEOREM TypeCorrect == Spec => []TypeOK
<1>1. Inv => TypeOK
  BY DEF Inv
<1> QED
  BY <1>1, InitInv, StepInv, PTL DEF Spec

(***************************************************************************)
(* No alert that passes the filter is given up before PhantomNet has it,   *)
(* however many answers are lost, processes stop and retries overtake each *)
(* other.                                                                  *)
(***************************************************************************)
THEOREM NothingIsDropped == Spec => []NothingDropped
<1>1. Inv => NothingDropped
  BY DEF Inv, AlertsInv, NothingDropped
<1> QED
  BY <1>1, InitInv, StepInv, PTL DEF Spec

(***************************************************************************)
(* A recorded batch is evidence as a whole.                                *)
(***************************************************************************)
THEOREM RecordedBatches == Spec => []RecordedIsEvidence
<1>1. Inv => RecordedIsEvidence
  BY DEF Inv, AlertsInv, RecordedIsEvidence
<1> QED
  BY <1>1, InitInv, StepInv, PTL DEF Spec

(***************************************************************************)
(* Nothing of a revoked forwarder is ingested or recorded: revoke() waits  *)
(* for the handler that has the row, and later ones are not admitted.      *)
(***************************************************************************)
THEOREM RevokedStays == Spec => RevokedStaysOut
<1>1. Inv /\ [Next]_vars => [status = "revoked" => UNCHANGED <<batches, evidence>>]_vars
  <2> SUFFICES ASSUME Inv, Next, status = "revoked"
               PROVE  UNCHANGED <<batches, evidence>>
    BY DEF vars, server
  <2>1. \A h \in Handlers : handlers[h].pc # "ingest"
    BY DEF Inv, HandlersInv
  <2>2. \A h \in Handlers : ~IngestAlert(h) /\ ~Record(h)
    BY <2>1 DEF IngestAlert, Record
  <2> QED
    BY <2>2 DEF Next, Begin, Release, Handle, Raise, TailBegin, DrainBegin, TailSkip, Admit,
                Answer, Revoke, Unlink, WriteState, ClientFails, HandlerFails, Reconcile, server
<1> QED
  BY <1>1, InitInv, StepInv, PTL DEF Spec, RevokedStaysOut
----------------------------------------------------------------------------
LEMMA InitSimulation == Init => Handoff!Init
  BY DEF Init, Handoff!Init, Held, Unread

(***************************************************************************)
(* Steps that neither raise, ingest nor release are stutters.              *)
(***************************************************************************)
LEMMA Stutters ==
    ASSUME UNCHANGED <<mode, source, pending, offset, evidence>>
    PROVE  UNCHANGED Handoff!vars
  BY DEF Handoff!vars, Held, Unread, Passes

LEMMA RaiseSimulation ==
    ASSUME Inv, NEW a \in Alerts, Raise(a)
    PROVE  [Handoff!Next]_(Handoff!vars)
<1>1. /\ a \notin Raised /\ source' = Append(source, a)
      /\ pending' = IF mode = "spool" /\ Passes(a) THEN pending \cup {a} ELSE pending
      /\ UNCHANGED <<mode, offset, evidence>>
  BY DEF Raise, server
<1>2. Unread' = Unread \cup {a}
  BY <1>1, RaiseFacts DEF Inv
<1>3. a \notin Held \cup evidence
  <2>1. Len(source) \in Nat /\ offset \in Nat /\ DOMAIN source = 1 .. Len(source)
    BY DEF Inv, TypeOK
  <2>2. Unread \subseteq Raised
    BY <2>1 DEF Unread, Raised
  <2> QED BY <1>1, <2>2 DEF Inv, AlertsInv, Held, Passing
<1>4. CASE Passes(a)
  <2>1. Held' = Held \cup {a}
    BY <1>1, <1>2, <1>4 DEF Held, Passes
  <2>2. Handoff!Raise(a)
    BY <1>1, <1>3, <2>1 DEF Handoff!Raise
  <2> QED BY <2>2 DEF Handoff!Next
<1>5. CASE ~Passes(a)
  <2>1. Held' = Held
    BY <1>1, <1>2, <1>5 DEF Held, Passes
  <2> QED BY <1>1, <2>1 DEF Handoff!vars
<1> QED
  BY <1>4, <1>5

LEMMA IngestSimulation ==
    ASSUME Inv, NEW h \in Handlers, IngestAlert(h)
    PROVE  [Handoff!Next]_(Handoff!vars)
<1>1. PICK a \in handlers[h].todo : evidence' = evidence \/ evidence' = evidence \cup {a}
  BY DEF IngestAlert
<1>2. UNCHANGED <<mode, disk>>
  BY DEF IngestAlert
<1>3. a \in Alerts /\ a \in Held \cup evidence
  BY DEF Inv, TypeOK, HandlersInv, AlertsInv, Passing
<1>4. CASE a \in evidence \/ evidence' = evidence
  <2>1. evidence' = evidence
    BY <1>1, <1>4
  <2> QED BY <1>2, <2>1, Stutters DEF disk
<1>5. CASE a \in Held /\ evidence' = evidence \cup {a}
  <2>1. Held' = Held
    BY <1>2, SameDisk
  <2>2. Handoff!Deliver(a)
    BY <1>5, <2>1 DEF Handoff!Deliver
  <2> QED BY <1>3, <2>2 DEF Handoff!Next
<1> QED
  BY <1>1, <1>3, <1>4, <1>5

(***************************************************************************)
(* What no longer is held is evidence, by the invariant.                   *)
(***************************************************************************)
LEMMA ReleaseSimulation ==
    ASSUME Inv, Inv', Unlink \/ WriteState
    PROVE  [Handoff!Next]_(Handoff!vars)
<1>1. UNCHANGED <<mode, source, evidence>>
  BY DEF Unlink, WriteState, server
<1>2. Held' \subseteq Held
  <2>1. CASE mode = "spool"
    BY <1>1, <2>1 DEF Held, Unlink, WriteState
  <2>2. CASE mode # "spool"
    <3>1. client.upto >= offset /\ offset' = client.upto /\ client.upto \in Nat /\ offset \in Nat
      BY <2>2 DEF Inv, ClientInv, TypeOK, Modes, Unlink, WriteState
    <3>2. offset' + 1 .. Len(source') \subseteq offset + 1 .. Len(source)
      <4>1. Len(source) \in Nat /\ Len(source') = Len(source)
        BY <1>1 DEF Inv, TypeOK
      <4> QED BY <3>1, <4>1
    <3>3. Unread' \subseteq Unread
      BY <1>1, <3>2 DEF Unread
    <3> QED BY <1>1, <2>2, <3>3 DEF Held, Passes
  <2> QED BY <2>1, <2>2
<1> DEFINE S == Held \ Held'
<1>3. S \subseteq Held \cap evidence /\ Held' = Held \ S /\ S \subseteq Alerts
  <2>1. Held \subseteq Passing /\ Passing \subseteq Alerts
    <3>1. Len(source) \in Nat /\ offset \in Nat /\ DOMAIN source = 1 .. Len(source)
      BY DEF Inv, TypeOK
    <3>2. Unread \subseteq Raised
      BY <3>1 DEF Unread, Raised
    <3>3. Raised \subseteq Alerts
      BY DEF Inv, TypeOK, Raised
    <3> QED BY <3>2, <3>3 DEF Inv, AlertsInv, Held, Passing
  <2>2. \A a \in Raised : Passes(a) => a \in Held' \cup evidence
    BY <1>1 DEF Inv, AlertsInv, Raised, Passes
  <2> QED BY <1>2, <2>1, <2>2 DEF Passing
<1> HIDE DEF S
<1>4. Handoff!Release(S)
  BY <1>1, <1>3 DEF Handoff!Release
<1> QED
  BY <1>3, <1>4 DEF Handoff!Next

LEMMA TailSkipSimulation ==
    ASSUME Inv, TailSkip
    PROVE  [Handoff!Next]_(Handoff!vars)
<1>1. Held = {} /\ Held' = {}
  <2>1. offset \in 0 .. Len(source) /\ Len(source) \in Nat
    BY DEF Inv, TypeOK
  <2> QED BY <2>1 DEF TailSkip, Held, Unread, Passes
<1> QED
  BY <1>1 DEF TailSkip, Handoff!vars, server

LEMMA Simulation ==
    ASSUME Inv, Inv', [Next]_vars
    PROVE  [Handoff!Next]_(Handoff!vars)
<1>1. CASE \E a \in Alerts : Raise(a)
  BY <1>1, RaiseSimulation
<1>2. CASE \E h \in Handlers : IngestAlert(h)
  BY <1>2, IngestSimulation
<1>3. CASE Release
  BY <1>3, ReleaseSimulation DEF Release
<1>4. CASE TailSkip
  BY <1>4, TailSkipSimulation
<1>5. CASE \/ \E h \in Handlers : \/ TailBegin(h) \/ DrainBegin(h) \/ Admit(h) \/ Record(h)
                                  \/ Answer(h) \/ HandlerFails(h)
           \/ Revoke \/ ClientFails \/ Reconcile \/ UNCHANGED vars
  <2>1. UNCHANGED <<mode, source, pending, offset, evidence>>
    BY <1>5 DEF TailBegin, DrainBegin, Admit, Record, Answer, HandlerFails, Revoke,
                ClientFails, Reconcile, vars, disk, server
  <2> QED BY <2>1, Stutters
<1> QED
  BY <1>1, <1>2, <1>3, <1>4, <1>5 DEF Next, Begin, Handle

(***************************************************************************)
(* The forwarder and stream_batch() together implement the handoff, in     *)
(* either mode.                                                            *)
(***************************************************************************)
THEOREM ForwarderKeepsHandoff == Spec => KeepsHandoff
  BY InitInv, StepInv, InitSimulation, Simulation, PTL DEF Spec, KeepsHandoff, Handoff!Spec
=============================================================================
