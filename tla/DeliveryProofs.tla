--------------------------- MODULE DeliveryProofs ---------------------------
(***************************************************************************)
(* What TLAPS proves about Delivery, for every number of replicas, events, *)
(* attempts, deliveries and crashes, every cap and batch size, and every   *)
(* set of failures.                                                        *)
(***************************************************************************)
EXTENDS Delivery, TLAPS

----------------------------------------------------------------------------
(* Types. *)

LEMMA AttemptsType ==
  \A p : Attempts(p) \in Nat \ {0} /\ (p \notin {"rate", "insert"} => Attempts(p) = 1)
  BY DeliveryAssumption DEF DeliveryAssumption, Attempts

LEMMA InitTypeOK == Init => TypeOK
  <1> SUFFICES ASSUME Init PROVE TypeOK
    OBVIOUS
  <1>1. StreamTypeOK
    <2>1. entries \in Seq(Event) /\ Len(entries) = 0
      BY DEF Init, StreamInit
    <2>2. Len(entries) <= MaxPublished
      BY <2>1, StreamAssumption DEF StreamAssumption
    <2>3. trimmed \in 0..Len(entries) /\ last_delivered \in 0..Len(entries)
      BY <2>1 DEF Init, StreamInit
    <2>4. /\ pel \in SUBSET (1..last_delivered)
          /\ times_delivered \in [MsgId -> Nat]
          /\ dlq \in SUBSET [msg : 1..last_delivered, reason : Reason]
          /\ group \in BOOLEAN
      BY DEF Init, StreamInit
    <2> QED
      BY <2>1, <2>2, <2>3, <2>4 DEF StreamTypeOK
  <1>2. TaskTypeOK
    BY DEF Init, StreamInit, TaskTypeOK, Phase, Idle, Attempts, NoCounts, NoWhy, Reason
  <1> QED
    BY <1>1, <1>2, DeliveryAssumption DEF Init, TypeOK, DeliveryAssumption

\* A task that enters a new phase on its first try is within that phase's budget.
LEMMA FirstTry ==
  ASSUME TaskTypeOK, NEW t \in Task, NEW phase,
         pc' = [pc EXCEPT ![t] = phase],
         tries' = [tries EXCEPT ![t] = 1]
  PROVE  \A s \in Task : tries'[s] <= Attempts(pc'[s])
  <1> SUFFICES ASSUME NEW s \in Task PROVE tries'[s] <= Attempts(pc'[s])
    OBVIOUS
  <1>1. CASE s = t
    <2>1. tries'[s] = 1 /\ Attempts(pc'[s]) \in Nat \ {0}
      BY <1>1, AttemptsType DEF TaskTypeOK
    <2> QED
      BY <2>1
  <1>2. CASE s # t
    BY <1>2 DEF TaskTypeOK
  <1> QED
    BY <1>1, <1>2

\* Going on with the next message of a batch keeps the tasks well typed.
LEMMA StartOnType ==
  ASSUME TypeOK, NEW t \in Task, NEW ids \in SUBSET (1..last_delivered'),
         last_delivered \in Nat, last_delivered' \in Nat, last_delivered <= last_delivered',
         delivery_count' \in [Task -> [MsgId -> Nat]],
         StartOn(t, ids)
  PROVE  TaskTypeOK'
  <1>1. batch' \in [Task -> SUBSET (1..last_delivered')]
    BY DEF TypeOK, TaskTypeOK, StartOn
  <1>2. pc' \in [Task -> Phase]
    BY DEF TypeOK, TaskTypeOK, StartOn, Phase, Idle
  <1>3. tries' \in [Task -> Nat \ {0}]
    BY DEF TypeOK, TaskTypeOK, StartOn
  <1>4. \A s \in Task : tries'[s] <= Attempts(pc'[s])
    BY FirstTry DEF TypeOK, StartOn
  <1>5. why' \in [Task -> Reason]
    BY DEF TypeOK, TaskTypeOK, StartOn, NoWhy, Reason
  <1> QED
    BY <1>1, <1>2, <1>3, <1>4, <1>5 DEF TaskTypeOK

LEMMA FinishType ==
  ASSUME TypeOK, NEW t \in Task, NEW m \in MsgId, UNCHANGED last_delivered, Finish(t, m)
  PROVE  TaskTypeOK'
  <1>1. delivery_count' \in [Task -> [MsgId -> Nat]]
    BY DEF TypeOK, TaskTypeOK, Finish
  <1>2. last_delivered \in Nat
    BY DEF TypeOK, StreamTypeOK
  <1>3. batch[t] \ {m} \in SUBSET (1..last_delivered')
    BY DEF TypeOK, TaskTypeOK
  <1> QED
    BY <1>1, <1>2, <1>3, StartOnType DEF Finish

LEMMA DeadLetterType ==
  ASSUME TypeOK, NEW t \in Task, NEW reason \in Reason, UNCHANGED last_delivered,
         DeadLetter(t, reason)
  PROVE  TaskTypeOK'
  <1>1. \A s \in Task : tries'[s] <= Attempts(pc'[s])
    BY FirstTry DEF TypeOK, DeadLetter
  <1> QED
    BY <1>1 DEF TypeOK, TaskTypeOK, DeadLetter, Phase

LEMMA GiveUpType ==
  ASSUME TypeOK, NEW t \in Task, NEW m \in MsgId, UNCHANGED last_delivered, GiveUp(t, m)
  PROVE  TaskTypeOK'
  BY FinishType, DeadLetterType DEF GiveUp, Reason

LEMMA TransientType ==
  ASSUME TypeOK, NEW t \in Task, NEW m \in MsgId, NEW attempts \in Nat,
         attempts = Attempts(pc[t]), UNCHANGED last_delivered, Transient(t, m, attempts)
  PROVE  TaskTypeOK'
  <1>1. CASE tries[t] < attempts
    <2>1. /\ tries' = [tries EXCEPT ![t] = @ + 1]
          /\ UNCHANGED <<pc, batch, delivery_count, why>>
      BY <1>1 DEF Transient
    <2>2. tries' \in [Task -> Nat \ {0}]
      BY <2>1 DEF TypeOK, TaskTypeOK
    <2>3. \A s \in Task : tries'[s] <= Attempts(pc'[s])
      BY <2>1, <1>1 DEF TypeOK, TaskTypeOK
    <2> QED
      BY <2>1, <2>2, <2>3 DEF TypeOK, TaskTypeOK
  <1>2. CASE ~ (tries[t] < attempts)
    BY <1>2, GiveUpType DEF Transient
  <1> QED
    BY <1>1, <1>2

\* Tasks that are not touched stay well typed while the stream moves on.
LEMMA TaskTypeStable ==
  ASSUME TypeOK, UNCHANGED taskVars, last_delivered \in Nat, last_delivered' \in Nat,
         last_delivered <= last_delivered'
  PROVE  TaskTypeOK'
  BY DEF TypeOK, TaskTypeOK, taskVars

----------------------------------------------------------------------------
(* The commands keep the stream well typed. *)

LEMMA XAddType ==
  ASSUME StreamTypeOK, NEW e \in Event, XAdd(e)
  PROVE  StreamTypeOK' /\ UNCHANGED last_delivered
  <1>1. /\ entries' \in Seq(Event) /\ Len(entries') = Len(entries) + 1
        /\ Len(entries) \in Nat /\ Len(entries') <= MaxPublished
    BY StreamAssumption DEF StreamTypeOK, XAdd, StreamAssumption
  <1>2. trimmed' \in 0..Len(entries')
    BY <1>1 DEF StreamTypeOK, XAdd
  <1> QED
    BY <1>1, <1>2 DEF StreamTypeOK, XAdd, groupVars

LEMMA XGroupCreateType ==
  ASSUME StreamTypeOK, XGroupCreate
  PROVE  StreamTypeOK' /\ UNCHANGED last_delivered
  BY DEF StreamTypeOK, XGroupCreate

LEMMA XReadGroupType ==
  ASSUME StreamTypeOK, NEW ids \in SUBSET MsgId, XReadGroup(ids)
  PROVE  /\ StreamTypeOK'
         /\ ids \subseteq last_delivered+1 .. last_delivered'
         /\ last_delivered < last_delivered'
  <1>1. Len(entries) \in Nat /\ trimmed \in Nat /\ last_delivered \in Nat
    BY DEF StreamTypeOK
  <1>2. ids \subseteq last_delivered+1 .. Len(entries)
    BY <1>1, StreamAssumption DEF XReadGroup, Undelivered, StreamAssumption
  <1>3. last_delivered' \in last_delivered+1 .. Len(entries) /\ \A m \in ids : m <= last_delivered'
    BY <1>2 DEF XReadGroup
  <1>4. ids \subseteq last_delivered+1 .. last_delivered'
    BY <1>1, <1>2, <1>3
  <1>5. times_delivered' \in [MsgId -> Nat]
    BY DEF XReadGroup, StreamTypeOK
  <1>6. pel' \in SUBSET (1..last_delivered')
    BY <1>1, <1>3, <1>4 DEF XReadGroup, StreamTypeOK
  <1>7. dlq' \in SUBSET [msg : 1..last_delivered', reason : Reason]
    BY <1>1, <1>3 DEF XReadGroup, StreamTypeOK
  <1> QED
    BY <1>1, <1>3, <1>4, <1>5, <1>6, <1>7 DEF XReadGroup, StreamTypeOK

LEMMA XAutoClaimType ==
  ASSUME StreamTypeOK, NEW reply \in SUBSET pel, NEW ids \in SUBSET pel, XAutoClaim(reply, ids)
  PROVE  StreamTypeOK' /\ UNCHANGED last_delivered
  BY DEF StreamTypeOK, XAutoClaim

LEMMA XAckType ==
  ASSUME StreamTypeOK, NEW m \in MsgId, XAck(m)
  PROVE  StreamTypeOK' /\ UNCHANGED last_delivered
  BY DEF StreamTypeOK, XAck

LEMMA XAddDlqType ==
  ASSUME StreamTypeOK, NEW m \in 1..last_delivered, NEW reason \in Reason, XAddDlq(m, reason)
  PROVE  StreamTypeOK' /\ UNCHANGED last_delivered
  BY DEF StreamTypeOK, XAddDlq, groupVars

----------------------------------------------------------------------------
(* Type correctness. *)

LEMMA InsertType ==
  ASSUME TypeOK, NEW m \in 1..last_delivered
  PROVE  Insert(m) \in SUBSET Row
  <1>1. m \in MsgId /\ KeyOf(m) \in EventId
    BY DeliveryAssumption, StreamAssumption
    DEF DeliveryAssumption, StreamAssumption, TypeOK, StreamTypeOK, KeyOf, MsgId
  <1> QED
    BY <1>1 DEF TypeOK, Insert, Row

LEMMA CurrentInBatch ==
  ASSUME TypeOK, NEW t \in Task, NEW m, Current(t, m)
  PROVE  m \in batch[t] /\ m \in 1..last_delivered
  BY DEF TypeOK, TaskTypeOK, Current, First, Unparseable

\* One step per handler: each keeps stream, tasks, table and processes well typed.
LEMMA NextTypeOK == TypeOK /\ [Next]_vars => TypeOK'
  <1> SUFFICES ASSUME TypeOK, [Next]_vars PROVE TypeOK'
    OBVIOUS
  <1> USE DEF TypeOK
  <1>0. last_delivered \in Nat
    BY DEF StreamTypeOK
  <1>1. ASSUME NEW e \in Event, Publish(e) PROVE TypeOK'
    BY <1>0, <1>1, XAddType, TaskTypeStable DEF Publish
  <1>2. ASSUME NEW w \in Worker, Boot(w) PROVE TypeOK'
    BY <1>0, <1>2, XGroupCreateType, TaskTypeStable DEF Boot
  <1>3. ASSUME NEW w \in Worker, Crash(w) PROVE TypeOK'
    <2>1. StreamTypeOK'
      BY <1>3 DEF Crash, StreamTypeOK, streamVars
    <2>2. /\ pc' \in [Task -> Phase]
          /\ batch' \in [Task -> SUBSET (1..last_delivered')]
          /\ delivery_count' \in [Task -> [MsgId -> Nat]]
          /\ tries' \in [Task -> Nat \ {0}]
          /\ why' \in [Task -> Reason]
      BY <1>3 DEF Crash, TaskTypeOK, Phase, NoCounts, NoWhy, Reason, streamVars
    <2>3. \A t \in Task : tries'[t] <= Attempts(pc'[t])
      BY <1>3, AttemptsType DEF Crash, TaskTypeOK
    <2>4. crashes' \in 0..MaxCrashes
      BY <1>3, DeliveryAssumption DEF Crash, DeliveryAssumption
    <2> QED
      BY <1>3, <2>1, <2>2, <2>3, <2>4 DEF Crash, TaskTypeOK
  <1>4. ASSUME NEW t \in Task, Read(t) PROVE TypeOK'
    <2>1. PICK ids \in SUBSET MsgId :
            /\ XReadGroup(ids)
            /\ StartOn(t, ids)
            /\ delivery_count' =
                 [delivery_count EXCEPT ![t] = [m \in MsgId |-> IF m \in ids THEN 1 ELSE 0]]
      BY <1>4 DEF Read
    <2>2. /\ StreamTypeOK'
          /\ ids \subseteq last_delivered+1 .. last_delivered'
          /\ last_delivered < last_delivered'
      BY <2>1, XReadGroupType
    <2>3. last_delivered' \in Nat /\ ids \in SUBSET (1..last_delivered')
      BY <1>0, <2>2 DEF StreamTypeOK
    <2>4. delivery_count' \in [Task -> [MsgId -> Nat]]
      BY <2>1 DEF TaskTypeOK
    <2>5. TaskTypeOK'
      BY <1>0, <2>1, <2>2, <2>3, <2>4, StartOnType
    <2> QED
      BY <1>4, <2>2, <2>5 DEF Read
  <1>5. ASSUME NEW t \in Task, Claim(t) PROVE TypeOK'
    <2>1. PICK reply \in SUBSET pel, ids \in SUBSET pel :
            /\ XAutoClaim(reply, ids)
            /\ batch' = [batch EXCEPT ![t] = ids]
            /\ pc' = [pc EXCEPT ![t] = IF ids = {} THEN Idle ELSE "lookup"]
      BY <1>5 DEF Claim
    <2>2. StreamTypeOK' /\ UNCHANGED last_delivered
      BY <2>1, XAutoClaimType
    <2>3. /\ ids \in SUBSET (1..last_delivered)
          /\ pc' \in [Task -> Phase]
          /\ UNCHANGED <<delivery_count, tries, why>>
      BY <1>5, <2>1 DEF StreamTypeOK, TaskTypeOK, Phase, Idle, Claim
    <2>4. \A s \in Task : tries'[s] <= Attempts(pc'[s])
      <3>1. tries[t] = 1
        <4>1. Attempts(pc[t]) = 1
          BY <1>5, AttemptsType DEF Claim, At, Idle
        <4> QED
          BY <4>1 DEF TaskTypeOK
      <3>2. tries' = [tries EXCEPT ![t] = 1]
        BY <2>3, <3>1 DEF TaskTypeOK
      <3> QED
        BY <2>1, <3>2, FirstTry
    <2> QED
      BY <1>5, <2>1, <2>2, <2>3, <2>4 DEF Claim, TaskTypeOK
  <1>6. ASSUME NEW t \in Task, NEW m \in MsgId, Lookup(t, m) PROVE TypeOK'
    <2>1. StreamTypeOK' /\ UNCHANGED last_delivered
      BY <1>6 DEF Lookup, streamVars, StreamTypeOK
    <2>2. delivery_count' \in [Task -> [MsgId -> Nat]]
      BY <1>6 DEF Lookup, TaskTypeOK, StreamTypeOK, TimesDelivered
    <2>3. TaskTypeOK'
      <3>1. CASE StartOn(t, batch[t])
        <4>1. batch[t] \in SUBSET (1..last_delivered')
          BY <2>1 DEF TaskTypeOK
        <4> QED
          BY <1>0, <2>1, <2>2, <3>1, <4>1, StartOnType
      <3>2. CASE UNCHANGED <<pc, batch, tries, why>>
        BY <2>1, <2>2, <3>2 DEF TaskTypeOK
      <3> QED
        BY <1>6, <3>1, <3>2 DEF Lookup
    <2> QED
      BY <1>6, <2>1, <2>3 DEF Lookup
  <1>7. ASSUME NEW t \in Task, NEW m \in MsgId, GetRate(t, m) PROVE TypeOK'
    <2>1. StreamTypeOK' /\ UNCHANGED <<last_delivered, rows, up, crashes>>
      BY <1>7 DEF GetRate, streamVars, StreamTypeOK
    <2>2. TaskTypeOK'
      <3>1. CASE /\ pc' = [pc EXCEPT ![t] = "insert"]
                 /\ tries' = [tries EXCEPT ![t] = 1]
                 /\ UNCHANGED <<batch, delivery_count, why>>
        BY <2>1, <3>1, AttemptsType DEF TaskTypeOK, Phase
      <3>2. CASE DeadLetter(t, "permanent") \/ DeadLetter(t, "unexpected")
        BY <2>1, <3>2, DeadLetterType DEF Reason
      <3>3. CASE Transient(t, m, RateAttempts)
        <4>1. RateAttempts = Attempts(pc[t]) /\ RateAttempts \in Nat
          BY <1>7, DeliveryAssumption DEF GetRate, At, Attempts, DeliveryAssumption
        <4> QED
          BY <2>1, <3>3, <4>1, TransientType
      <3> QED
        BY <1>7, <3>1, <3>2, <3>3 DEF GetRate
    <2> QED
      BY <2>1, <2>2
  <1>8. ASSUME NEW t \in Task, NEW m \in MsgId, Store(t, m) PROVE TypeOK'
    <2>1. StreamTypeOK' /\ UNCHANGED <<last_delivered, up, crashes>>
      BY <1>8 DEF Store, streamVars, StreamTypeOK
    <2>2. rows' \in SUBSET Row
      <3>1. Insert(m) \in SUBSET Row
        BY <1>8, CurrentInBatch, InsertType DEF Store
      <3> QED
        BY <1>8, <3>1 DEF Store
    <2>3. TaskTypeOK'
      <3>1. CASE /\ pc' = [pc EXCEPT ![t] = "ack"]
                 /\ tries' = [tries EXCEPT ![t] = 1]
                 /\ UNCHANGED <<batch, delivery_count, why>>
        BY <2>1, <3>1, AttemptsType DEF TaskTypeOK, Phase
      <3>2. CASE DeadLetter(t, "unexpected")
        BY <2>1, <3>2, DeadLetterType DEF Reason
      <3>3. CASE Transient(t, m, DbAttempts)
        <4>1. DbAttempts = Attempts(pc[t]) /\ DbAttempts \in Nat
          BY <1>8, DeliveryAssumption DEF Store, At, Attempts, DeliveryAssumption
        <4> QED
          BY <2>1, <3>3, <4>1, TransientType
      <3> QED
        BY <1>8, <3>1, <3>2, <3>3 DEF Store
    <2> QED
      BY <2>1, <2>2, <2>3
  <1>9. ASSUME NEW t \in Task, NEW m \in MsgId, Ack(t, m) \/ DlqAck(t, m) PROVE TypeOK'
    <2>1. StreamTypeOK' /\ UNCHANGED last_delivered
      BY <1>9, XAckType DEF Ack, DlqAck
    <2> QED
      BY <1>9, <2>1, FinishType DEF Ack, DlqAck
  <1>10. ASSUME NEW t \in Task, NEW m \in MsgId, AckRaises(t, m) PROVE TypeOK'
    <2>1. StreamTypeOK' /\ UNCHANGED last_delivered
      <3>1. CASE XAck(m)
        BY <3>1, XAckType
      <3>2. CASE UNCHANGED streamVars
        BY <3>2 DEF streamVars, StreamTypeOK
      <3> QED
        BY <1>10, <3>1, <3>2 DEF AckRaises
    <2> QED
      BY <1>10, <2>1, DeadLetterType DEF AckRaises, Reason
  <1>11. ASSUME NEW t \in Task, NEW m \in MsgId, DlqAdd(t, m) PROVE TypeOK'
    <2>1. StreamTypeOK' /\ UNCHANGED last_delivered
      BY <1>11, CurrentInBatch, XAddDlqType DEF DlqAdd, TaskTypeOK
    <2>2. TaskTypeOK'
      <3>1. tries[t] = 1
        <4>1. Attempts(pc[t]) = 1
          BY <1>11, AttemptsType DEF DlqAdd, At
        <4> QED
          BY <4>1 DEF TaskTypeOK
      <3>2. tries' = [tries EXCEPT ![t] = 1]
        BY <1>11, <3>1 DEF DlqAdd, TaskTypeOK
      <3>3. \A s \in Task : tries'[s] <= Attempts(pc'[s])
        BY <1>11, <3>2, FirstTry DEF DlqAdd
      <3> QED
        BY <1>11, <2>1, <3>3 DEF DlqAdd, TaskTypeOK, Phase
    <2> QED
      BY <1>11, <2>1, <2>2 DEF DlqAdd
  <1>12. CASE UNCHANGED vars
    BY <1>0, <1>12, TaskTypeStable DEF vars, streamVars, StreamTypeOK
  <1> QED
    BY <1>1, <1>2, <1>3, <1>4, <1>5, <1>6, <1>7, <1>8, <1>9, <1>10, <1>11, <1>12
    DEF Next, TaskStep

\* Every value stays in its type, and no call of the rate service or the database
\* is attempted more often than rate_attempts or db_attempts.
THEOREM TypeCorrect == Spec => []TypeOK
  BY InitTypeOK, NextTypeOK, PTL DEF Spec

----------------------------------------------------------------------------
(* What no step undoes. *)

\* Rows, dead letters, evictions, entries and deliveries only ever accumulate.
LEMMA Accumulates ==
  ASSUME TypeOK, [Next]_vars
  PROVE  /\ rows \subseteq rows'
         /\ dlq \subseteq dlq'
         /\ trimmed <= trimmed'
         /\ Len(entries) <= Len(entries')
         /\ \A m \in 1..Len(entries) : entries'[m] = entries[m]
         /\ last_delivered <= last_delivered'
         /\ \A m \in 1..last_delivered : times_delivered[m] <= times_delivered'[m]
  <1> USE DEF TypeOK, StreamTypeOK
  <1>0. /\ Len(entries) \in Nat /\ trimmed \in Nat /\ last_delivered \in Nat
        /\ last_delivered <= Len(entries)
        /\ \A m \in 1..last_delivered : m \in MsgId /\ times_delivered[m] \in Nat
    BY StreamAssumption DEF StreamAssumption, MsgId
  <1>1. ASSUME NEW e \in Event, Publish(e)
        PROVE  /\ UNCHANGED <<rows, dlq, last_delivered, times_delivered>>
               /\ trimmed <= trimmed'
               /\ Len(entries) <= Len(entries')
               /\ \A m \in 1..Len(entries) : entries'[m] = entries[m]
    <2>1. entries' = Append(entries, e) /\ trimmed' \in trimmed .. Len(entries) + 1
      BY <1>1 DEF Publish, XAdd
    <2> QED
      BY <1>0, <1>1, <2>1 DEF Publish, XAdd, groupVars
  <1>2. ASSUME NEW w \in Worker, Boot(w) \/ Crash(w)
        PROVE  UNCHANGED <<rows, dlq, trimmed, entries, last_delivered, times_delivered>>
    BY <1>2 DEF Boot, Crash, XGroupCreate, streamVars
  <1>3. ASSUME NEW t \in Task, Read(t)
        PROVE  /\ UNCHANGED <<rows, dlq, trimmed, entries>>
               /\ last_delivered <= last_delivered'
               /\ \A m \in 1..last_delivered : times_delivered'[m] = times_delivered[m]
    <2>1. PICK ids \in SUBSET MsgId : XReadGroup(ids)
      BY <1>3 DEF Read
    <2>2. /\ ids \subseteq last_delivered+1 .. last_delivered'
          /\ last_delivered < last_delivered' /\ last_delivered' \in Nat
      BY <2>1, XReadGroupType
    <2>3. \A m \in 1..last_delivered : m \notin ids
      BY <1>0, <2>2
    <2> QED
      BY <1>0, <1>3, <2>1, <2>2, <2>3 DEF Read, XReadGroup
  <1>4. ASSUME NEW t \in Task, Claim(t)
        PROVE  /\ UNCHANGED <<rows, dlq, trimmed, entries, last_delivered>>
               /\ \A m \in 1..last_delivered : times_delivered[m] <= times_delivered'[m]
    <2>1. PICK reply \in SUBSET pel, ids \in SUBSET pel : XAutoClaim(reply, ids)
      BY <1>4 DEF Claim
    <2> QED
      BY <1>0, <1>4, <2>1 DEF Claim, XAutoClaim
  <1>5. ASSUME NEW t \in Task, NEW m \in MsgId,
               Lookup(t, m) \/ GetRate(t, m) \/ Ack(t, m) \/ DlqAck(t, m) \/ AckRaises(t, m)
        PROVE  UNCHANGED <<rows, dlq, trimmed, entries, last_delivered, times_delivered>>
    BY <1>5 DEF Lookup, GetRate, Ack, DlqAck, AckRaises, XAck, streamVars
  <1>6. ASSUME NEW t \in Task, NEW m \in MsgId, Store(t, m)
        PROVE  /\ UNCHANGED <<dlq, trimmed, entries, last_delivered, times_delivered>>
               /\ rows \subseteq rows'
    BY <1>6 DEF Store, Insert, streamVars
  <1>7. ASSUME NEW t \in Task, NEW m \in MsgId, DlqAdd(t, m)
        PROVE  /\ UNCHANGED <<rows, trimmed, entries, last_delivered, times_delivered>>
               /\ dlq \subseteq dlq'
    BY <1>7 DEF DlqAdd, XAddDlq, groupVars
  <1>8. CASE UNCHANGED vars
    BY <1>0, <1>8 DEF vars, streamVars
  <1> QED
    BY <1>0, <1>1, <1>2, <1>3, <1>4, <1>5, <1>6, <1>7, <1>8 DEF Next, TaskStep

\* A message of a batch is one Redis has delivered, and its counts are numbers.
LEMMA HeldIsKnown ==
  ASSUME TypeOK, NEW t \in Task, NEW m \in batch[t]
  PROVE  /\ m \in 1..last_delivered
         /\ m \in MsgId
         /\ delivery_count[t][m] \in Nat
         /\ MaxDeliveries \in Nat
  <1>1. m \in 1..last_delivered
    BY DEF TypeOK, TaskTypeOK
  <1>2. last_delivered \in 0..Len(entries) /\ Len(entries) <= MaxPublished /\ entries \in Seq(Event)
    BY DEF TypeOK, StreamTypeOK
  <1>3. Len(entries) \in Nat /\ MaxPublished \in Nat
    BY <1>2, StreamAssumption DEF StreamAssumption
  <1>4. m \in MsgId
    BY <1>1, <1>2, <1>3 DEF MsgId
  <1>5. delivery_count[t][m] \in Nat
    BY <1>4 DEF TypeOK, TaskTypeOK
  <1> QED
    BY <1>1, <1>4, <1>5, DeliveryAssumption DEF DeliveryAssumption

\* What was known of a delivered message stays known.
LEMMA StaysKnown ==
  ASSUME TypeOK, [Next]_vars, NEW m \in 1..last_delivered
  PROVE  /\ KindOf(m)' = KindOf(m)
         /\ KeyOf(m)' = KeyOf(m)
         /\ IsStored(m) => IsStored(m)'
         /\ IsParked(m) => IsParked(m)'
         /\ m \in 1..last_delivered'
         /\ times_delivered[m] <= times_delivered'[m]
         /\ times_delivered[m] \in Nat /\ times_delivered'[m] \in Nat
  <1>1. TypeOK'
    BY NextTypeOK
  <1>2. m \in 1..Len(entries) /\ m \in MsgId /\ last_delivered' \in Nat
    BY <1>1, StreamAssumption DEF TypeOK, StreamTypeOK, StreamAssumption, MsgId
  <1>3. KindOf(m)' = KindOf(m) /\ KeyOf(m)' = KeyOf(m)
    BY <1>2, Accumulates DEF KindOf, KeyOf
  <1>4. IsStored(m) => IsStored(m)'
    BY <1>3, Accumulates DEF IsStored
  <1>5. IsParked(m) => IsParked(m)'
    BY Accumulates DEF IsParked
  <1>6. m \in 1..last_delivered' /\ times_delivered[m] <= times_delivered'[m]
    BY <1>2, Accumulates DEF TypeOK, StreamTypeOK
  <1>7. times_delivered[m] \in Nat /\ times_delivered'[m] \in Nat
    BY <1>1, <1>2 DEF TypeOK, StreamTypeOK
  <1> QED
    BY <1>3, <1>4, <1>5, <1>6, <1>7

\* A task whose batch a step leaves alone works on the same message after it.
LEMMA CurrentStable ==
  ASSUME TypeOK, [Next]_vars, NEW t \in Task, batch'[t] = batch[t], NEW m
  PROVE  Current(t, m)' <=> Current(t, m)
  <1>1. batch[t] \subseteq 1..last_delivered
    BY DEF TypeOK, TaskTypeOK
  <1>2. Unparseable(batch[t])' = Unparseable(batch[t])
    <2>1. \A n \in batch[t] : KindOf(n)' = KindOf(n)
      BY <1>1, StaysKnown
    <2> QED
      BY <2>1 DEF Unparseable
  <1> QED
    BY <1>2 DEF Current, First

----------------------------------------------------------------------------
(* What the tasks have established. *)

\* A step of another task, or of the API, takes nothing from what t has established.
LEMMA UntouchedKeeps ==
  ASSUME TypeOK, [Next]_vars, NEW t \in Task, NEW m \in batch[t], Established(t, m),
         pc'[t] = pc[t], batch'[t] = batch[t], why'[t] = why[t],
         delivery_count'[t] = delivery_count[t]
  PROVE  Established(t, m)'
  <1>1. m \in 1..last_delivered
    BY DEF TypeOK, TaskTypeOK
  <1>2. m \in MsgId /\ delivery_count[t][m] \in Nat /\ MaxDeliveries \in Nat
    BY HeldIsKnown
  <1>3. Current(t, m)' <=> Current(t, m)
    BY CurrentStable
  <1> QED
    BY <1>1, <1>2, <1>3, StaysKnown DEF Established

\* So does t itself when it only forgets, on its way to the next message.
LEMMA StartOnEstablishes ==
  ASSUME TypeOK, TypeOK', NEW t \in Task, NEW ids \in SUBSET (1..last_delivered'),
         StartOn(t, ids), NEW m \in ids,
         KindOf(m)' = KindOf(m),
         times_delivered'[m] >= 1, delivery_count'[t][m] <= times_delivered'[m]
  PROVE  Established(t, m)'
  <1>1. batch'[t] = ids /\ why'[t] = NoWhy
    BY DEF StartOn, TypeOK, TaskTypeOK
  <1>2. pc'[t] = IF Unparseable(ids) # {} THEN "dlq_add" ELSE "rate"
    BY DEF StartOn, TypeOK, TaskTypeOK
  <1>3. pc'[t] = "rate" => KindOf(m)' # "unparseable"
    BY <1>2 DEF Unparseable
  <1> QED
    BY <1>1, <1>2, <1>3 DEF Established, NoWhy

LEMMA FinishEstablishes ==
  ASSUME TypeOK, [Next]_vars, NEW t \in Task, NEW n \in MsgId, Finish(t, n),
         \A m \in batch[t] : Established(t, m), NEW m \in batch'[t]
  PROVE  Established(t, m)'
  <1>1. TypeOK' /\ batch'[t] = batch[t] \ {n}
    BY NextTypeOK DEF Finish, StartOn, TypeOK, TaskTypeOK
  <1>2. m \in batch[t] /\ m # n /\ batch[t] \subseteq 1..last_delivered
    BY <1>1 DEF TypeOK, TaskTypeOK
  <1>3. \A k \in batch[t] : KindOf(k)' = KindOf(k)
    BY <1>2, StaysKnown
  <1>4. batch[t] \ {n} \in SUBSET (1..last_delivered') /\ m \in batch[t] \ {n}
    BY <1>1, <1>2 DEF TypeOK, TaskTypeOK
  <1>5. m \in MsgId /\ delivery_count[t][m] \in Nat
    BY <1>2, HeldIsKnown
  <1>6. delivery_count'[t][m] = delivery_count[t][m]
    BY <1>2, <1>5 DEF Finish, TypeOK, TaskTypeOK
  <1>7. times_delivered'[m] >= 1 /\ delivery_count'[t][m] <= times_delivered'[m]
    BY <1>2, <1>5, <1>6, StaysKnown DEF Established
  <1> QED
    BY <1>1, <1>2, <1>3, <1>4, <1>7, StartOnEstablishes DEF Finish

LEMMA DeadLetterEstablishes ==
  ASSUME TypeOK, [Next]_vars, NEW t \in Task, NEW reason \in Reason, DeadLetter(t, reason),
         \A m \in batch[t] : Established(t, m), NEW m \in batch'[t],
         reason = "exhausted" /\ Current(t, m) => delivery_count[t][m] >= MaxDeliveries
  PROVE  Established(t, m)'
  <1>1. pc'[t] = "dlq_add" /\ why'[t] = reason /\ batch'[t] = batch[t]
        /\ delivery_count'[t] = delivery_count[t]
    BY DEF DeadLetter, TypeOK, TaskTypeOK
  <1>2. m \in batch[t] /\ m \in 1..last_delivered
    BY <1>1 DEF TypeOK, TaskTypeOK
  <1>3. m \in MsgId /\ delivery_count[t][m] \in Nat /\ MaxDeliveries \in Nat
    BY <1>2, HeldIsKnown
  <1>4. Current(t, m)' <=> Current(t, m)
    BY <1>1, CurrentStable
  <1> QED
    BY <1>1, <1>2, <1>3, <1>4, StaysKnown DEF Established

LEMMA GiveUpEstablishes ==
  ASSUME TypeOK, [Next]_vars, NEW t \in Task, NEW n \in MsgId, Current(t, n), GiveUp(t, n),
         \A m \in batch[t] : Established(t, m), NEW m \in batch'[t]
  PROVE  Established(t, m)'
  <1>1. CASE delivery_count[t][n] >= MaxDeliveries
    <2>1. DeadLetter(t, "exhausted") /\ "exhausted" \in Reason
      BY <1>1 DEF GiveUp, Reason
    <2>2. Current(t, m) => m = n
      <3>1. m \in batch[t]
        BY <2>1 DEF DeadLetter
      <3>2. batch[t] \subseteq Nat
        BY DEF TypeOK, TaskTypeOK, StreamTypeOK
      <3> QED
        BY <3>1, <3>2 DEF Current, First, Unparseable
    <2> QED
      BY <1>1, <2>1, <2>2, DeadLetterEstablishes
  <1>2. CASE ~ (delivery_count[t][n] >= MaxDeliveries)
    BY <1>2, FinishEstablishes DEF GiveUp
  <1> QED
    BY <1>1, <1>2

LEMMA TransientEstablishes ==
  ASSUME TypeOK, [Next]_vars, NEW t \in Task, NEW n \in MsgId, NEW attempts, Current(t, n),
         Transient(t, n, attempts),
         \A m \in batch[t] : Established(t, m), NEW m \in batch'[t]
  PROVE  Established(t, m)'
  BY UntouchedKeeps, GiveUpEstablishes DEF Transient

\* A step of t touches no other task.
LEMMA OneTaskMoves ==
  ASSUME TypeOK, NEW t \in Task, TaskStep(t), NEW s \in Task \ {t}
  PROVE  /\ pc'[s] = pc[s] /\ batch'[s] = batch[s] /\ why'[s] = why[s]
         /\ delivery_count'[s] = delivery_count[s]
  <1> DEFINE Same == /\ pc'[s] = pc[s] /\ batch'[s] = batch[s] /\ why'[s] = why[s]
                     /\ delivery_count'[s] = delivery_count[s]
  <1> USE DEF TypeOK, TaskTypeOK
  <1>1. CASE Read(t)
    BY <1>1 DEF Read, StartOn
  <1>2. CASE Claim(t)
    BY <1>2 DEF Claim
  <1>3. ASSUME NEW m \in MsgId, Finish(t, m) PROVE Same
    BY <1>3 DEF Finish, StartOn
  <1>4. ASSUME NEW reason, DeadLetter(t, reason) PROVE Same
    BY <1>4 DEF DeadLetter
  <1>5. ASSUME NEW m \in MsgId, NEW attempts, Transient(t, m, attempts) PROVE Same
    BY <1>3, <1>4, <1>5 DEF Transient, GiveUp
  <1>6. ASSUME NEW m \in MsgId, Lookup(t, m) PROVE Same
    BY <1>6 DEF Lookup, StartOn
  <1>7. ASSUME NEW m \in MsgId, GetRate(t, m) PROVE Same
    BY <1>4, <1>5, <1>7 DEF GetRate
  <1>8. ASSUME NEW m \in MsgId, Store(t, m) PROVE Same
    BY <1>4, <1>5, <1>8 DEF Store
  <1>9. ASSUME NEW m \in MsgId,
               Ack(t, m) \/ AckRaises(t, m) \/ DlqAdd(t, m) \/ DlqAck(t, m)
        PROVE  Same
    BY <1>3, <1>4, <1>9 DEF Ack, AckRaises, DlqAdd, DlqAck
  <1> QED
    BY <1>1, <1>2, <1>6, <1>7, <1>8, <1>9 DEF TaskStep

\* One step per handler: a task forgets what it has finished with.
LEMMA NextTidy ==
  ASSUME TypeOK, \A t \in Task : Tidy(t), [Next]_vars, NEW s \in Task
  PROVE  Tidy(s)'
  <1> USE DEF TypeOK, TaskTypeOK, Tidy
  <1>1. CASE /\ pc'[s] = pc[s] /\ batch'[s] = batch[s] /\ why'[s] = why[s]
             /\ delivery_count'[s] = delivery_count[s]
    BY <1>1
  <1>2. ASSUME NEW w \in Worker, Crash(w) PROVE Tidy(s)'
    BY <1>2 DEF Crash, NoCounts
  <1>3. ASSUME NEW ids, StartOn(s, ids), \A n \in MsgId \ ids : delivery_count'[s][n] = 0
        PROVE  Tidy(s)'
    BY <1>3 DEF StartOn, Idle, Unparseable
  <1>4. ASSUME NEW n \in MsgId, Finish(s, n) PROVE Tidy(s)'
    BY <1>3, <1>4 DEF Finish
  <1>5. ASSUME NEW reason, DeadLetter(s, reason) PROVE Tidy(s)'
    BY <1>5 DEF DeadLetter, Idle
  <1>6. ASSUME NEW n \in MsgId, NEW attempts, Transient(s, n, attempts) PROVE Tidy(s)'
    BY <1>1, <1>4, <1>5, <1>6 DEF Transient, GiveUp
  <1>7. CASE Read(s)
    BY <1>3, <1>7 DEF Read
  <1>8. CASE Claim(s)
    BY <1>8 DEF Claim, At, Idle
  <1>9. ASSUME NEW n \in MsgId, Lookup(s, n) PROVE Tidy(s)'
    <2>1. n \in batch[s]
      BY <1>9 DEF Lookup, First
    <2>2. \A k \in MsgId \ batch[s] : delivery_count'[s][k] = 0
      BY <1>9, <2>1 DEF Lookup
    <2>3. CASE StartOn(s, batch[s])
      BY <1>3, <2>2, <2>3
    <2>4. CASE UNCHANGED <<pc, batch, tries, why>>
      BY <2>2, <2>4
    <2> QED
      BY <1>9, <2>3, <2>4 DEF Lookup
  <1>10. ASSUME NEW n \in MsgId, GetRate(s, n) PROVE Tidy(s)'
    BY <1>5, <1>6, <1>10 DEF GetRate, Idle
  <1>11. ASSUME NEW n \in MsgId, Store(s, n) PROVE Tidy(s)'
    BY <1>5, <1>6, <1>11 DEF Store, Idle
  <1>12. ASSUME NEW n \in MsgId, Ack(s, n) \/ AckRaises(s, n) \/ DlqAdd(s, n) \/ DlqAck(s, n)
         PROVE  Tidy(s)'
    BY <1>4, <1>5, <1>12 DEF Ack, AckRaises, DlqAdd, DlqAck, Idle
  <1>13. CASE TaskStep(s)
    BY <1>7, <1>8, <1>9, <1>10, <1>11, <1>12, <1>13 DEF TaskStep
  <1>14. ASSUME NEW t \in Task, t # s, TaskStep(t) PROVE Tidy(s)'
    BY <1>1, <1>14, OneTaskMoves
  <1>15. CASE (\E e \in Event : Publish(e)) \/ (\E w \in Worker : Boot(w)) \/ UNCHANGED vars
    BY <1>1, <1>15 DEF Publish, Boot, taskVars, vars
  <1> QED
    BY <1>2, <1>13, <1>14, <1>15 DEF Next

\* One step per handler: it establishes what the next phase of its task relies on.
LEMMA NextEstablishes ==
  ASSUME IInv, [Next]_vars, NEW s \in Task, NEW m \in batch'[s]
  PROVE  Established(s, m)'
  <1>0. /\ TypeOK /\ TypeOK' /\ last_delivered \in Nat /\ last_delivered' \in Nat
        /\ \A t \in Task : \A n \in batch[t] : Established(t, n)
        /\ \A t \in Task : batch[t] \subseteq 1..last_delivered
        /\ 1..last_delivered \subseteq MsgId
    <2>1. TypeOK /\ TypeOK' /\ \A t \in Task : \A n \in batch[t] : Established(t, n)
      BY NextTypeOK DEF IInv
    <2>2. last_delivered \in Nat /\ last_delivered' \in Nat
      BY <2>1 DEF TypeOK, StreamTypeOK
    <2>3. \A t \in Task : batch[t] \subseteq 1..last_delivered
      BY <2>1 DEF TypeOK, TaskTypeOK
    <2>4. 1..last_delivered \subseteq MsgId
      BY <2>1, StreamAssumption DEF TypeOK, StreamTypeOK, StreamAssumption, MsgId
    <2> QED
      BY <2>1, <2>2, <2>3, <2>4
  <1>types. TypeOK /\ TypeOK'
    BY <1>0
  <1>1. CASE /\ pc'[s] = pc[s] /\ batch'[s] = batch[s] /\ why'[s] = why[s]
             /\ delivery_count'[s] = delivery_count[s]
    BY <1>0, <1>1, UntouchedKeeps
  <1>2. ASSUME NEW w \in Worker, Crash(w) PROVE Established(s, m)'
    <2>1. s[1] # w
      BY <1>2 DEF Crash
    <2> QED
      BY <1>1, <1>2, <2>1 DEF Crash
  <1>3. CASE Read(s)
    <2>1. PICK ids \in SUBSET MsgId :
            /\ XReadGroup(ids)
            /\ StartOn(s, ids)
            /\ delivery_count' =
                 [delivery_count EXCEPT ![s] = [n \in MsgId |-> IF n \in ids THEN 1 ELSE 0]]
      BY <1>3 DEF Read
    <2>2. ids \in SUBSET (1..last_delivered')
      BY <1>0, <2>1, XReadGroupType DEF TypeOK
    <2>3. batch'[s] = ids
      BY <1>0, <2>1 DEF StartOn, TypeOK, TaskTypeOK
    <2>4. m \in ids /\ times_delivered'[m] = 1 /\ delivery_count'[s][m] = 1
      BY <1>0, <2>1, <2>3 DEF XReadGroup, TypeOK, TaskTypeOK
    <2>5. KindOf(m)' = KindOf(m)
      BY <2>1 DEF XReadGroup, KindOf
    <2>6. times_delivered'[m] >= 1 /\ delivery_count'[s][m] <= times_delivered'[m]
      BY <2>4
    <2>7. StartOn(s, ids)
      BY <2>1
    <2> QED
      BY <1>types, <2>2, <2>4, <2>5, <2>6, <2>7, StartOnEstablishes
  <1>4. CASE Claim(s)
    <2>1. PICK reply \in SUBSET pel, ids \in SUBSET pel :
            /\ XAutoClaim(reply, ids)
            /\ batch' = [batch EXCEPT ![s] = ids]
            /\ pc' = [pc EXCEPT ![s] = IF ids = {} THEN Idle ELSE "lookup"]
      BY <1>4 DEF Claim
    <2>2. batch'[s] = ids /\ pc'[s] = "lookup" /\ m \in MsgId
      BY <1>0, <2>1 DEF TypeOK, TaskTypeOK, StreamTypeOK
    <2>3. why'[s] = NoWhy /\ delivery_count'[s][m] = 0
      BY <1>4, <2>2 DEF Claim, At, IInv, Tidy
    <2>4. times_delivered'[m] >= 1 /\ times_delivered'[m] \in Nat
      <3>1. times_delivered'[m] = times_delivered[m] + 1 /\ times_delivered[m] \in Nat
        BY <2>1, <2>2 DEF XAutoClaim, IInv, TypeOK, StreamTypeOK
      <3> QED
        BY <3>1
    <2> QED
      BY <2>2, <2>3, <2>4 DEF Established, NoWhy
  <1>5. ASSUME NEW n \in MsgId, Lookup(s, n) PROVE Established(s, m)'
    <2>1. /\ n \in batch[s] /\ batch'[s] = batch[s] /\ m \in 1..last_delivered /\ m \in MsgId
          /\ m \in batch[s]
      BY <1>0, <1>5 DEF Lookup, First, StartOn, TypeOK, TaskTypeOK
    <2>2. delivery_count' = [delivery_count EXCEPT ![s][n] = TimesDelivered(n)]
          /\ times_delivered' = times_delivered
      BY <1>5 DEF Lookup, streamVars
    <2>3. Established(s, m) /\ times_delivered[m] \in Nat /\ times_delivered[m] >= 1
      BY <1>0, <2>1 DEF Established, TypeOK, StreamTypeOK
    <2>4. delivery_count'[s][m] <= times_delivered'[m]
      BY <1>0, <2>1, <2>2, <2>3 DEF TimesDelivered, Established, TypeOK, TaskTypeOK, StreamTypeOK
    <2>5. KindOf(m)' = KindOf(m)
      BY <1>0, <2>1, StaysKnown
    <2>6. CASE StartOn(s, batch[s])
      <3>1. batch[s] \in SUBSET (1..last_delivered')
        BY <1>0, <2>1 DEF TypeOK, TaskTypeOK
      <3> QED
        BY <1>types, <2>1, <2>2, <2>3, <2>4, <2>5, <2>6, <3>1, StartOnEstablishes
    <2>7. CASE UNCHANGED <<pc, batch, tries, why>>
      BY <1>5, <2>2, <2>3, <2>4, <2>7 DEF Lookup, At, Established, IInv, Tidy, NoWhy
    <2> QED
      BY <1>5, <2>6, <2>7 DEF Lookup
  <1>6. ASSUME NEW n \in MsgId, GetRate(s, n) PROVE Established(s, m)'
    <2>1. CASE /\ KindOf(n) # "unknown_currency"
               /\ pc' = [pc EXCEPT ![s] = "insert"]
               /\ UNCHANGED <<batch, delivery_count, why>>
      <3>1. /\ pc'[s] = "insert" /\ m \in batch[s] /\ m \in 1..last_delivered
            /\ Established(s, m) /\ batch'[s] = batch[s] /\ pc[s] = "rate" /\ Current(s, n)
        BY <1>0, <1>6, <2>1 DEF GetRate, At, TypeOK, TaskTypeOK
      <3>2. Current(s, m)' <=> Current(s, m)
        BY <1>0, <3>1, CurrentStable
      <3>3. Current(s, m) => m = n
        BY <1>0, <3>1 DEF Current, First, Unparseable
      <3>4. m \in MsgId /\ delivery_count[s][m] \in Nat /\ MaxDeliveries \in Nat
        BY <1>types, <3>1, HeldIsKnown
      <3> QED
        BY <1>0, <2>1, <3>1, <3>2, <3>3, <3>4, StaysKnown DEF Established
    <2>2. ASSUME NEW reason \in Reason \ {"exhausted"}, DeadLetter(s, reason)
          PROVE  Established(s, m)'
      BY <1>0, <2>2, DeadLetterEstablishes
    <2>3. CASE Transient(s, n, RateAttempts)
      BY <1>0, <1>6, <2>3, TransientEstablishes DEF GetRate
    <2> QED
      BY <1>6, <2>1, <2>2, <2>3 DEF GetRate, Reason
  <1>7. ASSUME NEW n \in MsgId, Store(s, n) PROVE Established(s, m)'
    <2>1. CASE /\ KindOf(n) # "unstorable"
               /\ rows' = Insert(n)
               /\ pc' = [pc EXCEPT ![s] = "ack"]
               /\ UNCHANGED <<batch, delivery_count, why>>
      <3>1. /\ pc'[s] = "ack" /\ m \in batch[s] /\ m \in 1..last_delivered
            /\ Established(s, m) /\ batch'[s] = batch[s] /\ pc[s] = "insert" /\ Current(s, n)
        BY <1>0, <1>7, <2>1 DEF Store, At, TypeOK, TaskTypeOK
      <3>2. Current(s, m)' <=> Current(s, m)
        BY <1>0, <3>1, CurrentStable
      <3>3. Current(s, m) => m = n
        BY <1>0, <3>1 DEF Current, First, Unparseable
      <3>4. m \in MsgId /\ delivery_count[s][m] \in Nat /\ MaxDeliveries \in Nat
        BY <1>types, <3>1, HeldIsKnown
      <3>5. m = n => IsStored(m)'
        <4>1. CASE IsStored(n)
          BY <1>types, <3>1, <4>1, StaysKnown
        <4>2. CASE ~ IsStored(n)
          <5>1. [id |-> KeyOf(n), msg |-> n] \in rows'
            BY <2>1, <4>2 DEF Insert
          <5>2. KeyOf(n)' = KeyOf(n)
            BY <1>7 DEF Store, streamVars, KeyOf
          <5> QED
            BY <5>1, <5>2 DEF IsStored
        <4> QED
          BY <4>1, <4>2
      <3> QED
        BY <1>0, <2>1, <3>1, <3>2, <3>3, <3>4, <3>5, StaysKnown DEF Established
    <2>2. CASE DeadLetter(s, "unexpected")
      BY <1>0, <2>2, DeadLetterEstablishes DEF Reason
    <2>3. CASE Transient(s, n, DbAttempts)
      BY <1>0, <1>7, <2>3, TransientEstablishes DEF Store
    <2> QED
      BY <1>7, <2>1, <2>2, <2>3 DEF Store
  <1>8. ASSUME NEW n \in MsgId, Ack(s, n) \/ DlqAck(s, n) PROVE Established(s, m)'
    BY <1>0, <1>8, FinishEstablishes DEF Ack, DlqAck
  <1>9. ASSUME NEW n \in MsgId, AckRaises(s, n) PROVE Established(s, m)'
    BY <1>0, <1>9, DeadLetterEstablishes DEF AckRaises, Reason
  <1>10. ASSUME NEW n \in MsgId, DlqAdd(s, n) PROVE Established(s, m)'
    <2>1. /\ pc'[s] = "dlq_ack" /\ m \in batch[s] /\ m \in 1..last_delivered
          /\ Established(s, m) /\ batch'[s] = batch[s] /\ Current(s, n)
          /\ delivery_count' = delivery_count /\ why' = why
      BY <1>0, <1>10 DEF DlqAdd, TypeOK, TaskTypeOK
    <2>2. Current(s, m)' <=> Current(s, m)
      BY <1>0, <2>1, CurrentStable
    <2>3. Current(s, m) => m = n
      BY <1>0, <2>1 DEF Current, First, Unparseable
    <2>4. m \in MsgId /\ delivery_count[s][m] \in Nat /\ MaxDeliveries \in Nat
      BY <1>0, <2>1, DeliveryAssumption DEF TypeOK, TaskTypeOK, DeliveryAssumption
    <2>5. m = n => IsParked(m)'
      <3>1. [msg |-> n, reason |-> why[s]] \in dlq'
        BY <1>10 DEF DlqAdd, XAddDlq
      <3> QED
        BY <3>1 DEF IsParked
    <2> QED
      BY <1>0, <2>1, <2>2, <2>3, <2>4, <2>5, StaysKnown DEF Established
  <1>11. CASE TaskStep(s)
    BY <1>3, <1>4, <1>5, <1>6, <1>7, <1>8, <1>9, <1>10, <1>11 DEF TaskStep
  <1>12. ASSUME NEW t \in Task, t # s, TaskStep(t) PROVE Established(s, m)'
    BY <1>0, <1>1, <1>12, OneTaskMoves
  <1>13. CASE (\E e \in Event : Publish(e)) \/ (\E w \in Worker : Boot(w)) \/ UNCHANGED vars
    BY <1>1, <1>13 DEF Publish, Boot, taskVars, vars
  <1> QED
    BY <1>2, <1>11, <1>12, <1>13 DEF IInv, Next

----------------------------------------------------------------------------
(* The safety properties. *)

LEMMA NextOneRowPerId ==
  ASSUME TypeOK, OneRowPerId, [Next]_vars
  PROVE  OneRowPerId'
  <1>1. CASE UNCHANGED rows
    BY <1>1 DEF OneRowPerId
  <1>2. ASSUME NEW m \in MsgId, rows' = Insert(m) PROVE OneRowPerId'
    BY <1>2 DEF OneRowPerId, Insert, IsStored
  <1>3. ASSUME NEW t \in Task, NEW m \in MsgId, Store(t, m) PROVE OneRowPerId'
    BY <1>1, <1>2, <1>3 DEF Store
  <1>4. ASSUME NEW t \in Task, TaskStep(t) PROVE OneRowPerId'
    BY <1>1, <1>3, <1>4
    DEF TaskStep, Read, Claim, Lookup, GetRate, Ack, AckRaises, DlqAdd, DlqAck
  <1> QED
    BY <1>1, <1>4 DEF Next, Publish, Boot, Crash, vars

\* A message leaves the pending list, or is passed over by a read, only when it is
\* stored, parked or evicted.
LEMMA NextNoSilentLoss ==
  ASSUME IInv, [Next]_vars
  PROVE  NoSilentLoss'
  <1> DEFINE Safe(m) == IsStored(m) \/ IsParked(m) \/ m <= trimmed
  <1>0. /\ TypeOK /\ TypeOK' /\ last_delivered \in Nat /\ last_delivered' \in Nat
        /\ trimmed \in Nat /\ trimmed' \in Nat /\ trimmed <= trimmed'
        /\ last_delivered <= last_delivered'
        /\ pel \subseteq 1..last_delivered
    <2>1. TypeOK /\ TypeOK'
      BY NextTypeOK DEF IInv
    <2> QED
      BY <2>1, Accumulates DEF TypeOK, StreamTypeOK
  <1>1. ASSUME NEW m \in 1..last_delivered, Safe(m) PROVE Safe(m)'
    BY <1>0, <1>1, StaysKnown
  <1>2. ASSUME UNCHANGED last_delivered, pel \subseteq pel' PROVE NoSilentLoss'
    BY <1>0, <1>1, <1>2 DEF NoSilentLoss, IInv
  <1>3. ASSUME NEW m \in 1..last_delivered, Safe(m),
               UNCHANGED last_delivered, pel' = pel \ {m}
        PROVE  NoSilentLoss'
    BY <1>0, <1>1, <1>3 DEF NoSilentLoss, IInv
  <1>4. CASE (\E e \in Event : Publish(e)) \/ (\E w \in Worker : Boot(w) \/ Crash(w))
    <2>1. pel' = pel /\ last_delivered' = last_delivered
      BY <1>0, <1>4 DEF Publish, XAdd, Boot, XGroupCreate, Crash, streamVars, groupVars,
                        TypeOK, StreamTypeOK
    <2> QED
      BY <1>2, <2>1
  <1>5. ASSUME NEW t \in Task, Read(t) PROVE NoSilentLoss'
    <2>1. PICK ids \in SUBSET MsgId : XReadGroup(ids)
      BY <1>5 DEF Read
    <2>2. ASSUME NEW m \in last_delivered+1 .. last_delivered', m \notin ids
          PROVE  m <= trimmed'
      <3>1. /\ ids = Undelivered /\ last_delivered' \in ids /\ trimmed' = trimmed
            /\ Len(entries) \in Nat /\ BatchSize \in Nat
        BY <2>1, <1>0, StreamAssumption
        DEF XReadGroup, StreamAssumption, TypeOK, StreamTypeOK
      <3>2. \E from \in Int, upto \in Int :
              /\ ids = from .. upto
              /\ from = IF trimmed > last_delivered THEN trimmed + 1 ELSE last_delivered + 1
        BY <1>0, <3>1 DEF Undelivered
      <3> QED
        BY <1>0, <2>2, <3>1, <3>2
    <2>3. pel' = pel \cup ids
      BY <2>1 DEF XReadGroup
    <2>4. ASSUME NEW m \in 1..last_delivered', m \notin pel' PROVE Safe(m)'
      <3>1. CASE m <= last_delivered
        BY <1>0, <1>1, <2>3, <2>4, <3>1 DEF NoSilentLoss, IInv
      <3>2. CASE m > last_delivered
        BY <1>0, <2>2, <2>3, <2>4, <3>2
      <3> QED
        BY <1>0, <3>1, <3>2
    <2> QED
      BY <2>4 DEF NoSilentLoss
  <1>6. ASSUME NEW t \in Task, Claim(t) PROVE NoSilentLoss'
    <2>1. PICK reply \in SUBSET pel, ids \in SUBSET pel : XAutoClaim(reply, ids)
      BY <1>6 DEF Claim
    <2>2. ASSUME NEW m \in 1..last_delivered', m \notin pel' PROVE Safe(m)'
      <3>1. CASE m \in pel
        BY <1>0, <2>1, <2>2, <3>1 DEF XAutoClaim
      <3>2. CASE m \notin pel
        BY <1>0, <1>1, <2>1, <3>2 DEF XAutoClaim, NoSilentLoss, IInv
      <3> QED
        BY <3>1, <3>2
    <2> QED
      BY <2>2 DEF NoSilentLoss
  <1>7. ASSUME NEW t \in Task, NEW m \in MsgId,
               Lookup(t, m) \/ GetRate(t, m) \/ Store(t, m) \/ DlqAdd(t, m)
        PROVE  NoSilentLoss'
    <2>1. pel' = pel /\ last_delivered' = last_delivered
      BY <1>7 DEF Lookup, GetRate, Store, DlqAdd, XAddDlq, streamVars, groupVars
    <2> QED
      BY <1>2, <2>1
  <1>8. ASSUME NEW t \in Task, NEW m \in MsgId, Ack(t, m) \/ DlqAck(t, m) \/ AckRaises(t, m)
        PROVE  NoSilentLoss'
    <2>1. m \in batch[t] /\ m \in 1..last_delivered /\ Current(t, m)
      BY <1>0, <1>8, CurrentInBatch DEF Ack, DlqAck, AckRaises
    <2>2. Safe(m)
      BY <1>8, <2>1 DEF Ack, DlqAck, AckRaises, At, IInv, Established
    <2>3. CASE XAck(m)
      BY <1>3, <2>1, <2>2, <2>3 DEF XAck
    <2>4. CASE UNCHANGED streamVars
      BY <1>2, <2>4 DEF streamVars
    <2> QED
      BY <1>8, <2>3, <2>4 DEF Ack, DlqAck, AckRaises
  <1>9. CASE UNCHANGED vars
    BY <1>2, <1>9 DEF vars, streamVars
  <1> QED
    BY <1>4, <1>5, <1>6, <1>7, <1>8, <1>9 DEF Next, TaskStep

\* Only the step that writes a dead letter has to justify it.
LEMMA NextExhausted ==
  ASSUME IInv, [Next]_vars
  PROVE  ExhaustedMeansDelivered'
  <1>0. /\ TypeOK /\ MaxDeliveries \in Nat
        /\ \A d \in dlq : d.msg \in 1..last_delivered
    BY DeliveryAssumption DEF DeliveryAssumption, IInv, TypeOK, StreamTypeOK
  <1>1. ASSUME NEW m \in 1..last_delivered, times_delivered[m] >= MaxDeliveries
        PROVE  times_delivered'[m] >= MaxDeliveries
    BY <1>0, <1>1, StaysKnown
  <1>2. CASE UNCHANGED dlq
    BY <1>0, <1>1, <1>2 DEF ExhaustedMeansDelivered, IInv
  <1>3. ASSUME NEW t \in Task, NEW m \in MsgId, DlqAdd(t, m) PROVE ExhaustedMeansDelivered'
    <2>1. m \in batch[t] /\ m \in 1..last_delivered /\ Current(t, m)
      BY <1>0, <1>3, CurrentInBatch DEF DlqAdd
    <2>2. why[t] = "exhausted" => times_delivered[m] >= MaxDeliveries
      BY <2>1 DEF IInv, Established
    <2>3. dlq' = dlq \cup {[msg |-> m, reason |-> why[t]]}
      BY <1>3 DEF DlqAdd, XAddDlq
    <2> QED
      BY <1>0, <1>1, <2>1, <2>2, <2>3 DEF ExhaustedMeansDelivered, IInv
  <1>4. ASSUME NEW t \in Task, TaskStep(t) PROVE ExhaustedMeansDelivered'
    BY <1>2, <1>3, <1>4
    DEF TaskStep, Read, XReadGroup, Claim, XAutoClaim, Lookup, GetRate, Store, Ack, AckRaises,
        DlqAck, XAck, streamVars
  <1> QED
    BY <1>2, <1>4 DEF Next, Publish, XAdd, Boot, XGroupCreate, Crash, streamVars, vars

LEMMA InitIInv == Init => IInv
  <1> SUFFICES ASSUME Init PROVE IInv
    OBVIOUS
  <1>1. NoSilentLoss /\ ExhaustedMeansDelivered /\ OneRowPerId
    BY DEF Init, StreamInit, NoSilentLoss, ExhaustedMeansDelivered, OneRowPerId
  <1>2. \A t \in Task : Tidy(t) /\ \A m \in batch[t] : Established(t, m)
    BY DEF Init, StreamInit, Tidy, NoCounts
  <1> QED
    BY <1>1, <1>2, InitTypeOK DEF IInv

LEMMA NextIInv == IInv /\ [Next]_vars => IInv'
  <1> SUFFICES ASSUME IInv, [Next]_vars PROVE IInv'
    OBVIOUS
  <1>1. TypeOK'
    BY NextTypeOK DEF IInv
  <1>2. \A t \in Task : Tidy(t)'
    BY NextTidy DEF IInv
  <1>3. \A t \in Task : \A m \in batch'[t] : Established(t, m)'
    BY NextEstablishes
  <1>4. OneRowPerId'
    BY NextOneRowPerId DEF IInv
  <1> QED
    BY <1>1, <1>2, <1>3, <1>4, NextNoSilentLoss, NextExhausted DEF IInv

\* The strengthening of the safety properties is an invariant.
THEOREM Inductive == Spec => []IInv
  BY InitIInv, NextIInv, PTL DEF Spec

\* A message that was delivered and is no longer pending is in a row, in the
\* dead-letter stream, or was evicted by the cap, whatever the interleaving of the
\* consume and reclaim tasks of any number of workers, their crashes and retries.
THEOREM NeverLostSilently == Spec => []NoSilentLoss
  <1>1. IInv => NoSilentLoss
    BY DEF IInv
  <1> QED
    BY <1>1, Inductive, PTL

\* No message is given up as exhausted before Redis delivered it max_deliveries times.
THEOREM ExhaustedIsHonest == Spec => []ExhaustedMeansDelivered
  <1>1. IInv => ExhaustedMeansDelivered
    BY DEF IInv
  <1> QED
    BY <1>1, Inductive, PTL

\* A stored row is never replaced or removed, and an id never gets a second one.
THEOREM RowsArePermanent == Spec => FirstWriteWins
  <1>1. IInv /\ [Next]_vars => [rows \subseteq rows' /\ OneRowPerId']_rows
    BY NextIInv, Accumulates DEF IInv
  <1> QED
    BY <1>1, Inductive, PTL DEF Spec, FirstWriteWins

----------------------------------------------------------------------------
(* Delivery implements Contract. *)

LEMMA InitContract == Init => Promise!ContractInit
  BY DEF Init, StreamInit, Promise!ContractInit

\* Each handler is a step of the contract or invisible to the client.
LEMMA NextContract ==
  ASSUME IInv, [Next]_vars
  PROVE  [Promise!ContractNext]_(Promise!cvars)
  <1> DEFINE parked == {d.msg : d \in dlq}
             done   == 1..last_delivered \ pel
             Step   == [Promise!ContractNext]_(Promise!cvars)
  <1>0. /\ TypeOK /\ last_delivered \in Nat /\ Len(entries) \in Nat
        /\ last_delivered <= Len(entries) /\ pel \subseteq 1..last_delivered
    BY DEF IInv, TypeOK, StreamTypeOK
  <1>1. ASSUME UNCHANGED <<entries, trimmed, rows, dlq, last_delivered, pel>> PROVE Step
    BY <1>1 DEF Promise!cvars
  <1>2. ASSUME UNCHANGED <<entries, trimmed, rows, dlq>>, NEW S \in SUBSET (1..Len(entries)),
               \A m \in S : IsStored(m) \/ IsParked(m) \/ m <= trimmed,
               done' = done \cup S
        PROVE  Step
    <2>1. Promise!Settle(S)
      BY <1>2 DEF Promise!Settle, Promise!Stored, IsStored, IsParked, KeyOf
    <2> QED
      BY <2>1 DEF Promise!ContractNext, Promise!Accepted
  <1>3. ASSUME NEW e \in Event, Publish(e) PROVE Step
    <2>1. /\ entries' = Append(entries, e) /\ trimmed' \in trimmed .. Len(entries) + 1
          /\ UNCHANGED <<rows, dlq, last_delivered, pel>>
      BY <1>3 DEF Publish, XAdd, groupVars
    <2>2. Len(entries') = Len(entries) + 1
      BY <2>1, <1>0 DEF TypeOK, StreamTypeOK
    <2>3. Promise!Accept(e)
      BY <2>1, <2>2 DEF Promise!Accept
    <2> QED
      BY <2>3 DEF Promise!ContractNext
  <1>4. ASSUME NEW w \in Worker, Boot(w) \/ Crash(w) PROVE Step
    BY <1>0, <1>1, <1>4 DEF Boot, XGroupCreate, Crash, streamVars, TypeOK, StreamTypeOK
  <1>5. ASSUME NEW t \in Task, Read(t) PROVE Step
    <2>1. PICK ids \in SUBSET MsgId : XReadGroup(ids)
      BY <1>5 DEF Read
    <2> DEFINE passed == (last_delivered+1 .. last_delivered') \ ids
    <2>2. /\ ids \subseteq last_delivered+1 .. last_delivered' /\ last_delivered < last_delivered'
          /\ last_delivered' \in Nat /\ last_delivered' <= Len(entries)
          /\ UNCHANGED <<entries, trimmed, rows, dlq>> /\ pel' = pel \cup ids
      BY <1>0, <1>5, <2>1, XReadGroupType, NextTypeOK
      DEF Read, XReadGroup, IInv, TypeOK, StreamTypeOK
    <2>3. \A m \in passed : IsStored(m) \/ IsParked(m) \/ m <= trimmed
      <3> SUFFICES ASSUME NEW m \in passed PROVE IsStored(m) \/ IsParked(m) \/ m <= trimmed
        OBVIOUS
      <3>1. m \in 1..last_delivered' /\ m \notin pel'
        BY <1>0, <2>2
      <3>2. IsStored(m)' \/ IsParked(m)' \/ m <= trimmed'
        BY <3>1, NextNoSilentLoss DEF NoSilentLoss
      <3> QED
        BY <2>2, <3>2 DEF IsStored, IsParked, KeyOf
    <2>4. done' = done \cup passed /\ passed \subseteq 1..Len(entries)
      BY <1>0, <2>2
    <2> QED
      BY <1>2, <2>2, <2>3, <2>4
  <1>6. ASSUME NEW t \in Task, Claim(t) PROVE Step
    <2>1. PICK reply \in SUBSET pel, ids \in SUBSET pel : XAutoClaim(reply, ids)
      BY <1>6 DEF Claim
    <2> DEFINE gone == reply \cap 1..trimmed
    <2>2. /\ UNCHANGED <<entries, trimmed, rows, dlq, last_delivered>> /\ pel' = pel \ gone
      BY <1>6, <2>1 DEF Claim, XAutoClaim
    <2>3. done' = done \cup gone /\ gone \subseteq 1..Len(entries)
      BY <1>0, <2>2
    <2>4. \A m \in gone : m <= trimmed
      BY <1>0 DEF TypeOK, StreamTypeOK
    <2> QED
      BY <1>2, <2>2, <2>3, <2>4
  <1>7. ASSUME NEW t \in Task, NEW m \in MsgId, Lookup(t, m) \/ GetRate(t, m) PROVE Step
    BY <1>1, <1>7 DEF Lookup, GetRate, streamVars
  <1>8. ASSUME NEW t \in Task, NEW m \in MsgId, Store(t, m) PROVE Step
    <2>1. /\ UNCHANGED <<entries, trimmed, dlq, last_delivered, pel>>
          /\ rows' = rows \/ rows' = Insert(m)
          /\ pc[t] = "insert" /\ Current(t, m)
      BY <1>8 DEF Store, At, streamVars
    <2>2. CASE rows' = rows
      BY <1>1, <2>1, <2>2
    <2>3. CASE rows' # rows
      <3>1. /\ ~ IsStored(m) /\ KindOf(m) # "unstorable"
            /\ rows' = rows \cup {[id |-> KeyOf(m), msg |-> m]}
        BY <2>1, <2>3 DEF Insert
      <3>2. /\ m \in batch[t] /\ m \in 1..Len(entries)
            /\ KindOf(m) \notin {"unparseable", "unknown_currency"}
        BY <1>0, <2>1, CurrentInBatch DEF IInv, Established
      <3>3. entries[m] \in Event /\ Kind[entries[m]] = "good"
        BY <1>0, <3>1, <3>2, DeliveryAssumption
        DEF TypeOK, StreamTypeOK, KindOf, DeliveryAssumption, EventKind
      <3>4. Promise!StoreRow(m)
        BY <2>1, <3>1, <3>3 DEF Promise!StoreRow, Promise!Stored, IsStored, KeyOf
      <3> QED
        BY <3>2, <3>4 DEF Promise!ContractNext, Promise!Accepted
    <2> QED
      BY <2>2, <2>3
  <1>9. ASSUME NEW t \in Task, NEW m \in MsgId, Ack(t, m) \/ DlqAck(t, m) \/ AckRaises(t, m)
        PROVE  Step
    <2>1. CASE UNCHANGED streamVars
      BY <1>1, <1>9, <2>1 DEF AckRaises, Ack, DlqAck, streamVars
    <2>2. CASE XAck(m)
      <3>1. m \in batch[t] /\ m \in 1..last_delivered
        BY <1>0, <1>9, CurrentInBatch DEF Ack, DlqAck, AckRaises
      <3>2. IsStored(m) \/ IsParked(m)
        BY <1>9, <3>1 DEF Ack, DlqAck, AckRaises, At, IInv, Established
      <3>3. UNCHANGED <<entries, trimmed, rows, dlq, last_delivered>> /\ pel' = pel \ {m}
        BY <1>9, <2>2 DEF Ack, DlqAck, AckRaises, XAck
      <3>4. done' = done \cup {m} /\ {m} \subseteq 1..Len(entries)
        BY <1>0, <3>1, <3>3
      <3> QED
        BY <1>2, <3>2, <3>3, <3>4
    <2> QED
      BY <1>9, <2>1, <2>2 DEF Ack, DlqAck, AckRaises
  <1>10. ASSUME NEW t \in Task, NEW m \in MsgId, DlqAdd(t, m) PROVE Step
    <2>1. /\ UNCHANGED <<entries, trimmed, rows, last_delivered, pel>>
          /\ dlq' = dlq \cup {[msg |-> m, reason |-> why[t]]}
          /\ m \in 1..Len(entries)
      BY <1>0, <1>10, CurrentInBatch DEF DlqAdd, XAddDlq, groupVars
    <2>2. Promise!Park(m)
      <3>1. [msg |-> m, reason |-> why[t]].msg = m
        OBVIOUS
      <3>2. parked' = parked \cup {m}
        <4>1. ASSUME NEW n \in parked' PROVE n \in parked \cup {m}
          BY <2>1, <3>1, <4>1
        <4>2. ASSUME NEW n \in parked \cup {m} PROVE n \in parked'
          BY <2>1, <3>1, <4>2
        <4> QED
          BY <4>1, <4>2
      <3> QED
        BY <2>1, <3>2 DEF Promise!Park
    <2> QED
      BY <2>1, <2>2 DEF Promise!ContractNext, Promise!Accepted
  <1>11. CASE UNCHANGED vars
    BY <1>1, <1>11 DEF vars, streamVars
  <1> QED
    BY <1>3, <1>4, <1>5, <1>6, <1>7, <1>8, <1>9, <1>10, <1>11 DEF Next, TaskStep

\* The pipeline keeps the contract with its clients: an accepted event is stored at most
\* once, by the first submission of its id, or parked, and is not let go of before that.
THEOREM Implementation == Spec => RefinesContract
  BY InitContract, NextContract, Inductive, PTL DEF Spec, RefinesContract, Promise!ContractSpec
=============================================================================
