------------------------- MODULE DeliveryBoundProofs -------------------------
(***************************************************************************)
(* How often Redis delivers a message, for any number of workers, crashes, *)
(* deliveries and failures.  Between the claim of a message and the lookup *)
(* of its count other workers may claim it too, so the cutoff is overshot; *)
(* each overshoot is charged to a reclaim task that still holds the        *)
(* message, or to a crash that made such a task forget it.                 *)
(***************************************************************************)
EXTENDS DeliveryProofs, FiniteSetTheorems

Undecided(t, m) == m \in batch[t] /\ delivery_count[t][m] \notin 1 .. MaxDeliveries - 1

\* The numbers the budget is made of.
LEMMA BudgetType ==
  ASSUME TypeOK, NEW m \in MsgId
  PROVE  /\ times_delivered[m] \in Nat
         /\ Cutoff \in Nat \ {0}
         /\ MaxDeliveries - 1 <= Cutoff
         /\ crashes \in Nat
         /\ IsFiniteSet(Holders(m))
         /\ Cardinality(Holders(m)) \in Nat
         /\ Cardinality(Worker) \in Nat
         /\ Cardinality(Holders(m)) <= Cardinality(Worker)
  <1>1. Holders(m) \subseteq Worker /\ IsFiniteSet(Worker)
    BY DeliveryAssumption DEF Holders, DeliveryAssumption
  <1>2. IsFiniteSet(Holders(m)) /\ Cardinality(Holders(m)) <= Cardinality(Worker)
    BY <1>1, FS_Subset
  <1>3. Cardinality(Holders(m)) \in Nat /\ Cardinality(Worker) \in Nat
    BY <1>1, <1>2, FS_CardinalityType
  <1>4. Cutoff \in Nat \ {0} /\ MaxDeliveries - 1 <= Cutoff
    BY DeliveryAssumption DEF DeliveryAssumption, Cutoff
  <1>5. times_delivered[m] \in Nat /\ crashes \in Nat
    BY DeliveryAssumption DEF DeliveryAssumption, TypeOK, StreamTypeOK
  <1> QED
    BY <1>2, <1>3, <1>4, <1>5

\* So they are after a step.
LEMMA BudgetTypeNext ==
  ASSUME TypeOK', NEW m \in MsgId
  PROVE  /\ times_delivered'[m] \in Nat
         /\ crashes' \in Nat
         /\ IsFiniteSet(Holders(m)')
         /\ Cardinality(Holders(m)') \in Nat
  <1>1. Holders(m)' \subseteq Worker /\ IsFiniteSet(Worker)
    BY DeliveryAssumption DEF Holders, DeliveryAssumption
  <1>2. IsFiniteSet(Holders(m)')
    BY <1>1, FS_Subset
  <1>3. Cardinality(Holders(m)') \in Nat
    BY <1>2, FS_CardinalityType
  <1>4. times_delivered'[m] \in Nat /\ crashes' \in Nat
    BY DeliveryAssumption DEF DeliveryAssumption, TypeOK, StreamTypeOK
  <1> QED
    BY <1>2, <1>3, <1>4

\* A worker holds m if its reclaim task does.
LEMMA HoldersByTask ==
  ASSUME NEW m \in MsgId, NEW w \in Worker
  PROVE  /\ <<w, "reclaim">> \in Task
         /\ w \in Holders(m) <=> Undecided(<<w, "reclaim">>, m)
         /\ w \in Holders(m)' <=> Undecided(<<w, "reclaim">>, m)'
  BY DEF Holders, Undecided, Task

----------------------------------------------------------------------------
(* `handle` has a count for every message it sees. *)

\* One step per handler: a task starts on a batch when the last count is known.
LEMMA NextCounted ==
  ASSUME IInv, \A t \in Task : Counted(t), [Next]_vars, NEW s \in Task
  PROVE  Counted(s)'
  <1>0. /\ pc \in [Task -> Phase]
        /\ batch \in [Task -> SUBSET (1..last_delivered)]
        /\ delivery_count \in [Task -> [MsgId -> Nat]]
        /\ \A t \in Task : batch[t] \subseteq MsgId
    BY HeldIsKnown DEF IInv, TypeOK, TaskTypeOK
  <1> USE <1>0 DEF Counted
  <1>1. CASE pc'[s] = pc[s] /\ batch'[s] = batch[s] /\ delivery_count'[s] = delivery_count[s]
    BY <1>1
  <1>2. ASSUME NEW w \in Worker, Crash(w) PROVE Counted(s)'
    BY <1>2 DEF Crash
  <1>3. ASSUME NEW n \in MsgId, Finish(s, n), pc[s] \notin {Idle, "lookup"} PROVE Counted(s)'
    BY <1>3 DEF Finish, StartOn
  <1>4. ASSUME NEW reason, DeadLetter(s, reason), pc[s] \notin {Idle, "lookup"} PROVE Counted(s)'
    BY <1>4 DEF DeadLetter
  <1>5. ASSUME NEW n \in MsgId, NEW attempts, Transient(s, n, attempts),
               pc[s] \notin {Idle, "lookup"}
        PROVE  Counted(s)'
    BY <1>1, <1>3, <1>4, <1>5 DEF Transient, GiveUp
  <1>6. CASE Read(s)
    BY <1>6 DEF Read, StartOn
  <1>7. CASE Claim(s)
    BY <1>7 DEF Claim
  <1>8. ASSUME NEW n \in MsgId, Lookup(s, n) PROVE Counted(s)'
    <2> DEFINE unknown == {k \in batch[s] : delivery_count[s][k] = 0}
    <2>1. n \in batch[s] /\ pc[s] = "lookup"
      BY <1>8 DEF Lookup, First, At
    <2>2. CASE unknown = {n}
      <3>1. StartOn(s, batch[s]) /\ delivery_count' = [delivery_count EXCEPT ![s][n] = TimesDelivered(n)]
        BY <1>8, <2>2 DEF Lookup
      <3>2. times_delivered[n] >= 1 /\ times_delivered[n] \in Nat
        BY <2>1 DEF IInv, Established, TypeOK, StreamTypeOK
      <3>3. TimesDelivered(n) >= 1
        BY <3>2 DEF TimesDelivered
      <3>4. batch'[s] = batch[s]
        BY <3>1 DEF StartOn
      <3>5. \A k \in batch[s] : delivery_count'[s][k] >= 1
        BY <2>2, <3>1, <3>3
      <3> QED
        BY <3>4, <3>5
    <2>3. CASE unknown # {n}
      <3>1. pc' = pc
        BY <1>8, <2>3 DEF Lookup
      <3> QED
        BY <2>1, <3>1
    <2> QED
      BY <2>2, <2>3
  <1>9. ASSUME NEW n \in MsgId, GetRate(s, n) PROVE Counted(s)'
    BY <1>4, <1>5, <1>9 DEF GetRate, At, Idle
  <1>10. ASSUME NEW n \in MsgId, Store(s, n) PROVE Counted(s)'
    BY <1>4, <1>5, <1>10 DEF Store, At, Idle
  <1>11. ASSUME NEW n \in MsgId, Ack(s, n) \/ AckRaises(s, n) \/ DlqAdd(s, n) \/ DlqAck(s, n)
         PROVE  Counted(s)'
    BY <1>3, <1>4, <1>11 DEF Ack, AckRaises, DlqAdd, DlqAck, At, Idle
  <1>12. CASE TaskStep(s)
    BY <1>6, <1>7, <1>8, <1>9, <1>10, <1>11, <1>12 DEF TaskStep
  <1>13. ASSUME NEW t \in Task, t # s, TaskStep(t) PROVE Counted(s)'
    BY <1>1, <1>13, OneTaskMoves DEF IInv
  <1>14. CASE (\E e \in Event : Publish(e)) \/ (\E w \in Worker : Boot(w)) \/ UNCHANGED vars
    BY <1>1, <1>14 DEF Publish, Boot, taskVars, vars
  <1> QED
    BY <1>2, <1>12, <1>13, <1>14 DEF Next
----------------------------------------------------------------------------
(* How a delivery counter moves. *)

\* Only XREADGROUP and XAUTOCLAIM count a delivery, and no entry is pending again once
\* it has left the pending list.
LEMMA Deliveries ==
  ASSUME TypeOK, [Next]_vars, NEW m \in MsgId
  PROVE  \/ /\ times_delivered'[m] = times_delivered[m]
            /\ m \in pel' => m \in pel
         \/ times_delivered'[m] = 1 /\ m \in pel'
         \/ \E t \in Task : /\ Claim(t)
                            /\ m \in pel /\ m \in pel' /\ m \in batch'[t]
                            /\ times_delivered'[m] = times_delivered[m] + 1
  <1> DEFINE Quiet == /\ times_delivered'[m] = times_delivered[m]
                      /\ m \in pel' => m \in pel
  <1> USE DEF TypeOK, StreamTypeOK
  <1>1. CASE \E e \in Event : Publish(e)
    BY <1>1 DEF Publish, XAdd, groupVars
  <1>2. CASE \E w \in Worker : Boot(w) \/ Crash(w)
    BY <1>2 DEF Boot, Crash, XGroupCreate, streamVars
  <1>3. ASSUME NEW t \in Task, Read(t) PROVE Quiet \/ (times_delivered'[m] = 1 /\ m \in pel')
    <2>1. PICK ids \in SUBSET MsgId : XReadGroup(ids)
      BY <1>3 DEF Read
    <2> QED
      BY <2>1 DEF XReadGroup
  <1>4. ASSUME NEW t \in Task, Claim(t)
        PROVE  \/ Quiet
               \/ /\ m \in pel /\ m \in pel' /\ m \in batch'[t]
                  /\ times_delivered'[m] = times_delivered[m] + 1
    <2>1. PICK reply \in SUBSET pel, ids \in SUBSET pel :
            /\ XAutoClaim(reply, ids)
            /\ batch' = [batch EXCEPT ![t] = ids]
      BY <1>4 DEF Claim
    <2>2. batch'[t] = ids
      BY <2>1 DEF TaskTypeOK
    <2> QED
      BY <2>1, <2>2 DEF XAutoClaim
  <1>5. ASSUME NEW t \in Task, NEW n \in MsgId,
               Lookup(t, n) \/ GetRate(t, n) \/ Store(t, n)
        PROVE  Quiet
    BY <1>5 DEF Lookup, GetRate, Store, streamVars
  <1>6. ASSUME NEW t \in Task, NEW n \in MsgId,
               Ack(t, n) \/ AckRaises(t, n) \/ DlqAdd(t, n) \/ DlqAck(t, n)
        PROVE  Quiet
    BY <1>6 DEF Ack, AckRaises, DlqAdd, DlqAck, XAck, XAddDlq, streamVars, groupVars
  <1>7. CASE UNCHANGED vars
    BY <1>7 DEF vars, streamVars
  <1> QED
    BY <1>1, <1>2, <1>3, <1>4, <1>5, <1>6, <1>7 DEF Next, TaskStep

\* A task that holds a pending message undecided goes on doing so, until the count it
\* reads is below the cutoff.
LEMMA StaysUndecided ==
  ASSUME IInv, \A s \in Task : Counted(s), [Next]_vars, NEW m \in MsgId, m \in pel',
         m \in pel, NEW t \in Task, Undecided(t, m), \A w \in Worker : ~ Crash(w)
  PROVE  Undecided(t, m)' \/ times_delivered[m] <= Cutoff
  <1>0. /\ batch \in [Task -> SUBSET (1..last_delivered)]
        /\ delivery_count \in [Task -> [MsgId -> Nat]]
        /\ m \in batch[t] /\ delivery_count[t][m] \notin 1 .. MaxDeliveries - 1
        /\ delivery_count[t][m] \in Nat /\ MaxDeliveries \in Nat
    BY DeliveryAssumption DEF IInv, TypeOK, TaskTypeOK, Undecided, DeliveryAssumption
  <1>1. ASSUME batch'[t] = batch[t], delivery_count'[t] = delivery_count[t]
        PROVE  Undecided(t, m)'
    BY <1>0, <1>1 DEF Undecided
  <1>2. ASSUME NEW n \in MsgId, Finish(t, n), n # m PROVE Undecided(t, m)'
    <2>1. batch'[t] = batch[t] \ {n} /\ delivery_count'[t][m] = delivery_count[t][m]
      BY <1>0, <1>2 DEF Finish, StartOn
    <2> QED
      BY <1>0, <1>2, <2>1 DEF Undecided
  <1>3. ASSUME NEW reason, DeadLetter(t, reason) PROVE Undecided(t, m)'
    BY <1>0, <1>1, <1>3 DEF DeadLetter
  <1>4. ASSUME NEW n \in MsgId, GiveUp(t, n), pc[t] \notin {Idle, "lookup"}
        PROVE  Undecided(t, m)'
    <2>1. CASE delivery_count[t][n] >= MaxDeliveries
      BY <1>3, <1>4, <2>1 DEF GiveUp
    <2>2. CASE ~ (delivery_count[t][n] >= MaxDeliveries)
      <3>1. Finish(t, n)
        BY <1>4, <2>2 DEF GiveUp
      <3>2. n # m
        <4>1. delivery_count[t][m] >= 1
          BY <1>0, <1>4 DEF Counted
        <4>2. delivery_count[t][m] >= MaxDeliveries
          BY <1>0, <4>1
        <4> QED
          BY <2>2, <4>2
      <3> QED
        BY <1>2, <3>1, <3>2
    <2> QED
      BY <2>1, <2>2
  <1>5. ASSUME NEW n \in MsgId, NEW attempts, Transient(t, n, attempts),
               pc[t] \notin {Idle, "lookup"}
        PROVE  Undecided(t, m)'
    BY <1>1, <1>4, <1>5 DEF Transient
  <1>6. CASE Read(t) \/ Claim(t)
    <2>1. pc[t] = Idle
      BY <1>6 DEF Read, Claim, At
    <2> QED
      BY <1>0, <2>1 DEF IInv, Tidy
  <1>7. ASSUME NEW n \in MsgId, Lookup(t, n)
        PROVE  Undecided(t, m)' \/ times_delivered[m] <= Cutoff
    <2>1. batch'[t] = batch[t]
      BY <1>0, <1>7 DEF Lookup, StartOn
    <2>2. delivery_count' = [delivery_count EXCEPT ![t][n] = TimesDelivered(n)]
      BY <1>7 DEF Lookup
    <2>3. CASE n # m
      BY <1>0, <2>1, <2>2, <2>3 DEF Undecided
    <2>4. CASE n = m
      <3>1. delivery_count'[t][m] = times_delivered[m]
        BY <1>0, <2>2, <2>4 DEF TimesDelivered
      <3>2. times_delivered[m] \in Nat /\ MaxDeliveries - 1 <= Cutoff /\ Cutoff \in Nat
        BY BudgetType DEF IInv
      <3>3. CASE times_delivered[m] \in 1 .. MaxDeliveries - 1
        BY <1>0, <3>2, <3>3
      <3>4. CASE times_delivered[m] \notin 1 .. MaxDeliveries - 1
        <4>1. delivery_count'[t][m] \notin 1 .. MaxDeliveries - 1
          BY <3>1, <3>4
        <4> QED
          BY <1>0, <2>1, <4>1 DEF Undecided
      <3> QED
        BY <3>3, <3>4
    <2> QED
      BY <2>3, <2>4
  <1>8. ASSUME NEW n \in MsgId, GetRate(t, n) PROVE Undecided(t, m)'
    BY <1>0, <1>1, <1>3, <1>5, <1>8 DEF GetRate, At, Idle
  <1>9. ASSUME NEW n \in MsgId, Store(t, n) PROVE Undecided(t, m)'
    BY <1>0, <1>1, <1>3, <1>5, <1>9 DEF Store, At, Idle
  <1>10. ASSUME NEW n \in MsgId, Ack(t, n) \/ DlqAck(t, n) PROVE Undecided(t, m)'
    <2>1. Finish(t, n) /\ n # m
      BY <1>10 DEF Ack, DlqAck, XAck
    <2> QED
      BY <1>2, <2>1
  <1>11. ASSUME NEW n \in MsgId, AckRaises(t, n) \/ DlqAdd(t, n) PROVE Undecided(t, m)'
    BY <1>1, <1>3, <1>11 DEF AckRaises, DlqAdd
  <1>12. CASE TaskStep(t)
    BY <1>6, <1>7, <1>8, <1>9, <1>10, <1>11, <1>12 DEF TaskStep
  <1>13. ASSUME NEW s \in Task, s # t, TaskStep(s) PROVE Undecided(t, m)'
    BY <1>1, <1>13, OneTaskMoves DEF IInv
  <1>14. CASE (\E e \in Event : Publish(e)) \/ (\E w \in Worker : Boot(w)) \/ UNCHANGED vars
    BY <1>1, <1>14 DEF Publish, Boot, taskVars, vars
  <1> QED
    BY <1>12, <1>13, <1>14 DEF Next
----------------------------------------------------------------------------
(* The budget. *)

\* A claim is paid for by the claimer, who did not hold the message before.
LEMMA ClaimIsCharged ==
  ASSUME IInv, \A s \in Task : Counted(s), [Next]_vars, NEW t \in Task, Claim(t),
         NEW m \in MsgId, m \in pel, m \in pel', m \in batch'[t], Budgeted(m),
         times_delivered'[m] = times_delivered[m] + 1
  PROVE  Budgeted(m)'
  <1> USE DEF Task
  <1>1. PICK w \in Worker : t = <<w, "reclaim">>
    BY DEF Claim
  <1>2. ~ Undecided(t, m)
    BY DEF Claim, At, IInv, Tidy, Undecided
  <1>3. TypeOK /\ TypeOK'
    BY NextTypeOK DEF IInv
  <1>4. Undecided(t, m)'
    <2>1. delivery_count'[t][m] = 0
      BY DEF Claim, At, IInv, Tidy
    <2> QED
      BY <2>1 DEF Undecided
  <1>5. ASSUME NEW v \in Holders(m) PROVE v \in Holders(m)'
    <2>1. v \in Worker /\ v # w /\ Undecided(<<v, "reclaim">>, m) /\ <<v, "reclaim">> # t
      BY <1>1, <1>2, HoldersByTask DEF Holders
    <2>2. TaskStep(t)
      BY DEF TaskStep
    <2>3. Undecided(<<v, "reclaim">>, m)'
      BY <1>3, <2>1, <2>2, OneTaskMoves DEF Undecided
    <2> QED
      BY <2>1, <2>3, HoldersByTask
  <1>6. w \in Holders(m)' /\ w \notin Holders(m)
    BY <1>1, <1>2, <1>4, HoldersByTask
  <1>7. Cardinality(Holders(m) \cup {w}) = Cardinality(Holders(m)) + 1
    BY <1>3, <1>6, FS_AddElement, BudgetType
  <1>8. Cardinality(Holders(m) \cup {w}) <= Cardinality(Holders(m)')
    <2>1. Holders(m) \cup {w} \subseteq Holders(m)' /\ IsFiniteSet(Holders(m)')
      BY <1>3, <1>5, <1>6, BudgetType, BudgetTypeNext
    <2> QED
      BY <2>1, FS_Subset
  <1>9. crashes' = crashes
    BY DEF Claim
  <1>10. /\ times_delivered[m] \in Nat /\ Cutoff \in Nat /\ crashes \in Nat
         /\ Cardinality(Holders(m)) \in Nat /\ Cardinality(Holders(m)') \in Nat
    BY <1>3, BudgetType, BudgetTypeNext
  <1>11. times_delivered[m] <= Cutoff + Cardinality(Holders(m)) + crashes
    BY DEF Budgeted
  <1>12. times_delivered'[m] <= Cutoff + Cardinality(Holders(m)') + crashes'
    BY <1>7, <1>8, <1>9, <1>10, <1>11
  <1> QED
    BY <1>12 DEF Budgeted, Cutoff

\* A crash is charged with what the reclaim task of its worker held.
LEMMA CrashIsCharged ==
  ASSUME IInv, [Next]_vars, NEW w \in Worker, Crash(w), NEW m \in MsgId, Budgeted(m)
  PROVE  Budgeted(m)'
  <1>1. TypeOK /\ TypeOK'
    BY NextTypeOK DEF IInv
  <1>2. times_delivered' = times_delivered /\ pel' = pel /\ crashes' = crashes + 1
    BY DEF Crash, streamVars
  <1>3. Holders(m) \subseteq Holders(m)' \cup {w}
    <2> SUFFICES ASSUME NEW v \in Worker, v # w, Undecided(<<v, "reclaim">>, m)
                 PROVE  Undecided(<<v, "reclaim">>, m)'
      BY HoldersByTask DEF Holders
    <2> DEFINE s == <<v, "reclaim">>
    <2>1. s \in Task /\ s[1] # w
      BY DEF Task
    <2>2. batch'[s] = batch[s] /\ delivery_count'[s] = delivery_count[s]
      BY <2>1 DEF Crash
    <2> QED
      BY <2>2 DEF Undecided
  <1>4. Cardinality(Holders(m)) <= Cardinality(Holders(m)') + 1
    <2>1. IsFiniteSet(Holders(m)') /\ Cardinality(Holders(m)') \in Nat
      BY <1>1, BudgetType, BudgetTypeNext
    <2>2. IsFiniteSet(Holders(m)' \cup {w})
      BY <2>1, FS_AddElement
    <2>3. Cardinality(Holders(m)) <= Cardinality(Holders(m)' \cup {w})
      BY <1>3, <2>2, FS_Subset
    <2>4. Cardinality(Holders(m)' \cup {w}) \in {Cardinality(Holders(m)'), Cardinality(Holders(m)') + 1}
      BY <2>1, FS_AddElement
    <2>5. Cardinality(Holders(m)) \in Nat
      BY <1>1, BudgetType, BudgetTypeNext
    <2> QED
      BY <2>1, <2>3, <2>4, <2>5
  <1>5. /\ times_delivered[m] \in Nat /\ Cutoff \in Nat /\ crashes \in Nat
        /\ Cardinality(Holders(m)) \in Nat /\ Cardinality(Holders(m)') \in Nat
        /\ Cardinality(Worker) \in Nat
    BY <1>1, BudgetType, BudgetTypeNext
  <1>6. CASE m \in pel
    <2>1. times_delivered[m] <= Cutoff + Cardinality(Holders(m)) + crashes
      BY <1>6 DEF Budgeted
    <2>2. times_delivered'[m] <= Cutoff + Cardinality(Holders(m)') + crashes'
      BY <1>2, <1>4, <1>5, <2>1
    <2> QED
      BY <1>2, <1>6, <2>2 DEF Budgeted, Cutoff
  <1>7. CASE m \notin pel
    <2>1. times_delivered[m] <= Cutoff + Cardinality(Worker) + crashes
      BY <1>7 DEF Budgeted
    <2>2. times_delivered'[m] <= Cutoff + Cardinality(Worker) + crashes'
      BY <1>2, <1>5, <2>1
    <2> QED
      BY <1>2, <1>7, <2>2 DEF Budgeted, Cutoff
  <1> QED
    BY <1>6, <1>7

\* The number of crashes so far changes only in a crash.
LEMMA OnlyCrashesCount ==
  ASSUME [Next]_vars, \A w \in Worker : ~ Crash(w)
  PROVE  crashes' = crashes
  <1>1. ASSUME NEW e \in Event, Publish(e) PROVE crashes' = crashes
    BY <1>1 DEF Publish
  <1>2. ASSUME NEW w \in Worker, Boot(w) PROVE crashes' = crashes
    BY <1>2 DEF Boot
  <1>3. ASSUME NEW t \in Task, TaskStep(t) PROVE crashes' = crashes
    <2>1. CASE Read(t) \/ Claim(t)
      BY <2>1 DEF Read, Claim
    <2>2. ASSUME NEW n \in MsgId, Lookup(t, n) PROVE crashes' = crashes
      BY <2>2 DEF Lookup
    <2>3. ASSUME NEW n \in MsgId, GetRate(t, n) \/ Store(t, n) PROVE crashes' = crashes
      BY <2>3 DEF GetRate, Store
    <2>4. ASSUME NEW n \in MsgId, Ack(t, n) \/ AckRaises(t, n) PROVE crashes' = crashes
      BY <2>4 DEF Ack, AckRaises
    <2>5. ASSUME NEW n \in MsgId, DlqAdd(t, n) \/ DlqAck(t, n) PROVE crashes' = crashes
      BY <2>5 DEF DlqAdd, DlqAck
    <2> QED
      BY <1>3, <2>1, <2>2, <2>3, <2>4, <2>5 DEF TaskStep
  <1>4. CASE UNCHANGED vars
    BY <1>4 DEF vars
  <1> QED
    BY <1>1, <1>2, <1>3, <1>4 DEF Next

\* No other step counts a delivery, or lets go of a message that is at the cutoff.
LEMMA NextBudgeted ==
  ASSUME IInv, \A s \in Task : Counted(s), [Next]_vars, NEW m \in MsgId, Budgeted(m)
  PROVE  Budgeted(m)'
  <1>1. TypeOK /\ TypeOK'
    BY NextTypeOK DEF IInv
  <1>2. /\ times_delivered[m] \in Nat /\ times_delivered'[m] \in Nat
        /\ Cutoff \in Nat \ {0} /\ crashes \in Nat /\ crashes' \in Nat
        /\ Cardinality(Holders(m)) \in Nat /\ Cardinality(Holders(m)') \in Nat
        /\ Cardinality(Worker) \in Nat /\ Cardinality(Holders(m)) <= Cardinality(Worker)
        /\ IsFiniteSet(Holders(m)')
    BY <1>1, BudgetType, BudgetTypeNext
  <1>3. CASE \E w \in Worker : Crash(w)
    BY <1>3, CrashIsCharged
  <1>4. CASE \E t \in Task : /\ Claim(t)
                            /\ m \in pel /\ m \in pel' /\ m \in batch'[t]
                            /\ times_delivered'[m] = times_delivered[m] + 1
    BY <1>4, ClaimIsCharged
  <1>5. CASE times_delivered'[m] <= Cutoff
    BY <1>2, <1>5 DEF Budgeted, Cutoff
  <1>6. CASE /\ \A w \in Worker : ~ Crash(w)
             /\ times_delivered'[m] = times_delivered[m]
             /\ m \in pel' => m \in pel
             /\ ~ times_delivered'[m] <= Cutoff
    <2>1. crashes' = crashes
      BY <1>6, OnlyCrashesCount
    <2>2. CASE m \in pel'
      <3>1. Holders(m) \subseteq Holders(m)'
        <4> SUFFICES ASSUME NEW w \in Worker, Undecided(<<w, "reclaim">>, m)
                     PROVE  Undecided(<<w, "reclaim">>, m)'
          BY HoldersByTask DEF Holders
        <4>1. <<w, "reclaim">> \in Task
          BY DEF Task
        <4>2. Undecided(<<w, "reclaim">>, m)' \/ times_delivered[m] <= Cutoff
          BY <1>6, <2>2, <4>1, StaysUndecided
        <4> QED
          BY <1>6, <4>2
      <3>2. Cardinality(Holders(m)) <= Cardinality(Holders(m)')
        BY <1>2, <3>1, FS_Subset
      <3>3. times_delivered[m] <= Cutoff + Cardinality(Holders(m)) + crashes
        BY <1>6, <2>2 DEF Budgeted
      <3>4. times_delivered'[m] <= Cutoff + Cardinality(Holders(m)') + crashes'
        BY <1>2, <1>6, <2>1, <3>2, <3>3
      <3> QED
        BY <2>2, <3>4 DEF Budgeted, Cutoff
    <2>3. CASE m \notin pel'
      <3>1. times_delivered[m] <= Cutoff + Cardinality(Worker) + crashes
        BY <1>2 DEF Budgeted
      <3>2. times_delivered'[m] <= Cutoff + Cardinality(Worker) + crashes'
        BY <1>6, <2>1, <3>1
      <3> QED
        BY <2>3, <3>2 DEF Budgeted, Cutoff
    <2> QED
      BY <2>2, <2>3
  <1> QED
    BY <1>2, <1>3, <1>4, <1>5, <1>6, <1>1, Deliveries

\* Nothing has been delivered yet.
LEMMA InitBInv == Init => BInv
  <1> SUFFICES ASSUME Init PROVE BInv
    OBVIOUS
  <1>1. \A t \in Task : Counted(t)
    BY DEF Init, Counted
  <1>2. ASSUME NEW m \in MsgId PROVE Budgeted(m)
    <2>1. TypeOK /\ times_delivered[m] = 0
      BY InitTypeOK DEF Init, StreamInit
    <2> QED
      BY <2>1, BudgetType DEF Budgeted
  <1> QED
    BY <1>1, <1>2 DEF BInv

\* A message is delivered at most once more per worker and per crash than the cutoff
\* asks for, however claims, lookups and crashes interleave.
THEOREM DeliveriesAreBounded == Spec => []DeliveryBound
  <1>1. IInv /\ BInv /\ [Next]_vars => BInv'
    BY NextCounted, NextBudgeted DEF BInv
  <1>2. IInv /\ BInv => DeliveryBound
    <2> SUFFICES ASSUME IInv, BInv, NEW m \in MsgId
                 PROVE  times_delivered[m] <= Cutoff + Cardinality(Worker) + crashes
      BY DEF DeliveryBound
    <2> QED
      BY BudgetType DEF BInv, Budgeted, IInv
  <1> QED
    BY <1>1, <1>2, InitBInv, Inductive, PTL DEF Spec
==============================================================================
