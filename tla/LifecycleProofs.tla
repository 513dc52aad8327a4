--------------------------- MODULE LifecycleProofs ---------------------------
(* Proofs about Lifecycle, for any number of workers, probes, outages, failures and signals. *)
EXTENDS Lifecycle, TLAPS

Local(w) == Reached(w) /\ Grouped(w) /\ Judged(w)

\* The types hold initially: nothing has been started.
LEMMA InitTypeOK == Init => TypeOK
  <1> SUFFICES ASSUME Init PROVE TypeOK
    OBVIOUS
  <1>1. db \in BOOLEAN /\ table \in BOOLEAN /\ group \in BOOLEAN
    BY DEF Init
  <1>2. stop_event \in SUBSET Worker
    BY DEF Init
  <1>3. task \in [Worker -> [Task -> TaskState]]
    BY DEF Init, NoTasks, TaskState
  <1>4. /\ api \in {"down", "starting", "serving"}
        /\ stage \in [Worker -> Stage] /\ verdict \in [Worker -> Verdict]
    BY DEF Init, Stage, Verdict
  <1>5. /\ attempt \in [Worker -> 1..Attempts]
        /\ outages \in 0..MaxOutages /\ failures \in 0..MaxFailures /\ signals \in 0..MaxSignals
    BY LifecycleAssumption DEF LifecycleAssumption, Init
  <1> QED
    BY <1>1, <1>2, <1>3, <1>4, <1>5 DEF TypeOK

\* One step per group of actions: every process stays at a stage the code has, and
\* wait_until_ready never makes more than Attempts probes.
LEMMA NextTypeOK ==
  ASSUME TypeOK, [Next]_vars
  PROVE  TypeOK'
  <1> USE LifecycleAssumption DEF LifecycleAssumption, TypeOK, TaskState, Stage, Verdict
  <1>1. CASE DbFails \/ DbRecovers \/ ApiStarts \/ ApiStops
    <2>1. UNCHANGED <<table, group, workerVars, failures>>
      BY <1>1 DEF DbFails, DbRecovers, ApiStarts, ApiStops, bounds
    <2>2. db' \in BOOLEAN /\ api' \in {"down", "starting", "serving"}
      BY <1>1 DEF DbFails, DbRecovers, ApiStarts, ApiStops
    <2>3. outages' \in 0..MaxOutages /\ signals' \in 0..MaxSignals
      BY <1>1 DEF DbFails, DbRecovers, ApiStarts, ApiStops, bounds
    <2> QED
      BY <2>1, <2>2, <2>3 DEF workerVars
  <1>2. CASE Lifespan
    <2>1. table' \in BOOLEAN /\ api' \in {"down", "starting", "serving"}
      BY <1>2 DEF Lifespan, InitModels
    <2> QED
      BY <1>2, <2>1 DEF Lifespan, workerVars, bounds
  <1>3. ASSUME NEW w \in Worker, Starts(w) \/ Probe(w) PROVE TypeOK'
    <2>1. attempt' \in [Worker -> 1..Attempts]
      BY <1>3 DEF Starts, Probe, MayRetry
    <2>2. task' \in [Worker -> [Task -> TaskState]] /\ stop_event' \in SUBSET Worker
      BY <1>3 DEF Starts, Probe, NoTasks
    <2>3. stage' \in [Worker -> Stage] /\ verdict' \in [Worker -> Verdict]
      BY <1>3 DEF Starts, Probe, Exit
    <2>4. UNCHANGED <<db, table, group, api, bounds>>
      BY <1>3 DEF Starts, Probe
    <2> QED
      BY <2>1, <2>2, <2>3, <2>4 DEF bounds
  <1>4. ASSUME NEW w \in Worker, EnsureGroup(w) \/ EnsureGroupRaises(w) PROVE TypeOK'
    <2>1. group' \in BOOLEAN /\ UNCHANGED <<db, table, api, attempt, stop_event>>
      BY <1>4 DEF EnsureGroup, EnsureGroupRaises
    <2>2. task' \in [Worker -> [Task -> TaskState]]
      BY <1>4 DEF EnsureGroup, EnsureGroupRaises
    <2>3. stage' \in [Worker -> Stage] /\ verdict' \in [Worker -> Verdict]
      BY <1>4 DEF EnsureGroup, EnsureGroupRaises, Exit
    <2>4. outages' = outages /\ signals' = signals /\ failures' \in 0..MaxFailures
      BY <1>4 DEF EnsureGroup, EnsureGroupRaises, bounds
    <2> QED
      BY <2>1, <2>2, <2>3, <2>4
  <1>5. ASSUME NEW w \in Worker, WatchRaises(w) PROVE TypeOK'
    BY <1>5 DEF WatchRaises, Ends, bounds
  <1>6. ASSUME NEW w \in Worker, Abort(w) PROVE TypeOK'
    BY <1>6 DEF Abort, bounds
  <1>7. ASSUME NEW w \in Worker, NEW t \in Task, Cancelled(w, t) PROVE TypeOK'
    BY <1>7 DEF Cancelled, Unwind, Ends, bounds
  <1>8. ASSUME NEW w \in Worker, NEW t \in Loop, LoopRaises(w, t) PROVE TypeOK'
    <2>1. t \in Task
      BY DEF Task
    <2>2. task' \in [Worker -> [Task -> TaskState]]
      BY <1>8, <2>1 DEF LoopRaises, Ends
    <2>3. failures' \in 0..MaxFailures
      BY <1>8 DEF LoopRaises
    <2> QED
      BY <1>8, <2>2, <2>3 DEF LoopRaises
  <1>9. ASSUME NEW w \in Worker, Leave(w) \/ Close(w) PROVE TypeOK'
    BY <1>9 DEF Leave, Close, Exit, bounds
  <1>10. ASSUME NEW w \in Worker, Sigterm(w) \/ Killed(w) PROVE TypeOK'
    BY <1>10 DEF Sigterm, Killed, Exit, NoTasks
  <1>11. CASE UNCHANGED vars
    BY <1>11 DEF vars, workerVars, bounds
  <1> QED
    BY <1>1, <1>2, <1>3, <1>4, <1>5, <1>6, <1>7, <1>8, <1>9, <1>10, <1>11
       DEF Next, WorkerStep, TaskStep

\* What is established initially: no process, no task, no verdict.
LEMMA InitIInv == Init => IInv
  <1> SUFFICES ASSUME Init PROVE IInv
    OBVIOUS
  <1>1. TypeOK
    BY InitTypeOK
  <1>2. ASSUME NEW w \in Worker PROVE Reached(w) /\ Grouped(w) /\ Judged(w)
    BY DEF Init, NoTasks, Reached, Grouped, Judged
  <1> QED
    BY <1>1, <1>2 DEF IInv, Init

\* A worker that does not step keeps what it has established, because nothing takes
\* the table or the group away again.
LEMMA Bystander ==
  ASSUME NEW v \in Worker, Local(v),
         table => table', group => group',
         stage'[v] = stage[v], task'[v] = task[v],
         (v \in stop_event' <=> v \in stop_event), verdict'[v] = verdict[v]
  PROVE  Local(v)'
  BY DEF Local, Reached, Grouped, Judged, NoTasks

\* The steps of Postgres and of the API leave every worker alone.
LEMMA EnvironmentLocal ==
  ASSUME IInv, DbFails \/ DbRecovers \/ ApiStarts \/ Lifespan \/ ApiStops,
         NEW v \in Worker
  PROVE  Local(v)'
  <1>1. Local(v)
    BY DEF IInv, Local
  <1>2. UNCHANGED workerVars /\ (table => table') /\ (group => group')
    BY DEF DbFails, DbRecovers, ApiStarts, Lifespan, ApiStops, InitModels
  <1> QED
    BY <1>1, <1>2, Bystander DEF workerVars

\* Startup: the table was seen before the group is asked for, and the group exists
\* before the tasks do.
LEMMA StartupLocal ==
  ASSUME IInv, NEW w \in Worker,
         Starts(w) \/ Probe(w) \/ EnsureGroup(w) \/ EnsureGroupRaises(w),
         NEW v \in Worker
  PROVE  Local(v)'
  <1> USE DEF TypeOK
  <1>0. TypeOK /\ Local(v) /\ Local(w)
    BY DEF IInv, Local
  <1>1. CASE v # w
    <2>1. /\ (table => table') /\ (group => group')
          /\ stage'[v] = stage[v] /\ task'[v] = task[v]
          /\ (v \in stop_event' <=> v \in stop_event) /\ verdict'[v] = verdict[v]
      BY <1>0, <1>1 DEF Starts, Probe, EnsureGroup, EnsureGroupRaises, Exit
    <2> QED
      BY <1>0, <2>1, Bystander
  <1>2. CASE v = w /\ Starts(w)
    BY <1>0, <1>2 DEF Starts, Local, Reached, Grouped, Judged, NoTasks
  <1>3. CASE v = w /\ Probe(w)
    <2>1. /\ stage[w] = "probing" /\ task[w] = NoTasks /\ w \notin stop_event
          /\ task' = task /\ stop_event' = stop_event
      BY <1>0, <1>3 DEF Probe, Local, Reached
    <2>2. \/ stage'[w] = "grouping" /\ table'
          \/ stage'[w] = "probing"
          \/ stage'[w] = "down" /\ verdict'[w] = "crash"
      BY <1>0, <1>3, <2>1 DEF Probe, Queryable, Exit
    <2> QED
      BY <1>3, <2>1, <2>2 DEF Local, Reached, Grouped, Judged, NoTasks
  <1>4. CASE v = w /\ EnsureGroup(w)
    <2>1. /\ table' /\ group' /\ stage'[w] = "running"
          /\ \A t \in Task : task'[w][t] = "alive"
      BY <1>0, <1>4 DEF EnsureGroup, Local, Reached
    <2> QED
      BY <1>4, <2>1 DEF Local, Reached, Grouped, Judged
  <1>5. CASE v = w /\ EnsureGroupRaises(w)
    <2>1. /\ stage'[w] = "down" /\ verdict'[w] = "crash" /\ task'[w] = NoTasks
      BY <1>0, <1>5 DEF EnsureGroupRaises, Exit, Local, Reached
    <2> QED
      BY <1>5, <2>1 DEF Local, Reached, Grouped, Judged, NoTasks
  <1> QED
    BY <1>1, <1>2, <1>3, <1>4, <1>5

\* The TaskGroup: a task is only cancelled for an exception of a sibling, and keeps
\* its end until the process is gone.
LEMMA TasksLocal ==
  ASSUME IInv, NEW w \in Worker,
         TaskStep(w) \/ (\E t \in Loop : LoopRaises(w, t)),
         NEW v \in Worker
  PROVE  Local(v)'
  <1> USE DEF TypeOK
  <1>0. TypeOK /\ Local(v) /\ Local(w)
    BY DEF IInv, Local
  <1>1. UNCHANGED <<table, group, stage, stop_event, verdict>>
    BY DEF TaskStep, WatchRaises, Abort, Cancelled, LoopRaises
  <1>2. CASE v # w
    <2>1. task'[v] = task[v]
      BY <1>0, <1>2 DEF TaskStep, WatchRaises, Abort, Cancelled, Unwind, LoopRaises, Ends
    <2> QED
      BY <1>0, <1>1, <2>1, Bystander
  <1>3. CASE v = w
    <2> DEFINE Moves(T) ==
          /\ T # {}
          /\ \A t \in T : task[w][t] \in {"alive", "cancelling"}
          /\ \A t \in Task \ T : task'[w][t] = task[w][t]
          /\ \A t \in T :
               \/ task'[w][t] = "raised"
               \/ task'[w][t] = "shutdown" /\ w \in stop_event
               \/ task'[w][t] = "cancelling" /\ \E u \in Task \ T : task[w][u] \in {"raised", "shutdown"}
               \/ task'[w][t] = "cancelled" /\ task[w][t] = "cancelling"
    <2>0. \E T \in SUBSET Task : Moves(T)
      <3>1. CASE WatchRaises(w)
        <4>1. {"watch"} \in SUBSET Task
          BY DEF Task
        <4>2. \A t \in Task : task'[w][t] = IF t = "watch" THEN "shutdown" ELSE task[w][t]
          BY <1>0, <3>1, <4>1 DEF WatchRaises, Ends
        <4>3. Moves({"watch"})
          BY <3>1, <4>1, <4>2 DEF WatchRaises
        <4> QED
          BY <4>1, <4>3
      <3>2. CASE Abort(w)
        <4> DEFINE A == {t \in Task : task[w][t] = "alive"}
        <4>1. A \in SUBSET Task /\ A # {}
          BY <3>2 DEF Abort
        <4>2. \A t \in Task : task'[w][t] = IF t \in A THEN "cancelling" ELSE task[w][t]
          BY <1>0, <3>2 DEF Abort
        <4>3. \E u \in Task \ A : task[w][u] \in {"raised", "shutdown"}
          BY <3>2 DEF Abort
        <4>4. Moves(A)
          BY <4>1, <4>2, <4>3
        <4> QED
          BY <4>1, <4>4
      <3>3. ASSUME NEW t \in Task, Cancelled(w, t) PROVE \E T \in SUBSET Task : Moves(T)
        <4>1. \A u \in Task : task'[w][u] = IF u = t THEN "cancelled" ELSE task[w][u]
          BY <1>0, <3>3 DEF Cancelled, Unwind, Ends
        <4>2. Moves({t})
          BY <3>3, <4>1 DEF Cancelled
        <4> QED
          BY <4>2
      <3>4. ASSUME NEW t \in Loop, LoopRaises(w, t) PROVE \E T \in SUBSET Task : Moves(T)
        <4>1. t \in Task
          BY DEF Task
        <4>2. \A u \in Task : task'[w][u] = IF u = t THEN "raised" ELSE task[w][u]
          BY <1>0, <3>4, <4>1 DEF LoopRaises, Ends
        <4>3. Moves({t})
          BY <3>4, <4>1, <4>2 DEF LoopRaises
        <4> QED
          BY <4>1, <4>3
      <3> QED
        BY <3>1, <3>2, <3>3, <3>4 DEF TaskStep
    <2>1. PICK T \in SUBSET Task : Moves(T)
      BY <2>0
    <2>2. stage[w] = "running"
      BY <1>0, <2>1 DEF Local, Grouped
    <2>3. Reached(w)'
      BY <1>0, <1>1, <2>1, <2>2 DEF Local, Reached
    <2>4. \A t \in Task : task'[w][t] = "shutdown" => w \in stop_event'
      BY <1>0, <1>1, <2>1 DEF Local, Grouped
    <2>5. ASSUME NEW t \in Task, task'[w][t] \in {"cancelling", "cancelled"}
          PROVE  \E u \in Task : task'[w][u] \in {"raised", "shutdown"}
      <3>1. \E u \in Task : task[w][u] \in {"raised", "shutdown"}
        BY <1>0, <2>1, <2>5 DEF Local, Grouped
      <3> QED
        BY <2>1, <3>1
    <2>6. Judged(w)'
      BY <1>1, <2>2 DEF Judged
    <2> QED
      BY <1>1, <1>3, <2>2, <2>3, <2>4, <2>5, <2>6 DEF Local, Grouped
  <1> QED
    BY <1>2, <1>3

\* Leaving the group: when all tasks are done and none of them raised, one of them is
\* the watcher that raised because the event was set.
LEMMA EndLocal ==
  ASSUME IInv, NEW w \in Worker, Leave(w) \/ Close(w),
         NEW v \in Worker
  PROVE  Local(v)'
  <1> USE DEF TypeOK
  <1>0. TypeOK /\ Local(v) /\ Local(w)
    BY DEF IInv, Local
  <1>1. UNCHANGED <<table, group, stop_event, task>>
    BY DEF Leave, Close
  <1>2. CASE v # w
    <2>1. stage'[v] = stage[v] /\ verdict'[v] = verdict[v]
      BY <1>0, <1>2 DEF Leave, Close, Exit
    <2> QED
      BY <1>0, <1>1, <2>1, Bystander
  <1>3. CASE v = w /\ Leave(w)
    <2>1. stage'[w] = "closing" /\ \A t \in Task : task[w][t] \in Done
      BY <1>0, <1>3 DEF Leave, Joined
    <2>2. verdict'[w] = IF \E t \in Task : task[w][t] = "raised" THEN "crash" ELSE "clean"
      BY <1>0, <1>3 DEF Leave, Residue
    <2>3. \E t \in Task : task[w][t] \in {"raised", "shutdown"}
      <3>1. "watch" \in Task
        BY DEF Task
      <3> QED
        BY <1>0, <2>1, <3>1 DEF Local, Grouped, Done
    <2>4. verdict'[w] = "clean" => w \in stop_event
      BY <1>0, <2>2, <2>3 DEF Local, Grouped
    <2>5. Reached(w)'
      BY <1>1, <2>1 DEF Reached, Done
    <2>6. Grouped(w)'
      BY <1>0, <1>1, <2>1 DEF Local, Grouped, Done
    <2>7. Judged(w)'
      BY <1>1, <2>1, <2>2, <2>4 DEF Judged
    <2> QED
      BY <1>3, <2>5, <2>6, <2>7 DEF Local
  <1>4. CASE v = w /\ Close(w)
    <2>1. stage[w] = "closing" /\ stage'[w] = "down" /\ verdict'[w] \in {verdict[w], "crash"}
      BY <1>0, <1>4 DEF Close, Exit
    <2>2. \A t \in Task : task[w][t] \notin {"alive", "cancelling"}
      BY <1>0, <2>1 DEF Local, Grouped
    <2>3. Reached(w)' /\ Judged(w)'
      BY <1>0, <1>1, <2>1 DEF Local, Reached, Judged
    <2>4. Grouped(w)'
      BY <1>0, <1>1, <2>1, <2>2 DEF Local, Grouped
    <2> QED
      BY <1>4, <2>3, <2>4 DEF Local
  <1> QED
    BY <1>2, <1>3, <1>4

\* Signals: the event can only be set under the handlers, a killed process leaves no task.
LEMMA SignalLocal ==
  ASSUME IInv, NEW w \in Worker, Sigterm(w) \/ Killed(w),
         NEW v \in Worker
  PROVE  Local(v)'
  <1> USE DEF TypeOK
  <1>0. TypeOK /\ Local(v) /\ Local(w)
    BY DEF IInv, Local
  <1>1. UNCHANGED <<table, group>>
    BY DEF Sigterm, Killed
  <1>2. CASE v # w
    <2>1. /\ stage'[v] = stage[v] /\ task'[v] = task[v]
          /\ (v \in stop_event' <=> v \in stop_event) /\ verdict'[v] = verdict[v]
      BY <1>0, <1>2 DEF Sigterm, Killed, Exit
    <2> QED
      BY <1>0, <1>1, <2>1, Bystander
  <1>3. CASE v = w /\ Killed(w)
    BY <1>0, <1>3 DEF Killed, Exit, Local, Reached, Grouped, Judged, NoTasks
  <1>4. CASE v = w /\ Sigterm(w)
    <2>1. task' = task
      BY <1>4 DEF Sigterm
    <2>2. \/ /\ stage' = stage /\ verdict' = verdict /\ w \in stop_event'
             /\ stage[w] \in {"running", "closing"}
          \/ stage' = stage /\ verdict' = verdict /\ stop_event' = stop_event
          \/ /\ task[w] = NoTasks /\ stage'[w] = "down" /\ verdict'[w] = "killed"
             /\ stop_event' = stop_event
      BY <1>0, <1>4 DEF Sigterm, Exit, Local, Reached
    <2> QED
      BY <1>0, <1>1, <1>4, <2>1, <2>2 DEF Local, Reached, Grouped, Judged, NoTasks
  <1> QED
    BY <1>2, <1>3, <1>4

\* The API serves a table it has created, and nothing drops it.
LEMMA ServesTable ==
  ASSUME [Next]_vars, api = "serving" => table
  PROVE  (api = "serving" => table)'
  <1>1. CASE DbFails \/ DbRecovers \/ ApiStarts \/ Lifespan \/ ApiStops
    BY <1>1 DEF DbFails, DbRecovers, ApiStarts, Lifespan, InitModels, ApiStops
  <1>2. ASSUME NEW w \in Worker, WorkerStep(w) PROVE UNCHANGED <<api, table>>
    <2>1. CASE Starts(w) \/ Probe(w) \/ EnsureGroup(w)
      BY <2>1 DEF Starts, Probe, EnsureGroup
    <2>2. CASE TaskStep(w)
      BY <2>2 DEF TaskStep, WatchRaises, Abort, Cancelled
    <2>3. CASE Leave(w) \/ Close(w)
      BY <2>3 DEF Leave, Close
    <2> QED
      BY <1>2, <2>1, <2>2, <2>3 DEF WorkerStep
  <1>3. ASSUME NEW w \in Worker,
               \/ EnsureGroupRaises(w) \/ Sigterm(w) \/ Killed(w)
               \/ \E t \in Loop : LoopRaises(w, t)
        PROVE  UNCHANGED <<api, table>>
    BY <1>3 DEF EnsureGroupRaises, LoopRaises, Sigterm, Killed
  <1>4. CASE UNCHANGED vars
    BY <1>4 DEF vars
  <1> QED
    BY <1>1, <1>2, <1>3, <1>4 DEF Next

\* Every step keeps what every worker has established.
LEMMA NextIInv ==
  ASSUME IInv, [Next]_vars
  PROVE  IInv'
  <1>1. TypeOK'
    BY NextTypeOK DEF IInv
  <1>2. ASSUME NEW v \in Worker PROVE Local(v)'
    <2>1. CASE UNCHANGED vars
      BY <2>1 DEF IInv, Local, Reached, Grouped, Judged, NoTasks, vars, workerVars
    <2>2. CASE Next
      BY <2>2, EnvironmentLocal, StartupLocal, TasksLocal, EndLocal, SignalLocal
         DEF Next, WorkerStep
    <2> QED
      BY <2>1, <2>2
  <1> QED
    BY <1>1, <1>2, ServesTable DEF IInv, Local

\* The inductive invariant holds in every state.
THEOREM Invariant == Spec => []IInv
  <1>1. Init => IInv
    BY InitIInv
  <1>2. IInv /\ [Next]_vars => IInv'
    BY NextIInv
  <1> QED
    BY <1>1, <1>2, PTL DEF Spec

\* Every worker is at a stage of run_worker, within its probes.
THEOREM TypeCorrect == Spec => []TypeOK
  BY Invariant, PTL DEF IInv

\* run_worker's except*: no crash ends as a clean exit, no clean stop as a crash.
THEOREM VerdictsAreHonest == Spec => []VerdictIsHonest
  <1>1. IInv => VerdictIsHonest
    BY DEF IInv, Judged, VerdictIsHonest
  <1> QED
    BY <1>1, Invariant, PTL

\* wait_until_ready and ensure_group: tasks only run with their table and their group.
THEOREM TasksFindTable == Spec => []NothingRunsTooEarly
  <1>1. IInv => NothingRunsTooEarly
    BY DEF IInv, Reached, Grouped, NothingRunsTooEarly, Task
  <1> QED
    BY <1>1, Invariant, PTL

\* The finally clause closes the clients under no task.
THEOREM ClientsOutliveTasks == Spec => []NoUseAfterClose
  <1>1. IInv => NoUseAfterClose
    BY DEF IInv, Grouped, NoUseAfterClose
  <1> QED
    BY <1>1, Invariant, PTL
=============================================================================
