----------------------- MODULE LifecycleProgressProofs -----------------------
(***************************************************************************)
(* Liveness of Lifecycle, for any number of workers, probes, outages,      *)
(* failures and signals, from the fairness that Scheduling writes out.     *)
(* All properties descend the same ladder: how many steps of its own a     *)
(* worker is away from having all of its tasks running.                    *)
(***************************************************************************)
EXTENDS LifecycleProofs

\* When a worker has a step of its own to take: always, but for a TaskGroup whose tasks
\* all wait.
Ready(w) ==
  stage[w] = "running" =>
    \/ task[w]["watch"] = "alive" /\ w \in stop_event
    \/ /\ \E t \in Task : task[w][t] \in {"raised", "shutdown"}
       /\ \E t \in Task : task[w][t] = "alive"
    \/ \E t \in Task : task[w][t] = "cancelling"
    \/ Joined(w)

\* Fairness, with the guards of its actions in the place of ENABLED, which the provers
\* do not know: the hypothesis of the theorems below.
Scheduling ==
  /\ []<>db \/ []<><<DbRecovers>>_vars
  /\ []<>(api # "down") \/ []<><<ApiStarts>>_vars
  /\ []<>(api # "starting") \/ []<><<Lifespan>>_vars
  /\ \A w \in Worker : []<>~Ready(w) \/ []<><<WorkerStep(w)>>_vars

----------------------------------------------------------------------------
(* The ladder. *)

Weight(s) == IF s = "alive" THEN 2 ELSE IF s = "cancelling" THEN 1 ELSE 0

\* What the TaskGroup still has to cancel and to wait for.
Load(w) ==
  Weight(task[w]["consume"]) + Weight(task[w]["reclaim"]) + Weight(task[w]["lag"])
    + Weight(task[w]["watch"])

Healthy(w) == w \notin stop_event /\ \A t \in Task : task[w][t] = "alive"

Distance(w) ==
  CASE stage[w] = "running"  -> IF Healthy(w) THEN 0 ELSE 5 + Load(w)
    [] stage[w] = "grouping" -> 1
    [] stage[w] = "probing"  -> 2
    [] stage[w] = "down"     -> 3
    [] stage[w] = "closing"  -> 4

\* One of its tasks raised, and the process has not ended yet.
Failed(w) == stage[w] \in {"running", "closing"} /\ \E t \in Task : task[w][t] = "raised"

\* Asked to stop or failed, and not down yet.
Leaving(w) == Failed(w) \/ (w \in stop_event /\ stage[w] \in {"running", "closing"})

LEMMA LoadType ==
  ASSUME TypeOK, NEW w \in Worker
  PROVE  Load(w) \in 0..8
  BY DEF TypeOK, Load, Weight, Task, Loop

LEMMA LoadTypeNext ==
  ASSUME TypeOK', NEW w \in Worker
  PROVE  Load(w)' \in 0..8
  BY DEF TypeOK, Load, Weight, Task, Loop

\* The group's load falls when one of its tasks gets nearer to its end and none starts over.
LEMMA LoadFalls ==
  ASSUME TypeOK, TypeOK', NEW w \in Worker, NEW t \in Task,
         Weight(task'[w][t]) < Weight(task[w][t]),
         \A u \in Task : Weight(task'[w][u]) <= Weight(task[w][u])
  PROVE  Load(w)' < Load(w)
  <1>1. \A u \in Task : Weight(task'[w][u]) \in 0..2 /\ Weight(task[w][u]) \in 0..2
    BY DEF Weight
  <1>2. t \in {"consume", "reclaim", "lag", "watch"} /\ {"consume", "reclaim", "lag", "watch"} = Task
    BY DEF Task, Loop
  <1> QED
    BY <1>1, <1>2 DEF Load

LEMMA DistanceType ==
  ASSUME TypeOK, NEW w \in Worker
  PROVE  Distance(w) \in 0..13
  <1>1. stage[w] \in Stage
    BY DEF TypeOK
  <1> QED
    BY <1>1, LoadType DEF Distance, Stage

LEMMA DistanceTypeNext ==
  ASSUME TypeOK', NEW w \in Worker
  PROVE  Distance(w)' \in 0..13
  <1>1. stage'[w] \in Stage
    BY DEF TypeOK
  <1> QED
    BY <1>1, LoadTypeNext DEF Distance, Stage

----------------------------------------------------------------------------
(* One step. *)

\* A TaskGroup that is shutting down does not get healthy again, and each step of one
\* of its tasks lowers its load.
LEMMA TasksFall ==
  ASSUME IInv, IInv', NEW w \in Worker, TaskStep(w) \/ (\E t \in Loop : LoopRaises(w, t))
  PROVE  /\ stage[w] = "running" /\ stage' = stage /\ stop_event' = stop_event
         /\ Load(w)' < Load(w)
         /\ ~ Healthy(w)'
         /\ TaskStep(w) => ~ Healthy(w)
  <1>0. TypeOK /\ TypeOK' /\ Grouped(w)
    BY DEF IInv
  <1>1. stage' = stage /\ stop_event' = stop_event
    BY DEF TaskStep, WatchRaises, Abort, Cancelled, LoopRaises
  <1>2. CASE WatchRaises(w)
    <2>1. "watch" \in Task /\ task[w]["watch"] = "alive" /\ w \in stop_event
      BY <1>2 DEF WatchRaises, Task
    <2>2. \A u \in Task : task'[w][u] = IF u = "watch" THEN "shutdown" ELSE task[w][u]
      BY <1>0, <1>2 DEF WatchRaises, Ends, TypeOK
    <2>3. Load(w)' < Load(w)
      BY <1>0, <2>1, <2>2, LoadFalls DEF Weight
    <2> QED
      BY <1>0, <1>1, <2>1, <2>3 DEF Grouped, Healthy
  <1>3. CASE Abort(w)
    <2>1. PICK t \in Task : task[w][t] = "alive"
      BY <1>3 DEF Abort
    <2>2. PICK v \in Task : task[w][v] \in {"raised", "shutdown"}
      BY <1>3 DEF Abort
    <2>3. \A u \in Task : task'[w][u] = IF task[w][u] = "alive" THEN "cancelling" ELSE task[w][u]
      BY <1>0, <1>3 DEF Abort, TypeOK
    <2>4. Load(w)' < Load(w)
      BY <1>0, <2>1, <2>3, LoadFalls DEF Weight
    <2> QED
      BY <1>0, <1>1, <2>1, <2>2, <2>3, <2>4 DEF Grouped, Healthy
  <1>4. ASSUME NEW t \in Task, Cancelled(w, t)
        PROVE  stage[w] = "running" /\ Load(w)' < Load(w) /\ ~ Healthy(w)' /\ ~ Healthy(w)
    <2>1. task[w][t] = "cancelling"
      BY <1>4 DEF Cancelled
    <2>2. \A u \in Task : task'[w][u] = IF u = t THEN "cancelled" ELSE task[w][u]
      BY <1>0, <1>4 DEF Cancelled, Unwind, Ends, TypeOK
    <2>3. Load(w)' < Load(w)
      BY <1>0, <2>1, <2>2, LoadFalls DEF Weight
    <2> QED
      BY <1>0, <2>1, <2>2, <2>3 DEF Grouped, Healthy
  <1>5. ASSUME NEW t \in Loop, LoopRaises(w, t)
        PROVE  stage[w] = "running" /\ Load(w)' < Load(w) /\ ~ Healthy(w)'
    <2>1. t \in Task /\ task[w][t] \in {"alive", "cancelling"}
      BY <1>5 DEF LoopRaises, Task
    <2>2. \A u \in Task : task'[w][u] = IF u = t THEN "raised" ELSE task[w][u]
      BY <1>0, <1>5, <2>1 DEF LoopRaises, Ends, TypeOK
    <2>3. Load(w)' < Load(w)
      BY <1>0, <2>1, <2>2, LoadFalls DEF Weight
    <2> QED
      BY <1>0, <2>1, <2>2, <2>3 DEF Grouped, Healthy
  <1> QED
    BY <1>1, <1>2, <1>3, <1>4, <1>5 DEF TaskStep

\* Whatever a worker does by itself brings it nearer, unless its probe finds no table.
LEMMA StepFalls ==
  ASSUME IInv, IInv', NEW w \in Worker, WorkerStep(w),
         stage[w] = "probing" => Queryable
  PROVE  Distance(w)' < Distance(w)
  <1>0. TypeOK /\ TypeOK' /\ Reached(w) /\ Grouped(w)
    BY DEF IInv
  <1>1. Load(w) \in 0..8 /\ Load(w)' \in 0..8
    BY <1>0, LoadType, LoadTypeNext
  <1>2. CASE Starts(w)
    <2>1. stage[w] = "down" /\ stage'[w] = "probing"
      BY <1>0, <1>2 DEF Starts, TypeOK
    <2> QED
      BY <2>1 DEF Distance
  <1>3. CASE Probe(w)
    <2>1. stage[w] = "probing" /\ stage'[w] = "grouping"
      BY <1>0, <1>3 DEF Probe, TypeOK
    <2> QED
      BY <2>1 DEF Distance
  <1>4. CASE EnsureGroup(w)
    <2>1. /\ stage[w] = "grouping" /\ stage'[w] = "running"
          /\ stop_event' = stop_event /\ \A t \in Task : task'[w][t] = "alive"
      BY <1>0, <1>4 DEF EnsureGroup, TypeOK
    <2>2. Healthy(w)'
      BY <1>0, <2>1 DEF Reached, Healthy
    <2> QED
      BY <2>1, <2>2 DEF Distance
  <1>5. CASE TaskStep(w)
    <2>1. /\ stage[w] = "running" /\ stage' = stage
          /\ Load(w)' < Load(w) /\ ~ Healthy(w)' /\ ~ Healthy(w)
      BY <1>5, TasksFall
    <2> QED
      BY <1>1, <2>1 DEF Distance
  <1>6. CASE Leave(w)
    <2>1. /\ stage[w] = "running" /\ stage'[w] = "closing"
          /\ \A t \in Task : task[w][t] \in Done
      BY <1>0, <1>6 DEF Leave, Joined, TypeOK
    <2>2. ~ Healthy(w)
      BY <2>1 DEF Healthy, Done, Task
    <2> QED
      BY <1>1, <2>1, <2>2 DEF Distance
  <1>7. CASE Close(w)
    <2>1. stage[w] = "closing" /\ stage'[w] = "down"
      BY <1>0, <1>7 DEF Close, Exit, TypeOK
    <2> QED
      BY <2>1 DEF Distance
  <1> QED
    BY <1>2, <1>3, <1>4, <1>5, <1>6, <1>7 DEF WorkerStep

\* What the distance of a worker depends on.
Untouched(w) ==
  /\ stage'[w] = stage[w]
  /\ task'[w] = task[w]
  /\ w \in stop_event' <=> w \in stop_event

LEMMA UntouchedKeeps ==
  ASSUME NEW w \in Worker, Untouched(w)
  PROVE  Distance(w)' = Distance(w) /\ (Leaving(w)' <=> Leaving(w))
  <1>1. Load(w)' = Load(w) /\ (Healthy(w)' <=> Healthy(w))
    BY DEF Untouched, Load, Healthy
  <1> QED
    BY <1>1 DEF Untouched, Distance, Leaving, Failed

\* Steps of Postgres, of the API and of other workers.
LEMMA OthersKeep ==
  ASSUME TypeOK, [Next]_vars, NEW w \in Worker,
         ~ WorkerStep(w), ~ EnsureGroupRaises(w), ~ (\E t \in Loop : LoopRaises(w, t)),
         ~ Sigterm(w), ~ Killed(w)
  PROVE  Untouched(w)
  <1> USE DEF TypeOK
  <1>1. CASE DbFails \/ DbRecovers \/ ApiStarts \/ Lifespan \/ ApiStops
    BY <1>1 DEF DbFails, DbRecovers, ApiStarts, Lifespan, ApiStops, workerVars, Untouched
  <1>2. ASSUME NEW v \in Worker, v # w, WorkerStep(v) PROVE Untouched(w)
    <2>1. CASE Starts(v) \/ Probe(v) \/ EnsureGroup(v)
      BY <1>2, <2>1 DEF Starts, Probe, EnsureGroup, Exit, Untouched
    <2>2. CASE TaskStep(v)
      BY <1>2, <2>2 DEF TaskStep, WatchRaises, Abort, Cancelled, Unwind, Ends, Untouched
    <2>3. CASE Leave(v) \/ Close(v)
      BY <1>2, <2>3 DEF Leave, Close, Exit, Untouched
    <2> QED
      BY <1>2, <2>1, <2>2, <2>3 DEF WorkerStep
  <1>3. ASSUME NEW v \in Worker, v # w,
               \/ EnsureGroupRaises(v) \/ Sigterm(v) \/ Killed(v)
               \/ \E t \in Loop : LoopRaises(v, t)
        PROVE  Untouched(w)
    BY <1>3 DEF EnsureGroupRaises, Exit, LoopRaises, Ends, Sigterm, Killed, Untouched
  <1>4. CASE UNCHANGED vars
    BY <1>4 DEF vars, workerVars, Untouched
  <1> QED
    BY <1>1, <1>2, <1>3, <1>4 DEF Next

----------------------------------------------------------------------------
(* A worker that is asked to stop, or that failed. *)

\* A failure is not forgotten: it stays with its task until the process exits with it.
LEMMA FailedStays ==
  ASSUME IInv, [Next]_vars, NEW w \in Worker, Failed(w)
  PROVE  Failed(w)' \/ (stage'[w] = "down" /\ verdict'[w] \in {"crash", "killed"})
  <1>0. TypeOK /\ Judged(w)
    BY DEF IInv
  <1>1. PICK t \in Task : task[w][t] = "raised"
    BY DEF Failed
  <1>2. CASE TaskStep(w) \/ (\E u \in Loop : LoopRaises(w, u))
    <2>1. stage' = stage /\ task'[w][t] = "raised"
      BY <1>0, <1>1, <1>2
      DEF TaskStep, WatchRaises, Abort, Cancelled, Unwind, LoopRaises, Ends, Task, TypeOK
    <2> QED
      BY <2>1 DEF Failed
  <1>3. CASE Starts(w) \/ Probe(w) \/ EnsureGroup(w) \/ EnsureGroupRaises(w)
    BY <1>3 DEF Failed, Starts, Probe, EnsureGroup, EnsureGroupRaises
  <1>4. CASE Leave(w)
    <2>1. stage'[w] = "closing" /\ task' = task
      BY <1>0, <1>4 DEF Leave, TypeOK
    <2> QED
      BY <1>1, <2>1 DEF Failed
  <1>5. CASE Close(w)
    <2>1. verdict[w] = "crash"
      BY <1>0, <1>1, <1>5 DEF Close, Judged
    <2> QED
      BY <1>0, <1>5, <2>1 DEF Close, Exit, TypeOK
  <1>6. CASE Sigterm(w)
    BY <1>6 DEF Failed, Sigterm
  <1>7. CASE Killed(w)
    BY <1>0, <1>7 DEF Killed, Exit, TypeOK
  <1>8. CASE /\ ~ WorkerStep(w) /\ ~ (\E u \in Loop : LoopRaises(w, u))
             /\ ~ EnsureGroupRaises(w) /\ ~ Sigterm(w) /\ ~ Killed(w)
    <2>1. Untouched(w)
      BY <1>0, <1>8, OthersKeep
    <2> QED
      BY <2>1 DEF Untouched, Failed
  <1> QED
    BY <1>2, <1>3, <1>4, <1>5, <1>6, <1>7, <1>8 DEF WorkerStep

LEMMA LeavingIsUnhealthy ==
  ASSUME NEW w \in Worker, Leaving(w), stage[w] = "running"
  PROVE  ~ Healthy(w)
  BY DEF Leaving, Failed, Healthy

\* Until it is down it keeps leaving, and nothing anyone does takes it further from its end.
LEMMA LeavingStays ==
  ASSUME IInv, IInv', [Next]_vars, NEW w \in Worker, Leaving(w)
  PROVE  /\ Leaving(w)' \/ stage'[w] = "down"
         /\ Distance(w)' <= Distance(w)
         /\ WorkerStep(w) => Distance(w)' < Distance(w)
  <1>0. TypeOK /\ TypeOK' /\ stage[w] \in {"running", "closing"}
    BY DEF IInv, Leaving, Failed
  <1>1. Distance(w) \in 0..13 /\ Distance(w)' \in 0..13
    BY <1>0, DistanceType, DistanceTypeNext
  <1>2. Failed(w) => Leaving(w)' \/ stage'[w] = "down"
    BY FailedStays DEF Leaving
  <1>3. CASE WorkerStep(w)
    <2>1. Distance(w)' < Distance(w)
      BY <1>0, <1>3, StepFalls
    <2>2. CASE TaskStep(w)
      BY <1>0, <1>1, <1>2, <2>1, <2>2, TasksFall DEF Leaving
    <2>3. CASE Leave(w) \/ Close(w)
      <3>1. stop_event' = stop_event /\ stage'[w] \in {"closing", "down"}
        BY <1>0, <2>3 DEF Leave, Close, Exit, TypeOK
      <3> QED
        BY <1>1, <1>2, <2>1, <3>1 DEF Leaving
    <2> QED
      BY <1>0, <1>3, <2>2, <2>3 DEF WorkerStep, Starts, Probe, EnsureGroup
  <1>4. ASSUME NEW t \in Loop, LoopRaises(w, t), ~ WorkerStep(w)
        PROVE  (Leaving(w)' \/ stage'[w] = "down") /\ Distance(w)' <= Distance(w)
    <2>1. /\ stage[w] = "running" /\ stage' = stage /\ stop_event' = stop_event
          /\ Load(w)' < Load(w) /\ ~ Healthy(w)'
      BY <1>4, TasksFall
    <2>2. ~ Healthy(w)
      BY <2>1, LeavingIsUnhealthy
    <2>3. Distance(w)' <= Distance(w)
      BY <1>0, <2>1, <2>2, LoadType, LoadTypeNext DEF Distance
    <2> QED
      BY <1>2, <2>1, <2>3 DEF Leaving
  <1>5. CASE Sigterm(w) /\ ~ WorkerStep(w)
    <2>1. stage' = stage /\ task' = task /\ w \in stop_event'
      BY <1>0, <1>5 DEF Sigterm
    <2>2. Load(w)' = Load(w) /\ ~ Healthy(w)'
      BY <2>1 DEF Load, Healthy
    <2>3. Distance(w)' = Distance(w)
      BY <1>0, <2>1, <2>2, LeavingIsUnhealthy DEF Distance
    <2> QED
      BY <1>0, <1>1, <1>5, <2>1, <2>3 DEF Leaving
  <1>6. CASE Killed(w) /\ ~ WorkerStep(w)
    <2>1. stage'[w] = "down"
      BY <1>0, <1>6 DEF Killed, Exit, TypeOK
    <2>2. Distance(w)' = 3
      BY <2>1 DEF Distance
    <2>3. Distance(w) >= 4
      BY <1>0, LoadType, LeavingIsUnhealthy DEF Distance
    <2> QED
      BY <1>1, <1>6, <2>1, <2>2, <2>3
  <1>7. CASE /\ ~ WorkerStep(w) /\ ~ (\E t \in Loop : LoopRaises(w, t))
             /\ ~ Sigterm(w) /\ ~ Killed(w)
    <2>1. ~ EnsureGroupRaises(w)
      BY <1>0 DEF EnsureGroupRaises
    <2>2. Untouched(w)
      BY <1>0, <1>7, <2>1, OthersKeep
    <2> QED
      BY <1>1, <1>7, <2>2, UntouchedKeeps
  <1> QED
    BY <1>3, <1>4, <1>5, <1>6, <1>7

\* A TaskGroup is never stuck: one that is not as healthy as at its start has something to do.
LEMMA UnhealthyIsReady ==
  ASSUME IInv, NEW w \in Worker, stage[w] = "running", ~ Healthy(w)
  PROVE  Ready(w)
  <1>0. TypeOK /\ Reached(w) /\ Grouped(w)
    BY DEF IInv
  <1>1. CASE \A t \in Task : task[w][t] = "alive"
    BY <1>1 DEF Healthy, Ready, Task
  <1>2. CASE \A t \in Task : task[w][t] \in Done
    BY <1>2 DEF Ready, Joined
  <1>3. CASE \E t, u \in Task : task[w][t] = "alive" /\ task[w][u] \in Done
    BY <1>0, <1>3 DEF Grouped, Done, Ready
  <1>4. CASE \E t \in Task : task[w][t] = "cancelling"
    BY <1>4 DEF Ready
  <1>5. \A t \in Task : task[w][t] \in {"alive", "cancelling"} \cup Done
    BY <1>0 DEF TypeOK, Reached, TaskState, Done
  <1> QED
    BY <1>1, <1>2, <1>3, <1>4, <1>5

\* Still leaving, with at most n steps of its own to go.
Within(w, n) == Leaving(w) /\ Distance(w) <= n

\* One rung of the ladder.
GetsWithin(w, m, n) == Within(w, m) ~> (stage[w] = "down" \/ Within(w, n))

LEMMA StopRung ==
  ASSUME NEW w \in Worker, NEW m \in Nat, NEW n \in Nat, m = n + 1
  PROVE  Spec /\ Scheduling => GetsWithin(w, m, n)
  <1>1. Scheduling => []<>~Ready(w) \/ []<><<WorkerStep(w)>>_vars
    BY DEF Scheduling
  <1>2. IInv /\ IInv' /\ [Next]_vars /\ Within(w, m) => (stage[w] = "down" \/ Within(w, m))'
    <2> SUFFICES ASSUME IInv, IInv', [Next]_vars, Leaving(w), Distance(w) <= m
                 PROVE  stage'[w] = "down" \/ (Leaving(w)' /\ Distance(w)' <= m)
      BY DEF Within
    <2>1. TypeOK /\ TypeOK'
      BY DEF IInv
    <2>2. Distance(w) \in 0..13 /\ Distance(w)' \in 0..13
      BY <2>1, DistanceType, DistanceTypeNext
    <2> QED
      BY <2>2, LeavingStays
  <1>3. /\ IInv /\ IInv' /\ <<Next /\ WorkerStep(w)>>_vars /\ Within(w, m)
        => (stage[w] = "down" \/ Within(w, n))'
    <2> SUFFICES ASSUME IInv, IInv', Next, WorkerStep(w), Leaving(w), Distance(w) <= m
                 PROVE  stage'[w] = "down" \/ (Leaving(w)' /\ Distance(w)' <= n)
      BY DEF Within
    <2>1. TypeOK /\ TypeOK'
      BY DEF IInv
    <2>2. Distance(w) \in 0..13 /\ Distance(w)' \in 0..13
      BY <2>1, DistanceType, DistanceTypeNext
    <2> QED
      BY <2>2, LeavingStays
  <1>4. <<WorkerStep(w)>>_vars => <<Next /\ WorkerStep(w)>>_vars
    BY DEF Next
  <1>5. IInv /\ Within(w, m) => Ready(w)
    <2> SUFFICES ASSUME IInv, Leaving(w) PROVE Ready(w)
      BY DEF Within
    <2>1. CASE stage[w] = "running"
      BY <2>1, LeavingIsUnhealthy, UnhealthyIsReady
    <2> QED
      BY <2>1 DEF Ready
  <1> QED
    BY <1>1, <1>2, <1>3, <1>4, <1>5, Invariant, PTL DEF Spec, GetsWithin

\* The whole ladder: who is leaving gets down.
LEMMA LeavingEnds ==
  ASSUME NEW w \in Worker
  PROVE  Spec /\ Scheduling => (Leaving(w) ~> stage[w] = "down")
  <1>1. Spec /\ Scheduling =>
          /\ GetsWithin(w, 13, 12)
          /\ GetsWithin(w, 12, 11)
          /\ GetsWithin(w, 11, 10)
          /\ GetsWithin(w, 10, 9)
          /\ GetsWithin(w, 9, 8)
          /\ GetsWithin(w, 8, 7)
          /\ GetsWithin(w, 7, 6)
          /\ GetsWithin(w, 6, 5)
          /\ GetsWithin(w, 5, 4)
          /\ GetsWithin(w, 4, 3)
    BY StopRung
  <1>2. IInv /\ Leaving(w) => Within(w, 13)
    <2> SUFFICES ASSUME IInv, Leaving(w)
                 PROVE  Within(w, 13)
      OBVIOUS
    <2>1. Distance(w) \in 0..13
      BY DistanceType DEF IInv
    <2> QED
      BY <2>1 DEF Within
  <1>3. IInv => ~ Within(w, 3)
    <2> SUFFICES ASSUME IInv, Leaving(w)
                 PROVE  ~ (Distance(w) <= 3)
      BY DEF Within
    <2>1. Load(w) \in 0..8
      BY LoadType DEF IInv
    <2>2. CASE stage[w] = "running"
      BY <2>1, <2>2, LeavingIsUnhealthy DEF Distance
    <2>3. CASE stage[w] = "closing"
      BY <2>3 DEF Distance
    <2> QED
      BY <2>2, <2>3 DEF Leaving, Failed
  <1> QED
    BY <1>1, <1>2, <1>3, Invariant, PTL DEF GetsWithin

\* handle and run_worker: a running worker that is asked to stop ends, whatever its
\* tasks await and whatever fails meanwhile.
THEOREM WorkersStop == Spec /\ Scheduling => StopsWhenAsked
  <1> SUFFICES ASSUME NEW w \in Worker
               PROVE  Spec /\ Scheduling =>
                        (stage[w] = "running" /\ w \in stop_event ~> stage[w] = "down")
    BY DEF StopsWhenAsked
  <1>1. stage[w] = "running" /\ w \in stop_event => Leaving(w)
    BY DEF Leaving
  <1> QED
    BY <1>1, LeavingEnds, PTL

\* The TaskGroup: a worker one of whose loops raised ends, and with a failure, whatever
\* else is raised, cancelled or signalled meanwhile.
THEOREM CrashesEnd == Spec /\ Scheduling => CrashEndsWorker
  <1> SUFFICES ASSUME NEW w \in Worker, NEW t \in Loop
               PROVE  Spec /\ Scheduling =>
                        (stage[w] = "running" /\ task[w][t] = "raised" ~>
                           stage[w] = "down" /\ verdict[w] \in {"crash", "killed"})
    BY DEF CrashEndsWorker
  <1>1. stage[w] = "running" /\ task[w][t] = "raised" => Failed(w)
    BY DEF Failed, Task
  <1>2. Failed(w) => Leaving(w) /\ ~ (stage[w] = "down")
    BY DEF Leaving, Failed
  <1>3. IInv /\ [Next]_vars /\ Failed(w) =>
          Failed(w)' \/ (stage[w] = "down" /\ verdict[w] \in {"crash", "killed"})'
    BY FailedStays
  <1> QED
    BY <1>1, <1>2, <1>3, LeavingEnds, Invariant, PTL DEF Spec

----------------------------------------------------------------------------
(* When the trouble ends. *)

LEMMA QuietSteps ==
  ASSUME TypeOK, [Next]_vars, [~ Trouble]_vars
  PROVE  /\ db => db'
         /\ api = "serving" => api' = "serving"
         /\ db /\ api = "starting" => api' \in {"starting", "serving"}
  <1>1. CASE UNCHANGED vars
    BY <1>1 DEF vars
  <1>2. CASE DbRecovers \/ ApiStarts
    BY <1>2 DEF DbRecovers, ApiStarts
  <1>3. CASE Lifespan
    BY <1>3 DEF Lifespan, InitModels
  <1>4. ASSUME NEW w \in Worker, WorkerStep(w)
        PROVE  db' = db /\ api' = api
    BY <1>4 DEF WorkerStep, TaskStep, Starts, Probe, EnsureGroup, WatchRaises, Abort,
                Cancelled, Leave, Close
  <1> QED
    BY <1>1, <1>2, <1>3, <1>4 DEF Next, Trouble

\* With Postgres reachable for good the API gets through its lifespan.
LEMMA ApiComesUp ==
  Spec /\ Scheduling /\ <>[][~ Trouble]_vars => <>[](db /\ api = "serving")
  <1>1. IInv /\ [Next]_vars /\ [~ Trouble]_vars =>
          /\ db => db'
          /\ api = "serving" => (api = "serving")'
          /\ db /\ api = "starting" => (api = "starting")' \/ (api = "serving")'
    BY QuietSteps DEF IInv
  <1>2. <<DbRecovers>>_vars => db'
    BY DEF DbRecovers
  <1>3. <<ApiStarts>>_vars => (api = "starting")'
    BY DEF ApiStarts
  <1>4. db /\ <<Lifespan>>_vars => (api = "serving")'
    BY DEF Lifespan, InitModels
  <1>5. IInv => api = "down" \/ api = "starting" \/ api = "serving"
    BY DEF IInv, TypeOK
  <1>6. (api # "down" <=> ~ (api = "down")) /\ (api # "starting" <=> ~ (api = "starting"))
    OBVIOUS
  <1>7. Scheduling => /\ []<>db \/ []<><<DbRecovers>>_vars
                      /\ []<>(api # "down") \/ []<><<ApiStarts>>_vars
                      /\ []<>(api # "starting") \/ []<><<Lifespan>>_vars
    BY DEF Scheduling
  <1>8. Spec /\ Scheduling /\ <>[][~ Trouble]_vars => <>[]db
    BY <1>1, <1>2, <1>7, Invariant, PTL DEF Spec
  <1> QED
    BY <1>1, <1>3, <1>4, <1>5, <1>6, <1>7, <1>8, Invariant, PTL DEF Spec

\* At most n steps of its own away from having all of its tasks running.
Near(w, n) == Distance(w) <= n

Descends(w, m, n) == <>[]Near(w, m) => <>[]Near(w, n)

Calm == <>[][~ Trouble]_vars /\ <>[]Queryable

LEMMA QuietKeeps ==
  ASSUME IInv, IInv', [Next]_vars, [~ Trouble]_vars, Queryable, NEW w \in Worker
  PROVE  Distance(w)' <= Distance(w)
  <1>0. TypeOK /\ TypeOK'
    BY DEF IInv
  <1>1. Distance(w) \in 0..13 /\ Distance(w)' \in 0..13
    BY <1>0, DistanceType, DistanceTypeNext
  <1>2. CASE WorkerStep(w)
    BY <1>1, <1>2, StepFalls
  <1>3. CASE UNCHANGED vars
    <2>1. Untouched(w)
      BY <1>3 DEF vars, workerVars, Untouched
    <2> QED
      BY <1>1, <2>1, UntouchedKeeps
  <1>4. CASE ~ WorkerStep(w) /\ ~ Trouble
    <2>1. Untouched(w)
      BY <1>0, <1>4, OthersKeep DEF Trouble
    <2> QED
      BY <1>1, <2>1, UntouchedKeeps
  <1> QED
    BY <1>2, <1>3, <1>4

LEMMA CalmRung ==
  ASSUME NEW w \in Worker, NEW m \in Nat, NEW n \in Nat, m = n + 1
  PROVE  Spec /\ Scheduling /\ Calm => Descends(w, m, n)
  <1>1. Scheduling => []<>~Ready(w) \/ []<><<WorkerStep(w)>>_vars
    BY DEF Scheduling
  <1>2. IInv /\ IInv' /\ [Next]_vars /\ [~ Trouble]_vars /\ Queryable /\ Near(w, n) => Near(w, n)'
    <2> SUFFICES ASSUME IInv, IInv', [Next]_vars, [~ Trouble]_vars, Queryable, Distance(w) <= n
                 PROVE  Distance(w)' <= n
      BY DEF Near
    <2>1. Distance(w) \in 0..13 /\ Distance(w)' \in 0..13
      BY DistanceType, DistanceTypeNext DEF IInv
    <2> QED
      BY <2>1, QuietKeeps
  <1>3. IInv /\ IInv' /\ <<WorkerStep(w)>>_vars /\ Queryable /\ Near(w, m) => Near(w, n)'
    <2> SUFFICES ASSUME IInv, IInv', WorkerStep(w), Queryable, Distance(w) <= m
                 PROVE  Distance(w)' <= n
      BY DEF Near
    <2>1. Distance(w) \in 0..13 /\ Distance(w)' \in 0..13
      BY DistanceType, DistanceTypeNext DEF IInv
    <2> QED
      BY <2>1, StepFalls
  <1>4. IInv /\ ~ Near(w, n) => Ready(w)
    <2> SUFFICES ASSUME IInv, ~ (Distance(w) <= n) PROVE Ready(w)
      BY DEF Near
    <2>1. CASE stage[w] = "running"
      <3>1. ~ Healthy(w)
        BY <2>1 DEF Distance
      <3> QED
        BY <2>1, <3>1, UnhealthyIsReady
    <2> QED
      BY <2>1 DEF Ready
  <1> QED
    BY <1>1, <1>2, <1>3, <1>4, Invariant, PTL DEF Spec, Calm, Descends

LEMMA WorkerComesUp ==
  ASSUME NEW w \in Worker
  PROVE  Spec /\ Scheduling /\ Calm => <>[]Up(w)
  <1>1. Spec /\ Scheduling /\ Calm =>
          /\ Descends(w, 13, 12)
          /\ Descends(w, 12, 11)
          /\ Descends(w, 11, 10)
          /\ Descends(w, 10, 9)
          /\ Descends(w, 9, 8)
          /\ Descends(w, 8, 7)
          /\ Descends(w, 7, 6)
          /\ Descends(w, 6, 5)
          /\ Descends(w, 5, 4)
          /\ Descends(w, 4, 3)
          /\ Descends(w, 3, 2)
          /\ Descends(w, 2, 1)
          /\ Descends(w, 1, 0)
    BY CalmRung
  <1>2. IInv => Near(w, 13)
    BY DistanceType DEF IInv, Near
  <1>3. IInv /\ Near(w, 0) => Up(w)
    <2> SUFFICES ASSUME IInv, Distance(w) <= 0 PROVE Up(w)
      BY DEF Near
    <2>1. Load(w) \in 0..8 /\ stage[w] \in Stage
      BY LoadType DEF IInv, TypeOK
    <2>2. stage[w] = "running" /\ Healthy(w)
      BY <2>1 DEF Distance, Stage
    <2> QED
      BY <2>2 DEF Up, Healthy
  <1> QED
    BY <1>1, <1>2, <1>3, Invariant, PTL DEF Descends

\* lifespan and wait_until_ready: whatever the containers went through, when the trouble
\* ends the API serves for good, and every worker runs all of its tasks for good.
THEOREM SystemComesUp == Spec /\ Scheduling => ComesUp
  <1>1. Spec /\ Scheduling /\ <>[][~ Trouble]_vars => <>[](api = "serving") /\ Calm
    <2>1. IInv /\ db /\ api = "serving" => Queryable
      BY DEF IInv, Queryable
    <2> QED
      BY <2>1, ApiComesUp, Invariant, PTL DEF Calm
  <1>2. Spec /\ Scheduling /\ Calm => \A w \in Worker : <>[]Up(w)
    BY WorkerComesUp
  <1> QED
    BY <1>1, <1>2, PTL DEF ComesUp
=============================================================================
