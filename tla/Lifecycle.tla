----------------------------- MODULE Lifecycle -----------------------------
(***************************************************************************)
(* How the processes come up and go down.  The API creates the table in    *)
(* its lifespan (main.py, init_models); a worker probes for that table     *)
(* (engine.py, wait_until_ready), creates the consumer group and runs four *)
(* asyncio tasks in one TaskGroup until a task fails or SIGTERM sets the   *)
(* stop event (worker.py, run_worker).  docker-compose.yml restarts what   *)
(* exits ("restart: unless-stopped").                                      *)
(*                                                                         *)
(* Delivery sees of a worker only that it boots and that it stops; this    *)
(* module is what lies between.  A step is what the event loop runs        *)
(* between two awaits, so a task that raises and the TaskGroup that learns *)
(* of it, one callback later, are two steps.                               *)
(***************************************************************************)
EXTENDS Naturals, FiniteSets

CONSTANTS
  Worker,      \* the worker containers
  Attempts,    \* settings.db_startup_attempts
  MaxOutages,  \* bound of the model: times Postgres becomes unreachable
  MaxFailures, \* bound of the model: exceptions that no fault of Postgres explains
  MaxSignals   \* bound of the model: SIGTERMs, SIGKILLs and stops of the API

ASSUME LifecycleAssumption ==
  /\ Attempts \in Nat \ {0}
  /\ MaxOutages \in Nat
  /\ MaxFailures \in Nat
  /\ MaxSignals \in Nat

Loop == {"consume", "reclaim", "lag"}
Task == Loop \cup {"watch"}

\* alive: none of its awaits was cancelled; cancelling: cancel() was called and the
\* task has not run since; the others are how a task of the group ended.
TaskState == {"none", "alive", "cancelling", "cancelled", "raised", "shutdown"}
Done      == {"cancelled", "raised", "shutdown"}

Stage   == {"down", "probing", "grouping", "running", "closing"}
Verdict == {"none", "clean", "crash", "killed"}

VARIABLES
  db,         \* Postgres accepts connections
  table,      \* processed_transactions exists
  group,      \* the consumer group exists
  api,        \* the API process: down, starting or serving
  stage,      \* how far run_worker is
  attempt,    \* retry_async's attempt number inside wait_until_ready
  stop_event, \* the workers whose stop event the signal handler has set
  task,       \* the tasks of the TaskGroup
  verdict,    \* how run_worker ends; of the previous process while the next one starts
  outages, failures, signals  \* the counters the bounds cap

workerVars == <<stage, attempt, stop_event, task, verdict>>
bounds     == <<outages, failures, signals>>
vars       == <<db, table, group, api, workerVars, bounds>>

TypeOK ==
  /\ db \in BOOLEAN
  /\ table \in BOOLEAN
  /\ group \in BOOLEAN
  /\ api \in {"down", "starting", "serving"}
  /\ stage \in [Worker -> Stage]
  /\ attempt \in [Worker -> 1..Attempts]
  /\ stop_event \in SUBSET Worker
  /\ task \in [Worker -> [Task -> TaskState]]
  /\ verdict \in [Worker -> Verdict]
  /\ outages \in 0..MaxOutages
  /\ failures \in 0..MaxFailures
  /\ signals \in 0..MaxSignals

NoTasks == [t \in Task |-> "none"]

\* docker-compose gates every start on a healthy Postgres, which may go away at once.
Init ==
  /\ db = TRUE
  /\ table = FALSE
  /\ group = FALSE
  /\ api = "down"
  /\ stage = [w \in Worker |-> "down"]
  /\ attempt = [w \in Worker |-> 1]
  /\ stop_event = {}
  /\ task = [w \in Worker |-> NoTasks]
  /\ verdict = [w \in Worker |-> "none"]
  /\ outages = 0 /\ failures = 0 /\ signals = 0

----------------------------------------------------------------------------
(* Postgres and the API. *)

DbFails ==
  /\ db
  /\ outages < MaxOutages
  /\ db' = FALSE
  /\ outages' = outages + 1
  /\ UNCHANGED <<table, group, api, workerVars, failures, signals>>

DbRecovers ==
  /\ ~ db
  /\ db' = TRUE
  /\ UNCHANGED <<table, group, api, workerVars, bounds>>

ApiStarts ==
  /\ api = "down"
  /\ api' = "starting"
  /\ UNCHANGED <<db, table, group, workerVars, bounds>>

\* Variant of InitModels: create_all's error is logged and the API serves.
InitModelsLogged ==
  /\ table' = (table \/ db)
  /\ api' = "serving"

\* lifespan up to its yield: create_all in one transaction.  Its error leaves the
\* lifespan and the process exits.
InitModels ==
  IF db THEN table' = TRUE /\ api' = "serving"
        ELSE api' = "down" /\ UNCHANGED table

Lifespan ==
  /\ api = "starting"
  /\ InitModels
  /\ UNCHANGED <<db, group, workerVars, bounds>>

\* The lifespan's finally, or a kill.
ApiStops ==
  /\ api # "down"
  /\ signals < MaxSignals
  /\ api' = "down"
  /\ signals' = signals + 1
  /\ UNCHANGED <<db, table, group, workerVars, outages, failures>>

----------------------------------------------------------------------------
(* A worker's startup, which lies before run_worker's try statement. *)

Exit(w, how) ==
  /\ stage' = [stage EXCEPT ![w] = "down"]
  /\ verdict' = [verdict EXCEPT ![w] = how]

Starts(w) ==
  /\ stage[w] = "down"
  /\ stage' = [stage EXCEPT ![w] = "probing"]
  /\ attempt' = [attempt EXCEPT ![w] = 1]
  /\ stop_event' = stop_event \ {w}
  /\ task' = [task EXCEPT ![w] = NoTasks]
  /\ UNCHANGED <<db, table, group, api, verdict, bounds>>

\* Variant of Queryable: SELECT 1.
QueryableServer == db

\* SELECT 1 FROM processed_transactions
Queryable == db /\ table

\* Variant of MayRetry: one attempt too many.
MayRetryOnce(w) == attempt[w] <= Attempts

\* retry_async: attempts are left after a failed one.
MayRetry(w) == attempt[w] < Attempts

\* One probe of wait_until_ready: any error is retried until the attempts run out,
\* and then leaves run_worker.
Probe(w) ==
  /\ stage[w] = "probing"
  /\ \/ /\ Queryable
        /\ stage' = [stage EXCEPT ![w] = "grouping"]
        /\ UNCHANGED <<attempt, verdict>>
     \/ /\ ~ Queryable
        /\ MayRetry(w)
        /\ attempt' = [attempt EXCEPT ![w] = @ + 1]
        /\ UNCHANGED <<stage, verdict>>
     \/ /\ ~ Queryable
        /\ ~ MayRetry(w)
        /\ Exit(w, "crash")
        /\ UNCHANGED attempt
  /\ UNCHANGED <<db, table, group, api, stop_event, task, bounds>>

\* ensure_group, and from its answer on without another await: the signal handlers,
\* the TaskGroup and its four tasks.
EnsureGroup(w) ==
  /\ stage[w] = "grouping"
  /\ group' = TRUE
  /\ stage' = [stage EXCEPT ![w] = "running"]
  /\ task' = [task EXCEPT ![w] = [t \in Task |-> "alive"]]
  /\ UNCHANGED <<db, table, api, attempt, stop_event, verdict, bounds>>

\* Redis does not answer ensure_group.
EnsureGroupRaises(w) ==
  /\ stage[w] = "grouping"
  /\ failures < MaxFailures
  /\ failures' = failures + 1
  /\ Exit(w, "crash")
  /\ UNCHANGED <<db, table, group, api, attempt, stop_event, task, outages, signals>>

----------------------------------------------------------------------------
(* The TaskGroup. *)

\* A task ends; the group learns of it in a callback, see Abort.
Ends(w, t, how) == task' = [task EXCEPT ![w][t] = how]

\* An exception leaves a loop: a Redis error in read, claim_stale, dead_letter or
\* lag.  A task being cancelled can end so as well, see run_worker's comment on a
\* client library's own timeout.
LoopRaises(w, t) ==
  /\ task[w][t] \in {"alive", "cancelling"}
  /\ failures < MaxFailures
  /\ failures' = failures + 1
  /\ Ends(w, t, "raised")
  /\ UNCHANGED <<db, table, group, api, stage, attempt, stop_event, verdict, outages, signals>>

\* _watch_for_shutdown: the event is set, raise _ShutdownRequested.
WatchRaises(w) ==
  /\ task[w]["watch"] = "alive"
  /\ w \in stop_event
  /\ Ends(w, "watch", "shutdown")
  /\ UNCHANGED <<db, table, group, api, stage, attempt, stop_event, verdict, bounds>>

\* Variant of Abort: asyncio.gather, with only the sentinel ending the others.
AbortOnShutdown(w) ==
  /\ \E t \in Task : task[w][t] = "shutdown"
  /\ \E t \in Task : task[w][t] = "alive"
  /\ task' = [task EXCEPT ![w] =
                [t \in Task |-> IF task[w][t] = "alive" THEN "cancelling" ELSE task[w][t]]]
  /\ UNCHANGED <<db, table, group, api, stage, attempt, stop_event, verdict, bounds>>

\* The first exception of a task makes the TaskGroup cancel every task left.
Abort(w) ==
  /\ \E t \in Task : task[w][t] \in {"raised", "shutdown"}
  /\ \E t \in Task : task[w][t] = "alive"
  /\ task' = [task EXCEPT ![w] =
                [t \in Task |-> IF task[w][t] = "alive" THEN "cancelling" ELSE task[w][t]]]
  /\ UNCHANGED <<db, table, group, api, stage, attempt, stop_event, verdict, bounds>>

\* Variant of Unwind: `handle` catches the CancelledError and its loop goes on.
UnwindCaught(w, t) == Ends(w, t, IF t = "consume" THEN "alive" ELSE "cancelled")

\* CancelledError passes through handle's `except Exception` and ends the task.
Unwind(w, t) == Ends(w, t, "cancelled")

\* A cancelled task runs once more.  CancelledError replaces what its await had to
\* deliver, an error or the watcher's event included.
Cancelled(w, t) ==
  /\ task[w][t] = "cancelling"
  /\ Unwind(w, t)
  /\ UNCHANGED <<db, table, group, api, stage, attempt, stop_event, verdict, bounds>>

\* Variant of Residue: a broad except* that asks whether the sentinel is in the group.
ResidueBroad(w) ==
  IF \E t \in Task : task[w][t] = "shutdown" THEN {} ELSE {t \in Task : task[w][t] = "raised"}

\* What `except* _ShutdownRequested` leaves of the exception group.
Residue(w) == {t \in Task : task[w][t] = "raised"}

\* Variant of Joined: the statement is left when one task is done.
JoinedFirst(w) == \E t \in Task : task[w][t] \in Done

\* The TaskGroup is left when all of its tasks are done.
Joined(w) == \A t \in Task : task[w][t] \in Done

\* The TaskGroup raises its exceptions, except* takes the sentinel out.
Leave(w) ==
  /\ stage[w] = "running"
  /\ Joined(w)
  /\ stage' = [stage EXCEPT ![w] = "closing"]
  /\ verdict' = [verdict EXCEPT ![w] = IF Residue(w) = {} THEN "clean" ELSE "crash"]
  /\ UNCHANGED <<db, table, group, api, attempt, stop_event, task, bounds>>

\* The finally clause: the rate client, Redis and the engine are closed, and the
\* process exits.  An error of theirs skips the rest and leaves run_worker.
Close(w) ==
  /\ stage[w] = "closing"
  /\ \/ Exit(w, verdict[w]) /\ UNCHANGED failures
     \/ failures < MaxFailures /\ failures' = failures + 1 /\ Exit(w, "crash")
  /\ UNCHANGED <<db, table, group, api, attempt, stop_event, task, outages, signals>>

----------------------------------------------------------------------------
(* Signals. *)

\* SIGTERM sets the event once the handlers are installed.  Before that it ends the
\* process, or is ignored when the process is its container's PID 1.
Sigterm(w) ==
  /\ stage[w] # "down"
  /\ signals < MaxSignals
  /\ signals' = signals + 1
  /\ \/ /\ stage[w] \in {"running", "closing"}
        /\ stop_event' = stop_event \cup {w}
        /\ UNCHANGED <<stage, verdict>>
     \/ stage[w] \in {"probing", "grouping"} /\ Exit(w, "killed") /\ UNCHANGED stop_event
     \/ stage[w] \in {"probing", "grouping"} /\ UNCHANGED <<stage, verdict, stop_event>>
  /\ UNCHANGED <<db, table, group, api, attempt, task, outages, failures>>

\* SIGKILL.
Killed(w) ==
  /\ stage[w] # "down"
  /\ signals < MaxSignals
  /\ signals' = signals + 1
  /\ Exit(w, "killed")
  /\ task' = [task EXCEPT ![w] = NoTasks]
  /\ UNCHANGED <<db, table, group, api, attempt, stop_event, outages, failures>>

----------------------------------------------------------------------------

TaskStep(w) ==
  \/ WatchRaises(w)
  \/ Abort(w)
  \/ \E t \in Task : Cancelled(w, t)

\* What a worker container does by itself: compose restarts it, its event loop runs.
WorkerStep(w) ==
  \/ Starts(w)
  \/ Probe(w)
  \/ EnsureGroup(w)
  \/ TaskStep(w)
  \/ Leave(w)
  \/ Close(w)

Next ==
  \/ DbFails \/ DbRecovers
  \/ ApiStarts \/ Lifespan \/ ApiStops
  \/ \E w \in Worker :
       \/ WorkerStep(w)
       \/ EnsureGroupRaises(w)
       \/ \E t \in Loop : LoopRaises(w, t)
       \/ Sigterm(w)
       \/ Killed(w)

Spec == Init /\ [][Next]_vars

\* Postgres comes back, containers are restarted, the event loop of every process
\* runs what is ready.
Fairness ==
  /\ WF_vars(DbRecovers)
  /\ WF_vars(ApiStarts)
  /\ WF_vars(Lifespan)
  /\ \A w \in Worker : WF_vars(WorkerStep(w))

FairSpec == Spec /\ Fairness

----------------------------------------------------------------------------
(* Safety. *)

\* run_worker: "a genuine crash in any sibling task ... is not caught by this clause".
\* A worker exits with success only when it was asked to stop and no task, not even
\* one that failed while it was being cancelled, raised anything else; and a stop
\* that nothing went wrong in is not reported as a crash.
VerdictIsHonest ==
  \A w \in Worker :
    /\ stage[w] = "down" /\ verdict[w] = "clean" =>
         w \in stop_event /\ \A t \in Task : task[w][t] # "raised"
    /\ stage[w] = "closing" /\ verdict[w] = "crash" => \E t \in Task : task[w][t] = "raised"

\* wait_until_ready: no worker processes before the API's init_models has run.  The
\* error of a missing table is unclassified, so every message read before would be
\* dead-lettered.  The same for the group, which every read and claim needs.
NothingRunsTooEarly ==
  \A w \in Worker : (\E t \in Loop : task[w][t] \in {"alive", "cancelling"}) => table /\ group

\* Leaving the TaskGroup: the clients are closed when no task can use them any more.
NoUseAfterClose ==
  \A w \in Worker :
    stage[w] \in {"closing", "down"} => \A t \in Task : task[w][t] \notin {"alive", "cancelling"}

----------------------------------------------------------------------------
(* The inductive invariant behind the safety properties. *)

\* What a stage of run_worker has established.
Reached(w) ==
  /\ stage[w] \in {"grouping", "running"} => table
  /\ stage[w] = "running" => group
  /\ stage[w] \in {"probing", "grouping"} => task[w] = NoTasks /\ w \notin stop_event
  /\ stage[w] \in {"running", "closing"} => \A t \in Task : task[w][t] # "none"

\* What the state of a task says about its process and its siblings.
Grouped(w) ==
  \A t \in Task :
    /\ task[w][t] \in {"alive", "cancelling"} => stage[w] = "running"
    /\ task[w][t] = "shutdown" => w \in stop_event
    /\ task[w][t] \in {"cancelling", "cancelled"} =>
         \E u \in Task : task[w][u] \in {"raised", "shutdown"}

\* The verdict follows the exceptions of the group from the moment it is left.
Judged(w) ==
  /\ stage[w] = "closing" => verdict[w] \in {"clean", "crash"}
  /\ stage[w] \in {"closing", "down"} /\ verdict[w] = "clean" =>
       w \in stop_event /\ \A t \in Task : task[w][t] # "raised"
  /\ stage[w] = "closing" /\ verdict[w] = "crash" => \E t \in Task : task[w][t] = "raised"

IInv ==
  /\ TypeOK
  /\ api = "serving" => table
  /\ \A w \in Worker : Reached(w) /\ Grouped(w) /\ Judged(w)

----------------------------------------------------------------------------
(* Liveness, under FairSpec. *)

\* handle: what "keeps a SIGTERM-triggered shutdown mid-`handle` propagating
\* correctly".  Asked to stop, a running worker ends, whatever its tasks await and
\* whatever else fails meanwhile.
StopsWhenAsked ==
  \A w \in Worker : stage[w] = "running" /\ w \in stop_event ~> stage[w] = "down"

\* _watch_for_shutdown: raising in one task "cancels every other task in it and
\* propagates the exception out".  A worker does not live on with a loop that crashed:
\* it ends, and with a failure, even if it is being stopped or told to stop meanwhile.
CrashEndsWorker ==
  \A w \in Worker : \A t \in Loop :
    stage[w] = "running" /\ task[w][t] = "raised" ~>
      stage[w] = "down" /\ verdict[w] \in {"crash", "killed"}

\* What a process does not do by itself.
Trouble ==
  \/ DbFails \/ ApiStops
  \/ \E w \in Worker :
       EnsureGroupRaises(w) \/ (\E t \in Loop : LoopRaises(w, t)) \/ Sigterm(w) \/ Killed(w)

\* The worker runs, and all of its tasks do.
Up(w) == stage[w] = "running" /\ \A t \in Task : task[w][t] = "alive"

\* lifespan and wait_until_ready: "failing fast and letting the orchestrator restart it".
\* Whatever the containers and Postgres went through, when the trouble ends all of
\* them end up serving, whoever was in the middle of a stop, a crash or a last probe.
ComesUp ==
  <>[][~ Trouble]_vars =>
    /\ <>[](api = "serving")
    /\ \A w \in Worker : <>[]Up(w)
=============================================================================
