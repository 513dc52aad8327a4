# A formal model of txn-event-processor

TLA+ modules, TLC configurations and TLAPS proofs about the transaction-event
processor in `src/`. The definitions follow the code; where the code relies on
Redis, Postgres or the rate service, they follow the use `src/` makes of them.

## 1. The system

| Component | Code | State it keeps | Operations | Correct when |
|---|---|---|---|---|
| Ingestion API | `app/main.py`, `app/api/routes.py`, `app/schemas/events.py` | none of its own | `POST /events`: validate, XADD, 202 or 503 | a 202 means the event is in the stream; a 503 means only that the client does not know |
| Stream, consumer group, DLQ | `app/queue/producer.py`, `consumer.py`, `client.py` | Redis: the stream, the group's last-delivered id and pending list with delivery counts, the dead-letter stream | publish, ensure_group, read, claim_stale, ack, dead_letter, lag | an entry leaves the pending list only when it is durable elsewhere |
| Worker | `app/worker.py` | per replica: two tasks, each with the batch it holds | consume_loop, reclaim_loop, handle, start, stop | every message is acked, left pending or dead-lettered, for the right reason |
| Processor and retry | `app/services/processor.py`, `app/core/retry.py` | attempt counter of the call in progress | get_rate, convert, insert, each transient failure retried | the attempt budget holds; the insert never runs without a rate |
| Transaction repository | `app/db/repository.py`, `models.py`, `errors.py` | Postgres: `processed_transactions` | idempotent insert, user_summary, list_transactions | one row per id, first write wins; pages are ordered and half-open |
| Rate client | `app/services/rate_client.py` | per process: currency -> (rate, expires_at) | get_rate | no rate used past its TTL, failures never cached |
| Converter | `app/services/converter.py` | none | to_usd | half-even to cents, rounded once |
| Startup and readiness | `app/db/engine.py`, `app/main.py` | the table exists or not | create_all (API only), wait_until_ready, /health/ready | a worker does not process before the table exists |
| Shutdown | `app/worker.py` | exception group of a TaskGroup | signal watcher, `except* _Shutdown` | a stop is clean, a crash is not hidden by it |
| Fake rate service, config, logging, metrics | `rate_service/main.py`, `app/core/*` | a fault switch, settings, counters | | they decide nothing in the pipeline beyond the settings |

**Interactions.** The API and the workers share nothing but Redis. A worker process
runs `consume_loop` and `reclaim_loop`, a lag poll and a signal watcher as four asyncio
tasks of one TaskGroup, over one Redis client, one rate client and one session factory. Replicas share the consumer group and the
table. Every `await` on Redis, Postgres or the rate service is a point where any
other task of any replica may run, and where the process may end.

**What is hard here.** The reclaim loop may claim a message its own consume loop (or
another replica) is still working on, so one message can be inside several `handle`
calls at once; the delivery count is read by a separate command after the claim; the
two halves of a dead-lettering are separate commands; a commit or an XACK may have
happened although the call raised; unparseable entries are dead-lettered inside the
parsing of a batch whose good entries wait; MAXLEN evicts without looking at the
group; a SIGTERM and a failing task can meet in one exception group; the table a worker
needs is created by another container. `PROJECT.json` lists each hazard at its line with the properties aimed at it.

## 2. The modules

| Module | Models |
|---|---|
| `EventStream` | the Redis commands the code issues on the stream, the group and the DLQ |
| `Delivery` | API publish, the two message loops of every worker, `handle`, the processor, the insert, crashes and restarts |
| `Contract` | what the pipeline promises a client, without workers or deliveries |
| `Lifecycle` | how the API and a worker come up and go down: `init_models`, `wait_until_ready`, the TaskGroup, signals, `except*`, restarts |
| `RateCache` | the TTL cache of one process under its two tasks, the rate service, outages |
| `Ledger` | the conversion, the row a delivery builds, what the columns keep of it, `user_summary` |
| `Paging` | the transaction pages: ranges, order, limit and offset under inserts |
| `MCDelivery`, `MCLifecycle`, `MCRateCache`, `MCLedger`, `MCPaging` | instances of these for TLC |
| `DeliveryProofs`, `DeliveryBoundProofs`, `LifecycleProofs`, `LifecycleProgressProofs`, `RateCacheProofs`, `LedgerProofs`, `LedgerSumProofs`, `PagingProofs` | theorems about these |

`Delivery` EXTENDS `EventStream`, and shows itself to implement `Contract` through
`Promise == INSTANCE Contract WITH ...`. It is the module the others attach to, each
where `Delivery` has one abstract step:

- `Lifecycle` is what `Boot` and `Crash` stand for. A worker of `Delivery` is up while
  its stage is `"running"`; `NothingRunsTooEarly` is why `Delivery` may take table and
  group for granted once a worker is up, and `Crash` covers every way to leave `"running"`.
- `RateCache` details the outcomes `GetRate` offers: a rate, a 404, a transient failure.
- `Ledger` details the row `Store` inserts, of which `Delivery` keeps only the message it
  was made from. Any task may build any row at any time there, which includes every order
  of deliveries `Delivery` can produce.
- `Paging` and the summary read the table `Delivery` writes. They use that rows are
  inserted and never change, the property `FirstWriteWins` of `Delivery`.

## 3. Model and code

### EventStream

A message id is the position of its entry in the order of XADDs. `entries` keeps every
envelope ever added, and `trimmed` says how many of the oldest MAXLEN has evicted.
`last_delivered`, `pel` and `times_delivered` are the group's state, `dlq` the
dead-letter stream as a set of (message, reason): how many copies it has of one
message is not tracked. Each command is an operator: `XAdd` (producer.publish),
`XGroupCreate` (ensure_group), `XReadGroup` (read), `XAutoClaim` (claim_stale),
`TimesDelivered` (_delivery_count), `XAck`, `XAddDlq`. Approximate trimming may evict
any number of the oldest entries, as long as `StreamMaxlen` remain.

Who owns a pending entry and for how long it has been idle is left out: `claim_stale`
excludes no consumer, `ack` checks no owner, and any entry may have been idle for
`min_idle_ms` by the time the reclaim loop wakes up. So a task can lose its message to
another one at any moment, itself included.

### Delivery

| Code | Model |
|---|---|
| `consume_loop`, `reclaim_loop` of replica w | tasks `<<w, "consume">>`, `<<w, "reclaim">>` |
| the await a task is in | `pc[t]`: `"lookup"` (XPENDING of `_delivery_count`), `"rate"`, `"insert"`, `"ack"`, `"dlq_add"`, `"dlq_ack"`, or `"idle"` |
| the messages of the batch not yet handled | `batch[t]`; they are handled in id order, the unparseable ones first because `_parse_entries` dead-letters them before returning |
| `StreamMessage.delivery_count` | `delivery_count[t][m]` |
| `retry_async`'s attempt | `tries[t]` |
| the `reason` passed to `dead_letter` | `why[t]` |
| `ingest_event`, `publish` | `Publish` |
| `run_worker` up to the TaskGroup | `Boot` |
| a task's error leaving the TaskGroup, SIGTERM, SIGKILL | `Crash` |
| `read` / `claim_stale` / `_delivery_count` | `Read` / `Claim` / `Lookup` |
| `get_rate` under retry / `insert_ignore_duplicate` under retry | `GetRate` / `Store` |
| the branches of `handle` | `Ack`, `AckRaises`, `GiveUp`, `DeadLetter` |
| `_dead_letter_fields` | `DlqAdd`, then `DlqAck` |

Data is abstracted to what the decisions depend on: an event is a model value with an
id (`IdOf`) and a kind (`Kind`: good, unparseable, unknown_currency, unstorable). Which
failures the environment may produce is the constant `Fault`: `"rate"` (no answer, 5xx),
`"db"` (DatabaseUnavailable), `"unclassified"` (an exception outside the taxonomy),
`"redis"` (an XACK that raises). A failing insert or ack may have taken effect. A Redis
error in `read`, `claim_stale`, `_delivery_count` or `dead_letter` leaves the loop and
ends the process in the code, and is `Crash` here.

Operators commented as a *variant* (`GiveUpLate`, `InsertUncommitted`, ...) stand for
mistakes one could make in the operator that follows them. No action uses one; each
shows that a property notices that mistake.

### Contract

Events are accepted, become the row of their id, are parked, and are settled only when
stored, parked or evicted. Rows are never replaced. The mapping takes `done` to the
messages that were delivered and are no longer pending.

### Lifecycle

| Code | Model |
|---|---|
| `lifespan`, `init_models` | `ApiStarts`, `Lifespan` with `InitModels`, `ApiStops` |
| `run_worker` before its `try` | stages `"probing"` and `"grouping"`: `Starts`, `Probe`, `EnsureGroup` |
| the attempt of `wait_until_ready` | `attempt[w]` |
| the TaskGroup's four tasks | `task[w][t]` for the three loops and the watcher |
| an error leaving a loop | `LoopRaises` |
| `_watch_for_shutdown`, `raise _ShutdownRequested` | `WatchRaises` |
| the TaskGroup cancelling its tasks, their unwinding | `Abort`, `Cancelled` |
| `except* _ShutdownRequested` and what it leaves | `Leave` with `Residue` |
| the `finally` clause, the exit of the process | stage `"closing"`, `Close`, `verdict[w]` |
| SIGTERM, SIGKILL | `Sigterm`, `Killed` |

A task that raises and the TaskGroup that learns of it are two steps, because asyncio
reports the end of a task to its group in a callback; a sibling may fail in between. A
task being cancelled may still end with an exception of its own (`LoopRaises` allows
`"cancelling"`). Before the signal handlers are installed a SIGTERM ends the process, or is ignored
where the process is PID 1 of its container; the model allows both. The worker, unlike the API, never
creates the table. An error of `wait_until_ready` or `ensure_group` lies before the
`try` of `run_worker`, so it exits without the `finally` clause.

### RateCache

One worker process. `pc[t]` is `"idle"` when task t is not in `get_rate`, otherwise how
far its GET got: travelling, quoted by the service (a 200 on its way back), or unknown
there (a 404 on its way back). `Hit`, `Miss`, `Store` and `Raise` are the branches of
`get_rate`; `Tick` is the clock, which cannot pass the moment at which httpx gives a
request up (`MaxLatency`: httpx applies `rate_service_timeout_s` to each phase of a
request, so it is a small multiple of that setting). A rate is identified by the moment
it was quoted. The service's "timeout" fault delays `Quote` and needs no mode of its own;
its "error" fault and a stopped container are the mode `"failing"`.

### Ledger

A decimal is an integer over a fixed scale: a submitted amount counts 1/`AmountScale`,
the amount column 1/`ColumnScale`, a quoted rate 1/`RateScale`, the rate column
1/`RateColumnScale`, USD 1/`CentScale`. `Lookup`
is `process` up to the insert, with the rate quoted at that moment; `Store` is the insert,
of which the first of an id wins; `Drop` is an insert that failed for good or a process
that stopped. `Stored` and `StoredRate` are what Postgres does to a value that is finer than its
`Numeric(18, 4)` or `Numeric(18, 8)` column: it rounds half away from zero. The code's rounding of
USD is half to even (`ROUNDING`, converter.py). `event` and `quoted`, the submission and the rate a
row was made from, are kept beside its columns to state the properties with. The 28-digit context of
Python's decimal is not modelled, and a value too large for its column is the
`unstorable` event of `Delivery`.

### Paging

The client walks adjacent windows and asks for the next page as long as
`offset + limit < total`. A request is two statements, `Statements[1]` and
`Statements[2]`, each seeing the table as it is when it runs; inserts come between them.
`Orders` is the set of orders ORDER BY allows, so a missing tie-break leaves the choice to
the database, as it does in Postgres. `from` and `to` are instants: attaching UTC to one
without an offset happens before. The windows are adjacent or leave gaps; that they do not overlap
is an assumption, which a client that passes one window's `from` as the next one's `to` meets.

## 4. What is checked

| Run | Instance | Shows |
|---|---|---|
| `replicas` | 2 workers (4 tasks), a good and an unparseable event, batch of 2, database may fail | `NoSilentLoss`, `ExhaustedMeansDelivered` under every interleaving of the four tasks on the same messages |
| `restarts` | 1 worker, 2 crashes, one event submitted twice, every fault, two attempts at an insert | `NoSilentLoss` and `FirstWriteWins` with ambiguous commits, ambiguous acks and crashes between any two awaits; `TypeOK`, with the number of attempts |
| `trimming` | stream capped at one entry, events that must be rejected, one crash | the pipeline implements `Contract` |
| `overshoot` | 2 workers, 2 crashes, `max_deliveries` 3, a failing insert | `DeliveryBound`: reclaims that overtake each other's count lookups pass the cutoff by at most one per replica and one per crash; `EventuallySettled` with competing claims |
| `settles` | 1 worker, 1 crash, 3 messages in batches of 2, good and unparseable, the database may fail forever | `EventuallySettled`, also for messages behind a full batch or claim |
| `startup` | the API and 1 worker, 2 outages of Postgres, 3 failures, 2 signals, 2 probes per start | `VerdictIsHonest`, `NothingRunsTooEarly`, `NoUseAfterClose` in every interleaving of failures, cancellations and signals; `StopsWhenAsked`, `CrashEndsWorker` and `ComesUp` |
| `rates` | 2 tasks, a known and an unknown currency, TTL 2, latency 2, seven instants, outages, restarts | `BoundedStaleness`, `OutageShows` although late answers overwrite newer ones and restart the TTL |
| `pages` | windows on both sides of a boundary, three rows with one timestamp, pages of 2, inserts anywhere | `NothingSkipped`, `BoundaryOnce`, `TotalCoversPage` |
| `sums` | 2 tasks, ties of both parities, a refund, a resubmission with another amount, an amount and a rate finer than their columns, three rates | `NearestCent`, `RefundsCancel`, `TiesCancel`, `SummaryIsClose`, `ExplainedOnGrid` while the rate changes between deliveries |
| `trimmed_loss` | stream capped at one entry, two events with different ids, no fault | violates `NothingLost` (finding 1) |
| `ack_fails` | an XACK that raises | violates `StoredIsNotParked` (finding 2) |
| `unexplained` | the instance of `sums` | violates `Explained` (finding 3) |

**Bounds of Delivery.** `MaxPublished` (XADDs) and `MaxCrashes` bound the model; nothing else is
capped, delivery counts are bounded by the cutoff itself. Two messages are enough for a
batch with a neighbour, a duplicate submission and an eviction of the older by the
younger, three for a message that finds the batch full; two replicas give four tasks, two of them reclaiming, so a message can be
inside four `handle` calls. `max_deliveries` 2 makes the first reclaim the last one, 3
leaves a reclaim in between. Attempts are 1 where retries only multiply states and 2
where the retry itself matters. Symmetry of the replicas is used in safety runs only.

**Bounds of the others.** Seven instants let a rate be asked for, quoted, stored late,
used until it expires and asked for again across an outage; two requests in flight are
all a process can have. In `pages`, ties straddle a page border and a window has more
rows than a page; each of the six rows may be inserted at any point of the walk. In
`startup` two probes give a first and a last one, so a worker also gives up and is
restarted; three failures let a sibling fail while the group is being cancelled and the
`finally` clause fail after that; two signals let one arrive before the handlers and one after. Workers meet only in
the table and the group, which nothing takes away again, so one worker suffices for TLC
and the theorems cover any number. `sums` has one decimal for USD, two for the columns and
three for amounts and quoted rates, the smallest scales at which each rounding does something, with
the order USD < column < input of the code; 0.145 at a rate of 1 is the amount the column rounds
the other way, 0.355 a rate the column cannot keep.

**Deadlock** is not checked for `Delivery`, `Lifecycle` and `Paging`: when everything
published is settled, only crashes remain, or nothing does; a system that serves needs
no step; a walk ends. `EventuallySettled` and `ComesUp` exclude resting too early. It is
checked for `RateCache` and `Ledger`.

**Fairness** (`FairSpec`) is weak fairness of `Boot(w)` and of `TaskStep(t)` for each
task. The compose file restarts a worker (`restart: unless-stopped`,
docker-compose.yml:72). The event loop runs every ready task, and each awaited call
returns or times out; both outcomes are a step of the same task. Nothing is assumed of
the outcome: a dependency may fail at every call. No fairness on `Publish` or `Crash`.
For the reclaim task weak fairness means that a pending entry becomes idle for long
enough, and the sleeping loop wakes up, eventually; which entries it gets first is the
claim's choice among the pending ones.

For `Lifecycle`, `FairSpec` is weak fairness of `DbRecovers`, of `ApiStarts` and `Lifespan`,
and of what a worker's container and event loop do by themselves (`WorkerStep(w)`). Both
containers have `restart: unless-stopped`. Outages, failures and signals (`Trouble`) are not
fair: `ComesUp` says that the system recovers for good when they end, which under the bounds
of the run they always do. `StopsWhenAsked` and `CrashEndsWorker` use neither Postgres nor restarts: from a set
stop event or a crashed loop to the exit only the event loop runs.

### Findings

1. README.md:4-5 and 91-92 promise no lost events and "never silent loss".
   `XADD ... MAXLEN ~` (producer.py:34-35) evicts whether or not an entry was read or
   acked, and `claim_stale` ignores the list of deleted ids XAUTOCLAIM returns
   (consumer.py:102). An event accepted with 202 can disappear without a row, a DLQ entry
   or a log line once `stream_maxlen` newer ones arrive. In the run the cap is one entry: the
   second event evicts the first, which has another id and was not read yet, and nothing can
   process it any more. `NothingLost` counts an event as lost only then: none of its
   submissions has a row, is in the DLQ, is in a task's batch or can still be read or claimed.
   `NoSilentLoss` and `Contract` therefore carry an eviction clause.
2. worker.py:63 and test_worker_handle.py:68-69: success acks, and treating success as an
   error "would dead-letter perfectly good work". The ack is inside the `try` whose
   catch-all dead-letters, so an XACK that raises sends a stored event to the DLQ as
   "unexpected error".
3. models.py:20-22: storing the rate "means a historical row can be explained without
   re-querying the rate service". The USD amount is converted from the unrounded
   `event.amount` (processor.py:72), while the column of the amount keeps four decimals
   (models.py:37) and the API accepts any number of them (events.py:21). 0.01495 at rate
   1 is stored as amount 0.0150 and amount_usd 0.01; 0.0150 at rate 1 would be 0.02.
   For amounts with at most four decimals, at rates with at most eight (models.py:39; those of
   `src/rate_service` have fewer, but the client accepts any), the row explains itself
   (`ExplainedOnGrid`).

## 5. What is proved

`DeliveryProofs` proves, for every set of workers, every batch size, cap, cutoff,
attempt count, fault set and event population satisfying `StreamAssumption` and
`DeliveryAssumption`:

| Theorem | States |
|---|---|
| `TypeCorrect` | `Spec => []TypeOK` |
| `Inductive` | `Spec => []IInv` |
| `NeverLostSilently` | `Spec => []NoSilentLoss` |
| `ExhaustedIsHonest` | `Spec => []ExhaustedMeansDelivered` |
| `RowsArePermanent` | `Spec => FirstWriteWins` |
| `Implementation` | `Spec => RefinesContract` |

The assumptions say that the numbers are naturals, that the settings that count
something are positive, that `Worker` is finite and that `IdOf` and `Kind` are total.

**The argument.** `NoSilentLoss` is not inductive: whether an XACK is safe depends on
what the task did some awaits ago, and other tasks have run since. `IInv` therefore
says, per task and message of its batch, what has been *established* by the time the
task awaits each call: at `"ack"` the message's id has a row, at `"dlq_ack"` the message
is in the DLQ, at `"insert"` it has a rate, in `handle` it is parseable; a count the task
holds is never ahead of Redis's, and had reached `max_deliveries` if the task carries the
reason `"exhausted"`. These facts survive the other tasks because rows, DLQ entries and
delivery counts only grow (and a first delivery, which resets a count to 1, can only hit
a message nobody holds). `Tidy` adds that a task holds nothing about messages outside its
batch, so a crash or a new batch starts clean. The refinement needs `IInv` for one thing
only: when a message leaves the pending list, the abstract guard of `Settle` holds.

`DeliveryBoundProofs` adds `DeliveriesAreBounded` (`Spec => []DeliveryBound`), for the same
constants. It is a charging argument. A claim that raises the count of a message past
`Cutoff` leaves the claiming reclaim task among `Holders(m)`: the tasks that hold the message
without having read a count that would let them leave it pending. It was not a holder before,
since a task claims only when its batch is empty. A holder remains one while the message is
pending, because the count it looks up has reached the cutoff and makes it ack or dead-letter
the message; only a crash takes it away, and crashes are counted. `Budgeted(m)` therefore
bounds the count by the cutoff plus the holders plus the crashes so far. Once the message is not pending
it can no longer be claimed, and the number of workers stands in for the holders.
`Counted` says that `handle` only sees messages whose count was looked up.

`LifecycleProofs` proves, for any set of workers and any bounds satisfying
`LifecycleAssumption`, `Invariant` (`[]IInv`), `TypeCorrect`, `VerdictsAreHonest`
(`[]VerdictIsHonest`), `TasksFindTable` (`[]NothingRunsTooEarly`) and `ClientsOutliveTasks`
(`[]NoUseAfterClose`). `IInv` says what a stage has established (`Reached`: the table from
`"grouping"` on, the group from `"running"` on), why a task is cancelled (`Grouped`: some
sibling raised, and the sentinel is only raised once the event is set), and that the verdict
agrees with what the tasks raised from the moment the group is left (`Judged`). A clean exit
without a request is impossible because a group that is done in all of its tasks and raised
nothing must contain the sentinel, which needs `Grouped`. `IInv` also says that an API that
serves has created the table, and that a worker before its TaskGroup has no tasks and no stop
request, which the proofs of progress need.

`LifecycleProgressProofs` proves the three liveness properties, for any number of workers, probes,
outages, failures and signals: `WorkersStop` (`Spec /\ Scheduling => StopsWhenAsked`), `CrashesEnd`
(`Spec /\ Scheduling => CrashEndsWorker`) and `SystemComesUp` (`Spec /\ Scheduling => ComesUp`).
`Scheduling`, their hypothesis, is `Fairness` with the guards of its four kinds of action written out
where weak fairness says ENABLED, which the provers do not handle: `~ db`, `api = "down"`,
`api = "starting"`, and `Ready(w)`, by which a worker has something to do unless all tasks of its
TaskGroup wait. It says nothing of its own about the system.
All three descend one ladder. `Distance(w)` is 0 when all tasks of the worker run and nobody asked
it to stop, 1 to 4 while it ensures the group, probes, is down, and closes its clients, and
5 plus the `Load` of its TaskGroup while that shuts down: 2 for each task still to be
cancelled, 1 for each still to unwind. `StepFalls`: every step the worker takes by itself
lowers it, unless a probe finds no table. `UnhealthyIsReady`: in a group that is not as it
started there is always such a step. `LeavingStays`: for a worker that was asked to stop or one of whose tasks
raised nothing raises it, not even further failures, so it gets below 4, which is to be down
(`LeavingEnds`). `FailedStays`: on that way a failure stays with its task until the exit code is
that of a crash, or a SIGKILL's. For
`ComesUp` the trouble has ended: Postgres comes back and stays, the API gets through its
lifespan and stays (`ApiComesUp`), hence the table is there, from then on no step raises the
distance of any worker (`QuietKeeps`), and 0 is `Up`. `Distance` is at most 13, so thirteen
applications of one lemma (`StopRung`, `CalmRung`) are the whole descent.

`RateCacheProofs` proves, for any tasks, currencies, TTL, latency and length of the clock,
`RatesAge` (`[]IInv`), `RatesAreRecent` (`[]BoundedStaleness`) and `OutagesShow`
(`[]OutageShows`). What a lookup returned says nothing of what the next one will return, so
`IInv` bounds the age of a rate on its whole way: an entry expires at most one request and one
TTL after it was quoted (`CacheAge`), a request in flight is no older than `MaxLatency` and
its answer no older than the request (`CallAge`). During an outage nothing is quoted:
`LastQuote` stands still at `down_since`, and every rate on its way is at most that new, which
makes `OutageShows` a consequence of the bound on age.

`LedgerProofs` proves, for any events, amounts, rates and scales satisfying
`LedgerAssumption`, `Invariant`, `TypeCorrect`, `RoundedOnce` (`[]NearestCent`),
`RefundsAreExact` (`[]RefundsCancel`), `RoundingIsUnbiased` (`[]TiesCancel`) and
`HistoryIsExplained` (`[]ExplainedOnGrid`). The invariant is that every row, inserted or
not, is `Build` of one event and one rate, and that the table is a finite set with one row
per id. The rest is arithmetic: `RoundHalfEven` returns
an integer at most half a unit away that is even on a tie (`Characterised`), there is only one such
integer (`Unique`), hence rounding commutes with the sign (`EvenSymmetric`) and does not
depend on the scale of the fraction (`EvenScales`), which is what a row whose
amount and rate the columns could keep (`ColumnKeeps`) needs to explain itself.

`LedgerSumProofs` adds `SummariesAreClose` (`[]SummaryIsClose`), for any number of rows. Sums
over finite sets need induction, whose principle the provers cannot instantiate with a
formula; they can be given a set. Each lemma therefore takes the set of those subsets that
are counterexamples and a minimal one among them (`MinimalSet`, from the well-foundedness of
the subset order). That way a function with the recursion that `SumFunctionOnSet` chooses
exists for every finite set (`IteratesExists`) and is the only one (`IteratesAgree`), so a sum is one
value plus the sum of the rest (`SumUnfolds`). Half a cent per row (`NearestCent`) then adds
up to n half cents (`SumsAreClose`), and a user has as many rows as ids (`OneRowPerId`).

`PagingProofs` proves, for any rows, windows that do not overlap and any page size,
`Invariant`, `PagingIsComplete` (`[]NothingSkipped`), `WindowsTile` (`[]BoundaryOnce`) and
`TotalsCover` (`TotalCoversPage`). The order of a page is total (`TotalOrder`), so a row's
position is its `Rank`, the number of rows before it (`Position`); inserts only raise ranks
(`RankGrows`). `IInv` says that a row which was there at the start of the walk and has not
been shown has a rank the walk has not reached yet. `NothingSkipped` alone is not inductive: it
says nothing about the window the client is in.

**Only model-checked.** `EventuallySettled` is liveness whose measure has no fixed bound:
batches, attempts and deliveries are as many as the constants say, and a descent of that
length is an induction over a temporal formula, which this prover does not have. For `Lifecycle`
the step from `FairSpec` to `Scheduling` is one about ENABLED and is read off the guards; TLC checks
the three liveness properties under `FairSpec` itself. `NothingLost`, `StoredIsNotParked` and
`Explained` do not hold.

## 6. What is not modelled

- Redis losing its data, a failover, or a deleted group or stream.
- Clocks in `Delivery`: idle times, backoff delays and socket timeouts. Any order of
  their effects is possible there.
- The owner of a pending entry, since no call depends on it.
- An event whose processing kills the process each time it is delivered. The cutoff is
  consulted only for transient errors, so such an event would never reach it; nothing in
  the repository makes one.
- In `Lifecycle`: a client library that swallows a cancellation or turns it into an error
  that `handle` catches, the time docker grants a stop before it kills, a second SIGTERM's
  effect (setting the event again does nothing), and the readiness route, which changes no
  state. Redis is up or makes an operation raise; it has no state of its own there.
- In `Ledger`: the 28 significant digits of a decimal context, and the parsing of numbers.
- Request validation: the upper-casing of currencies and the UTC offset of timestamps decide
  which envelopes exist, and both are done before the event is published.
- The delays of the backoff, which are random reals; only the number of attempts decides an outcome.
- The lag gauge, metrics, logs and configuration loading, which decide nothing.
