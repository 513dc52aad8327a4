------------------------------ MODULE Delivery ------------------------------
(***************************************************************************)
(* The delivery pipeline: the API publishes events to the stream, workers  *)
(* take them through rate lookup, conversion and the idempotent insert,    *)
(* and decide to ack, to leave pending or to dead-letter.                  *)
(*                                                                         *)
(* Every worker process runs two asyncio tasks over the same client: the   *)
(* consume loop (read, handle each) and the reclaim loop (claim_stale,     *)
(* handle each).  A step of this module is what a task does between two    *)
(* awaits that reach Redis, Postgres or the rate service, so the tasks of  *)
(* all workers interleave at exactly those points.                         *)
(***************************************************************************)
EXTENDS EventStream

CONSTANTS
  Worker,        \* the worker processes (replicas)
  EventId,       \* client-supplied event ids, the deduplication keys
  IdOf,          \* IdOf[e]: the id carried by envelope e; two envelopes may share it
  Kind,          \* Kind[e]: what happens to e when it is processed, see EventKind
  Fault,         \* the environment failures that may occur, see FaultKind
  MaxDeliveries, \* settings.max_deliveries
  RateAttempts,  \* settings.rate_attempts
  DbAttempts,    \* settings.db_attempts
  MaxCrashes     \* bound of the model: worker processes that stop

\* unparseable: from_fields or to_event raises KeyError or ValueError;
\* unknown_currency: the rate service answers 404;
\* unstorable: Postgres rejects the row with an SQLSTATE that is not transient.
EventKind == {"good", "unparseable", "unknown_currency", "unstorable"}

\* rate: no answer or 5xx; db: DatabaseUnavailable; unclassified: an exception
\* outside the Transient/Permanent taxonomy; redis: an XACK that raises.
FaultKind == {"rate", "db", "unclassified", "redis"}

ASSUME DeliveryAssumption ==
  /\ IsFiniteSet(Worker)
  /\ IdOf \in [Event -> EventId]
  /\ Kind \in [Event -> EventKind]
  /\ Fault \subseteq FaultKind
  /\ MaxDeliveries \in Nat \ {0}
  /\ RateAttempts \in Nat \ {0}
  /\ DbAttempts \in Nat \ {0}
  /\ MaxCrashes \in Nat

Task   == Worker \X {"consume", "reclaim"}
Idle   == "idle"    \* consume: before XREADGROUP; reclaim: asleep; or the process is down
Phase  == {Idle, "lookup", "rate", "insert", "ack", "dlq_add", "dlq_ack"}

VARIABLES
  rows,           \* table processed_transactions: the id of a row and the message it came from
  up,             \* worker processes whose TaskGroup is running
  pc,             \* what a task awaits
  batch,          \* messages handed to a task and not yet finished with
  delivery_count, \* StreamMessage.delivery_count; 0 for a message without one
  tries,          \* retry_async's attempt number
  why,            \* the reason a dead-lettering task carries
  crashes         \* how many processes have stopped (bounds the model)

taskVars == <<pc, batch, delivery_count, tries, why>>
vars     == <<streamVars, rows, up, taskVars, crashes>>

Row == [id : EventId, msg : MsgId]

\* How many calls retry_async makes in a phase.
Attempts(phase) ==
  CASE phase = "rate"   -> RateAttempts
    [] phase = "insert" -> DbAttempts
    [] OTHER            -> 1

TaskTypeOK ==
  /\ pc \in [Task -> Phase]
  /\ batch \in [Task -> SUBSET (1..last_delivered)]
  /\ delivery_count \in [Task -> [MsgId -> Nat]]
  /\ tries \in [Task -> Nat \ {0}]
  /\ \A t \in Task : tries[t] <= Attempts(pc[t])
  /\ why \in [Task -> Reason]

\* Types, with retry_async's budget: no call is attempted more than `attempts` times.
TypeOK ==
  /\ StreamTypeOK
  /\ TaskTypeOK
  /\ rows \in SUBSET Row
  /\ up \in SUBSET Worker
  /\ crashes \in 0..MaxCrashes

NoCounts == [m \in MsgId |-> 0]
NoWhy    == "unparseable"  \* `why` outside the dead-letter phases

Init ==
  /\ StreamInit
  /\ rows = {}
  /\ up = {}
  /\ pc = [t \in Task |-> Idle]
  /\ batch = [t \in Task |-> {}]
  /\ delivery_count = [t \in Task |-> NoCounts]
  /\ tries = [t \in Task |-> 1]
  /\ why = [t \in Task |-> NoWhy]
  /\ crashes = 0

----------------------------------------------------------------------------
(* Helpers. *)

KindOf(m) == Kind[entries[m]]
KeyOf(m)  == IdOf[entries[m]]
IsStored(m) == \E r \in rows : r.id = KeyOf(m)
IsParked(m) == \E d \in dlq : d.msg = m

Unparseable(ids) == {m \in ids : KindOf(m) = "unparseable"}

First(ids, m) == m \in ids /\ \A n \in ids : m <= n

\* The message task t works on.  _parse_entries dead-letters the unparseable
\* entries of a batch before the loop hands the first message to `handle`.
Current(t, m) ==
  IF Unparseable(batch[t]) # {} THEN First(Unparseable(batch[t]), m) ELSE First(batch[t], m)

\* Task t starts on what is left of a batch, or goes back to its loop.
StartOn(t, ids) ==
  /\ batch' = [batch EXCEPT ![t] = ids]
  /\ tries' = [tries EXCEPT ![t] = 1]
  /\ why' = [why EXCEPT ![t] = NoWhy]
  /\ pc' = [pc EXCEPT ![t] = IF Unparseable(ids) # {} THEN "dlq_add"
                             ELSE IF ids # {} THEN "rate" ELSE Idle]

\* `handle` (or _dead_letter_fields while parsing) returns.
Finish(t, m) ==
  /\ StartOn(t, batch[t] \ {m})
  /\ delivery_count' = [delivery_count EXCEPT ![t][m] = 0]

DeadLetter(t, reason) ==
  /\ pc' = [pc EXCEPT ![t] = "dlq_add"]
  /\ why' = [why EXCEPT ![t] = reason]
  /\ tries' = [tries EXCEPT ![t] = 1]
  /\ UNCHANGED <<batch, delivery_count>>

\* Variants of GiveUp: the cutoff one delivery late, and one early.
GiveUpLate(t, m) ==
  IF delivery_count[t][m] > MaxDeliveries
  THEN DeadLetter(t, "exhausted")
  ELSE Finish(t, m)

GiveUpEarly(t, m) ==
  IF delivery_count[t][m] + 1 >= MaxDeliveries
  THEN DeadLetter(t, "exhausted")
  ELSE Finish(t, m)

\* The TransientError branch of `handle`: the delivery-count cutoff.
GiveUp(t, m) ==
  IF delivery_count[t][m] >= MaxDeliveries
  THEN DeadLetter(t, "exhausted")
  ELSE Finish(t, m)

\* Variant of Transient: one attempt too many.
TransientOneMore(t, m, attempts) ==
  IF tries[t] <= attempts
  THEN /\ tries' = [tries EXCEPT ![t] = @ + 1]
       /\ UNCHANGED <<pc, batch, delivery_count, why>>
  ELSE GiveUp(t, m)

\* retry_async on a transient failure, with `attempts` calls in all.
Transient(t, m, attempts) ==
  IF tries[t] < attempts
  THEN /\ tries' = [tries EXCEPT ![t] = @ + 1]
       /\ UNCHANGED <<pc, batch, delivery_count, why>>
  ELSE GiveUp(t, m)

\* Variants of Insert: no commit, and ON CONFLICT DO UPDATE.
InsertUncommitted(m) == rows

InsertOverwriting(m) ==
  {r \in rows : r.id # KeyOf(m)} \cup {[id |-> KeyOf(m), msg |-> m]}

\* INSERT ... ON CONFLICT (id) DO NOTHING, committed; the statement fails on a row
\* Postgres rejects.
Insert(m) ==
  IF IsStored(m) \/ KindOf(m) = "unstorable"
  THEN rows
  ELSE rows \cup {[id |-> KeyOf(m), msg |-> m]}

----------------------------------------------------------------------------
(* The API. *)

\* ingest_event and EventProducer.publish.  When the XADD raises, the client gets
\* a 503: either nothing was added, or the entry is in the stream all the same.
Publish(e) ==
  /\ XAdd(e)
  /\ UNCHANGED <<rows, up, taskVars, crashes>>

----------------------------------------------------------------------------
(* Worker processes. *)

\* run_worker, once wait_until_ready has returned: ensure_group, start the tasks.
Boot(w) ==
  /\ w \notin up
  /\ XGroupCreate
  /\ up' = up \cup {w}
  /\ UNCHANGED <<rows, taskVars, crashes>>

\* The process stops between two awaits: SIGKILL, SIGTERM (the TaskGroup cancels
\* both tasks), or an exception that leaves a loop, such as a Redis error in read,
\* claim_stale, _delivery_count or dead_letter.  What its tasks held is forgotten.
Crash(w) ==
  /\ w \in up
  /\ crashes < MaxCrashes
  /\ crashes' = crashes + 1
  /\ up' = up \ {w}
  /\ pc' = [t \in Task |-> IF t[1] = w THEN Idle ELSE pc[t]]
  /\ batch' = [t \in Task |-> IF t[1] = w THEN {} ELSE batch[t]]
  /\ delivery_count' = [t \in Task |-> IF t[1] = w THEN NoCounts ELSE delivery_count[t]]
  /\ tries' = [t \in Task |-> IF t[1] = w THEN 1 ELSE tries[t]]
  /\ why' = [t \in Task |-> IF t[1] = w THEN NoWhy ELSE why[t]]
  /\ UNCHANGED <<streamVars, rows>>

At(t, phase) == t[1] \in up /\ pc[t] = phase

\* consume_loop: StreamConsumer.read.
Read(t) ==
  /\ t[2] = "consume"
  /\ At(t, Idle)
  /\ \E ids \in SUBSET MsgId :
       /\ XReadGroup(ids)
       /\ StartOn(t, ids)
       /\ delivery_count' = [delivery_count EXCEPT ![t] = [m \in MsgId |-> IF m \in ids THEN 1 ELSE 0]]
  /\ UNCHANGED <<rows, up, crashes>>

\* reclaim_loop: the XAUTOCLAIM of StreamConsumer.claim_stale.
Claim(t) ==
  /\ t[2] = "reclaim"
  /\ At(t, Idle)
  /\ \E reply \in SUBSET pel, ids \in SUBSET pel :
       /\ XAutoClaim(reply, ids)
       /\ batch' = [batch EXCEPT ![t] = ids]
       /\ pc' = [pc EXCEPT ![t] = IF ids = {} THEN Idle ELSE "lookup"]
  /\ UNCHANGED <<rows, up, delivery_count, tries, why, crashes>>

\* claim_stale's sequential _delivery_count calls, one await each.
Lookup(t, m) ==
  LET unknown == {n \in batch[t] : delivery_count[t][n] = 0}
  IN  /\ At(t, "lookup")
      /\ First(unknown, m)
      /\ delivery_count' = [delivery_count EXCEPT ![t][m] = TimesDelivered(m)]
      /\ IF unknown = {m} THEN StartOn(t, batch[t]) ELSE UNCHANGED <<pc, batch, tries, why>>
      /\ UNCHANGED <<streamVars, rows, up, crashes>>

\* One call of RateClient.get_rate under retry_async.
GetRate(t, m) ==
  /\ At(t, "rate")
  /\ Current(t, m)
  /\ \/ /\ KindOf(m) # "unknown_currency"
        /\ pc' = [pc EXCEPT ![t] = "insert"]
        /\ tries' = [tries EXCEPT ![t] = 1]
        /\ UNCHANGED <<batch, delivery_count, why>>
     \/ KindOf(m) = "unknown_currency" /\ DeadLetter(t, "permanent")
     \/ "rate" \in Fault /\ Transient(t, m, RateAttempts)
     \/ "unclassified" \in Fault /\ DeadLetter(t, "unexpected")
  /\ UNCHANGED <<streamVars, rows, up, crashes>>

\* One call of insert_ignore_duplicate under retry_async.  A failed call may have
\* committed: the connection can drop between the commit and its answer.
Store(t, m) ==
  /\ At(t, "insert")
  /\ Current(t, m)
  /\ \/ /\ KindOf(m) # "unstorable"
        /\ rows' = Insert(m)
        /\ pc' = [pc EXCEPT ![t] = "ack"]
        /\ tries' = [tries EXCEPT ![t] = 1]
        /\ UNCHANGED <<batch, delivery_count, why>>
     \/ KindOf(m) = "unstorable" /\ DeadLetter(t, "unexpected") /\ UNCHANGED rows
     \/ /\ "db" \in Fault
        /\ rows' \in {rows, Insert(m)}
        /\ Transient(t, m, DbAttempts)
     \/ /\ "unclassified" \in Fault
        /\ rows' \in {rows, Insert(m)}
        /\ DeadLetter(t, "unexpected")
  /\ UNCHANGED <<streamVars, up, crashes>>

\* `handle` after process returned an Outcome: StreamConsumer.ack.
Ack(t, m) ==
  /\ At(t, "ack")
  /\ Current(t, m)
  /\ XAck(m)
  /\ Finish(t, m)
  /\ UNCHANGED <<rows, up, crashes>>

\* The ack raises a RedisError inside handle's try: the catch-all branch dead-letters.
AckRaises(t, m) ==
  /\ At(t, "ack")
  /\ Current(t, m)
  /\ "redis" \in Fault
  /\ XAck(m) \/ UNCHANGED streamVars
  /\ DeadLetter(t, "unexpected")
  /\ UNCHANGED <<rows, up, crashes>>

\* _dead_letter_fields: the XADD to the dead-letter stream comes first ...
DlqAdd(t, m) ==
  /\ At(t, "dlq_add")
  /\ Current(t, m)
  /\ XAddDlq(m, why[t])
  /\ pc' = [pc EXCEPT ![t] = "dlq_ack"]
  /\ UNCHANGED <<rows, up, batch, delivery_count, tries, why, crashes>>

\* ... and the XACK of the original second.
DlqAck(t, m) ==
  /\ At(t, "dlq_ack")
  /\ Current(t, m)
  /\ XAck(m)
  /\ Finish(t, m)
  /\ UNCHANGED <<rows, up, crashes>>

----------------------------------------------------------------------------

\* What the event loop of a running worker does next for task t.
TaskStep(t) ==
  \/ Read(t)
  \/ Claim(t)
  \/ \E m \in MsgId :
       \/ Lookup(t, m)
       \/ GetRate(t, m)
       \/ Store(t, m)
       \/ Ack(t, m)
       \/ AckRaises(t, m)
       \/ DlqAdd(t, m)
       \/ DlqAck(t, m)

Next ==
  \/ \E e \in Event : Publish(e)
  \/ \E w \in Worker : Boot(w) \/ Crash(w)
  \/ \E t \in Task : TaskStep(t)

Spec == Init /\ [][Next]_vars

\* The event loop runs every task that is ready, calls that block return or time
\* out, and the container is restarted (restart: unless-stopped).
Fairness ==
  /\ \A w \in Worker : WF_vars(Boot(w))
  /\ \A t \in Task : WF_vars(TaskStep(t))

FairSpec == Spec /\ Fairness

----------------------------------------------------------------------------
(* Safety. *)

\* consumer.py: "a crash mid-processing means redelivery rather than loss".  A
\* message that was handed out and is no longer pending has a row under its id, is
\* in the dead-letter stream, or was evicted by the stream's MAXLEN, whatever the
\* tasks of all workers, their crashes and their failed acks did to it.
NoSilentLoss ==
  \A m \in 1..last_delivered :
    m \notin pel => IsStored(m) \/ IsParked(m) \/ m <= trimmed

\* A task holds the message, or some task can still be given it.
Obtainable(m) ==
  \/ \E t \in Task : m \in batch[t]
  \/ m > trimmed /\ (m \in pel \/ m > last_delivered)

\* README.md's "without losing events", with no clause for MAXLEN: of the submissions
\* of an accepted event one is stored, dead-lettered or can still be processed.
NothingLost ==
  \A m \in 1..Len(entries) :
    \E n \in 1..Len(entries) :
      KeyOf(n) = KeyOf(m) /\ (IsStored(n) \/ IsParked(n) \/ Obtainable(n))

\* insert_ignore_duplicate: an id has one row, and no redelivery, duplicate XADD,
\* retried commit or second worker ever replaces or removes it.
OneRowPerId == \A r, q \in rows : r.id = q.id => r = q

FirstWriteWins == [][rows \subseteq rows' /\ OneRowPerId']_rows

\* handle: a message is given up as "max deliveries exceeded" only after Redis
\* really delivered it max_deliveries times, although the count handle compares was
\* read one await after the claim and may have been overtaken by other claims.
ExhaustedMeansDelivered ==
  \A d \in dlq : d.reason = "exhausted" => times_delivered[d.msg] >= MaxDeliveries

\* The most deliveries whose counts, read in time, do not make `handle` give up.
Cutoff == IF MaxDeliveries > 1 THEN MaxDeliveries - 1 ELSE 1

\* handle: the cutoff "stops a poison message being reclaimed forever".  Reclaim may
\* overshoot max_deliveries, by one delivery per reclaim task that holds the message
\* and one per crash, and by no more.
DeliveryBound ==
  \A m \in MsgId : times_delivered[m] <= Cutoff + Cardinality(Worker) + crashes

\* worker.py: "Success acks", and test_worker_handle.py: treating a success as an
\* error "would dead-letter perfectly good work".  A message whose own processing
\* wrote the row is not in the dead-letter stream.
StoredIsNotParked ==
  \A r \in rows, d \in dlq : r.msg # d.msg

\* What is kept in the rows, the dead-letter stream and the pending list implements
\* the contract with the client.
Promise == INSTANCE Contract WITH
  Storable <- {e \in Event : Kind[e] = "good"},
  accepted <- entries,
  expired  <- trimmed,
  parked   <- {d.msg : d \in dlq},
  done     <- 1..last_delivered \ pel

RefinesContract == Promise!ContractSpec

----------------------------------------------------------------------------
(* The inductive invariant behind the safety properties: what a task has established *)
(* about the messages of its batch, and relies on at its next await.                 *)

Established(t, m) ==
  \* the parsing of a batch is over before `handle` sees its first message
  /\ pc[t] \in {"rate", "insert", "ack"} => KindOf(m) # "unparseable"
  \* the insert is only reached with a rate
  /\ pc[t] = "insert" /\ Current(t, m) => KindOf(m) # "unknown_currency"
  \* an XACK is only awaited for a message that is in a row or in the dead-letter stream
  /\ pc[t] = "ack" /\ Current(t, m) => IsStored(m)
  /\ pc[t] = "dlq_ack" /\ Current(t, m) => IsParked(m)
  \* the count a task holds is never ahead of Redis's
  /\ times_delivered[m] >= 1
  /\ delivery_count[t][m] <= times_delivered[m]
  \* and was at the cutoff when it gave the message up
  /\ why[t] = "exhausted" /\ Current(t, m) => times_delivered[m] >= MaxDeliveries

\* A task holds nothing about messages that are not in its batch.
Tidy(t) ==
  /\ pc[t] = Idle => batch[t] = {}
  /\ pc[t] \in {Idle, "lookup"} => why[t] = NoWhy
  /\ \A m \in MsgId \ batch[t] : delivery_count[t][m] = 0

IInv ==
  /\ TypeOK
  /\ \A t \in Task : Tidy(t)
  /\ \A t \in Task : \A m \in batch[t] : Established(t, m)
  /\ OneRowPerId
  /\ NoSilentLoss
  /\ ExhaustedMeansDelivered

\* The reclaim tasks that hold m without having read a count below the cutoff: each may
\* have been delivered it once more, and none lets go of it while it is pending.
Holders(m) ==
  {w \in Worker : /\ m \in batch[<<w, "reclaim">>]
                  /\ delivery_count[<<w, "reclaim">>][m] \notin 1 .. MaxDeliveries - 1}

Budgeted(m) ==
  times_delivered[m] <= Cutoff + Cardinality(IF m \in pel THEN Holders(m) ELSE Worker) + crashes

\* `handle` only sees messages with a count.
Counted(t) == pc[t] \notin {Idle, "lookup"} => \A m \in batch[t] : delivery_count[t][m] >= 1

\* What DeliveryBound needs beyond IInv.
BInv ==
  /\ \A t \in Task : Counted(t)
  /\ \A m \in MsgId : Budgeted(m)

----------------------------------------------------------------------------
(* Liveness, under FairSpec. *)

\* Every accepted event ends as a row or in the dead-letter stream: it is not
\* stranded by an unparseable neighbour in its batch, by a worker that crashed
\* holding it, or by transient failures that never stop.
EventuallySettled ==
  \A m \in MsgId :
    m <= Len(entries) ~> m \in 1..last_delivered \ pel /\ (IsStored(m) \/ IsParked(m))
=============================================================================
