---------------------------- MODULE EventStream ----------------------------
(***************************************************************************)
(* The Redis side of the pipeline: the stream "transactions", the one      *)
(* consumer group that reads it, and the dead-letter stream.  Redis itself *)
(* is not part of the repository; each command is modelled by the effect   *)
(* app/queue/producer.py and app/queue/consumer.py rely on.                *)
(*                                                                         *)
(* A message id is the position of its entry in the order of XADDs, so the *)
(* order of ids is the order of Redis stream ids.  Which consumer owns a   *)
(* pending entry is not recorded: no call of the code depends on it        *)
(* (claim_stale does not exclude the calling consumer, XACK does not check *)
(* the owner).  Idle times are not recorded either: any pending entry may  *)
(* have been idle for min_idle_ms when XAUTOCLAIM runs.                    *)
(***************************************************************************)
EXTENDS Integers, Sequences, FiniteSets

CONSTANTS
  Event,         \* the envelopes a producer may XADD
  MaxPublished,  \* bound of the model: number of XADDs to the stream
  StreamMaxlen,  \* settings.stream_maxlen; MaxPublished or more never trims, as None does
  BatchSize      \* settings.batch_size, the COUNT of both reading commands

ASSUME StreamAssumption ==
  /\ MaxPublished \in Nat
  /\ StreamMaxlen \in Nat
  /\ BatchSize \in Nat \ {0}

MsgId == 1..MaxPublished

\* Why an entry was moved to the dead-letter stream: the `reason` field.
Reason == {"unparseable", "permanent", "exhausted", "unexpected"}

VARIABLES
  entries,         \* every envelope ever XADDed, in order, trimmed ones included
  trimmed,         \* entries 1..trimmed have been removed by MAXLEN ~
  group,           \* the consumer group exists
  last_delivered,  \* the group's last-delivered-id (0 before the first delivery)
  pel,             \* the group's pending-entries list
  times_delivered, \* XPENDING's times_delivered, 0 for a message never delivered
  dlq              \* entries of the dead-letter stream

groupVars  == <<group, last_delivered, pel, times_delivered>>
streamVars == <<entries, trimmed, group, last_delivered, pel, times_delivered, dlq>>

StreamTypeOK ==
  /\ entries \in Seq(Event)
  /\ Len(entries) <= MaxPublished
  /\ trimmed \in 0..Len(entries)
  /\ group \in BOOLEAN
  /\ last_delivered \in 0..Len(entries)
  /\ ~ group => last_delivered = 0
  /\ pel \in SUBSET (1..last_delivered)
  /\ times_delivered \in [MsgId -> Nat]
  /\ dlq \in SUBSET [msg : 1..last_delivered, reason : Reason]

StreamInit ==
  /\ entries = <<>>
  /\ trimmed = 0
  /\ group = FALSE
  /\ last_delivered = 0
  /\ pel = {}
  /\ times_delivered = [m \in MsgId |-> 0]
  /\ dlq = {}

----------------------------------------------------------------------------
(* The commands. *)

\* XADD stream MAXLEN ~ maxlen: append, then drop any number of the oldest
\* entries as long as at least maxlen remain (approximate trimming removes whole
\* nodes of the stream, so how many is not the caller's choice).
XAdd(e) ==
  /\ Len(entries) < MaxPublished
  /\ entries' = Append(entries, e)
  /\ \E k \in trimmed .. Len(entries) + 1 :
       /\ k > trimmed => Len(entries) + 1 - k >= StreamMaxlen
       /\ trimmed' = k
  /\ UNCHANGED <<groupVars, dlq>>

\* Variant of XGroupCreate: the group starts from "$", after what is already there.
XGroupCreateAtEnd ==
  /\ group' = TRUE
  /\ last_delivered' = IF group THEN last_delivered ELSE Len(entries)
  /\ UNCHANGED <<entries, trimmed, pel, times_delivered, dlq>>

\* XGROUP CREATE ... id="0" MKSTREAM; BUSYGROUP is swallowed when it exists.
XGroupCreate ==
  /\ group' = TRUE
  /\ last_delivered' = IF group THEN last_delivered ELSE 0
  /\ UNCHANGED <<entries, trimmed, pel, times_delivered, dlq>>

\* The ids XREADGROUP ">" hands out: the oldest entries still in the stream that
\* the group has not been given, at most BatchSize of them.
Undelivered ==
  LET from == IF trimmed > last_delivered THEN trimmed + 1 ELSE last_delivered + 1
      upto == from + BatchSize - 1
  IN  from .. (IF upto < Len(entries) THEN upto ELSE Len(entries))

\* Variant of XReadGroup: with NOACK, delivery is acknowledgement.
XReadGroupNoAck(ids) ==
  /\ group
  /\ ids = Undelivered
  /\ ids # {}
  /\ last_delivered' \in ids
  /\ \A m \in ids : m <= last_delivered'
  /\ times_delivered' = [m \in MsgId |-> IF m \in ids THEN 1 ELSE times_delivered[m]]
  /\ UNCHANGED <<entries, trimmed, group, pel, dlq>>

XReadGroup(ids) ==
  /\ group
  /\ ids = Undelivered
  /\ ids # {}
  /\ last_delivered' \in ids
  /\ \A m \in ids : m <= last_delivered'
  /\ pel' = pel \cup ids
  /\ times_delivered' = [m \in MsgId |-> IF m \in ids THEN 1 ELSE times_delivered[m]]
  /\ UNCHANGED <<entries, trimmed, group, dlq>>

\* Variant of XAutoClaim: only what was delivered once is claimed.
XAutoClaimOnce(reply, ids) ==
  LET gone == pel \cap 1..trimmed
  IN  /\ group
      /\ reply # {}
      /\ Cardinality(reply) <= BatchSize
      /\ \A m \in reply : times_delivered[m] = 1
      /\ ids = reply \ gone
      /\ pel' = pel \ (reply \cap gone)
      /\ times_delivered' =
           [m \in MsgId |-> IF m \in ids THEN times_delivered[m] + 1 ELSE times_delivered[m]]
      /\ UNCHANGED <<entries, trimmed, group, last_delivered, dlq>>

\* XAUTOCLAIM from 0-0 with COUNT BatchSize.  It walks the pending list in id
\* order: an entry that was trimmed leaves the pending list and is reported as
\* deleted (these come first, trimming takes the oldest ids), an entry idle for
\* min_idle_ms is claimed and its delivery count incremented.
XAutoClaim(reply, ids) ==
  LET gone == pel \cap 1..trimmed
  IN  /\ group
      /\ reply # {}
      /\ Cardinality(reply) <= BatchSize
      /\ gone \subseteq reply \/ (reply \subseteq gone /\ Cardinality(reply) = BatchSize)
      /\ ids = reply \ gone
      /\ pel' = pel \ (reply \cap gone)
      /\ times_delivered' =
           [m \in MsgId |-> IF m \in ids THEN times_delivered[m] + 1 ELSE times_delivered[m]]
      /\ UNCHANGED <<entries, trimmed, group, last_delivered, dlq>>

\* XPENDING for one id, as _delivery_count reads it: 1 when the id is not pending.
TimesDelivered(m) == IF m \in pel THEN times_delivered[m] ELSE 1

XAck(m) ==
  /\ pel' = pel \ {m}
  /\ UNCHANGED <<entries, trimmed, group, last_delivered, times_delivered, dlq>>

\* XADD of the raw fields and the reason to the dead-letter stream, which has no MAXLEN.
XAddDlq(m, reason) ==
  /\ dlq' = dlq \cup {[msg |-> m, reason |-> reason]}
  /\ UNCHANGED <<entries, trimmed, groupVars>>
=============================================================================
