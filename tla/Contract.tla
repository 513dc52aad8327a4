------------------------------ MODULE Contract ------------------------------
(***************************************************************************)
(* What the pipeline promises a client whose event was accepted (202), in  *)
(* the terms of the README's failure-handling section: the event becomes   *)
(* at most one row of processed_transactions, or is kept in the            *)
(* dead-letter stream, and only then does the pipeline stop carrying it.   *)
(*                                                                         *)
(* There are no workers, deliveries, retries or crashes here.  Delivery is *)
(* shown to implement this module.                                         *)
(***************************************************************************)
EXTENDS Integers, Sequences

CONSTANTS
  Event,    \* what a client may submit
  EventId,  \* the ids that identify events
  IdOf,     \* IdOf[e] \in EventId: the id of event e
  Storable  \* the events among them that can become a row

VARIABLES
  accepted, \* the events accepted so far; one is known by its position
  expired,  \* accepted events 1..expired were evicted by the stream's cap
  rows,     \* the table: id -> first event stored under that id, as pairs
  parked,   \* events kept in the dead-letter stream
  done      \* events the pipeline no longer carries

cvars == <<accepted, expired, rows, parked, done>>

Accepted   == 1..Len(accepted)
Stored(m)  == \E r \in rows : r.id = IdOf[accepted[m]]

ContractInit ==
  /\ accepted = <<>>
  /\ expired = 0
  /\ rows = {}
  /\ parked = {}
  /\ done = {}

\* The API accepts e; the cap may evict old events as it does.
Accept(e) ==
  /\ accepted' = Append(accepted, e)
  /\ expired' \in expired .. Len(accepted')
  /\ UNCHANGED <<rows, parked, done>>

\* m becomes the row of its id: the first one wins, a stored row never changes.
StoreRow(m) ==
  /\ accepted[m] \in Storable
  /\ ~ Stored(m)
  /\ rows' = rows \cup {[id |-> IdOf[accepted[m]], msg |-> m]}
  /\ UNCHANGED <<accepted, expired, parked, done>>

Park(m) ==
  /\ parked' = parked \cup {m}
  /\ UNCHANGED <<accepted, expired, rows, done>>

\* The pipeline stops carrying the events of S: each is in a durable place, or evicted.
Settle(S) ==
  /\ \A m \in S : Stored(m) \/ m \in parked \/ m <= expired
  /\ done' = done \cup S
  /\ UNCHANGED <<accepted, expired, rows, parked>>

ContractNext ==
  \/ \E e \in Event : Accept(e)
  \/ \E m \in Accepted : StoreRow(m) \/ Park(m)
  \/ \E S \in SUBSET Accepted : Settle(S)

ContractSpec == ContractInit /\ [][ContractNext]_cvars
=============================================================================
