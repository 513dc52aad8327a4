----------------------------- MODULE MCPaging -----------------------------
(* An instance of Paging for TLC: ties on both sides of a window boundary. *)
EXTENDS Paging

CONSTANTS u, v

MCTxn ==
  {[id |-> 1, user_id |-> u, timestamp |-> 1],
   [id |-> 2, user_id |-> u, timestamp |-> 2],
   [id |-> 3, user_id |-> u, timestamp |-> 2],
   [id |-> 4, user_id |-> u, timestamp |-> 2],
   [id |-> 5, user_id |-> u, timestamp |-> 1],
   [id |-> 6, user_id |-> v, timestamp |-> 2]}

\* The newer window first, as pages are.
MCWindow == <<[start |-> 2, end |-> None], [start |-> None, end |-> 2]>>
=============================================================================
