------------------------------- MODULE Paging -------------------------------
(***************************************************************************)
(* GET /users/{user_id}/transactions while workers insert rows: a client   *)
(* walks adjacent [from, to) windows, each page by page with limit and     *)
(* offset, until the total it was told is covered.                         *)
(*                                                                         *)
(* A page and its total are two statements of one session.  At Postgres's  *)
(* default isolation level each sees what is committed when it starts, so  *)
(* rows may appear between them and between pages.                         *)
(***************************************************************************)
EXTENDS Integers, Sequences, FiniteSets, SequencesExt

CONSTANTS
  Txn,    \* the rows workers may insert: records [id, user_id, timestamp]
  User,   \* whose transactions the client reads
  None,   \* an absent from= or to=
  Window, \* the windows it walks: a sequence of records [start, end]
  Limit   \* the page size

Bound == Int \cup {None}

\* The windows do not overlap: each ends where an earlier, newer one starts, or before.
ASSUME PagingAssumption ==
  /\ IsFiniteSet(Txn)
  /\ \A r \in Txn : r.id \in Int /\ r.timestamp \in Int
  /\ None \notin Int
  /\ Window \in Seq([start : Bound, end : Bound])
  /\ \A v, w \in 1..Len(Window) :
       v < w => /\ Window[v].start # None /\ Window[w].end # None
                /\ Window[w].end <= Window[v].start
  /\ Limit \in Nat \ {0}

Windows == 1..Len(Window)
Ids(R)  == {r.id : r \in R}

VARIABLES
  table,  \* processed_transactions
  window, \* the window the client is in, Len(Window) + 1 when it is done
  offset, \* of the page it asks for
  ran,    \* how many statements of its request have run
  items,  \* what the request has read: the rows of the page
  total,  \* ... and the unpaginated total
  seen,   \* the ids it was shown, per window
  present \* the rows of a window when its first page was read

vars == <<table, window, offset, ran, items, total, seen, present>>

TypeOK ==
  /\ table \subseteq Txn
  /\ window \in 1 .. Len(Window) + 1
  /\ offset \in Nat
  /\ ran \in {0, 1}
  /\ items \in Seq(Txn)
  /\ total \in Nat
  /\ seen \in [Windows -> SUBSET Ids(Txn)]
  /\ present \in [Windows -> SUBSET Txn]

Init ==
  /\ table = {}
  /\ window = 1
  /\ offset = 0
  /\ ran = 0
  /\ items = <<>>
  /\ total = 0
  /\ seen = [w \in Windows |-> {}]
  /\ present = [w \in Windows |-> {}]

\* A worker's insert commits; ON CONFLICT (id) DO NOTHING.
Insert(r) ==
  /\ r.id \notin Ids(table)
  /\ table' = table \cup {r}
  /\ UNCHANGED <<window, offset, ran, items, total, seen, present>>

----------------------------------------------------------------------------
(* list_user_transactions. *)

\* Variant of Matches: an interval closed on both sides.
MatchesClosed(r, w) ==
  /\ r.user_id = User
  /\ w.start # None => r.timestamp >= w.start
  /\ w.end # None => r.timestamp <= w.end

\* The conditions both statements share.
Matches(r, w) ==
  /\ r.user_id = User
  /\ w.start # None => r.timestamp >= w.start
  /\ w.end # None => r.timestamp < w.end

Matching(w) == {r \in table : Matches(r, Window[w])}

\* Variant of Before: no tie-break.
BeforeByTime(r, q) == r.timestamp > q.timestamp

\* ORDER BY timestamp DESC, id DESC
Before(r, q) ==
  \/ r.timestamp > q.timestamp
  \/ r.timestamp = q.timestamp /\ r.id > q.id

\* Every order of the rows of R that ORDER BY allows; the database may choose any.
Orders(R) ==
  {s \in SetToSeqs(R) : \A i, j \in 1..Len(s) : i < j => ~ Before(s[j], s[i])}

Page(s) == SubSeq(s, offset + 1, IF offset + Limit < Len(s) THEN offset + Limit ELSE Len(s))

\* Variant of Statements: the total is counted first.
StatementsSwapped == <<"count", "rows">>

\* The statements of a request, in the order the session executes them.
Statements == <<"rows", "count">>

Execute(statement) ==
  CASE statement = "rows"  -> /\ \E s \in Orders(Matching(window)) : items' = Page(s)
                              /\ UNCHANGED total
    [] statement = "count" -> /\ total' = Cardinality(Matching(window))
                              /\ UNCHANGED items

\* The first statement of a request.
Start ==
  /\ window \in Windows
  /\ ran = 0
  /\ Execute(Statements[1])
  /\ ran' = 1
  /\ present' = IF offset = 0 THEN [present EXCEPT ![window] = Matching(window)] ELSE present
  /\ UNCHANGED <<table, window, offset, seen>>

\* The second; the client takes the page, and asks for the next one unless the
\* total says that was all.
Answer ==
  /\ ran = 1
  /\ Execute(Statements[2])
  /\ ran' = 0
  /\ seen' = [seen EXCEPT ![window] = @ \cup Ids(ToSet(items'))]
  /\ IF offset + Limit < total'
     THEN offset' = offset + Limit /\ UNCHANGED window
     ELSE offset' = 0 /\ window' = window + 1
  /\ UNCHANGED <<table, present>>

\* A statement fails: the client gets a 503 and asks for the same page again.
Unavailable ==
  /\ ran = 1
  /\ ran' = 0
  /\ UNCHANGED <<table, window, offset, items, total, seen, present>>

Next ==
  \/ \E r \in Txn : Insert(r)
  \/ Start \/ Answer \/ Unavailable

Spec == Init /\ [][Next]_vars

----------------------------------------------------------------------------
(* Safety. *)

\* repository.py: the tie-break is there because paging "could then skip or repeat a
\* row".  Rows inserted during a walk may make the next page repeat a row, but a row
\* that was there when the walk of a window began is never skipped.
NothingSkipped ==
  \A w \in Windows : w < window => Ids(present[w]) \subseteq seen[w]

\* routes.py: "callers can page through adjacent windows without seeing a boundary
\* row twice", whatever is inserted while they do.
BoundaryOnce ==
  \A v, w \in Windows : v # w => seen[v] \cap seen[w] = {}

\* The total of an answer covers the page it comes with, although rows were inserted
\* between the statements.
TotalCoversPage ==
  [][Answer => items' = <<>> \/ offset + Len(items') <= total']_vars

----------------------------------------------------------------------------
(* The inductive invariant behind the properties. *)

\* How many rows of R come before r.
Rank(r, R) == Cardinality({q \in R : Before(q, r)})

\* What the request has read: the page holds every row the walk still owes the client
\* at these ranks, and rows inserted since have only pushed the others down.
RequestOK ==
  /\ window \in Windows
  /\ ToSet(items) \subseteq Matching(window)
  /\ items # <<>> => offset + Len(items) <= Cardinality(Matching(window))
  /\ \A r \in present[window] :
       r.id \in seen[window] \/ r \in ToSet(items) \/ Rank(r, Matching(window)) >= offset + Limit

IInv ==
  /\ TypeOK
  /\ \A r, q \in table : r.id = q.id => r = q
  /\ \A w \in Windows : seen[w] \subseteq Ids(Matching(w)) /\ present[w] \subseteq Matching(w)
  /\ NothingSkipped
  \* the pages so far have shown every row of the first `offset` ranks
  /\ window \in Windows =>
       \A r \in present[window] : r.id \in seen[window] \/ Rank(r, Matching(window)) >= offset
  /\ ran = 1 => RequestOK
=============================================================================
