------------------------------- MODULE Ledger -------------------------------
(***************************************************************************)
(* The money: what processor.py computes for an event, what the columns of *)
(* processed_transactions keep of it, and what the summary adds up.        *)
(*                                                                         *)
(* A decimal number is an integer over a fixed scale: a submitted amount   *)
(* counts 1/AmountScale of its currency, the amount column 1/ColumnScale,  *)
(* a quoted rate 1/RateScale, the rate column 1/RateColumnScale, USD       *)
(* 1/CentScale.  Delivery decides how often an event is processed; here    *)
(* any task may process any event at any time, with whatever rate is       *)
(* quoted then.                                                            *)
(***************************************************************************)
EXTENDS Integers, FiniteSets, Functions

CONSTANTS
  Event,       \* accepted submissions
  EventId,     \* client-supplied ids
  User,        \* user ids
  Task,        \* the loops of all workers that can process an event
  IdOf,        \* IdOf[e]: the id submission e carries
  UserOf,      \* UserOf[e]: the user it is for
  AmountOf,    \* AmountOf[e]: its amount, negative for a refund
  Rate,        \* the rates the service may quote
  AmountScale, ColumnScale, RateScale, RateColumnScale, CentScale

ASSUME LedgerAssumption ==
  /\ IdOf \in [Event -> EventId]
  /\ UserOf \in [Event -> User]
  /\ AmountOf \in [Event -> Int]
  /\ Rate \subseteq Nat /\ Rate # {}
  /\ AmountScale \in Nat \ {0}
  /\ ColumnScale \in Nat \ {0}
  /\ RateScale \in Nat \ {0}
  /\ RateColumnScale \in Nat \ {0}
  /\ CentScale \in Nat \ {0}

VARIABLES
  quote, \* the rate a lookup gets now
  built, \* the rows a task has built and not yet inserted, at most one per task
  rows   \* table processed_transactions

vars == <<quote, built, rows>>

\* ProcessedTransaction, with the submission it was made from and the rate that was
\* quoted for it.
Row == [event : Event, quoted : Rate, amount : Int, rate : Int, amount_usd : Int]

TypeOK ==
  /\ quote \in Rate
  /\ built \in [Task -> SUBSET Row]
  /\ \A t \in Task : Cardinality(built[t]) <= 1
  /\ rows \in SUBSET Row

Init ==
  /\ quote \in Rate
  /\ built = [t \in Task |-> {}]
  /\ rows = {}

----------------------------------------------------------------------------
(* Arithmetic: the fraction n/d rounded to an integer. *)

\* Variant of RoundHalfEven: halves up, whatever the sign.
RoundHalfUp(n, d) == (2 * n + d) \div (2 * d)

\* Postgres, coercing a number to a numeric column: halves away from zero, which is
\* also decimal's ROUND_HALF_UP.
RoundHalfAway(n, d) ==
  IF n >= 0 THEN (2 * n + d) \div (2 * d) ELSE - ((d - 2 * n) \div (2 * d))

\* decimal's ROUND_HALF_EVEN.
RoundHalfEven(n, d) ==
  LET below == n \div d
      twice == 2 * (n % d)
  IN  IF twice < d \/ (twice = d /\ below % 2 = 0) THEN below ELSE below + 1

\* The fraction of a cent an amount is worth at a rate, before it is rounded.
Exact(amount, rate) == amount * rate * CentScale
ExactScale == AmountScale * RateScale

\* Variant of convert_to_usd: the rate is rounded to cents before the multiplication.
convert_rounding_rate(amount, rate) ==
  RoundHalfEven(amount * RoundHalfEven(rate * CentScale, RateScale), AmountScale)

convert_to_usd(amount, rate) == RoundHalfEven(Exact(amount, rate), ExactScale)

\* What Numeric(18, 4) keeps of an amount, and Numeric(18, 8) of a rate.
Stored(amount)   == RoundHalfAway(amount * ColumnScale, AmountScale)
StoredRate(rate) == RoundHalfAway(rate * RateColumnScale, RateScale)

\* The row process builds from one event and one rate.
Build(e, rate) ==
  [event |-> e, quoted |-> rate,
   amount |-> Stored(AmountOf[e]), rate |-> StoredRate(rate),
   amount_usd |-> convert_to_usd(AmountOf[e], rate)]

----------------------------------------------------------------------------

\* The service quotes another rate, or the cached one expires.
Requote ==
  /\ quote' \in Rate \ {quote}
  /\ UNCHANGED <<built, rows>>

\* EventProcessor.process up to the insert, on the first or on a later delivery.
Lookup(t, e) ==
  /\ built[t] = {}
  /\ built' = [built EXCEPT ![t] = {Build(e, quote)}]
  /\ UNCHANGED <<quote, rows>>

\* Variant of Insert: ON CONFLICT (id) DO UPDATE SET rate.
InsertUpdatingRate(b) ==
  IF \E r \in rows : IdOf[r.event] = IdOf[b.event]
  THEN {IF IdOf[r.event] = IdOf[b.event] THEN [r EXCEPT !.rate = b.rate] ELSE r : r \in rows}
  ELSE rows \cup {b}

\* INSERT ... ON CONFLICT (id) DO NOTHING.
Insert(b) ==
  IF \E r \in rows : IdOf[r.event] = IdOf[b.event] THEN rows ELSE rows \cup {b}

Store(t) ==
  /\ \E b \in built[t] : rows' = Insert(b)
  /\ built' = [built EXCEPT ![t] = {}]
  /\ UNCHANGED quote

\* The insert fails for good or the process stops: redelivery looks the rate up again.
Drop(t) ==
  /\ built[t] # {}
  /\ built' = [built EXCEPT ![t] = {}]
  /\ UNCHANGED <<quote, rows>>

Next ==
  \/ Requote
  \/ \E t \in Task :
       \/ \E e \in Event : Lookup(t, e)
       \/ Store(t)
       \/ Drop(t)

Spec == Init /\ [][Next]_vars

----------------------------------------------------------------------------
(* The read side. *)

RowsOf(u) == {r \in rows : UserOf[r.event] = u}

\* Variant of user_summary: SUM(DISTINCT amount_usd).
user_summary_distinct(u) ==
  [total |-> SumFunctionOnSet([x \in Int |-> x], {r.amount_usd : r \in RowsOf(u)}),
   count |-> Cardinality(RowsOf(u))]

\* COALESCE(SUM(amount_usd), 0), COUNT(*) of a user's rows.
user_summary(u) ==
  [total |-> SumFunctionOnSet([r \in rows |-> r.amount_usd], RowsOf(u)),
   count |-> Cardinality(RowsOf(u))]

----------------------------------------------------------------------------
(* Properties. *)

\* What a row is worth in fractions of a cent, from the amount that was submitted and
\* the rate that was quoted.
Worth(r) == Exact(AmountOf[r.event], r.quoted)
RoundingError(r) == r.amount_usd * ExactScale - Worth(r)
Tie(r)   == 2 * (Worth(r) % ExactScale) = ExactScale

\* convert_to_usd, "rounded once, at the end": a stored USD amount is no further than
\* half a cent from the submitted amount at the quoted rate.
NearestCent ==
  \A r \in rows : 2 * RoundingError(r) <= ExactScale /\ -2 * RoundingError(r) <= ExactScale

\* test_handles_negative_amounts: a refund at the same rate cancels its charge to the
\* last digit, in USD and in the column of the original currency.
RefundsCancel ==
  \A r, q \in rows :
    AmountOf[r.event] = - AmountOf[q.event] /\ r.quoted = q.quoted =>
      r.amount_usd = - q.amount_usd /\ r.amount = - q.amount

\* ROUNDING: "unbiased over many transactions, unlike ROUND_HALF_UP which drifts high".
\* Of two transactions that lie halfway between neighbouring cents, what the one
\* gains the other loses.
TiesCancel ==
  \A r, q \in rows :
    Tie(r) /\ Tie(q) /\ Worth(q) = Worth(r) + ExactScale => RoundingError(r) + RoundingError(q) = 0

\* GET /users/{user_id}/summary: n transactions add up to within n half cents of what
\* they are worth, each counted once however often it was submitted and delivered.
SummaryIsClose ==
  \A u \in User :
    LET s     == user_summary(u)
        worth == SumFunctionOnSet([r \in rows |-> Worth(r)], RowsOf(u))
        off   == 2 * (s.total * ExactScale - worth)
    IN  /\ off <= s.count * ExactScale /\ -off <= s.count * ExactScale
        /\ s.count = Cardinality({IdOf[r.event] : r \in RowsOf(u)})

\* The USD amount the row's own columns give.
Recomputed(r) == RoundHalfEven(r.amount * r.rate * CentScale, ColumnScale * RateColumnScale)

\* The columns keep an amount, a rate, as it is.
OnGrid(amount)   == (amount * ColumnScale) % AmountScale = 0
OnRateGrid(rate) == (rate * RateColumnScale) % RateScale = 0

\* ProcessedTransaction: "a historical row can be explained without re-querying the rate
\* service".  Whatever rates other deliveries of the event saw, the three numbers of a
\* row belong together, if the columns could keep the submitted amount (four decimals)
\* and the rate quoted for it (eight decimals; those of src/rate_service have fewer).
ExplainedOnGrid ==
  \A r \in rows :
    OnGrid(AmountOf[r.event]) /\ OnRateGrid(r.quoted) => Recomputed(r) = r.amount_usd

\* The same for every amount the API accepts, at rates the column keeps.
Explained == \A r \in rows : OnRateGrid(r.quoted) => Recomputed(r) = r.amount_usd

----------------------------------------------------------------------------
(* The inductive invariant behind the properties: every row, inserted or not, is what *)
(* one event and one rate give, no column of it ever changes by itself, and an id has *)
(* one row.                                                                           *)

Built(r) == r = Build(r.event, r.quoted)

IInv ==
  /\ TypeOK
  /\ IsFiniteSet(rows)
  /\ \A r, q \in rows : IdOf[r.event] = IdOf[q.event] => r = q
  /\ \A r \in rows : Built(r)
  /\ \A t \in Task : \A b \in built[t] : Built(b)
=============================================================================
