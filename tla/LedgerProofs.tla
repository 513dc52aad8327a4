---------------------------- MODULE LedgerProofs ----------------------------
(* Proofs about Ledger, for any scales, rates, amounts and tasks. *)
EXTENDS Ledger, FiniteSetTheorems, TLAPS

----------------------------------------------------------------------------
(* Arithmetic. *)

\* Euclidean division.
LEMMA Division ==
  ASSUME NEW n \in Int, NEW d \in Nat \ {0}
  PROVE  /\ n \div d \in Int
         /\ n % d \in 0..d-1
         /\ n = d * (n \div d) + (n % d)
  BY SMT

\* A product cannot be smaller than its positive factor.
LEMMA Multiple ==
  ASSUME NEW d \in Nat \ {0}, NEW k \in Int, d * k < d, -d < d * k
  PROVE  k = 0
  <1>1. CASE k >= 1
    <2>1. d * k >= d
      BY <1>1, SMT
    <2> QED
      BY <2>1
  <1>2. CASE k <= -1
    <2>1. d * k <= -d
      BY <1>2, SMT
    <2> QED
      BY <2>1
  <1> QED
    BY <1>1, <1>2

\* Quotient and remainder are unique.
LEMMA Quotient ==
  ASSUME NEW n \in Int, NEW d \in Nat \ {0}, NEW k \in Int, NEW r \in 0..d-1, n = d * k + r
  PROVE  n \div d = k /\ n % d = r
  <1> DEFINE q == n \div d
             m == n % d
  <1>1. q \in Int /\ m \in 0..d-1 /\ n = d * q + m
    BY Division
  <1> HIDE DEF q, m
  <1>2. d * (q - k) = r - m
    BY <1>1, SMT
  <1>3. d * (q - k) < d /\ -d < d * (q - k)
    BY <1>1, <1>2
  <1>4. q - k = 0
    BY <1>1, <1>3, Multiple
  <1>5. q = k /\ m = r
    BY <1>1, <1>2, <1>4
  <1> QED
    BY <1>5 DEF q, m

\* What rounding half to even means: the nearest integer, the even one of two.
HalfEven(q, n, d) ==
  /\ q \in Int
  /\ 2 * (q * d - n) <= d
  /\ -2 * (q * d - n) <= d
  /\ 2 * (q * d - n) = d \/ -2 * (q * d - n) = d => q % 2 = 0

LEMMA Parity ==
  ASSUME NEW k \in Int
  PROVE  k % 2 # 0 <=> (k + 1) % 2 = 0
  BY SMT

\* RoundHalfEven rounds half to even.
LEMMA Characterised ==
  ASSUME NEW n \in Int, NEW d \in Nat \ {0}
  PROVE  HalfEven(RoundHalfEven(n, d), n, d)
  <1> DEFINE k == n \div d
             m == n % d
  <1>1. k \in Int /\ m \in 0..d-1 /\ n = d * k + m
    BY Division
  <1>2. RoundHalfEven(n, d) = IF 2 * m < d \/ (2 * m = d /\ k % 2 = 0) THEN k ELSE k + 1
    BY DEF RoundHalfEven
  <1> HIDE DEF k, m
  <1>3. k * d - n = -m /\ (k + 1) * d - n = d - m
    BY <1>1, SMT
  <1>4. CASE 2 * m < d
    BY <1>1, <1>2, <1>3, <1>4 DEF HalfEven
  <1>5. CASE 2 * m = d /\ k % 2 = 0
    BY <1>1, <1>2, <1>3, <1>5 DEF HalfEven
  <1>6. CASE 2 * m = d /\ k % 2 # 0
    <2>1. (k + 1) % 2 = 0 /\ RoundHalfEven(n, d) = k + 1
      BY <1>1, <1>2, <1>6, Parity
    <2> QED
      BY <1>1, <1>3, <1>6, <2>1 DEF HalfEven
  <1>7. CASE 2 * m > d
    BY <1>1, <1>2, <1>3, <1>7 DEF HalfEven
  <1> QED
    BY <1>1, <1>4, <1>5, <1>6, <1>7

\* Two integers that round the same fraction half to even are the same.
LEMMA Unique ==
  ASSUME NEW n \in Int, NEW d \in Nat \ {0}, NEW p, NEW q,
         HalfEven(p, n, d), HalfEven(q, n, d)
  PROVE  p = q
  <1>1. p \in Int /\ q \in Int
    BY DEF HalfEven
  <1>2. ASSUME NEW x \in Int, NEW y \in Int, HalfEven(x, n, d), HalfEven(y, n, d)
        PROVE  ~ x < y
    <2> SUFFICES ASSUME x < y PROVE FALSE
      OBVIOUS
    <2>1. 2 * (y * d - n) - 2 * (x * d - n) <= 2 * d
      BY <1>2, SMT DEF HalfEven
    <2>2. 2 * (y * d - n) - 2 * (x * d - n) = 2 * (d * (y - x))
      BY SMT
    <2>3. d * (y - x) <= d /\ y - x >= 1
      BY <2>1, <2>2, SMT
    <2>4. y - x = 1
      <3>1. d * (y - x - 1) = d * (y - x) - d
        BY SMT
      <3>2. d * (y - x - 1) >= 0
        BY <2>3, SMT
      <3>3. y - x - 1 = 0
        BY <2>3, <3>1, <3>2, Multiple
      <3> QED
        BY <3>3
    <2>5. y = x + 1
      BY <2>4
    <2>6. y * d - n = (x * d - n) + d
      BY <2>5, SMT
    <2>7. 2 * (y * d - n) = d /\ -2 * (x * d - n) = d
      BY <1>2, <2>6, SMT DEF HalfEven
    <2>8. y % 2 = 0 /\ x % 2 = 0
      BY <1>2, <2>7 DEF HalfEven
    <2> QED
      BY <2>5, <2>8, Parity
  <1> QED
    BY <1>1, <1>2

\* Rounding half to even does not depend on the sign.
LEMMA EvenSymmetric ==
  ASSUME NEW n \in Int, NEW d \in Nat \ {0}
  PROVE  RoundHalfEven(-n, d) = - RoundHalfEven(n, d)
  <1> DEFINE q == RoundHalfEven(n, d)
  <1>1. HalfEven(q, n, d)
    BY Characterised
  <1> HIDE DEF q
  <1>2. q \in Int
    BY <1>1 DEF HalfEven
  <1>3. (-q) * d - (-n) = - (q * d - n)
    BY <1>2, SMT
  <1>4. q % 2 = 0 => (-q) % 2 = 0
    BY <1>2, SMT
  <1>5. HalfEven(-q, -n, d)
    BY <1>1, <1>2, <1>3, <1>4, SMT DEF HalfEven
  <1>6. HalfEven(RoundHalfEven(-n, d), -n, d)
    BY Characterised
  <1> QED
    BY <1>5, <1>6, Unique DEF q

\* Nor on the scale of the fraction.
LEMMA EvenScales ==
  ASSUME NEW n \in Int, NEW d \in Nat \ {0}, NEW c \in Nat \ {0}
  PROVE  RoundHalfEven(n * c, d * c) = RoundHalfEven(n, d)
  <1> DEFINE q == RoundHalfEven(n * c, d * c)
             f == q * d - n
  <1>1. n * c \in Int /\ d * c \in Nat \ {0}
    BY SMT
  <1>2. HalfEven(q, n * c, d * c)
    BY <1>1, Characterised
  <1> HIDE DEF q
  <1>3. q \in Int /\ f \in Int
    BY <1>2 DEF HalfEven
  <1>4. q * (d * c) - n * c = f * c
    BY <1>3, SMT
  <1>5. f * c \in Int
    BY <1>3
  <1>6. 2 * (f * c) <= d * c /\ -2 * (f * c) <= d * c
    BY <1>2, <1>4 DEF HalfEven
  <1>7. 2 * (f * c) = d * c \/ -2 * (f * c) = d * c => q % 2 = 0
    BY <1>2, <1>4 DEF HalfEven
  <1> HIDE DEF f
  <1>8. ASSUME NEW x \in Int, x * c <= d * c PROVE x <= d
    <2>1. (d - x) * c >= 0
      BY <1>8, SMT
    <2> QED
      BY <2>1, SMT
  <1>9. (2 * f) * c = 2 * (f * c) /\ (-2 * f) * c = -2 * (f * c)
    BY <1>3, SMT
  <1>10. 2 * f <= d /\ -2 * f <= d
    BY <1>3, <1>6, <1>8, <1>9
  <1>11. 2 * f = d \/ -2 * f = d => q % 2 = 0
    BY <1>3, <1>7, <1>9
  <1>12. HalfEven(q, n, d)
    BY <1>3, <1>10, <1>11 DEF HalfEven, f
  <1> QED
    BY <1>12, Characterised, Unique DEF q

\* Neighbouring ties are rounded in opposite directions.
LEMMA EvenAlternates ==
  ASSUME NEW n \in Int, NEW d \in Nat \ {0}, 2 * (n % d) = d
  PROVE  (RoundHalfEven(n, d) * d - n) + (RoundHalfEven(n + d, d) * d - (n + d)) = 0
  <1> DEFINE k == n \div d
             m == n % d
  <1>1. k \in Int /\ m \in 0..d-1 /\ n = d * k + m
    BY Division
  <1>2. (n + d) \div d = k + 1 /\ (n + d) % d = m
    <2> HIDE DEF k, m
    <2>1. n + d = d * (k + 1) + m
      BY <1>1, SMT
    <2>2. n + d \in Int /\ k + 1 \in Int
      BY <1>1
    <2> QED
      BY <1>1, <2>1, <2>2, Quotient
  <1>3. /\ RoundHalfEven(n, d) = IF k % 2 = 0 THEN k ELSE k + 1
        /\ RoundHalfEven(n + d, d) = IF (k + 1) % 2 = 0 THEN k + 1 ELSE k + 2
    BY <1>1, <1>2 DEF RoundHalfEven
  <1>4. 2 * m = d
    OBVIOUS
  <1> HIDE DEF k, m
  <1>5. CASE k % 2 = 0
    <2>1. RoundHalfEven(n, d) = k /\ RoundHalfEven(n + d, d) = k + 2
      BY <1>1, <1>3, <1>5, Parity
    <2>2. k * d - n = -m /\ (k + 2) * d - (n + d) = d - m
      BY <1>1, SMT
    <2> QED
      BY <1>1, <1>4, <2>1, <2>2
  <1>6. CASE k % 2 # 0
    <2>1. RoundHalfEven(n, d) = k + 1 /\ RoundHalfEven(n + d, d) = k + 1
      BY <1>1, <1>3, <1>6, Parity
    <2>2. (k + 1) * d - n = d - m /\ (k + 1) * d - (n + d) = -m
      BY <1>1, SMT
    <2> QED
      BY <1>1, <1>4, <2>1, <2>2
  <1> QED
    BY <1>5, <1>6

\* Rounding half away from zero: an integer, symmetric, and exact on integers.
LEMMA AwayExact ==
  ASSUME NEW k \in Int, NEW d \in Nat \ {0}
  PROVE  RoundHalfAway(d * k, d) = k
  <1>1. d * k \in Int /\ 2 * d \in Nat \ {0} /\ d \in 0..(2 * d) - 1
    BY SMT
  <1>2. CASE d * k >= 0
    <2>1. 2 * (d * k) + d = (2 * d) * k + d
      BY SMT
    <2>2. (2 * (d * k) + d) \div (2 * d) = k
      BY <1>1, <2>1, Quotient
    <2> QED
      BY <1>2, <2>2 DEF RoundHalfAway
  <1>3. CASE d * k < 0
    <2>1. d - 2 * (d * k) = (2 * d) * (-k) + d /\ d - 2 * (d * k) \in Int
      BY <1>1, SMT
    <2>2. (d - 2 * (d * k)) \div (2 * d) = -k
      BY <1>1, <2>1, Quotient
    <2>3. RoundHalfAway(d * k, d) = - ((d - 2 * (d * k)) \div (2 * d))
      BY <1>1, <1>3 DEF RoundHalfAway
    <2> QED
      BY <2>2, <2>3
  <1> QED
    BY <1>1, <1>2, <1>3

LEMMA AwaySymmetric ==
  ASSUME NEW n \in Int, NEW d \in Nat \ {0}
  PROVE  RoundHalfAway(n, d) \in Int /\ RoundHalfAway(-n, d) = - RoundHalfAway(n, d)
  <1>1. 2 * d \in Nat \ {0} /\ 2 * n + d \in Int /\ d - 2 * n \in Int
    OBVIOUS
  <1>2. (2 * n + d) \div (2 * d) \in Int /\ (d - 2 * n) \div (2 * d) \in Int
    BY <1>1, Division
  <1>3. CASE n = 0
    <2>1. d * 0 = 0
      OBVIOUS
    <2>2. RoundHalfAway(0, d) = 0
      BY <2>1, AwayExact
    <2> QED
      BY <1>3, <2>2
  <1>4. CASE n > 0
    <2>1. d - 2 * (-n) = 2 * n + d
      OBVIOUS
    <2> QED
      BY <1>2, <1>4, <2>1 DEF RoundHalfAway
  <1>5. CASE n < 0
    <2>1. 2 * (-n) + d = d - 2 * n
      OBVIOUS
    <2> QED
      BY <1>2, <1>5, <2>1 DEF RoundHalfAway
  <1> QED
    BY <1>3, <1>4, <1>5
----------------------------------------------------------------------------
(* The rows. *)

\* What the scales multiply to, for the lemmas above.
LEMMA Scales ==
  /\ ExactScale \in Nat \ {0}
  /\ \A a \in Int : \A x \in Rate : Exact(a, x) \in Int
  <1>1. AmountScale \in Nat \ {0} /\ RateScale \in Nat \ {0} /\ CentScale \in Nat
    BY LedgerAssumption DEF LedgerAssumption
  <1>2. ExactScale \in Nat \ {0}
    BY <1>1, SMT DEF ExactScale
  <1>3. ASSUME NEW a \in Int, NEW x \in Rate PROVE Exact(a, x) \in Int
    <2>1. x \in Nat
      BY LedgerAssumption DEF LedgerAssumption
    <2>2. a * x \in Int
      BY <2>1
    <2> QED
      BY <1>1, <2>2 DEF Exact
  <1> QED
    BY <1>2, <1>3

\* The USD amount is the exact one, rounded half to even once.
LEMMA Converted ==
  ASSUME NEW a \in Int, NEW x \in Rate
  PROVE  HalfEven(convert_to_usd(a, x), Exact(a, x), ExactScale)
  <1>1. Exact(a, x) \in Int /\ ExactScale \in Nat \ {0}
    BY Scales
  <1> QED
    BY <1>1, Characterised DEF convert_to_usd

\* The columns of amount and rate keep integers.
LEMMA StoredType ==
  ASSUME NEW a \in Int, NEW x \in Rate
  PROVE  Stored(a) \in Int /\ StoredRate(x) \in Int
  <1>1. /\ a * ColumnScale \in Int /\ AmountScale \in Nat \ {0}
        /\ x * RateColumnScale \in Int /\ RateScale \in Nat \ {0}
    BY LedgerAssumption DEF LedgerAssumption
  <1> QED
    BY <1>1, AwaySymmetric DEF Stored, StoredRate

\* What process builds is a row, made from its event and rate.
LEMMA BuildType ==
  ASSUME NEW e \in Event, NEW x \in Rate
  PROVE  Build(e, x) \in Row /\ Built(Build(e, x))
  <1>1. AmountOf[e] \in Int
    BY LedgerAssumption DEF LedgerAssumption
  <1>2. /\ Stored(AmountOf[e]) \in Int /\ StoredRate(x) \in Int
        /\ convert_to_usd(AmountOf[e], x) \in Int
    BY <1>1, StoredType, Converted DEF HalfEven
  <1> QED
    BY <1>2 DEF Build, Built, Row

\* Nothing is built or stored yet.
LEMMA InitIInv == Init => IInv
  <1> SUFFICES ASSUME Init PROVE IInv
    OBVIOUS
  <1>1. IsFiniteSet({}) /\ \A t \in Task : Cardinality(built[t]) <= 1
    BY FS_EmptySet DEF Init
  <1> QED
    BY <1>1 DEF Init, IInv, TypeOK

\* A lookup builds a row of its own; an insert stores a built row or none; nothing
\* rewrites a row.
LEMMA NextIInv == IInv /\ [Next]_vars => IInv'
  <1> SUFFICES ASSUME IInv, [Next]_vars PROVE IInv'
    OBVIOUS
  <1>1. TypeOK
    BY DEF IInv
  <1>2. CASE Requote
    <2>1. quote' \in Rate /\ UNCHANGED <<built, rows>>
      BY <1>2 DEF Requote
    <2> QED
      BY <2>1 DEF IInv, TypeOK, Built
  <1>3. ASSUME NEW t \in Task, NEW e \in Event, Lookup(t, e) PROVE IInv'
    <2> DEFINE b == Build(e, quote)
    <2>1. b \in Row /\ Built(b)
      BY <1>1, BuildType DEF TypeOK
    <2>2. built' = [built EXCEPT ![t] = {b}] /\ quote' = quote /\ rows' = rows
      BY <1>3 DEF Lookup
    <2> HIDE DEF b
    <2>3. Cardinality({b}) = 1
      BY FS_Singleton
    <2>4. \A s \in Task : Cardinality(built'[s]) <= 1
      BY <1>1, <2>2, <2>3 DEF TypeOK
    <2>5. \A s \in Task : \A c \in built'[s] : Built(c)
      BY <1>1, <2>1, <2>2 DEF TypeOK, IInv
    <2>6. built' \in [Task -> SUBSET Row]
      BY <1>1, <2>1, <2>2 DEF TypeOK
    <2> QED
      BY <1>1, <2>2, <2>4, <2>5, <2>6 DEF IInv, TypeOK, Built
  <1>4. ASSUME NEW t \in Task, built' = [built EXCEPT ![t] = {}] PROVE
          /\ built' \in [Task -> SUBSET Row]
          /\ \A s \in Task : Cardinality(built'[s]) <= 1
          /\ \A s \in Task : \A c \in built'[s] : Built(c)
    BY <1>1, <1>4, FS_EmptySet DEF TypeOK, IInv
  <1>5. ASSUME NEW t \in Task, Store(t) PROVE IInv'
    <2>1. PICK b \in built[t] : rows' = Insert(b)
      BY <1>5 DEF Store
    <2>2. b \in Row /\ Built(b)
      BY <1>1 DEF TypeOK, IInv
    <2>3. /\ rows' \subseteq rows \cup {b}
          /\ \A r, q \in rows' : IdOf[r.event] = IdOf[q.event] => r = q
      BY <2>1 DEF Insert, IInv
    <2>4. built' = [built EXCEPT ![t] = {}] /\ quote' = quote
      BY <1>5 DEF Store
    <2>5. IsFiniteSet(rows')
      BY <2>3, FS_AddElement, FS_Subset DEF IInv
    <2> QED
      BY <1>1, <1>4, <2>2, <2>3, <2>4, <2>5 DEF IInv, TypeOK, Built
  <1>6. ASSUME NEW t \in Task, Drop(t) PROVE IInv'
    <2>1. built' = [built EXCEPT ![t] = {}] /\ quote' = quote /\ rows' = rows
      BY <1>6 DEF Drop
    <2> QED
      BY <1>1, <1>4, <2>1 DEF IInv, TypeOK, Built
  <1>7. CASE UNCHANGED vars
    BY <1>7 DEF vars, IInv, TypeOK, Built
  <1> QED
    BY <1>2, <1>3, <1>5, <1>6, <1>7 DEF Next

\* Whatever is quoted when, every row is what one event and one rate give, and an id
\* keeps one row.
THEOREM Invariant == Spec => []IInv
  <1> QED
    BY InitIInv, NextIInv, PTL DEF Spec

\* The types, with one built row per task.
THEOREM TypeCorrect == Spec => []TypeOK
  <1>1. IInv => TypeOK
    BY DEF IInv
  <1> QED
    BY <1>1, Invariant, PTL

\* The columns of a row, by its event and the rate quoted for it.
LEMMA Columns ==
  ASSUME IInv, NEW r \in rows
  PROVE  /\ r.quoted \in Rate /\ AmountOf[r.event] \in Int
         /\ r.amount = Stored(AmountOf[r.event])
         /\ r.rate = StoredRate(r.quoted)
         /\ r.amount_usd = convert_to_usd(AmountOf[r.event], r.quoted)
         /\ HalfEven(r.amount_usd, Worth(r), ExactScale)
         /\ Worth(r) \in Int /\ RoundingError(r) \in Int
  <1>1. r \in Row /\ r = Build(r.event, r.quoted)
    BY DEF IInv, TypeOK, Built
  <1>2. r.quoted \in Rate /\ AmountOf[r.event] \in Int
    BY <1>1, LedgerAssumption DEF LedgerAssumption, Row
  <1>3. /\ r.amount = Stored(AmountOf[r.event])
        /\ r.rate = StoredRate(r.quoted)
        /\ r.amount_usd = convert_to_usd(AmountOf[r.event], r.quoted)
    BY <1>1 DEF Build
  <1>4. HalfEven(r.amount_usd, Worth(r), ExactScale)
    BY <1>2, <1>3, Converted DEF Worth
  <1>5. Worth(r) \in Int
    BY <1>2, Scales DEF Worth
  <1>6. r.amount_usd * ExactScale \in Int
    BY <1>4, Scales DEF HalfEven
  <1> QED
    BY <1>2, <1>3, <1>4, <1>5, <1>6 DEF RoundingError

\* A stored USD amount is at most half a cent from the submitted amount at the quoted rate.
THEOREM RoundedOnce == Spec => []NearestCent
  <1>1. IInv => NearestCent
    <2> SUFFICES ASSUME IInv, NEW r \in rows
                 PROVE  2 * RoundingError(r) <= ExactScale /\ -2 * RoundingError(r) <= ExactScale
      BY DEF NearestCent
    <2>1. HalfEven(r.amount_usd, Worth(r), ExactScale)
      BY Columns
    <2> QED
      BY <2>1 DEF HalfEven, RoundingError
  <1> QED
    BY <1>1, Invariant, PTL

\* A refund cancels its charge in both currencies, at any scale and any rate.
THEOREM RefundsAreExact == Spec => []RefundsCancel
  <1>1. IInv => RefundsCancel
    <2> SUFFICES ASSUME IInv, NEW r \in rows, NEW q \in rows,
                        AmountOf[r.event] = - AmountOf[q.event], r.quoted = q.quoted
                 PROVE  r.amount_usd = - q.amount_usd /\ r.amount = - q.amount
      BY DEF RefundsCancel
    <2> DEFINE a == AmountOf[q.event]
               x == q.quoted
    <2>1. /\ a \in Int /\ x \in Rate
          /\ q.amount = Stored(a) /\ q.amount_usd = convert_to_usd(a, x)
          /\ r.amount = Stored(-a) /\ r.amount_usd = convert_to_usd(-a, x)
      BY Columns
    <2> HIDE DEF a, x
    <2>2. Exact(-a, x) = - Exact(a, x)
      <3>1. x \in Int /\ CentScale \in Int
        BY <2>1, LedgerAssumption DEF LedgerAssumption
      <3>2. (-a) * x = - (a * x) /\ a * x \in Int
        BY <2>1, <3>1, SMT
      <3>3. (- (a * x)) * CentScale = - ((a * x) * CentScale)
        BY <3>1, <3>2, SMT
      <3> QED
        BY <3>2, <3>3 DEF Exact
    <2>3. convert_to_usd(-a, x) = - convert_to_usd(a, x)
      BY <2>1, <2>2, Scales, EvenSymmetric DEF convert_to_usd
    <2>4. Stored(-a) = - Stored(a)
      <3>1. ColumnScale \in Int /\ AmountScale \in Nat \ {0}
        BY LedgerAssumption DEF LedgerAssumption
      <3>2. (-a) * ColumnScale = - (a * ColumnScale) /\ a * ColumnScale \in Int
        BY <2>1, <3>1, SMT
      <3> QED
        BY <3>1, <3>2, AwaySymmetric DEF Stored
    <2> QED
      BY <2>1, <2>3, <2>4
  <1> QED
    BY <1>1, Invariant, PTL

\* Rounding is unbiased: neighbouring ties are rounded in opposite directions.
THEOREM RoundingIsUnbiased == Spec => []TiesCancel
  <1>1. IInv => TiesCancel
    <2> SUFFICES ASSUME IInv, NEW r \in rows, NEW q \in rows,
                        Tie(r), Worth(q) = Worth(r) + ExactScale
                 PROVE  RoundingError(r) + RoundingError(q) = 0
      BY DEF TiesCancel
    <2>1. /\ Worth(r) \in Int
          /\ r.amount_usd = RoundHalfEven(Worth(r), ExactScale)
          /\ q.amount_usd = RoundHalfEven(Worth(r) + ExactScale, ExactScale)
      BY Columns DEF convert_to_usd, Worth
    <2>2. 2 * (Worth(r) % ExactScale) = ExactScale
      BY DEF Tie
    <2> QED
      BY <2>1, <2>2, Scales, EvenAlternates DEF RoundingError
  <1> QED
    BY <1>1, Invariant, PTL

\* A value on the grid of its column is stored as it is, only at another scale.
LEMMA ColumnKeeps ==
  ASSUME NEW n \in Int, NEW c \in Nat \ {0}, NEW d \in Nat \ {0}, (n * c) % d = 0
  PROVE  RoundHalfAway(n * c, d) \in Int /\ n * c = d * RoundHalfAway(n * c, d)
  <1> DEFINE k == (n * c) \div d
  <1>1. n * c \in Int
    OBVIOUS
  <1>2. k \in Int /\ n * c = d * k + ((n * c) % d)
    BY <1>1, Division
  <1> HIDE DEF k
  <1>3. n * c = d * k
    BY <1>2
  <1> QED
    BY <1>2, <1>3, AwayExact

\* What the row explains when its columns could keep the amount and the rate: the same
\* fraction, rounded at another scale.
LEMMA OnGridExplains ==
  ASSUME NEW a \in Int, NEW x \in Nat, OnGrid(a), OnRateGrid(x)
  PROVE  RoundHalfEven(Stored(a) * StoredRate(x) * CentScale, ColumnScale * RateColumnScale)
           = convert_to_usd(a, x)
  <1> DEFINE k == Stored(a)
             y == StoredRate(x)
  <1>1. /\ AmountScale \in Nat \ {0} /\ ColumnScale \in Nat \ {0}
        /\ RateScale \in Nat \ {0} /\ RateColumnScale \in Nat \ {0} /\ CentScale \in Nat
    BY LedgerAssumption DEF LedgerAssumption
  <1>2. /\ k \in Int /\ a * ColumnScale = AmountScale * k
        /\ y \in Int /\ x * RateColumnScale = RateScale * y
    <2>1. (a * ColumnScale) % AmountScale = 0 /\ (x * RateColumnScale) % RateScale = 0
      BY DEF OnGrid, OnRateGrid
    <2>2. /\ RoundHalfAway(a * ColumnScale, AmountScale) \in Int
          /\ a * ColumnScale = AmountScale * RoundHalfAway(a * ColumnScale, AmountScale)
      BY <1>1, <2>1, ColumnKeeps
    <2>3. /\ RoundHalfAway(x * RateColumnScale, RateScale) \in Int
          /\ x * RateColumnScale = RateScale * RoundHalfAway(x * RateColumnScale, RateScale)
      <3>1. x \in Int
        OBVIOUS
      <3> QED
        BY <1>1, <2>1, <3>1, ColumnKeeps
    <2> QED
      BY <2>2, <2>3 DEF Stored, StoredRate
  <1> HIDE DEF k, y
  <1> DEFINE n == k * y * CentScale
             p == a * x * CentScale
             d == ColumnScale * RateColumnScale
             f == AmountScale * RateScale
  <1>3. n \in Int /\ p \in Int /\ d \in Nat \ {0} /\ f \in Nat \ {0}
    <2>1. k * y \in Int /\ a * x \in Int
      BY <1>2
    <2> QED
      BY <1>1, <2>1, SMT
  <1>4. n * f = p * d
    <2>1. n * f = ((AmountScale * k) * (RateScale * y)) * CentScale
      BY <1>1, <1>2, SMT
    <2>2. p * d = ((a * ColumnScale) * (x * RateColumnScale)) * CentScale
      BY <1>1, <1>2, SMT
    <2> QED
      BY <1>2, <2>1, <2>2
  <1>5. f * d = d * f
    BY <1>3, SMT
  <1>6. convert_to_usd(a, x) = RoundHalfEven(p, f)
    BY DEF convert_to_usd, Exact, ExactScale
  <1>7. ColumnScale * RateColumnScale = d /\ Stored(a) * StoredRate(x) * CentScale = n
    BY DEF k, y
  <1> HIDE DEF n, p, d, f
  <1>8. /\ RoundHalfEven(n, d) = RoundHalfEven(n * f, d * f)
        /\ RoundHalfEven(p, f) = RoundHalfEven(p * d, f * d)
    BY <1>3, EvenScales
  <1> QED
    BY <1>4, <1>5, <1>6, <1>7, <1>8

\* A row whose amount and rate the columns could keep is explained by its own columns.
THEOREM HistoryIsExplained == Spec => []ExplainedOnGrid
  <1>1. IInv => ExplainedOnGrid
    <2> SUFFICES ASSUME IInv, NEW r \in rows, OnGrid(AmountOf[r.event]), OnRateGrid(r.quoted)
                 PROVE  Recomputed(r) = r.amount_usd
      BY DEF ExplainedOnGrid
    <2>1. /\ r.quoted \in Nat /\ AmountOf[r.event] \in Int
          /\ r.amount = Stored(AmountOf[r.event]) /\ r.rate = StoredRate(r.quoted)
          /\ r.amount_usd = convert_to_usd(AmountOf[r.event], r.quoted)
      BY Columns, LedgerAssumption DEF LedgerAssumption
    <2> QED
      BY <2>1, OnGridExplains DEF Recomputed
  <1> QED
    BY <1>1, Invariant, PTL
=============================================================================
