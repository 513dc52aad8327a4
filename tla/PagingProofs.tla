---------------------------- MODULE PagingProofs ----------------------------
(***************************************************************************)
(* Proofs about Paging, for any page size, windows that do not overlap,    *)
(* rows and interleaving of inserts with the statements of the walk.       *)
(***************************************************************************)
EXTENDS Paging, FiniteSetTheorems, SequenceTheorems, TLAPS

----------------------------------------------------------------------------
(* Rows in the order of a page. *)

\* Rows one table may hold: no id twice.
Distinct(R) == R \subseteq Txn /\ \A r, q \in R : r.id = q.id => r = q

\* A set of rows is finite, and so is every rank in it.
LEMMA RowsFinite ==
  ASSUME NEW R \in SUBSET Txn
  PROVE  /\ IsFiniteSet(R)
         /\ Cardinality(R) \in Nat
         /\ \A r : Rank(r, R) \in Nat
  <1>1. ASSUME NEW S \in SUBSET Txn PROVE IsFiniteSet(S) /\ Cardinality(S) \in Nat
    BY PagingAssumption, FS_Subset, FS_CardinalityType DEF PagingAssumption
  <1>2. ASSUME NEW r PROVE Rank(r, R) \in Nat
    <2>1. {q \in R : Before(q, r)} \in SUBSET Txn
      OBVIOUS
    <2> QED
      BY <1>1, <2>1 DEF Rank
  <1> QED
    BY <1>1, <1>2

\* ORDER BY timestamp DESC, id DESC is a strict total order on such rows.
LEMMA TotalOrder ==
  ASSUME NEW R, Distinct(R), NEW r \in R, NEW q \in R
  PROVE  /\ ~ Before(r, r)
         /\ r # q => Before(r, q) \/ Before(q, r)
         /\ ~ (Before(r, q) /\ Before(q, r))
  <1>1. r.id \in Int /\ r.timestamp \in Int /\ q.id \in Int /\ q.timestamp \in Int
    BY PagingAssumption DEF PagingAssumption, Distinct
  <1> QED
    BY <1>1 DEF Before, Distinct

\* Any order the database may choose is a sequence of exactly these rows.
LEMMA OrderType ==
  ASSUME NEW R \in SUBSET Txn, NEW s \in Orders(R)
  PROVE  /\ s \in [1..Cardinality(R) -> R]
         /\ s \in Seq(R) /\ Len(s) = Cardinality(R)
         /\ s \in Injection(1..Cardinality(R), R)
         /\ \A r \in R : \E i \in 1..Cardinality(R) : s[i] = r
  <1> DEFINE n == Cardinality(R)
  <1>1. IsFiniteSet(R) /\ n \in Nat
    BY RowsFinite
  <1>2. s \in [1..n -> R] /\ \A i, j \in 1..n : i # j => s[i] # s[j]
    BY DEF Orders, SetToSeqs
  <1> HIDE DEF n
  <1>3. s \in Seq(R) /\ Len(s) = n
    BY <1>1, <1>2
  <1>4. s \in Injection(1..n, R)
    BY <1>2 DEF Injection, IsInjective
  <1>5. Cardinality(1..n) = n
    BY <1>1, FS_Interval
  <1>6. s \in Surjection(1..n, R)
    BY <1>1, <1>4, <1>5, FS_Injection DEF n
  <1>7. \A r \in R : \E i \in 1..n : s[i] = r
    BY <1>6 DEF Surjection
  <1> QED
    BY <1>2, <1>3, <1>4, <1>7 DEF n

\* In any of them a row stands right after the rows that come before it.
LEMMA Position ==
  ASSUME NEW R, Distinct(R), NEW s \in Orders(R), NEW r \in R
  PROVE  /\ Rank(r, R) + 1 \in 1..Cardinality(R)
         /\ s[Rank(r, R) + 1] = r
  <1> DEFINE n == Cardinality(R)
             earlier == {q \in R : Before(q, r)}
  <1>1. /\ n \in Nat /\ s \in [1..n -> R] /\ Len(s) = n
        /\ s \in Injection(1..n, R)
        /\ \A q \in R : \E i \in 1..n : s[i] = q
    BY RowsFinite, OrderType DEF Distinct
  <1>2. PICK i \in 1..n : s[i] = r
    BY <1>1
  <1>3. \A j, k \in 1..n : j < k => ~ Before(s[k], s[j])
    BY <1>1 DEF Orders
  <1>4. \A j, k \in 1..n : s[j] = s[k] => j = k
    BY <1>1 DEF Injection, IsInjective
  <1> HIDE DEF n
  <1>5. ASSUME NEW j \in 1..i-1 PROVE s[j] \in earlier
    <2>1. j \in 1..n /\ j < i /\ j # i
      BY <1>1, <1>2
    <2>2. s[j] \in R /\ s[j] # r
      BY <1>1, <1>2, <1>4, <2>1
    <2>3. ~ Before(r, s[j])
      BY <1>2, <1>3, <2>1
    <2> QED
      BY <2>2, <2>3, TotalOrder
  <1>6. ASSUME NEW q \in earlier PROVE \E j \in 1..i-1 : s[j] = q
    <2>1. q \in R /\ Before(q, r)
      OBVIOUS
    <2>2. PICK j \in 1..n : s[j] = q
      BY <1>1, <2>1
    <2>3. j # i
      BY <1>2, <2>1, <2>2, TotalOrder
    <2>4. ~ i < j
      BY <1>2, <1>3, <2>1, <2>2
    <2>5. j \in 1..i-1
      BY <1>1, <2>3, <2>4
    <2> QED
      BY <2>2, <2>5
  <1>7. Cardinality(earlier) = i - 1
    <2> DEFINE f == [j \in 1..i-1 |-> s[j]]
    <2> HIDE DEF earlier
    <2>1. f \in Surjection(1..i-1, earlier)
      BY <1>5, <1>6 DEF Surjection
    <2>2. f \in Injection(1..i-1, earlier)
      <3>1. \A j, k \in 1..i-1 : s[j] = s[k] => j = k
        BY <1>1, <1>4
      <3> QED
        BY <1>5, <3>1 DEF Injection, IsInjective
    <2>3. IsFiniteSet(1..i-1) /\ Cardinality(1..i-1) = i - 1
      <3>1. i - 1 \in Int /\ 1 \in Int
        BY <1>1
      <3> QED
        BY <1>1, <3>1, FS_Interval
    <2> HIDE DEF f
    <2> QED
      BY <2>1, <2>2, <2>3, FS_Surjection
  <1>8. Rank(r, R) = i - 1
    BY <1>7 DEF Rank
  <1> QED
    BY <1>1, <1>2, <1>8 DEF n

\* A row of the set has fewer rows before it than the set has rows.
LEMMA RankBelow ==
  ASSUME NEW R, Distinct(R), NEW r \in R
  PROVE  Rank(r, R) < Cardinality(R)
  <1> DEFINE earlier == {q \in R : Before(q, r)}
  <1>1. R \in SUBSET Txn /\ earlier \in SUBSET R /\ r \notin earlier
    BY TotalOrder DEF Distinct
  <1>2. IsFiniteSet(R) /\ Cardinality(R) \in Nat /\ Rank(r, R) \in Nat
    BY <1>1, RowsFinite
  <1> HIDE DEF earlier
  <1>3. Cardinality(earlier) <= Cardinality(R) /\ Cardinality(earlier) # Cardinality(R)
    BY <1>1, <1>2, FS_Subset
  <1> QED
    BY <1>2, <1>3 DEF Rank, earlier

\* Inserts only push a row down.
LEMMA RankGrows ==
  ASSUME NEW S \in SUBSET Txn, NEW R \in SUBSET S, NEW r
  PROVE  Rank(r, R) <= Rank(r, S)
  <1>1. {q \in S : Before(q, r)} \in SUBSET Txn /\ {q \in R : Before(q, r)} \in SUBSET {q \in S : Before(q, r)}
    OBVIOUS
  <1>2. IsFiniteSet({q \in S : Before(q, r)})
    BY <1>1, RowsFinite
  <1> QED
    BY <1>1, <1>2, FS_Subset DEF Rank
\* A page: rows of the set, within the total, and every row of its Limit ranks.
LEMMA PageRows ==
  ASSUME NEW R, Distinct(R), NEW s \in Orders(R), offset \in Nat
  PROVE  /\ Page(s) \in Seq(Txn)
         /\ ToSet(Page(s)) \subseteq R
         /\ Page(s) # <<>> => offset + Len(Page(s)) <= Cardinality(R)
         /\ \A r \in R : \/ r \in ToSet(Page(s))
                        \/ Rank(r, R) < offset
                        \/ Rank(r, R) >= offset + Limit
  <1> DEFINE n    == Cardinality(R)
             from == offset + 1
             upto == IF offset + Limit < n THEN offset + Limit ELSE n
             page == SubSeq(s, from, upto)
  <1>1. R \in SUBSET Txn /\ Limit \in Nat \ {0}
    BY PagingAssumption DEF Distinct, PagingAssumption
  <1>2. n \in Nat /\ s \in [1..n -> R] /\ Len(s) = n
    BY <1>1, RowsFinite, OrderType
  <1>3. page = Page(s)
    BY <1>2 DEF Page
  <1> HIDE DEF n
  <1>4. from \in Int /\ upto \in Int /\ upto <= n /\ upto <= offset + Limit
    BY <1>1, <1>2
  <1>5. \A i \in from..upto : s[i] \in R
    BY <1>2, <1>4
  <1> HIDE DEF from, upto
  <1>6. /\ page \in Seq(R)
        /\ Len(page) = IF from <= upto THEN upto - from + 1 ELSE 0
        /\ \A i \in 1 .. upto - from + 1 : page[i] = s[from + i - 1]
    BY <1>4, <1>5, SubSeqProperties
  <1>7. DOMAIN page = 1..Len(page) /\ Len(page) \in Nat
    BY <1>6, LenProperties
  <1> HIDE DEF page
  <1>8. page \in Seq(Txn)
    BY <1>1, <1>6, SeqMonotonic
  <1>9. ToSet(page) \subseteq R
    BY <1>6, <1>7, ElementOfSeq DEF ToSet
  <1>10. page # <<>> => offset + Len(page) <= n
    <2>1. page # <<>> => Len(page) \in Nat \ {0}
      BY <1>6, EmptySeq
    <2> QED
      BY <1>2, <1>4, <1>6, <2>1 DEF from
  <1>11. ASSUME NEW r \in R, ~ Rank(r, R) < offset, ~ Rank(r, R) >= offset + Limit
         PROVE  r \in ToSet(page)
    <2> DEFINE k == Rank(r, R)
    <2>1. k \in Nat /\ k + 1 \in 1..n /\ s[k + 1] = r
      BY <1>1, Position, RowsFinite DEF n
    <2> HIDE DEF k
    <2>2. offset <= k /\ k < offset + Limit
      BY <1>1, <1>11, <2>1 DEF k
    <2>3. k + 1 \in from..upto
      BY <1>1, <1>2, <2>1, <2>2 DEF from, upto
    <2>4. k + 1 - offset \in 1 .. upto - from + 1 /\ from + (k + 1 - offset) - 1 = k + 1
      BY <1>4, <2>1, <2>3 DEF from
    <2>5. page[k + 1 - offset] = r
      BY <1>6, <2>1, <2>4
    <2>6. k + 1 - offset \in DOMAIN page
      BY <1>4, <1>6, <1>7, <2>3, <2>4
    <2> QED
      BY <2>5, <2>6 DEF ToSet
  <1> QED
    BY <1>3, <1>8, <1>9, <1>10, <1>11 DEF n

----------------------------------------------------------------------------
(* The invariant. *)

\* What Matching contains, before and after a step that keeps every row.
LEMMA MatchingType ==
  ASSUME IInv, NEW w \in Windows
  PROVE  Distinct(Matching(w)) /\ Matching(w) \in SUBSET Txn
  BY DEF IInv, TypeOK, Matching, Distinct

LEMMA MatchingGrows ==
  ASSUME table \subseteq table', NEW w
  PROVE  Matching(w) \subseteq Matching(w)'
  BY DEF Matching, Matches

\* Nothing has been inserted, asked or shown.
LEMMA InitIInv == Init => IInv
  <1> SUFFICES ASSUME Init PROVE IInv
    OBVIOUS
  <1>1. Len(Window) \in Nat
    BY PagingAssumption, LenProperties DEF PagingAssumption
  <1>2. TypeOK
    BY <1>1 DEF Init, TypeOK, Windows
  <1>3. NothingSkipped
    BY <1>1 DEF Init, NothingSkipped, Windows
  <1> QED
    BY <1>2, <1>3 DEF Init, IInv

\* A row committed during the walk takes nothing back that was shown or owed.
LEMMA InsertKeeps ==
  ASSUME IInv, NEW r \in Txn, Insert(r)
  PROVE  IInv'
  <1>1. /\ TypeOK /\ table' = table \cup {r} /\ r.id \notin Ids(table)
        /\ UNCHANGED <<window, offset, ran, items, total, seen, present>>
    BY DEF IInv, Insert
  <1>2. TypeOK'
    BY <1>1 DEF TypeOK
  <1>3. \A p, q \in table' : p.id = q.id => p = q
    BY <1>1 DEF IInv, Ids
  <1>4. \A w \in Windows : Matching(w) \subseteq Matching(w)' /\ Matching(w)' \in SUBSET Txn
    BY <1>1, <1>2, MatchingGrows DEF Matching, TypeOK
  <1>5. \A w \in Windows : seen'[w] \subseteq Ids(Matching(w)') /\ present'[w] \subseteq Matching(w)'
    BY <1>1, <1>4 DEF IInv, Ids
  <1>6. NothingSkipped'
    BY <1>1 DEF IInv, NothingSkipped
  <1>7. ASSUME NEW w \in Windows, NEW q, NEW k \in Nat, Rank(q, Matching(w)) >= k
        PROVE  Rank(q, Matching(w)') >= k
    <2>1. Matching(w) \in SUBSET Txn
      BY MatchingType
    <2>2. Rank(q, Matching(w)) <= Rank(q, Matching(w)')
      BY <1>4, RankGrows
    <2>3. Rank(q, Matching(w)) \in Nat /\ Rank(q, Matching(w)') \in Nat
      BY <1>4, <2>1, RowsFinite
    <2> QED
      BY <1>7, <2>2, <2>3
  <1>8. offset \in Nat /\ offset + Limit \in Nat
    BY <1>1, PagingAssumption DEF TypeOK, PagingAssumption
  <1>9. ASSUME NEW w \in Windows, w = window, NEW q \in present[w]
        PROVE  q.id \in seen[w] \/ Rank(q, Matching(w)') >= offset
    BY <1>7, <1>8, <1>9 DEF IInv
  <1>10. ASSUME NEW w \in Windows, w = window, ran = 1
         PROVE  /\ ToSet(items) \subseteq Matching(w)'
                /\ items # <<>> => offset + Len(items) <= Cardinality(Matching(w)')
                /\ \A q \in present[w] : \/ q.id \in seen[w] \/ q \in ToSet(items)
                                         \/ Rank(q, Matching(w)') >= offset + Limit
    <2>1. RequestOK
      BY <1>10 DEF IInv
    <2>2. ToSet(items) \subseteq Matching(w)'
      BY <1>4, <1>10, <2>1 DEF RequestOK
    <2>3. items # <<>> => offset + Len(items) <= Cardinality(Matching(w)')
      <3>1. /\ IsFiniteSet(Matching(w)') /\ Cardinality(Matching(w)') \in Nat
            /\ Cardinality(Matching(w)) \in Nat
        BY <1>4, RowsFinite, MatchingType
      <3>2. Cardinality(Matching(w)) <= Cardinality(Matching(w)')
        BY <1>4, <3>1, FS_Subset
      <3>3. Len(items) \in Nat /\ offset \in Nat
        BY <1>1, LenProperties DEF TypeOK
      <3> QED
        BY <1>10, <2>1, <3>1, <3>2, <3>3 DEF RequestOK
    <2>4. \A q \in present[w] : \/ q.id \in seen[w] \/ q \in ToSet(items)
                                \/ Rank(q, Matching(w)') >= offset + Limit
      BY <1>7, <1>8, <1>10, <2>1 DEF RequestOK
    <2> QED
      BY <2>2, <2>3, <2>4
  <1>11. window' \in Windows =>
           \A q \in present'[window'] :
             q.id \in seen'[window'] \/ Rank(q, Matching(window)') >= offset'
    BY <1>1, <1>9
  <1>12. ran' = 1 => RequestOK'
    <2> SUFFICES ASSUME ran = 1 PROVE RequestOK'
      BY <1>1
    <2>1. window \in Windows
      BY DEF IInv, RequestOK
    <2>2. PICK w \in Windows : w = window
      BY <2>1
    <2> QED
      BY <1>1, <1>10, <2>2 DEF RequestOK
  <1> QED
    BY <1>2, <1>3, <1>5, <1>6, <1>11, <1>12 DEF IInv
\* The first statement reads a page that holds all rows of its ranks.
LEMMA StartKeeps ==
  ASSUME IInv, Start
  PROVE  IInv'
  <1>1. /\ TypeOK /\ window \in Windows /\ ran' = 1
        /\ UNCHANGED <<table, window, offset, seen, total>>
    BY DEF IInv, Start, Execute, Statements
  <1> DEFINE M == Matching(window)
  <1>2. PICK s \in Orders(M) : items' = Page(s)
    BY DEF Start, Execute, Statements
  <1>3. \A w \in Windows : Matching(w)' = Matching(w)
    BY <1>1 DEF Matching, Matches
  <1>4. Distinct(M) /\ M \in SUBSET Txn /\ offset \in Nat
    BY <1>1, MatchingType DEF TypeOK
  <1>5. present' = IF offset = 0 THEN [present EXCEPT ![window] = M] ELSE present
    BY DEF Start
  <1> HIDE DEF M
  <1>6. /\ items' \in Seq(Txn)
        /\ ToSet(items') \subseteq M
        /\ items' # <<>> => offset + Len(items') <= Cardinality(M)
        /\ \A r \in M : \/ r \in ToSet(items')
                       \/ Rank(r, M) < offset
                       \/ Rank(r, M) >= offset + Limit
    BY <1>2, <1>4, PageRows
  <1>7. present' \in [Windows -> SUBSET Txn] /\ present'[window] \subseteq M
        /\ \A w \in Windows : w # window => present'[w] = present[w]
    BY <1>1, <1>4, <1>5 DEF TypeOK, IInv, M
  <1>8. TypeOK'
    BY <1>1, <1>6, <1>7 DEF TypeOK
  <1>9. \A w \in Windows : seen'[w] \subseteq Ids(Matching(w)') /\ present'[w] \subseteq Matching(w)'
    BY <1>1, <1>3, <1>7 DEF IInv, M
  <1>10. NothingSkipped'
    <2>1. \A w \in Windows : w < window => w # window
      BY DEF Windows
    <2> QED
      BY <1>1, <1>7, <2>1 DEF IInv, NothingSkipped
  <1>11. ASSUME NEW r \in present'[window]
         PROVE  r.id \in seen[window] \/ Rank(r, M) >= offset
    <2>1. CASE offset = 0
      <3>1. Rank(r, M) \in Nat
        BY <1>4, RowsFinite
      <3> QED
        BY <2>1, <3>1
    <2>2. CASE offset # 0
      BY <1>1, <1>5, <2>2 DEF IInv, M
    <2> QED
      BY <2>1, <2>2
  <1>12. \A r \in present'[window] :
           r.id \in seen[window] \/ r \in ToSet(items') \/ Rank(r, M) >= offset + Limit
    <2> SUFFICES ASSUME NEW r \in present'[window], r.id \notin seen[window]
                 PROVE  r \in ToSet(items') \/ Rank(r, M) >= offset + Limit
      OBVIOUS
    <2>1. Rank(r, M) >= offset /\ Rank(r, M) \in Nat /\ r \in M
      BY <1>4, <1>7, <1>11, RowsFinite
    <2> QED
      BY <1>4, <1>6, <2>1
  <1>13. Matching(window)' = M
    BY <1>1, <1>3 DEF M
  <1>14. RequestOK'
    BY <1>1, <1>6, <1>12, <1>13 DEF RequestOK
  <1>15. window' \in Windows =>
           \A r \in present'[window'] :
             r.id \in seen'[window'] \/ Rank(r, Matching(window)') >= offset'
    BY <1>1, <1>11, <1>13
  <1>16. \A r, q \in table' : r.id = q.id => r = q
    BY <1>1 DEF IInv
  <1> QED
    BY <1>8, <1>9, <1>10, <1>14, <1>15, <1>16 DEF IInv

\* The second statement: the walk goes on with the next ranks, or has shown them all.
LEMMA AnswerKeeps ==
  ASSUME IInv, Answer
  PROVE  IInv'
  <1>1. /\ TypeOK /\ RequestOK /\ window \in Windows /\ ran' = 0
        /\ items' = items /\ UNCHANGED <<table, present>>
        /\ total' = Cardinality(Matching(window))
        /\ seen' = [seen EXCEPT ![window] = @ \cup Ids(ToSet(items))]
    BY DEF IInv, Answer, RequestOK, Execute, Statements
  <1> DEFINE M == Matching(window)
  <1>2. \A w \in Windows : Matching(w)' = Matching(w)
    BY <1>1 DEF Matching, Matches
  <1>3. M \in SUBSET Txn /\ Distinct(M) /\ Cardinality(M) \in Nat /\ total' = Cardinality(M)
    BY <1>1, MatchingType, RowsFinite
  <1>4. /\ offset \in Nat /\ Limit \in Nat \ {0}
        /\ Len(Window) \in Nat /\ window \in 1..Len(Window)
    BY <1>1, PagingAssumption, LenProperties DEF TypeOK, PagingAssumption, Windows
  <1>5. /\ seen' \in [Windows -> SUBSET Ids(Txn)]
        /\ seen'[window] = seen[window] \cup Ids(ToSet(items))
        /\ \A w \in Windows : w # window => seen'[w] = seen[w]
    <2>1. ToSet(items) \subseteq Txn
      BY <1>1, <1>3 DEF RequestOK
    <2> QED
      BY <1>1, <2>1 DEF TypeOK, Ids
  <1>6. \A w \in Windows : seen'[w] \subseteq Ids(Matching(w)') /\ present'[w] \subseteq Matching(w)'
    <2>1. Ids(ToSet(items)) \subseteq Ids(M)
      BY <1>1 DEF RequestOK, Ids
    <2> QED
      BY <1>1, <1>2, <1>5, <2>1 DEF IInv
  <1>7. \A r \in present[window] : r.id \in seen'[window] \/ Rank(r, M) >= offset + Limit
    BY <1>1, <1>5 DEF RequestOK, Ids
  <1>8. /\ \A r, q \in table' : r.id = q.id => r = q
        /\ ~ ran' = 1
    BY <1>1 DEF IInv
  <1>9. items' \in Seq(Txn) /\ table' \subseteq Txn /\ present' \in [Windows -> SUBSET Txn]
        /\ ran' \in {0, 1} /\ total' \in Nat
    BY <1>1, <1>3 DEF TypeOK
  <1>10. CASE offset + Limit < total'
    <2>1. offset' = offset + Limit /\ window' = window
      BY <1>10 DEF Answer
    <2>2. NothingSkipped'
      BY <1>1, <1>4, <1>5, <2>1 DEF IInv, NothingSkipped, Windows
    <2>3. Matching(window)' = M
      BY <1>1, <1>2, <2>1
    <2>4. window' \in Windows =>
            \A r \in present'[window'] :
              r.id \in seen'[window'] \/ Rank(r, Matching(window)') >= offset'
      BY <1>1, <1>7, <2>1, <2>3
    <2>5. TypeOK'
      BY <1>1, <1>4, <1>5, <1>9, <2>1 DEF TypeOK
    <2> QED
      BY <1>6, <1>8, <2>2, <2>4, <2>5 DEF IInv
  <1>11. CASE ~ (offset + Limit < total')
    <2>1. offset' = 0 /\ window' = window + 1
      BY <1>11 DEF Answer
    <2>2. ASSUME NEW r \in present[window] PROVE r.id \in seen'[window]
      <3>1. r \in M
        BY <1>1 DEF IInv
      <3>2. Rank(r, M) < Cardinality(M) /\ Rank(r, M) \in Nat
        BY <1>3, <3>1, RankBelow, RowsFinite
      <3> QED
        BY <1>3, <1>4, <1>7, <1>11, <3>2
    <2>3. NothingSkipped'
      <3> SUFFICES ASSUME NEW w \in Windows, w < window + 1
                   PROVE  Ids(present[w]) \subseteq seen'[w]
        BY <1>1, <2>1 DEF NothingSkipped
      <3>1. CASE w = window
        BY <2>2, <3>1 DEF Ids
      <3>2. CASE w # window
        <4>1. w < window
          BY <1>4, <3>2 DEF Windows
        <4> QED
          BY <1>5, <3>2, <4>1 DEF IInv, NothingSkipped
      <3> QED
        BY <3>1, <3>2
    <2>4. window' \in Windows =>
            \A r \in present'[window'] :
              r.id \in seen'[window'] \/ Rank(r, Matching(window)') >= offset'
      <3> SUFFICES ASSUME NEW w \in Windows, w = window', NEW r
                   PROVE  Rank(r, Matching(w)') >= 0
        BY <2>1
      <3>1. Matching(w)' \in SUBSET Txn
        BY <1>2, MatchingType
      <3>2. Rank(r, Matching(w)') \in Nat
        BY <3>1, RowsFinite
      <3> QED
        BY <3>2
    <2>5. TypeOK'
      BY <1>1, <1>4, <1>5, <1>9, <2>1 DEF TypeOK
    <2> QED
      BY <1>6, <1>8, <2>3, <2>4, <2>5 DEF IInv
  <1> QED
    BY <1>10, <1>11

LEMMA NextIInv == IInv /\ [Next]_vars => IInv'
  <1> SUFFICES ASSUME IInv, [Next]_vars PROVE IInv'
    OBVIOUS
  <1>1. CASE Unavailable
    <2>1. ran' = 0 /\ UNCHANGED <<table, window, offset, items, total, seen, present>>
      BY <1>1 DEF Unavailable
    <2>2. TypeOK'
      BY <2>1 DEF IInv, TypeOK
    <2>3. NothingSkipped' /\ \A w \in Windows : Matching(w)' = Matching(w)
      BY <2>1 DEF IInv, NothingSkipped, Matching, Matches
    <2>4. Matching(window)' = Matching(window)
      BY <2>1 DEF Matching, Matches
    <2> QED
      BY <2>1, <2>2, <2>3, <2>4 DEF IInv
  <1>2. CASE UNCHANGED vars
    <2>1. /\ \A w \in Windows : Matching(w)' = Matching(w)
          /\ Matching(window)' = Matching(window)
      BY <1>2 DEF vars, Matching, Matches
    <2> QED
      BY <1>2, <2>1 DEF vars, IInv, TypeOK, NothingSkipped, RequestOK
  <1> QED
    BY <1>1, <1>2, InsertKeeps, StartKeeps, AnswerKeeps DEF Next

\* What the walk has shown, owes and reads is consistent, whatever commits meanwhile.
THEOREM Invariant == Spec => []IInv
  <1> QED
    BY InitIInv, NextIInv, PTL DEF Spec

----------------------------------------------------------------------------
(* The properties. *)

\* A complete walk of a window has shown every row that was there when it began.
THEOREM PagingIsComplete == Spec => []NothingSkipped
  <1>1. IInv => NothingSkipped
    BY DEF IInv
  <1> QED
    BY <1>1, Invariant, PTL

\* No row is shown in two windows, because [from, to) tiles the time line.
THEOREM WindowsTile == Spec => []BoundaryOnce
  <1>1. IInv => BoundaryOnce
    <2> SUFFICES ASSUME IInv, NEW v \in Windows, NEW w \in Windows, v < w,
                        NEW x \in seen[v], x \in seen[w]
                 PROVE  FALSE
      <3>1. \A v, w \in Windows : v # w => v < w \/ w < v
        BY DEF Windows
      <3> QED
        BY <3>1 DEF BoundaryOnce
    <2>1. PICK r \in table : r.id = x /\ Matches(r, Window[v])
      BY DEF IInv, Ids, Matching
    <2>2. PICK q \in table : q.id = x /\ Matches(q, Window[w])
      BY DEF IInv, Ids, Matching
    <2>3. r = q /\ r.timestamp \in Int
      BY <2>1, <2>2, PagingAssumption DEF PagingAssumption, IInv, TypeOK
    <2>4. /\ Window[v].start # None /\ Window[w].end # None
          /\ Window[w].end <= Window[v].start
      BY PagingAssumption DEF PagingAssumption, Windows
    <2>5. Window[v].start \in Int /\ Window[w].end \in Int
      <3>1. Window[v] \in [start : Bound, end : Bound] /\ Window[w] \in [start : Bound, end : Bound]
        BY PagingAssumption, ElementOfSeq DEF PagingAssumption, Windows
      <3> QED
        BY <2>4, <3>1 DEF Bound
    <2>6. r.timestamp >= Window[v].start /\ r.timestamp < Window[w].end
      BY <2>1, <2>2, <2>3, <2>4 DEF Matches
    <2> QED
      BY <2>3, <2>4, <2>5, <2>6
  <1> QED
    BY <1>1, Invariant, PTL

\* The total an answer reports covers its page.
THEOREM TotalsCover == Spec => TotalCoversPage
  <1>1. IInv /\ [Next]_vars => [Answer => items' = <<>> \/ offset + Len(items') <= total']_vars
    <2> SUFFICES ASSUME IInv, Answer
                 PROVE  items' = <<>> \/ offset + Len(items') <= total'
      OBVIOUS
    <2>1. RequestOK /\ items' = items /\ total' = Cardinality(Matching(window))
      BY DEF IInv, Answer, Execute, Statements
    <2> QED
      BY <2>1 DEF RequestOK
  <1> QED
    BY <1>1, Invariant, PTL DEF Spec, TotalCoversPage
=============================================================================
