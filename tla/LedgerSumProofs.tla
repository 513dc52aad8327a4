-------------------------- MODULE LedgerSumProofs --------------------------
(***************************************************************************)
(* The summary of a user is close to what the user's transactions are      *)
(* worth, for any number of rows.  This needs sums over finite sets, by    *)
(* induction: a set of counterexamples would have a minimal element.       *)
(***************************************************************************)
EXTENDS LedgerProofs, WellFoundedInduction

----------------------------------------------------------------------------
(* Sums of a function over a finite set. *)

\* A set of subsets of a finite set has a minimal one.
LEMMA MinimalSet ==
  ASSUME NEW S, IsFiniteSet(S), NEW X, X \subseteq SUBSET S, X # {}
  PROVE  \E T \in X : \A U \in X : ~ (U \subseteq T /\ U # T)
  <1>1. IsWellFoundedOn(StrictSubsetOrdering(S), SUBSET S)
    BY FS_StrictSubsetOrderingWellFounded, FS_FiniteSubsetsOfFinite
  <1>2. PICK T \in X : \A U \in X : ~ (<<U, T>> \in StrictSubsetOrdering(S))
    BY <1>1, WFMin
  <1> QED
    BY <1>2 DEF StrictSubsetOrdering

\* Which element SumFunctionOnSet adds next.
Chosen(s) == CHOOSE x \in s : TRUE

\* it maps every subset of S to the sum of f over it.
Iterates(f, it, S) ==
  it = [s \in SUBSET S |-> IF s = {} THEN 0 ELSE f[Chosen(s)] + it[s \ {Chosen(s)}]]

LEMMA ChosenType ==
  ASSUME NEW s, s # {}
  PROVE  Chosen(s) \in s /\ s \ {Chosen(s)} \subseteq s /\ s \ {Chosen(s)} # s
  BY DEF Chosen

LEMMA SumDef ==
  ASSUME NEW f, NEW S
  PROVE  SumFunctionOnSet(f, S) = (CHOOSE it : Iterates(f, it, S))[S]
  BY DEF SumFunctionOnSet, FoldFunctionOnSet, MapThenFoldSet, Iterates, Chosen

\* Two such functions agree where both are defined.
LEMMA IteratesAgree ==
  ASSUME NEW f, NEW S, NEW T, IsFiniteSet(S), NEW g, NEW h,
         Iterates(f, g, S), Iterates(f, h, T), NEW U, U \subseteq S, U \subseteq T
  PROVE  g[U] = h[U]
  <1> DEFINE X == {V \in SUBSET S : V \subseteq T /\ g[V] # h[V]}
  <1> SUFFICES ASSUME X # {} PROVE FALSE
    OBVIOUS
  <1>1. PICK V \in X : \A W \in X : ~ (W \subseteq V /\ W # V)
    <2>1. X \subseteq SUBSET S
      OBVIOUS
    <2> HIDE DEF X
    <2> QED
      BY <2>1, MinimalSet
  <1>2. /\ g[V] = IF V = {} THEN 0 ELSE f[Chosen(V)] + g[V \ {Chosen(V)}]
        /\ h[V] = IF V = {} THEN 0 ELSE f[Chosen(V)] + h[V \ {Chosen(V)}]
    BY DEF Iterates
  <1>3. V # {}
    BY <1>2
  <1>4. V \ {Chosen(V)} \notin X
    BY <1>1, <1>3, ChosenType
  <1>5. g[V \ {Chosen(V)}] = h[V \ {Chosen(V)}]
    BY <1>4
  <1> QED
    BY <1>2, <1>5

\* A function for S is one for its subsets.
LEMMA IteratesRestricts ==
  ASSUME NEW f, NEW S, NEW T, T \subseteq S, NEW g, Iterates(f, g, S)
  PROVE  Iterates(f, [s \in SUBSET T |-> g[s]], T)
  <1> DEFINE h == [s \in SUBSET T |-> g[s]]
  <1>1. ASSUME NEW s \in SUBSET T
        PROVE  h[s] = IF s = {} THEN 0 ELSE f[Chosen(s)] + h[s \ {Chosen(s)}]
    <2>1. g[s] = IF s = {} THEN 0 ELSE f[Chosen(s)] + g[s \ {Chosen(s)}]
      BY DEF Iterates
    <2>2. s \ {Chosen(s)} \in SUBSET T
      OBVIOUS
    <2> QED
      BY <2>1, <2>2
  <1> QED
    BY <1>1 DEF Iterates

LEMMA SumIsIterate ==
  ASSUME NEW f, NEW S, IsFiniteSet(S), NEW T, T \subseteq S, NEW g, Iterates(f, g, S)
  PROVE  SumFunctionOnSet(f, T) = g[T]
  <1> DEFINE k == CHOOSE it : Iterates(f, it, T)
  <1>1. \E it : Iterates(f, it, T)
    BY IteratesRestricts
  <1>2. Iterates(f, k, T) /\ SumFunctionOnSet(f, T) = k[T]
    BY <1>1, SumDef
  <1> HIDE DEF k
  <1>3. k[T] = g[T]
    <2>1. IsFiniteSet(T)
      BY FS_Subset
    <2> QED
      BY <1>2, <2>1, IteratesAgree
  <1> QED
    BY <1>2, <1>3

\* What a sum is made of, if there is a function for its set.
SumsUp(f, s) ==
  SumFunctionOnSet(f, s) =
    IF s = {} THEN 0 ELSE f[Chosen(s)] + SumFunctionOnSet(f, s \ {Chosen(s)})

LEMMA IteratesSumsUp ==
  ASSUME NEW f, NEW S, IsFiniteSet(S), NEW g, Iterates(f, g, S)
  PROVE  SumsUp(f, S)
  <1>1. g[S] = IF S = {} THEN 0 ELSE f[Chosen(S)] + g[S \ {Chosen(S)}]
    BY DEF Iterates
  <1> QED
    BY <1>1, SumIsIterate DEF SumsUp

LEMMA IteratesExists ==
  ASSUME NEW f, NEW S, IsFiniteSet(S)
  PROVE  \E it : Iterates(f, it, S)
  <1> DEFINE X == {V \in SUBSET S : ~ \E it : Iterates(f, it, V)}
  <1> SUFFICES ASSUME X # {} PROVE FALSE
    OBVIOUS
  <1>1. PICK V \in X : \A W \in X : ~ (W \subseteq V /\ W # V)
    <2>1. X \subseteq SUBSET S
      OBVIOUS
    <2> HIDE DEF X
    <2> QED
      BY <2>1, MinimalSet
  <1>2. IsFiniteSet(V)
    BY FS_Subset
  <1>3. ASSUME NEW s \in SUBSET V, s # V PROVE SumsUp(f, s)
    <2>1. PICK it : Iterates(f, it, s)
      BY <1>1, <1>3
    <2>2. IsFiniteSet(s)
      BY <1>2, FS_Subset
    <2> QED
      BY <2>1, <2>2, IteratesSumsUp
  <1> DEFINE h == [s \in SUBSET V |->
                     IF s = {} THEN 0
                     ELSE f[Chosen(s)] + SumFunctionOnSet(f, s \ {Chosen(s)})]
  <1>4. ASSUME NEW s \in SUBSET V
        PROVE  h[s] = IF s = {} THEN 0 ELSE f[Chosen(s)] + h[s \ {Chosen(s)}]
    <2>1. CASE s = {}
      BY <2>1
    <2>2. CASE s # {}
      <3> DEFINE r == s \ {Chosen(s)}
      <3>1. r \in SUBSET V /\ r # V
        BY <2>2, ChosenType
      <3>2. SumFunctionOnSet(f, r) = h[r]
        <4> HIDE DEF r
        <4> QED
          BY <1>3, <3>1 DEF SumsUp
      <3> QED
        BY <2>2, <3>2
    <2> QED
      BY <2>1, <2>2
  <1>5. Iterates(f, h, V)
    BY <1>4 DEF Iterates
  <1> QED
    BY <1>5

\* The sum over a finite set is one value plus the sum over the rest.
LEMMA SumUnfolds ==
  ASSUME NEW f, NEW S, IsFiniteSet(S)
  PROVE  SumsUp(f, S)
  BY IteratesExists, IteratesSumsUp

LEMMA SumType ==
  ASSUME NEW f, NEW S, IsFiniteSet(S), \A x \in S : f[x] \in Int
  PROVE  SumFunctionOnSet(f, S) \in Int
  <1> DEFINE X == {V \in SUBSET S : SumFunctionOnSet(f, V) \notin Int}
  <1> SUFFICES ASSUME X # {} PROVE FALSE
    OBVIOUS
  <1>1. PICK V \in X : \A W \in X : ~ (W \subseteq V /\ W # V)
    <2>1. X \subseteq SUBSET S
      OBVIOUS
    <2> HIDE DEF X
    <2> QED
      BY <2>1, MinimalSet
  <1>2. SumsUp(f, V)
    BY FS_Subset, SumUnfolds
  <1>3. V # {}
    BY <1>2 DEF SumsUp
  <1>4. Chosen(V) \in S /\ SumFunctionOnSet(f, V \ {Chosen(V)}) \in Int
    BY <1>1, <1>3, ChosenType
  <1> QED
    BY <1>2, <1>3, <1>4 DEF SumsUp

\* If d * f[x] is within c of g[x] halves for each x, the sums are within |S| times that.
LEMMA SumsAreClose ==
  ASSUME NEW f, NEW g, NEW S, IsFiniteSet(S), NEW d \in Nat,
         \A x \in S : /\ f[x] \in Int /\ g[x] \in Int
                      /\ 2 * (f[x] * d - g[x]) <= d /\ -2 * (f[x] * d - g[x]) <= d
  PROVE  LET off == 2 * (SumFunctionOnSet(f, S) * d - SumFunctionOnSet(g, S))
         IN  off <= Cardinality(S) * d /\ -off <= Cardinality(S) * d
  <1> DEFINE Off(V) == 2 * (SumFunctionOnSet(f, V) * d - SumFunctionOnSet(g, V))
             Close(V) == Off(V) <= Cardinality(V) * d /\ -Off(V) <= Cardinality(V) * d
             X == {V \in SUBSET S : ~ Close(V)}
  <1> SUFFICES ASSUME X # {} PROVE FALSE
    OBVIOUS
  <1>1. PICK V \in X : \A W \in X : ~ (W \subseteq V /\ W # V)
    <2>1. X \subseteq SUBSET S
      OBVIOUS
    <2> HIDE DEF X
    <2> QED
      BY <2>1, MinimalSet
  <1>2. IsFiniteSet(V) /\ SumsUp(f, V) /\ SumsUp(g, V)
    BY FS_Subset, SumUnfolds
  <1>3. CASE V = {}
    <2>1. SumFunctionOnSet(f, V) = 0 /\ SumFunctionOnSet(g, V) = 0 /\ Cardinality(V) = 0
      BY <1>2, <1>3, FS_EmptySet DEF SumsUp
    <2>2. 0 * d = 0
      OBVIOUS
    <2> QED
      BY <2>1, <2>2
  <1>4. CASE V # {}
    <2> DEFINE x == Chosen(V)
               W == V \ {x}
               sf == SumFunctionOnSet(f, W)
               sg == SumFunctionOnSet(g, W)
               n == Cardinality(W)
    <2>1. x \in V /\ x \in S /\ W \subseteq V /\ W # V /\ W \in SUBSET S
      BY <1>4, ChosenType
    <2>2. Close(W)
      BY <1>1, <2>1
    <2>3. IsFiniteSet(W) /\ n \in Nat /\ Cardinality(V) = n + 1
      <3> HIDE DEF x
      <3>1. IsFiniteSet(W) /\ n = Cardinality(V) - 1
        BY <1>2, <2>1, FS_RemoveElement
      <3>2. n \in Nat /\ Cardinality(V) \in Nat
        BY <1>2, <3>1, FS_CardinalityType
      <3> QED
        BY <3>1, <3>2
    <2>4. sf \in Int /\ sg \in Int
      BY <2>1, <2>3, SumType
    <2>5. SumFunctionOnSet(f, V) = f[x] + sf /\ SumFunctionOnSet(g, V) = g[x] + sg
      BY <1>2, <1>4 DEF SumsUp
    <2>6. 2 * (sf * d - sg) <= n * d /\ -(2 * (sf * d - sg)) <= n * d
      BY <2>2
    <2>7. /\ f[x] \in Int /\ g[x] \in Int
          /\ 2 * (f[x] * d - g[x]) <= d /\ -2 * (f[x] * d - g[x]) <= d
      BY <2>1
    <2>8. ~ Close(V)
      OBVIOUS
    <2> HIDE DEF x, W, sf, sg, n
    <2>9. (f[x] + sf) * d = f[x] * d + sf * d /\ (n + 1) * d = n * d + d
      BY <2>3, <2>4, <2>7, SMT
    <2>10. f[x] * d \in Int /\ sf * d \in Int /\ n * d \in Int
      BY <2>3, <2>4, <2>7
    <2> QED
      BY <2>3, <2>4, <2>5, <2>6, <2>7, <2>8, <2>9, <2>10
  <1> QED
    BY <1>3, <1>4

----------------------------------------------------------------------------
(* The summary. *)

\* A user has as many rows as ids.
LEMMA OneRowPerId ==
  ASSUME IInv, NEW u \in User
  PROVE  /\ IsFiniteSet(RowsOf(u))
         /\ Cardinality(RowsOf(u)) = Cardinality({IdOf[r.event] : r \in RowsOf(u)})
  <1> DEFINE S == RowsOf(u)
             T == {IdOf[r.event] : r \in S}
             h == [r \in S |-> IdOf[r.event]]
  <1>1. S \subseteq rows
    BY DEF RowsOf
  <1>2. IsFiniteSet(S)
    BY <1>1, FS_Subset DEF IInv
  <1>3. h \in Injection(S, T)
    BY <1>1 DEF IInv, Injection, IsInjective
  <1>4. h \in Surjection(S, T)
    BY DEF Surjection
  <1> QED
    BY <1>2, <1>3, <1>4, FS_Surjection

\* GET /users/{user_id}/summary: n transactions add up to within n half cents of what
\* they are worth at their rates, and each id is counted once.
THEOREM SummariesAreClose == Spec => []SummaryIsClose
  <1>1. IInv => SummaryIsClose
    <2> SUFFICES ASSUME IInv, NEW u \in User
                 PROVE  LET s     == user_summary(u)
                            worth == SumFunctionOnSet([r \in rows |-> Worth(r)], RowsOf(u))
                            off   == 2 * (s.total * ExactScale - worth)
                        IN  /\ off <= s.count * ExactScale /\ -off <= s.count * ExactScale
                            /\ s.count = Cardinality({IdOf[r.event] : r \in RowsOf(u)})
      BY DEF SummaryIsClose
    <2> DEFINE f == [r \in rows |-> r.amount_usd]
               g == [r \in rows |-> Worth(r)]
    <2>1. ExactScale \in Nat /\ IsFiniteSet(RowsOf(u)) /\ RowsOf(u) \subseteq rows
      BY Scales, OneRowPerId DEF RowsOf
    <2>2. ASSUME NEW r \in RowsOf(u)
          PROVE  /\ f[r] \in Int /\ g[r] \in Int
                 /\ 2 * (f[r] * ExactScale - g[r]) <= ExactScale
                 /\ -2 * (f[r] * ExactScale - g[r]) <= ExactScale
      <3>1. r \in rows /\ f[r] = r.amount_usd /\ g[r] = Worth(r)
        BY <2>1
      <3>2. HalfEven(r.amount_usd, Worth(r), ExactScale) /\ Worth(r) \in Int
        BY <3>1, Columns
      <3> QED
        BY <3>1, <3>2 DEF HalfEven
    <2>3. /\ user_summary(u).total = SumFunctionOnSet(f, RowsOf(u))
          /\ user_summary(u).count = Cardinality(RowsOf(u))
      BY DEF user_summary
    <2> HIDE DEF f, g
    <2>4. LET off == 2 * (SumFunctionOnSet(f, RowsOf(u)) * ExactScale
                            - SumFunctionOnSet(g, RowsOf(u)))
          IN  /\ off <= Cardinality(RowsOf(u)) * ExactScale
              /\ -off <= Cardinality(RowsOf(u)) * ExactScale
      BY <2>1, <2>2, SumsAreClose
    <2> QED
      BY <2>3, <2>4, OneRowPerId DEF g
  <1> QED
    BY <1>1, Invariant, PTL
=============================================================================
