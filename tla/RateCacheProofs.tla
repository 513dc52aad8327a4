--------------------------- MODULE RateCacheProofs ---------------------------
(* Proofs about RateCache, for any TTL, latency, clock bound, tasks and currencies. *)
EXTENDS RateCache, TLAPS

\* The types hold initially and after every step.
LEMMA InitTypeOK == Init => TypeOK
  BY RateAssumption DEF RateAssumption, Init, TypeOK, Time, Phase, EmptyCache

LEMMA NextTypeOK ==
  ASSUME TypeOK, [Next]_vars
  PROVE  TypeOK'
  <1> USE RateAssumption DEF RateAssumption, TypeOK, Time, Phase, InFlight
  <1>1. CASE Tick
    BY <1>1 DEF Tick, callVars
  <1>2. CASE Fail \/ Recover
    BY <1>2 DEF Fail, Recover, callVars
  <1>3. CASE Restart
    BY <1>3 DEF Restart, EmptyCache
  <1>4. ASSUME NEW t \in Task, Quote(t) PROVE TypeOK'
    BY <1>4 DEF Quote
  <1>5. ASSUME NEW t \in Task, Store(t) PROVE TypeOK'
    <2>1. now + CacheTtl \in Nat
      OBVIOUS
    <2>2. cache' \in [Currency -> [rate : Time, expires_at : Nat]]
      BY <1>5, <2>1 DEF Store
    <2> QED
      BY <1>5, <2>2 DEF Store, Return, Leave
  <1>6. ASSUME NEW t \in Task, Raise(t) PROVE TypeOK'
    BY <1>6 DEF Raise, Leave
  <1>7. ASSUME NEW t \in Task, NEW c \in Currency, Hit(t, c) PROVE TypeOK'
    BY <1>7 DEF Hit, Return, Leave
  <1>8. ASSUME NEW t \in Task, NEW c \in Currency, Miss(t, c) PROVE TypeOK'
    BY <1>8 DEF Miss
  <1>9. CASE UNCHANGED vars
    BY <1>9 DEF vars, callVars
  <1> QED
    BY <1>1, <1>2, <1>3, <1>4, <1>5, <1>6, <1>7, <1>8, <1>9 DEF Next

\* The age bounds hold initially: nothing is cached, asked for or returned.
LEMMA InitIInv == Init => IInv
  <1> SUFFICES ASSUME Init PROVE IInv
    OBVIOUS
  <1>1. TypeOK
    BY InitTypeOK
  <1>2. CacheAge /\ CallAge /\ ResultAge /\ BoundedStaleness /\ down_since <= now
    BY RateAssumption DEF RateAssumption, Init, EmptyCache, InFlight, LastQuote,
       CacheAge, CallAge, ResultAge, BoundedStaleness
  <1> QED
    BY <1>1, <1>2 DEF IInv

\* The service never quotes in the past: what was quoted by now stays quoted by now.
LEMMA LastQuoteGrows ==
  ASSUME IInv, [Next]_vars
  PROVE  /\ LastQuote \in Nat /\ LastQuote' \in Nat
         /\ LastQuote <= LastQuote'
         /\ LastQuote <= now
         /\ now <= now'
         /\ down_since' <= now'
  <1>1. TypeOK /\ TypeOK' /\ down_since <= now
    BY NextTypeOK DEF IInv
  <1>2. now \in Nat /\ now' \in Nat /\ down_since \in Nat /\ down_since' \in Nat
    BY <1>1, RateAssumption DEF RateAssumption, TypeOK, Time
  <1>3. \/ now' = now + 1 /\ mode' = mode /\ down_since' = down_since
        \/ now' = now /\ mode = "serving" /\ mode' = "failing" /\ down_since' = now
        \/ now' = now /\ mode = "failing" /\ mode' = "serving" /\ down_since' = 0
        \/ now' = now /\ mode' = mode /\ down_since' = down_since
    BY DEF Next, Tick, Fail, Recover, Restart, Quote, Store, Raise, Hit, Miss, vars
  <1> QED
    BY <1>1, <1>2, <1>3 DEF LastQuote

\* One step per action: a rate is stored, returned or aged within its bounds.
LEMMA NextIInv ==
  ASSUME IInv, [Next]_vars
  PROVE  IInv'
  <1>0. /\ TypeOK /\ TypeOK'
        /\ LastQuote \in Nat /\ LastQuote' \in Nat /\ LastQuote <= LastQuote'
        /\ LastQuote <= now /\ now <= now' /\ down_since' <= now'
    BY NextTypeOK, LastQuoteGrows DEF IInv
  <1>nat. /\ CacheTtl \in Nat /\ MaxLatency \in Nat /\ now \in Nat /\ now' \in Nat
          /\ \A c \in Currency : cache[c].rate \in Nat /\ cache[c].expires_at \in Nat
          /\ \A t \in Task : /\ sent[t] \in Nat /\ quoted[t] \in Nat
                             /\ result[t].rate \in Nat /\ result[t].at \in Nat
    BY <1>0, RateAssumption DEF RateAssumption, TypeOK, Time
  <1>1. CacheAge'
    <2>1. CASE cache' = cache
      BY <1>0, <1>nat, <2>1 DEF IInv, CacheAge
    <2>2. CASE Restart
      BY <1>0, <1>nat, <2>2 DEF Restart, EmptyCache, CacheAge
    <2>3. ASSUME NEW t \in Task, Store(t) PROVE CacheAge'
      <3>1. /\ quoted[t] <= LastQuote /\ sent[t] <= quoted[t] /\ now <= sent[t] + MaxLatency
        BY <2>3 DEF Store, InFlight, Phase, IInv, CallAge
      <3>2. now + CacheTtl <= quoted[t] + MaxLatency + CacheTtl
        BY <1>nat, <3>1
      <3>3. ASSUME NEW c \in Currency
            PROVE  \/ cache'[c] = cache[c]
                   \/ cache'[c].rate = quoted[t] /\ cache'[c].expires_at = now + CacheTtl
        BY <1>0, <2>3 DEF Store, TypeOK
      <3> QED
        BY <1>0, <1>nat, <3>1, <3>2, <3>3 DEF IInv, CacheAge
    <2> QED
      BY <2>1, <2>2, <2>3 DEF Next, Tick, Fail, Recover, Quote, Raise, Hit, Miss, vars
  <1>2. CallAge'
    <2> SUFFICES ASSUME NEW s \in Task
                 PROVE  /\ pc'[s] \in InFlight => sent'[s] <= now' /\ now' <= sent'[s] + MaxLatency
                        /\ pc'[s] = "quoted" => sent'[s] <= quoted'[s] /\ quoted'[s] <= LastQuote'
      BY DEF CallAge, InFlight, Phase
    <2>1. CASE Tick
      BY <1>0, <1>nat, <2>1 DEF Tick, callVars, IInv, CallAge, InFlight, Phase
    <2>2. CASE Fail \/ Recover \/ UNCHANGED vars
      BY <1>0, <1>nat, <2>2 DEF Fail, Recover, vars, callVars, IInv, CallAge
    <2>3. CASE Restart
      BY <2>3 DEF Restart, InFlight
    <2>4. ASSUME NEW t \in Task, Quote(t)
          PROVE  /\ pc'[s] \in InFlight => sent'[s] <= now' /\ now' <= sent'[s] + MaxLatency
                 /\ pc'[s] = "quoted" => sent'[s] <= quoted'[s] /\ quoted'[s] <= LastQuote'
      <3>1. LastQuote' = now /\ now' = now /\ sent' = sent
        BY <2>4 DEF Quote, LastQuote
      <3>2. pc[t] \in InFlight
        BY <2>4 DEF Quote, InFlight, Phase
      <3>3. CASE s = t
        BY <1>0, <1>nat, <2>4, <3>1, <3>2, <3>3 DEF Quote, IInv, CallAge, TypeOK
      <3>4. CASE s # t
        <4>1. pc'[s] = pc[s] /\ quoted'[s] = quoted[s]
          BY <1>0, <2>4, <3>4 DEF Quote, TypeOK
        <4> QED
          BY <1>0, <1>nat, <3>1, <4>1 DEF IInv, CallAge
      <3> QED
        BY <3>3, <3>4
    <2>5. ASSUME NEW t \in Task, Leave(t), now' = now
          PROVE  /\ pc'[s] \in InFlight => sent'[s] <= now' /\ now' <= sent'[s] + MaxLatency
                 /\ pc'[s] = "quoted" => sent'[s] <= quoted'[s] /\ quoted'[s] <= LastQuote'
      <3>1. CASE s = t
        BY <1>0, <2>5, <3>1 DEF Leave, InFlight, TypeOK
      <3>2. CASE s # t
        <4>1. pc'[s] = pc[s] /\ quoted'[s] = quoted[s] /\ sent'[s] = sent[s]
          BY <1>0, <2>5, <3>2 DEF Leave, TypeOK
        <4> QED
          BY <1>0, <1>nat, <2>5, <4>1 DEF IInv, CallAge
      <3> QED
        BY <3>1, <3>2
    <2>6. ASSUME NEW t \in Task, NEW c \in Currency, Miss(t, c)
          PROVE  /\ pc'[s] \in InFlight => sent'[s] <= now' /\ now' <= sent'[s] + MaxLatency
                 /\ pc'[s] = "quoted" => sent'[s] <= quoted'[s] /\ quoted'[s] <= LastQuote'
      <3>1. CASE s = t
        BY <1>0, <1>nat, <2>6, <3>1 DEF Miss, TypeOK
      <3>2. CASE s # t
        <4>1. pc'[s] = pc[s] /\ quoted'[s] = quoted[s] /\ sent'[s] = sent[s] /\ now' = now
          BY <1>0, <2>6, <3>2 DEF Miss, TypeOK
        <4> QED
          BY <1>0, <1>nat, <4>1 DEF IInv, CallAge
      <3> QED
        BY <3>1, <3>2
    <2> QED
      BY <2>1, <2>2, <2>3, <2>4, <2>5, <2>6 DEF Next, Store, Return, Raise, Hit
  <1>3. ResultAge' /\ BoundedStaleness'
    <2>1. CASE result' = result
      BY <1>0, <1>nat, <2>1 DEF IInv, ResultAge, BoundedStaleness
    <2>2. ASSUME NEW t \in Task, NEW q \in Nat, Return(t, q),
                 q <= LastQuote, now <= q + MaxLatency + CacheTtl
          PROVE  ResultAge' /\ BoundedStaleness'
      <3>1. ASSUME NEW s \in Task
            PROVE  \/ result'[s] = result[s]
                   \/ result'[s].rate = q /\ result'[s].at = now
        BY <1>0, <2>2 DEF Return, TypeOK
      <3> QED
        BY <1>0, <1>nat, <2>2, <3>1 DEF IInv, ResultAge, BoundedStaleness
    <2>3. ASSUME NEW t \in Task, NEW c \in Currency, Hit(t, c)
          PROVE  ResultAge' /\ BoundedStaleness'
      <3>1. cache[c].rate <= LastQuote /\ now <= cache[c].rate + MaxLatency + CacheTtl
        BY <1>nat, <2>3 DEF Hit, Fresh, IInv, CacheAge
      <3> QED
        BY <1>nat, <2>2, <2>3, <3>1 DEF Hit
    <2>4. ASSUME NEW t \in Task, Store(t) PROVE ResultAge' /\ BoundedStaleness'
      <3>1. /\ quoted[t] <= LastQuote /\ sent[t] <= quoted[t] /\ now <= sent[t] + MaxLatency
        BY <2>4 DEF Store, InFlight, Phase, IInv, CallAge
      <3>2. now <= quoted[t] + MaxLatency + CacheTtl
        BY <1>nat, <3>1
      <3> QED
        BY <1>nat, <2>2, <2>4, <3>1, <3>2 DEF Store
    <2> QED
      BY <2>1, <2>3, <2>4 DEF Next, Tick, Fail, Recover, Restart, Quote, Raise, Miss, vars
  <1> QED
    BY <1>0, <1>1, <1>2, <1>3 DEF IInv

\* The inductive invariant: how old cached, travelling and returned rates can be.
THEOREM RatesAge == Spec => []IInv
  <1>1. Init => IInv
    BY InitIInv
  <1>2. IInv /\ [Next]_vars => IInv'
    BY NextIInv
  <1> QED
    BY <1>1, <1>2, PTL DEF Spec

\* get_rate: no task is given a rate quoted more than one request and one TTL before.
THEOREM RatesAreRecent == Spec => []BoundedStaleness
  <1>1. IInv => BoundedStaleness
    BY DEF IInv
  <1> QED
    BY <1>1, RatesAge, PTL

\* rate_client.py's demo: one request and one TTL after the service stopped, every
\* lookup of the process fails, whatever was cached or in flight when it did.
THEOREM OutagesShow == Spec => []OutageShows
  <1>1. IInv => OutageShows
    <2> SUFFICES ASSUME IInv, mode = "failing", NEW t \in Task
                 PROVE  result[t].at <= down_since + MaxLatency + CacheTtl
      BY DEF OutageShows
    <2>1. /\ result[t].rate \in Nat /\ result[t].at \in Nat /\ down_since \in Nat
          /\ MaxLatency \in Nat /\ CacheTtl \in Nat
      BY RateAssumption DEF RateAssumption, IInv, TypeOK, Time
    <2>2. result[t].rate <= down_since
      BY DEF IInv, ResultAge, LastQuote
    <2>3. result[t].at <= result[t].rate + MaxLatency + CacheTtl
      BY DEF IInv, BoundedStaleness
    <2> QED
      BY <2>1, <2>2, <2>3
  <1> QED
    BY <1>1, RatesAge, PTL
=============================================================================
