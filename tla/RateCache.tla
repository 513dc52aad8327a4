------------------------------ MODULE RateCache ------------------------------
(***************************************************************************)
(* The rate client of one worker process: an in-process cache with a TTL,  *)
(* shared by the process's two tasks, in front of the rate service.        *)
(*                                                                         *)
(* get_rate has one await, the HTTP request.  While a task is in it the    *)
(* other one may look up the same currency, so two requests for one        *)
(* currency can be in flight and their answers can arrive in any order.    *)
(*                                                                         *)
(* A rate is identified by the moment the service quoted it: what matters  *)
(* of a rate here is only how old it is.  Time is discrete.                *)
(***************************************************************************)
EXTENDS Integers

CONSTANTS
  Task,       \* consume_loop and reclaim_loop
  Currency,
  Known,      \* the currencies in the service's table
  CacheTtl,   \* settings.rate_cache_ttl_s
  MaxLatency, \* longest time one GET takes before httpx gives up on it
  MaxTime     \* bound of the model: the clock stops here

ASSUME RateAssumption ==
  /\ Known \subseteq Currency
  /\ CacheTtl \in Nat
  /\ MaxLatency \in Nat
  /\ MaxTime \in Nat

\* idle: not in get_rate; sent: the request travels; quoted: a 200 travels back;
\* unknown: a 404 does.
Phase    == {"idle", "sent", "quoted", "unknown"}
InFlight == Phase \ {"idle"}

VARIABLES
  now,        \* time.monotonic
  mode,       \* whether the rate service can answer
  down_since, \* when the outage began, 0 while there is none
  cache,      \* _cache: an absent entry is one that has expired
  pc,         \* where a task is in get_rate
  asked,      \* the currency it asked for last
  sent,       \* when its request left, 0 when it has none
  quoted,     \* the rate in its 200, 0 when it has none
  result      \* the last rate get_rate returned to it, and when

callVars == <<pc, asked, sent, quoted>>
vars     == <<now, mode, down_since, cache, callVars, result>>

Time == 0..MaxTime

TypeOK ==
  /\ now \in Time
  /\ mode \in {"serving", "failing"}
  /\ down_since \in Time
  /\ cache \in [Currency -> [rate : Time, expires_at : Nat]]
  /\ pc \in [Task -> Phase]
  /\ asked \in [Task -> Currency]
  /\ sent \in [Task -> Time]
  /\ quoted \in [Task -> Time]
  /\ result \in [Task -> [rate : Time, at : Time]]

EmptyCache == [c \in Currency |-> [rate |-> 0, expires_at |-> 0]]

Init ==
  /\ now = 0
  /\ mode = "serving"
  /\ down_since = 0
  /\ cache = EmptyCache
  /\ pc = [t \in Task |-> "idle"]
  /\ asked \in [Task -> Currency]
  /\ sent = [t \in Task |-> 0]
  /\ quoted = [t \in Task |-> 0]
  /\ result = [t \in Task |-> [rate |-> 0, at |-> 0]]

----------------------------------------------------------------------------
(* The clock and the rate service. *)

\* httpx lets no request take longer than MaxLatency.
Tick ==
  /\ now < MaxTime
  /\ \A t \in Task : pc[t] \in InFlight => now < sent[t] + MaxLatency
  /\ now' = now + 1
  /\ UNCHANGED <<mode, down_since, cache, callVars, result>>

\* The container stops, or its fault switch is set to "error".
Fail ==
  /\ mode = "serving"
  /\ mode' = "failing"
  /\ down_since' = now
  /\ UNCHANGED <<now, cache, callVars, result>>

Recover ==
  /\ mode = "failing"
  /\ mode' = "serving"
  /\ down_since' = 0
  /\ UNCHANGED <<now, cache, callVars, result>>

\* A request reaches the service, which looks the currency up in its table.  The
\* fault "timeout" only delays this.
Quote(t) ==
  /\ pc[t] = "sent"
  /\ mode = "serving"
  /\ IF asked[t] \in Known
     THEN /\ pc' = [pc EXCEPT ![t] = "quoted"]
          /\ quoted' = [quoted EXCEPT ![t] = now]
     ELSE /\ pc' = [pc EXCEPT ![t] = "unknown"]
          /\ UNCHANGED quoted
  /\ UNCHANGED <<now, mode, down_since, cache, asked, sent, result>>

----------------------------------------------------------------------------
(* get_rate. *)

\* _cached
Fresh(c) == now < cache[c].expires_at

\* The call of t is over.
Leave(t) ==
  /\ pc' = [pc EXCEPT ![t] = "idle"]
  /\ sent' = [sent EXCEPT ![t] = 0]
  /\ quoted' = [quoted EXCEPT ![t] = 0]
  /\ UNCHANGED asked

\* get_rate returns to t the rate quoted at q.
Return(t, q) ==
  /\ Leave(t)
  /\ result' = [result EXCEPT ![t] = [rate |-> q, at |-> now]]

\* Variant of Hit: a hit renews the entry.
HitRenewing(t, c) ==
  /\ pc[t] = "idle"
  /\ Fresh(c)
  /\ cache' = [cache EXCEPT ![c].expires_at = now + CacheTtl]
  /\ Return(t, cache[c].rate)
  /\ UNCHANGED <<now, mode, down_since>>

Hit(t, c) ==
  /\ pc[t] = "idle"
  /\ Fresh(c)
  /\ Return(t, cache[c].rate)
  /\ UNCHANGED <<now, mode, down_since, cache>>

Miss(t, c) ==
  /\ pc[t] = "idle"
  /\ ~ Fresh(c)
  /\ pc' = [pc EXCEPT ![t] = "sent"]
  /\ asked' = [asked EXCEPT ![t] = c]
  /\ sent' = [sent EXCEPT ![t] = now]
  /\ UNCHANGED <<now, mode, down_since, cache, quoted, result>>

\* A 200 arrives: _store overwrites whatever the other task put there meanwhile.
Store(t) ==
  /\ pc[t] = "quoted"
  /\ cache' = [cache EXCEPT ![asked[t]] = [rate |-> quoted[t], expires_at |-> now + CacheTtl]]
  /\ Return(t, quoted[t])
  /\ UNCHANGED <<now, mode, down_since>>

\* Variant of Raise: fall back on an expired entry.
RaiseServingStale(t) ==
  /\ pc[t] \in InFlight
  /\ Return(t, cache[asked[t]].rate)
  /\ UNCHANGED <<now, mode, down_since, cache>>

\* get_rate raises, and caches nothing: a 404, a 5xx, a refused connection, a
\* timeout, an answer that got lost.
Raise(t) ==
  /\ pc[t] \in InFlight
  /\ Leave(t)
  /\ UNCHANGED <<now, mode, down_since, cache, result>>

\* The process ends and starts again with a new RateClient.
Restart ==
  /\ cache' = EmptyCache
  /\ pc' = [t \in Task |-> "idle"]
  /\ sent' = [t \in Task |-> 0]
  /\ quoted' = [t \in Task |-> 0]
  /\ UNCHANGED <<now, mode, down_since, asked, result>>

Next ==
  \/ Tick \/ Fail \/ Recover \/ Restart
  \/ \E t \in Task : Quote(t) \/ Store(t) \/ Raise(t)
  \/ \E t \in Task, c \in Currency : Hit(t, c) \/ Miss(t, c)

Spec == Init /\ [][Next]_vars

----------------------------------------------------------------------------
(* Safety. *)

\* config.py and _store: the TTL runs from the arrival of the answer, not from the
\* quote, and a late answer may replace a newer one.  Still no rate is used that was
\* quoted more than one request and one TTL ago.
BoundedStaleness ==
  \A t \in Task : result[t].at <= result[t].rate + MaxLatency + CacheTtl

\* rate_client.py: "once the TTL lapses, every lookup starts raising".  From one TTL
\* and one request after the service stopped, no lookup of either task succeeds.
OutageShows ==
  mode = "failing" => \A t \in Task : result[t].at <= down_since + MaxLatency + CacheTtl

----------------------------------------------------------------------------
(* The inductive invariant: how old the rates on their way to a task can be. *)

\* The service quotes nothing while it fails.
LastQuote == IF mode = "failing" THEN down_since ELSE now

CacheAge ==
  \A c \in Currency :
    /\ cache[c].rate <= LastQuote
    /\ cache[c].expires_at <= cache[c].rate + MaxLatency + CacheTtl

CallAge ==
  \A t \in Task :
    /\ pc[t] \in InFlight => sent[t] <= now /\ now <= sent[t] + MaxLatency
    /\ pc[t] = "quoted" => sent[t] <= quoted[t] /\ quoted[t] <= LastQuote

ResultAge == \A t \in Task : result[t].rate <= LastQuote

IInv ==
  /\ TypeOK
  /\ down_since <= now
  /\ CacheAge
  /\ CallAge
  /\ ResultAge
  /\ BoundedStaleness
=============================================================================
