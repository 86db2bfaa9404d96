------------------------------ MODULE Admission -----------------------------
(***************************************************************************)
(* How requests are let in: the gate in front of POST /validate and the    *)
(* token buckets of the API.                                               *)
(***************************************************************************)
EXTENDS Integers, FiniteSets, FiniteSetsExt

(***************************************************************************)
(* The gate in front of POST /validate: a semaphore, a counter of requests *)
(* in flight, and a limit that a controller lowers while latency is high.  *)
(* Limit, counter and semaphore are separate atomics, so every access is a *)
(* step of its own.                                                        *)
(***************************************************************************)

CONSTANTS Request, Permits, Floor, BreachTicks

ASSUME IngressAssumption ==
  /\ IsFiniteSet(Request)
  /\ Permits \in Nat \ {0} /\ Floor \in 1..Permits /\ BreachTicks \in Nat \ {0}

VARIABLES
  permits,      \* free permits of the semaphore
  permit_limit,
  inflight,
  breach_since, \* controller ticks since the breach began, -1 when there is none
  step,         \* where each request is
  limit         \* the limit a request has read

ingressVars == <<permits, permit_limit, inflight, breach_since, step, limit>>
requestVars == <<step, limit>>

IngressInit ==
  /\ permits = Permits /\ permit_limit = Permits /\ inflight = 0 /\ breach_since = -1
  /\ step = [r \in Request |-> "out"] /\ limit = [r \in Request |-> 0]

IngressTypeOK ==
  /\ permits \in 0..Permits /\ permit_limit \in Floor..Permits
  /\ inflight \in 0..Cardinality(Request) /\ breach_since \in -1..BreachTicks

in(S) == {r \in Request : step[r] \in S}
goto(r, s) == step' = [step EXCEPT ![r] = s]

---------------------------------------------------------------------------
(* try_acquire: read the limit, look at the counter, take a permit, count  *)
(* the request and look again.                                             *)

try_acquire(r) ==
  /\ step[r] = "out" /\ goto(r, "read")
  /\ limit' = [limit EXCEPT ![r] = permit_limit]
  /\ UNCHANGED <<permits, permit_limit, inflight, breach_since>>

CheckInflight(r) ==
  /\ step[r] = "read" /\ goto(r, IF inflight >= limit[r] THEN "out" ELSE "permit")
  /\ UNCHANGED <<permits, permit_limit, inflight, breach_since, limit>>

TakePermit(r) ==
  /\ step[r] = "permit"
  /\ IF permits = 0 THEN goto(r, "out") /\ UNCHANGED permits
     ELSE goto(r, "count") /\ permits' = permits - 1
  /\ UNCHANGED <<permit_limit, inflight, breach_since, limit>>

over_limit(r) == inflight + 1 > limit[r]

Count(r) ==
  /\ step[r] = "count" /\ goto(r, IF over_limit(r) THEN "undo" ELSE "running")
  /\ inflight' = inflight + 1
  /\ UNCHANGED <<permits, permit_limit, breach_since, limit>>

\* Both ways out give the count back first and the permit after it.
MutKeepCount(r) == inflight' = IF step[r] = "undo" THEN inflight ELSE inflight - 1
uncount(r) == inflight' = inflight - 1

drop(r) ==
  /\ step[r] \in {"undo", "running"} /\ goto(r, "release")
  /\ uncount(r)
  /\ UNCHANGED <<permits, permit_limit, breach_since, limit>>

ReleasePermit(r) ==
  /\ step[r] = "release" /\ goto(r, "out")
  /\ permits' = permits + 1
  /\ UNCHANGED <<permit_limit, inflight, breach_since, limit>>

\* A request that passes the rate limit of the middleware runs the handler
\* between try_acquire and the drop of its permit.
validate_ingress_middleware(r) ==
  try_acquire(r) \/ CheckInflight(r) \/ TakePermit(r) \/ Count(r) \/ drop(r) \/ ReleasePermit(r)

---------------------------------------------------------------------------
(* The controller, once a second. *)

nine_tenths(n) == (9 * n + 9) \div 10
reduced(n) == Max({IF nine_tenths(n) >= n THEN n - 1 ELSE nine_tenths(n), Floor})

\* Latency above the target for BreachTicks ticks costs a tenth of the limit.
maybe_reduce_permits ==
  /\ \/ breach_since' = -1 /\ UNCHANGED permit_limit
     \/ /\ breach_since < BreachTicks
        /\ breach_since' = breach_since + 1 /\ UNCHANGED permit_limit
     \/ /\ breach_since = BreachTicks
        /\ permit_limit' = IF permit_limit > Floor THEN reduced(permit_limit) ELSE permit_limit
        /\ breach_since' = 0
  /\ UNCHANGED <<permits, inflight, requestVars>>

IngressNext ==
  \/ \E r \in Request : validate_ingress_middleware(r)
  \/ maybe_reduce_permits

IngressSpec == IngressInit /\ [][IngressNext]_ingressVars

---------------------------------------------------------------------------
(* Properties. *)

\* Counter and semaphore account for every request: the counter for those
\* that run or are about to be turned away, the semaphore for those and the
\* ones that enter or leave.  A leak would close the gate for good.
GateBalanced ==
  /\ inflight = Cardinality(in({"running", "undo"}))
  /\ permits = Permits - Cardinality(in({"count", "running", "undo", "release"}))

\* However requests race through the check and the increment, no request is
\* admitted when as many run already as the limit it read allows.
AdmissionWithinLimit ==
  [\A r \in Request : step[r] # "running" /\ step'[r] = "running" =>
       Cardinality(in({"running"}))' <= limit[r]]_ingressVars

(***************************************************************************)
(* The token buckets of the API: one for the whole server, one per client  *)
(* address (logins have addresses of their own) and one per API key.  Time *)
(* runs in ticks, TicksPerSec of them to a second, because the refill only *)
(* counts whole seconds.                                                   *)
(***************************************************************************)

CONSTANTS
  GlobalBucket, IpBucket, LoginBucket, KeyBucket, NoKey,
  Capacity, RefillRate,   \* per tokenBucket; the refill is in tokens per second
  TicksPerSec, StaleSecs, \* a tokenBucket untouched for StaleSecs is removed
  NoBucket, MaxTime

Bucket == {GlobalBucket} \cup IpBucket \cup LoginBucket \cup KeyBucket

\* A removed tokenBucket comes back full, so removal must not be faster than the
\* refill: 120 s at 1/s for 100 tokens, at 16/s for 1000, at 8/s for 500.
ASSUME StaleSuffices ==
  /\ TicksPerSec \in Nat \ {0} /\ StaleSecs \in Nat /\ MaxTime \in Nat
  /\ \A b \in Bucket : /\ Capacity[b] \in Nat /\ RefillRate[b] \in Nat
                       /\ StaleSecs * RefillRate[b] >= Capacity[b]

VARIABLES
  time,
  tokenBucket,   \* tokens and last_update of every tokenBucket that exists
  passed    \* how many requests each tokenBucket let through at each time

limiterVars == <<time, tokenBucket, passed>>

full(b) == [tokens |-> Capacity[b], last |-> time]

LimiterInit ==
  /\ time = 0
  /\ tokenBucket = [b \in Bucket |-> IF b = GlobalBucket THEN full(b) ELSE NoBucket]
  /\ passed = [b \in Bucket |-> [t \in 0..MaxTime |-> 0]]

LimiterTypeOK ==
  /\ time \in 0..MaxTime
  /\ tokenBucket[GlobalBucket] # NoBucket
  /\ \A b \in Bucket : tokenBucket[b] # NoBucket =>
       tokenBucket[b].tokens \in 0..Capacity[b] /\ tokenBucket[b].last \in 0..time

---------------------------------------------------------------------------

\* or_insert_with: a tokenBucket that is not there starts full.
existing(b) == IF tokenBucket[b] = NoBucket THEN full(b) ELSE tokenBucket[b]

elapsed(b) == (time - existing(b).last) \div TicksPerSec

MutUncapped(b) == existing(b).tokens + elapsed(b) * RefillRate[b]
refilled(b) == Min({existing(b).tokens + elapsed(b) * RefillRate[b], Capacity[b]})
has_token(b) == refilled(b) >= 1
consume(b) == [tokens |-> IF has_token(b) THEN refilled(b) - 1 ELSE refilled(b), last |-> time]

\* The layers are asked in order until one refuses; a refusal further down
\* does not give the tokens of the layers above back.
asked(ip, key) ==
  {GlobalBucket}
    \cup (IF has_token(GlobalBucket) THEN {ip} ELSE {})
    \cup (IF has_token(GlobalBucket) /\ has_token(ip) /\ key # NoKey THEN {key} ELSE {})

check(ip, key) ==
  LET a == asked(ip, key) IN
  /\ tokenBucket' = [b \in Bucket |-> IF b \in a THEN consume(b) ELSE tokenBucket[b]]
  /\ passed' = [b \in Bucket |-> IF b \in a /\ has_token(b)
                                 THEN [passed[b] EXCEPT ![time] = @ + 1] ELSE passed[b]]
  /\ UNCHANGED time

stale(b) == tokenBucket[b].last <= time - StaleSecs * TicksPerSec

removed == {b \in Bucket \ {GlobalBucket} : tokenBucket[b] # NoBucket /\ stale(b)}

\* Runs before every check and in a task of its own.
cleanup ==
  /\ removed # {}
  /\ tokenBucket' = [b \in Bucket |-> IF b \in removed THEN NoBucket ELSE tokenBucket[b]]
  /\ UNCHANGED <<time, passed>>

rate_limit_middleware(ip, key) == removed = {} /\ check(ip, key)

\* A login asks under its own address, without a cleanup and without a key.
LoginAttempt(ip) == check(ip, NoKey)

PassTime == time < MaxTime /\ time' = time + 1 /\ UNCHANGED <<tokenBucket, passed>>

LimiterNext ==
  \/ \E ip \in IpBucket, key \in KeyBucket \cup {NoKey} : rate_limit_middleware(ip, key)
  \/ \E ip \in LoginBucket : LoginAttempt(ip)
  \/ cleanup \/ PassTime

LimiterSpec == LimiterInit /\ [][LimiterNext]_limiterVars

---------------------------------------------------------------------------
(* Properties. *)

\* In any stretch of time a tokenBucket lets at most its capacity and the refill
\* of the whole seconds through, however often idle buckets are removed.
RateBounded ==
  \A b \in Bucket : \A s, t \in 0..time : s <= t =>
    MapThenSumSet(LAMBDA n : passed[b][n], s..t)
      <= Capacity[b] + RefillRate[b] * ((t - s) \div TicksPerSec)
=============================================================================
