------------------------------ MODULE Gateway ------------------------------
(***************************************************************************)
(* The Go gateway, as the requests of one client see it: the rate limit of *)
(* its address, authentication, the rate limit of its identity, the count  *)
(* of its open event streams (internal/limit, internal/middleware), the    *)
(* circuit breaker (internal/breaker) and the proxied backend.             *)
(*                                                                         *)
(* A request is a goroutine; every Redis command and every critical        *)
(* section of the breaker's mutex is a step.  Time is a counter of ticks,  *)
(* seconds: the scores of the rate limit are whole seconds, so what is     *)
(* said of it holds of windows that begin and end with a second.  The      *)
(* first increment of the stream count and the key's expiry are one step.  *)
(***************************************************************************)
EXTENDS Integers, FiniteSetsExt, TLC

CONSTANTS
  Requests,
  MaxTime,        \* bound: the ticks that pass
  LimitWindow,    \* of the rate limits, in ticks (60 s)
  Limit,          \* of each key: "ip", "user" and "guest"
  MaxSSE,         \* MaxConcurrentSSE
  FailThreshold, FailWindow, OpenFor,  \* of the breaker, in ticks
  Budget,         \* bound: how often each kind of disturbance may happen
  MaxDisturbances \* bound: how many may happen altogether

Disturbances == {"redis", "expiry", "abort", "crash"}
Keys == {"ip", "user", "guest"}

ASSUME RequestsAssumption == IsFiniteSet(Requests)
ASSUME TimeAssumption == MaxTime \in Nat /\ LimitWindow \in Nat \ {0}
ASSUME LimitAssumption == Limit \in [Keys -> Nat \ {0}] /\ MaxSSE \in Nat \ {0}
ASSUME BreakerAssumption ==
  FailThreshold \in Nat \ {0} /\ FailWindow \in Nat \ {0} /\ OpenFor \in Nat \ {0}
ASSUME BudgetAssumption == Budget \in [Disturbances -> Nat] /\ MaxDisturbances \in Nat

Ticks == 0..MaxTime
Never == -1
NoCalls == [t \in Ticks |-> 0]

VARIABLES
  now,
  hits,      \* per key, the sorted set of the window: time of each member
  sse,       \* gw:sse:<user>
  sseTtl,    \* that key has an expiry
  state, failures, successes, openUntil,  \* the breaker; calls per tick
  at,        \* where each request is
  path,      \* public, api or stream
  role,      \* user or guest
  admitted,  \* history: per key and request, when the limit admitted it
  drift,     \* history: a lost command or an expiry has touched the stream count
  fell,      \* history: failures recorded per tick
  used

limitVars   == <<hits, admitted>>
sseVars     == <<sse, sseTtl, drift>>
breakerVars == <<state, failures, successes, openUntil, fell>>
reqVars     == <<path, role>>
vars == <<limitVars, sseVars, breakerVars, now, reqVars, at, used>>

Spend(d) ==
  /\ used[d] < Budget[d]
  /\ MapThenSumSet(LAMBDA e: used[e], Disturbances) < MaxDisturbances
  /\ used' = [used EXCEPT ![d] = @ + 1]

Goto(r, a) == at' = [at EXCEPT ![r] = a]

Init ==
  /\ now = 0
  /\ hits = [k \in Keys |-> [r \in Requests |-> Never]]
  /\ sse = 0 /\ sseTtl = FALSE
  /\ state = "closed" /\ openUntil = 0
  /\ failures = NoCalls /\ successes = NoCalls /\ fell = NoCalls
  /\ at = [r \in Requests |-> "new"]
  /\ path = [r \in Requests |-> "api"]
  /\ role = [r \in Requests |-> "user"]
  /\ admitted = [k \in Keys |-> [r \in Requests |-> Never]]
  /\ drift = FALSE
  /\ used = [d \in Disturbances |-> 0]

-----------------------------------------------------------------------------
(* The sliding window: one Lua script, so one step.                        *)

\* ZREMRANGEBYSCORE key 0 (now - window)
\* Mutant: what is as old as the window stays out of the count one tick early.
Fresh_early(t) == t # Never /\ t > now - LimitWindow + 1

Fresh(t) == t # Never /\ t > now - LimitWindow

Members(k) == {r \in Requests: Fresh(hits[k][r])}

Trimmed(k) == [r \in Requests |-> IF r \in Members(k) THEN hits[k][r] ELSE Never]

Allow(k, r) ==
  /\ Cardinality(Members(k)) < Limit[k]
  /\ hits' = [hits EXCEPT ![k] = [Trimmed(k) EXCEPT ![r] = now]]
  /\ admitted' = [admitted EXCEPT ![k][r] = now]

Deny(k) ==
  /\ Cardinality(Members(k)) >= Limit[k]
  /\ hits' = [hits EXCEPT ![k] = Trimmed(k)]
  /\ UNCHANGED admitted

(* A limit whose Redis call fails lets the request through.                *)
Limited(k, r, next) ==
  \/ Allow(k, r) /\ Goto(r, next) /\ UNCHANGED used
  \/ Deny(k) /\ Goto(r, "refused") /\ UNCHANGED used
  \/ /\ Spend("redis")
     /\ Goto(r, next)
     /\ UNCHANGED limitVars

(* IPRateLimit, for every request.  A public route has no other limit and  *)
(* no breaker.                                                             *)
Arrive(r, p, o) ==
  /\ at[r] = "new"
  /\ path' = [path EXCEPT ![r] = p]
  /\ role' = [role EXCEPT ![r] = o]
  /\ Limited("ip", r, IF p = "public" THEN "done" ELSE "auth")
  /\ UNCHANGED <<sseVars, breakerVars, now>>

(* Auth: no token, one that does not verify or has expired, is in the      *)
(* blacklist or of a banned user, or comes from another device, or none of *)
(* that; a blacklist that cannot be read is empty.                         *)
Auth(r) ==
  /\ at[r] = "auth"
  /\ Goto(r, "refused") \/ Goto(r, "limit")
  /\ UNCHANGED <<limitVars, sseVars, breakerVars, now, reqVars, used>>

(* RateLimit, by the identity. *)
RateLimit(r) ==
  /\ at[r] = "limit"
  /\ Limited(role[r], r, IF path[r] = "stream" THEN "acquire" ELSE "allow")
  /\ UNCHANGED <<sseVars, breakerVars, now, path, role>>

-----------------------------------------------------------------------------
(* AcquireSSE: INCR, then EXPIRE for the first; DECR when over the maximum. *)

\* Mutant: one more than the maximum.
Over_lax(n) == n > MaxSSE + 1

Over(n) == n > MaxSSE

AcquireSSE(r) ==
  /\ at[r] = "acquire"
  /\ sse' = sse + 1
  /\ IF sse' = 1
       THEN \/ sseTtl' = TRUE /\ UNCHANGED used
            \/ UNCHANGED sseTtl /\ Spend("redis")  \* the error of EXPIRE is dropped
       ELSE UNCHANGED <<sseTtl, used>>
  /\ Goto(r, IF Over(sse') THEN "undo" ELSE "allow")
  /\ UNCHANGED <<limitVars, breakerVars, now, reqVars, drift>>

\* Mutant: a refused stream keeps its place in the count.
UndoSSE_keeps(r) ==
  /\ at[r] = "undo"
  /\ Goto(r, "refused")
  /\ UNCHANGED <<limitVars, sseVars, breakerVars, now, reqVars, used>>

(* This DECR comes before the deferred release is registered. *)
UndoSSE(r) ==
  /\ at[r] = "undo"
  /\ \/ sse' = sse - 1 /\ UNCHANGED <<drift, used>>
     \/ Spend("redis") /\ drift' = TRUE /\ UNCHANGED sse
  /\ Goto(r, "refused")
  /\ UNCHANGED <<limitVars, sseTtl, breakerVars, now, reqVars>>

(* An acquire that fails on Redis lets the stream through, and its release *)
(* is deferred all the same.                                               *)
AcquireRaises(r) ==
  /\ at[r] = "acquire"
  /\ Spend("redis")
  /\ drift' = TRUE
  /\ Goto(r, "allow")
  /\ UNCHANGED <<limitVars, sse, sseTtl, breakerVars, now, reqVars>>

\* A request that passed the limits ends: its deferred release runs, if any.
Ends(r, how) == Goto(r, IF path[r] = "stream" THEN "release" ELSE how)

ReleaseSSE(r) ==
  /\ at[r] = "release"
  /\ \/ sse' = sse - 1 /\ UNCHANGED <<drift, used>>
     \/ Spend("redis") /\ drift' = TRUE /\ UNCHANGED sse
  /\ Goto(r, "done")
  /\ UNCHANGED <<limitVars, sseTtl, breakerVars, now, reqVars>>

(* The key expires an hour after its first INCR, with streams open or not. *)
SseExpires ==
  /\ sseTtl
  /\ Spend("expiry")
  /\ sse' = 0 /\ sseTtl' = FALSE
  /\ drift' = TRUE
  /\ UNCHANGED <<limitVars, breakerVars, now, reqVars, at>>

-----------------------------------------------------------------------------
(* The breaker. *)

\* Mutant: calls are never trimmed.
Recent_all(calls) == calls

Recent(calls) == [t \in Ticks |-> IF t >= now - FailWindow THEN calls[t] ELSE 0]

Total(calls) == MapThenSumSet(LAMBDA t: calls[t], Ticks)

(* Everything passes in the half-open state, not one probe.                *)
BreakerAllow(r) ==
  /\ at[r] = "allow"
  /\ failures' = Recent(failures) /\ successes' = Recent(successes)
  /\ IF state # "open" \/ now > openUntil
       THEN /\ state' = IF state = "open" THEN "half" ELSE state
            /\ Goto(r, "upstream")
       ELSE UNCHANGED state /\ Ends(r, "refused")
  /\ UNCHANGED <<limitVars, sseVars, openUntil, fell, now, reqVars, used>>

\* Mutant: any success closes it.
RecordSuccess_always ==
  /\ IF state # "closed"
       THEN state' = "closed" /\ failures' = NoCalls /\ successes' = NoCalls
       ELSE /\ failures' = Recent(failures)
            /\ successes' = [Recent(successes) EXCEPT ![now] = @ + 1]
            /\ UNCHANGED state
  /\ UNCHANGED <<openUntil, fell>>

RecordSuccess ==
  /\ IF state = "half"
       THEN state' = "closed" /\ failures' = NoCalls /\ successes' = NoCalls
       ELSE /\ failures' = Recent(failures)
            /\ successes' = [Recent(successes) EXCEPT ![now] = @ + 1]
            /\ UNCHANGED state
  /\ UNCHANGED <<openUntil, fell>>

\* failures >= threshold and at least half of the calls
Trips(f, s) == Total(f) >= FailThreshold /\ 2 * Total(f) >= Total(f) + Total(s)

RecordFailure ==
  LET f == [Recent(failures) EXCEPT ![now] = @ + 1]
      s == Recent(successes)
  IN /\ fell' = [fell EXCEPT ![now] = @ + 1]
     /\ IF state = "half" \/ Trips(f, s)
          THEN /\ state' = "open"
               /\ openUntil' = now + OpenFor
               /\ failures' = NoCalls /\ successes' = NoCalls
          ELSE failures' = f /\ successes' = s /\ UNCHANGED <<state, openUntil>>

(* The backend has answered, below 500 or not, at once or long after the   *)
(* breaker moved on.                                                       *)
Answer(r) ==
  /\ at[r] = "upstream"
  /\ RecordSuccess \/ RecordFailure
  /\ Ends(r, "done")
  /\ UNCHANGED <<limitVars, sseVars, now, reqVars, used>>

(* The copy of the answer breaks off: the proxy panics past the breaker to *)
(* the Recover middleware, and only the deferred release runs.             *)
Abort(r) ==
  /\ at[r] = "upstream"
  /\ Spend("abort")
  /\ Ends(r, "done")
  /\ UNCHANGED <<limitVars, sseVars, breakerVars, now, reqVars>>

(* The gateway restarts: its requests and its breaker are gone, the counts *)
(* in Redis stay.                                                          *)
Ended == {"refused", "done"}

Restart ==
  /\ Spend("crash")
  /\ at' = [r \in Requests |-> IF at[r] \in {"new"} \cup Ended THEN at[r] ELSE "done"]
  /\ state' = "closed" /\ openUntil' = 0
  /\ failures' = NoCalls /\ successes' = NoCalls
  /\ drift' = (drift \/ \E r \in Requests: at[r] \notin {"new"} \cup Ended)
  /\ UNCHANGED <<limitVars, sse, sseTtl, fell, now, reqVars>>

-----------------------------------------------------------------------------
Tick ==
  /\ now < MaxTime
  /\ now' = now + 1
  /\ UNCHANGED <<limitVars, sseVars, breakerVars, reqVars, at, used>>

Step(r) ==
  \/ Auth(r) \/ RateLimit(r) \/ AcquireSSE(r) \/ UndoSSE(r) \/ ReleaseSSE(r)
  \/ BreakerAllow(r) \/ Answer(r)

\* All streams are those of the one user whose count is kept.
Arrives(r) ==
  \/ \E p \in {"public", "api", "stream"}: Arrive(r, p, "user")
  \/ Arrive(r, "api", "guest")

Next ==
  \/ \E r \in Requests: Arrives(r) \/ Step(r) \/ AcquireRaises(r) \/ Abort(r)
  \/ SseExpires \/ Restart \/ Tick

Spec == Init /\ [][Next]_vars

-----------------------------------------------------------------------------
Places == {"new", "auth", "limit", "acquire", "undo", "allow", "upstream", "release",
           "refused", "done"}

TypeOK ==
  /\ now \in Ticks
  /\ hits \in [Keys -> [Requests -> Ticks \cup {Never}]]
  /\ admitted \in [Keys -> [Requests -> Ticks \cup {Never}]]
  /\ sse \in Int /\ sseTtl \in BOOLEAN /\ drift \in BOOLEAN
  /\ state \in {"closed", "open", "half"} /\ openUntil \in Nat
  /\ {failures, successes, fell} \subseteq [Ticks -> Nat]
  /\ at \in [Requests -> Places]
  /\ path \in [Requests -> {"public", "api", "stream"}]
  /\ role \in [Requests -> {"user", "guest"}]
  /\ used \in [Disturbances -> Nat]

(* Whichever minute one looks at, a key lets no more than its limit        *)
(* through: the window slides, it does not restart (internal/limit Allow:  *)
(* "sorted-set sliding window").                                           *)
WindowLimit ==
  \A k \in Keys, t \in Ticks:
    Cardinality({r \in Requests: admitted[k][r] \in t..(t + LimitWindow - 1)}) <= Limit[k]

(* The streams a user has open; between the INCR and the undoing DECR of a *)
(* refused one the count is higher.                                        *)
Open == {r \in Requests: path[r] = "stream" /\ at[r] \in {"allow", "upstream", "release"}}
Undoing == {r \in Requests: at[r] = "undo"}

(* Unless Redis lost a command or the counter expired, a user has at most  *)
(* MaxConcurrentSSE streams, however acquires, refusals and releases       *)
(* interleave, and the counter says how many (internal/middleware          *)
(* RateLimit: "limits concurrent SSE connections per user").               *)
StreamLimit == ~drift => Cardinality(Open) <= MaxSSE
StreamsCounted == ~drift => sse = Cardinality(Open) + Cardinality(Undoing)

(* The breaker opens from the closed state only on FailThreshold failures  *)
(* within the window, answers of requests admitted long ago included       *)
(* (internal/breaker Options: "minimum number of failures within the       *)
(* window required before the breaker can open").                          *)
OpensOnFailures ==
  [][state = "closed" /\ state' = "open" =>
       MapThenSumSet(LAMBDA t: fell'[t], {t \in Ticks: t >= now - FailWindow})
         >= FailThreshold]_vars

(* An open breaker stays open for its whole period: the success of a       *)
(* request that was let through before it opened does not close it         *)
(* (internal/breaker Options: "how long the breaker stays open before      *)
(* transitioning to half-open").                                           *)
StaysOpen ==
  [][state = "open" /\ state' # "open" =>
       now > openUntil \/ used'["crash"] > used["crash"]]_vars
=============================================================================
