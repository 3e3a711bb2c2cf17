----------------------------- MODULE ToolCalls ------------------------------
(***************************************************************************)
(* Calls of one external tool with the same arguments (tools/base.py, and  *)
(* the run of skills/poi_search.py, which differs): a circuit breaker and  *)
(* a local cache per process, a cache and a lock in Redis that all         *)
(* processes share, attempts under a timeout with a growing pause between  *)
(* them, and an answer "none" when all of them failed.                     *)
(*                                                                         *)
(* Every Redis command is a step, and shorter than a tick of the clock;    *)
(* what lasts is the wait for the lock, an attempt, and a pause.  A search *)
(* for places without a category runs one call for each of them at once    *)
(* and merges the answers; a caller here is the call of one category.      *)
(***************************************************************************)
EXTENDS Skills, Integers, FiniteSetsExt, TLC

CONSTANTS
  Callers, Processes,
  Home,           \* the process of each caller
  Kinds,          \* the tools of this instance, among "weather", "price", "poi"
  MaxRetries,     \* of each kind: how often a failed attempt is repeated
  CacheTTL, Jitter, NegativeTTL, LocalTTL,  \* life of a cached answer, in ticks
  LockTTL, LockWait,                        \* of the lock of a cache entry
  Timeout,        \* of an attempt; the pause after attempt n is 2^n ticks
  FailThreshold, FailWindow, OpenFor,       \* of the breaker
  MaxTime,        \* bound: the ticks that pass
  MaxCalls,       \* bound: the calls that are made
  Budget,         \* bound: how often each kind of disturbance may happen
  MaxDisturbances \* bound: how many may happen altogether

Disturbances == {"redis", "cancel", "crash"}

ASSUME HomeAssumption == Home \in [Callers -> Processes]
ASSUME KindAssumption ==
  Kinds \subseteq {"weather", "price", "poi"} /\ MaxRetries \in [Kinds -> Nat]
ASSUME TimeAssumption ==
  /\ {CacheTTL, NegativeTTL, LocalTTL, LockTTL, Timeout} \subseteq Nat \ {0}
  /\ LockWait \in Nat /\ Jitter \in 0..(CacheTTL - 1)
  /\ MaxTime \in Nat /\ MaxCalls \in Nat
ASSUME PowerAssumption ==  \* what the provers do not know of ^
  \A k \in Kinds: \A n \in 0..MaxRetries[k]:
    2 ^ n \in 1..(2 ^ MaxRetries[k]) /\ 2 ^ (n + 1) = 2 * 2 ^ n
ASSUME BreakerAssumption == {FailThreshold, FailWindow, OpenFor} \subseteq Nat \ {0}
ASSUME BudgetAssumption == Budget \in [Disturbances -> Nat] /\ MaxDisturbances \in Nat

Ticks == 0..MaxTime
Never == -1
NoCalls == [t \in Ticks |-> 0]
Nobody == "nobody"
Free == [by |-> Nobody, until |-> Never]

ASSUME CallersAssumption == Nobody \notin Callers

(* An answer: what it is, when it was made, and, in a cache, until when.   *)
Nothing == [what |-> "nothing", made |-> Never]
NoCall ==
  [since |-> Never, holds |-> Never, tries |-> 0, wake |-> Never, got |-> Nothing]
Empty == [what |-> "nothing", made |-> Never, until |-> Never]

VARIABLES
  kind,     \* the tool, fixed
  now,
  entry,    \* the answer in Redis under the key of the call
  negative, \* and under "neg:" of that key
  lock,     \* cache_lock: of that key: its holder and when it expires
  local,    \* tool_local_cache of each process
  breaker,  \* the breaker of each process: when it opened, calls per tick
  at,       \* where each caller is
  call,     \* its call: since when, since when it believes it holds the lock,
            \* the attempts begun, when what it waits for ends, its result
  calls, used

caches == <<entry, negative, local>>
vars == <<kind, now, caches, lock, breaker, at, call, calls, used>>

Spend(d) ==
  /\ used[d] < Budget[d]
  /\ MapThenSumSet(LAMBDA e: used[e], Disturbances) < MaxDisturbances
  /\ used' = [used EXCEPT ![d] = @ + 1]

Goto(c, a) == at' = [at EXCEPT ![c] = a]

NewBreaker == [opened |-> Never, failures |-> NoCalls, successes |-> NoCalls]

Init ==
  /\ kind \in Kinds
  /\ now = 0 /\ calls = 0
  /\ entry = Empty /\ negative = Empty
  /\ local = [p \in Processes |-> Empty]
  /\ lock = Free
  /\ breaker = [p \in Processes |-> NewBreaker]
  /\ at = [c \in Callers |-> "idle"]
  /\ call = [c \in Callers |-> NoCall]
  /\ used = [d \in Disturbances |-> 0]

-----------------------------------------------------------------------------
(* The breaker of core/circuit_breaker.py. *)

Recent(c) == [t \in Ticks |-> IF t > now - FailWindow THEN c[t] ELSE 0]
Total(c) == MapThenSumSet(LAMBDA t: c[t], Ticks)

IsOpen(b) == b.opened # Never /\ now - b.opened < OpenFor

(* Asking whether it is open trims the window, and closes it when its time *)
(* is over.                                                                *)
Looked(b) ==
  [opened |-> IF IsOpen(b) THEN b.opened ELSE Never,
   failures |-> Recent(b.failures), successes |-> Recent(b.successes)]

Trips(b) ==
  /\ Total(b.failures) >= FailThreshold
  /\ 2 * Total(b.failures) >= Total(b.failures) + Total(b.successes)

Succeeded(b) ==
  LET seen == Looked(b)
  IN IF IsOpen(b) THEN seen ELSE [seen EXCEPT !.successes[now] = @ + 1]

Failed(b) ==
  LET seen == Looked(b)
      counted == [seen EXCEPT !.failures[now] = @ + 1]
  IN IF IsOpen(b) THEN seen
     ELSE IF Trips(counted) THEN [counted EXCEPT !.opened = now] ELSE counted

After(a, b) == IF a.what = "none" THEN Failed(b) ELSE Succeeded(b)

Record(c, b) == breaker' = [breaker EXCEPT ![Home[c]] = b]

-----------------------------------------------------------------------------
(* The caches.  An answer is present until its time to live is over.       *)

Present(e) == e.what # "nothing" /\ now < e.until
Plain(e) == [what |-> e.what, made |-> e.made]
Kept(a, ttl) == [what |-> a.what, made |-> a.made, until |-> now + ttl]

\* The negative entry is only ever "none".
Unavailable == [what |-> "none", made |-> now]

Holding(c) == call[c].holds # Never

\* The call is over, or over but for the release of the lock.
Over(c) == Goto(c, IF Holding(c) THEN "release" ELSE "answered")

(* The other tools count only what they fetched; the search for places     *)
(* counts every answer, cached ones too.                                   *)
Counted(c, a) ==
  IF kind = "poi" THEN Record(c, After(a, breaker[Home[c]])) ELSE UNCHANGED breaker

Cached(c, a) ==
  /\ call' = [call EXCEPT ![c].got = a]
  /\ Over(c)
  /\ Counted(c, a)

(* run: an open breaker answers at once, past the caches: "none", or the   *)
(* places that are built in for the city.                                  *)
Refusals ==
  {Unavailable} \cup (IF kind = "poi" THEN {[what |-> "guess", made |-> now]} ELSE {})

Call(c) ==
  /\ at[c] = "idle" /\ calls < MaxCalls
  /\ calls' = calls + 1
  /\ IF IsOpen(breaker[Home[c]])
     THEN /\ \E a \in Refusals: call' = [call EXCEPT ![c].since = now, ![c].got = a]
          /\ Goto(c, "answered")
     ELSE call' = [call EXCEPT ![c].since = now] /\ Goto(c, "local")
  /\ Record(c, Looked(breaker[Home[c]]))
  /\ UNCHANGED <<kind, now, caches, lock, used>>

ReadLocal(c) ==
  LET e == local[Home[c]]
  IN /\ at[c] = "local"
     /\ IF Present(e) THEN Cached(c, Plain(e))
        ELSE Goto(c, "cache") /\ UNCHANGED <<call, breaker>>
     /\ UNCHANGED <<kind, now, caches, lock, calls, used>>

\* Mutant: what is found in Redis is kept locally for as long as there.
Localized_long(c, e) == [local EXCEPT ![Home[c]] = Kept(e, CacheTTL + LocalTTL)]

Localized(c, e) == [local EXCEPT ![Home[c]] = Kept(e, LocalTTL)]

ReadCache(c) ==
  /\ at[c] = "cache"
  /\ IF Present(entry)
     THEN local' = Localized(c, entry) /\ Cached(c, Plain(entry))
     ELSE Goto(c, "negative") /\ UNCHANGED <<local, call, breaker>>
  /\ UNCHANGED <<kind, now, entry, negative, lock, calls, used>>

(* The first time, whoever finds nothing waits for the lock; the second    *)
(* time it holds it.                                                       *)
Missed(c) ==
  /\ Goto(c, IF Holding(c) THEN "begin" ELSE "lock")
  /\ call' = [call EXCEPT ![c].wake = IF Holding(c) THEN Never ELSE now + LockWait]
  /\ UNCHANGED breaker

ReadNegative(c) ==
  /\ at[c] = "negative"
  /\ IF Present(negative) THEN Cached(c, Plain(negative)) ELSE Missed(c)
  /\ UNCHANGED <<kind, now, caches, lock, calls, used>>

(* A command that raises is a miss.                                        *)
ReadRaises(c) ==
  /\ Spend("redis")
  /\ \/ at[c] = "cache" /\ Goto(c, "negative") /\ UNCHANGED <<call, breaker>>
     \/ at[c] = "negative" /\ Missed(c)
  /\ UNCHANGED <<kind, now, caches, lock, calls>>

-----------------------------------------------------------------------------
(* The lock of the entry.  Whoever gets it looks the caches up again;      *)
(* whoever does not in time goes on without it.                            *)

Locked == lock.by # Nobody /\ now < lock.until

TakeLock(c) ==
  /\ at[c] = "lock" /\ ~Locked
  /\ lock' = [by |-> c, until |-> now + LockTTL]
  /\ call' = [call EXCEPT ![c].holds = now, ![c].wake = Never]
  /\ Goto(c, "local")
  /\ UNCHANGED <<kind, now, caches, breaker, calls, used>>

GoUnlocked(c) ==
  /\ at[c] = "lock"
  /\ \/ Locked /\ now >= call[c].wake /\ UNCHANGED used
     \/ Spend("redis")
  /\ Goto(c, "begin")
  /\ UNCHANGED <<kind, now, caches, lock, breaker, call, calls>>

(* Releasing deletes the key only while the token in it is one's own.      *)
\* Mutant: it deletes the key whoever holds it.
Unlocked_any(c) == Free

Unlocked(c) == IF lock.by = c THEN Free ELSE lock

Return(c, from) ==
  /\ at[c] = from
  /\ Goto(c, "idle")
  /\ call' = [call EXCEPT ![c] = NoCall]
  /\ UNCHANGED <<kind, now, caches, breaker, calls>>

Release(c) ==
  /\ Return(c, "release")
  /\ \/ lock' = Unlocked(c) /\ UNCHANGED used
     \/ Spend("redis") /\ UNCHANGED lock

-----------------------------------------------------------------------------
(* The attempts. *)

Attempt == CASE kind = "weather" -> Forecast [] kind = "price" -> Price [] OTHER -> Places

Got(c, what) ==
  /\ call' = [call EXCEPT ![c].got = [what |-> what, made |-> now], ![c].wake = Never]
  /\ Goto(c, "store")

(* A place whose city is built in is answered without any attempt.         *)
BuiltIn(c) ==
  /\ at[c] = "begin" /\ kind = "poi" /\ call[c].tries = 0
  /\ Got(c, "guess")
  /\ UNCHANGED <<kind, now, caches, lock, breaker, calls, used>>

Begin(c) ==
  /\ at[c] = "begin"
  /\ call' = [call EXCEPT ![c].tries = @ + 1, ![c].wake = now + Timeout]
  /\ Goto(c, "attempt")
  /\ UNCHANGED <<kind, now, caches, lock, breaker, calls, used>>

Succeed(c) ==
  /\ at[c] = "attempt"
  /\ \E what \in Attempt \ {"timeout"}: Got(c, what)
  /\ UNCHANGED <<kind, now, caches, lock, breaker, calls, used>>

\* Mutant: one attempt too many.
Retried_more(c) == call[c].tries <= MaxRetries[kind] + 1

Retried(c) == call[c].tries <= MaxRetries[kind]

(* The attempt was cancelled by its timeout: a pause, or the fallback.     *)
TimeOut(c) ==
  /\ at[c] = "attempt" /\ now >= call[c].wake /\ "timeout" \in Attempt
  /\ IF Retried(c)
     THEN /\ call' = [call EXCEPT ![c].wake = now + 2 ^ (call[c].tries - 1)]
          /\ Goto(c, "pause")
     ELSE Got(c, "none")
  /\ UNCHANGED <<kind, now, caches, lock, breaker, calls, used>>

Resume(c) ==
  /\ at[c] = "pause" /\ now >= call[c].wake
  /\ Goto(c, "begin")
  /\ UNCHANGED <<kind, now, caches, lock, breaker, call, calls, used>>

(* _set_cache: an answer goes to Redis and then to the local cache, "none" *)
(* only to Redis and for a short time.  A command that raises skips both.  *)
Stored(c) ==
  IF call[c].got.what = "none"
  THEN negative' = Kept(call[c].got, NegativeTTL) /\ UNCHANGED <<entry, local>>
  ELSE /\ \E ttl \in (CacheTTL - Jitter)..(CacheTTL + Jitter): entry' = Kept(call[c].got, ttl)
       /\ local' = Localized(c, call[c].got)
       /\ UNCHANGED negative

Store(c) ==
  /\ at[c] = "store"
  /\ \/ Stored(c) /\ UNCHANGED used
     \/ Spend("redis") /\ UNCHANGED caches
  /\ Record(c, After(call[c].got, breaker[Home[c]]))
  /\ Over(c)
  /\ UNCHANGED <<kind, now, lock, call, calls>>

-----------------------------------------------------------------------------
(* The call ends without an answer.  Its lock is released when it has      *)
(* begun its attempts, and stays behind when it was still looking up.      *)
GiveUp(c) ==
  /\ IF Holding(c) /\ at[c] \in {"begin", "attempt", "pause", "store"}
     THEN Goto(c, "release") /\ call' = [call EXCEPT ![c].got = Nothing]
     ELSE Goto(c, "idle") /\ call' = [call EXCEPT ![c] = NoCall]
  /\ UNCHANGED <<kind, now, caches, lock, breaker, calls>>

\* The turn of the caller is cancelled.
Cancel(c) ==
  at[c] \notin {"idle", "answered", "release"} /\ Spend("cancel") /\ GiveUp(c)

\* Only acquiring the lock is under the try; asking for it may raise too, of
\* a client that is not connected or belongs to another event loop.
LockRaises(c) ==
  at[c] = "lock" /\ call[c].wake = now + LockWait /\ Spend("redis") /\ GiveUp(c)

(* A process dies with its callers, its breaker and its local cache.       *)
Crash(p) ==
  /\ \E c \in Callers: Home[c] = p /\ at[c] # "idle"
  /\ Spend("crash")
  /\ local' = [local EXCEPT ![p] = Empty]
  /\ breaker' = [breaker EXCEPT ![p] = NewBreaker]
  /\ at' = [c \in Callers |-> IF Home[c] = p THEN "idle" ELSE at[c]]
  /\ call' = [c \in Callers |-> IF Home[c] = p THEN NoCall ELSE call[c]]
  /\ UNCHANGED <<kind, now, entry, negative, lock, calls>>

\* What a caller may be doing while time passes.
Lasting(c) ==
  at[c] # "idle" => at[c] \in {"lock", "attempt", "pause"} /\ now < call[c].wake

(* Time passes, and what has reached its time to live is gone.             *)
Alive(e) == IF now + 1 < e.until THEN e ELSE Empty

Tick ==
  /\ now < MaxTime
  /\ \A c \in Callers: Lasting(c)
  /\ now' = now + 1
  /\ entry' = Alive(entry) /\ negative' = Alive(negative)
  /\ local' = [p \in Processes |-> Alive(local[p])]
  /\ lock' = IF now + 1 < lock.until THEN lock ELSE Free
  /\ UNCHANGED <<kind, breaker, at, call, calls, used>>

Step(c) ==
  \/ Call(c) \/ ReadLocal(c) \/ ReadCache(c) \/ ReadNegative(c) \/ ReadRaises(c)
  \/ TakeLock(c) \/ GoUnlocked(c) \/ Release(c)
  \/ BuiltIn(c) \/ Begin(c) \/ Succeed(c) \/ TimeOut(c) \/ Resume(c) \/ Store(c)
  \/ Return(c, "answered") /\ UNCHANGED <<lock, used>>
  \/ Cancel(c) \/ LockRaises(c)

Next == (\E c \in Callers: Step(c)) \/ (\E p \in Processes: Crash(p)) \/ Tick

Spec == Init /\ [][Next]_vars

-----------------------------------------------------------------------------
(* No caller is given an answer older than the two caches together keep    *)
(* it, in whichever order fetches, stores and lookups of several processes *)
(* come; nor a failure older than a failure is kept (base.py:113).         *)
AnswersFresh ==
  \A c \in Callers:
    at[c] \in {"answered", "release"} /\ call[c].got # Nothing =>
      now - call[c].got.made <
        (IF call[c].got.what = "none" THEN NegativeTTL ELSE CacheTTL + Jitter + LocalTTL)

(* A call is over within the wait for the lock, its attempts and its       *)
(* pauses, whatever other callers do meanwhile and whichever commands of   *)
(* Redis raise (base.py:159); a Redis that hangs is not among them.        *)
Longest == LockWait + (MaxRetries[kind] + 1) * Timeout + 2 ^ MaxRetries[kind] - 1

AnsweredInTime == \A c \in Callers: at[c] # "idle" => now - call[c].since <= Longest

(* Two callers believe they hold the lock of the entry only when the one   *)
(* has held it beyond its time to live: nobody's release frees the lock of *)
(* another, though slow fetches outlive their lock (base.py:141).          *)
HoldersExclude ==
  \A c, d \in Callers:
    c # d /\ Holding(c) /\ Holding(d) /\ call[c].holds <= call[d].holds =>
      call[d].holds - call[c].holds >= LockTTL
=============================================================================
