-------------------------- MODULE ToolCallsProofs --------------------------
(***************************************************************************)
(* Proofs about ToolCalls, for any callers, processes, times to live and   *)
(* disturbances: the lock of a cache entry excludes for as long as it      *)
(* lives, no answer is older than the two caches together keep it, and no  *)
(* call is older than its attempts and pauses allow.                       *)
(*                                                                         *)
(* A caller that believes it holds the lock has its token in Redis, or its *)
(* time to live is over (Locks).  What a cache holds dies in time after it *)
(* was made, and time stands still between a lookup or a fetch and the     *)
(* answer (StoresFresh).  What a call still waits for ends within what its *)
(* attempts so far leave it (CallsTimely).                                 *)
(***************************************************************************)
EXTENDS ToolCalls, TLAPS

USE DEF Never

Whats == {"nothing", "none"} \cup Outcomes
Answers == [what: Whats, made: Int]
Entries == [what: Whats, made: Int, until: Int]
Locations == {"idle", "local", "cache", "negative", "lock", "begin", "attempt", "pause", "store",
              "release", "answered"}

Types ==
  /\ kind \in Kinds
  /\ now \in Nat
  /\ entry \in Entries /\ negative \in Entries
  /\ local \in [Processes -> Entries]
  /\ lock \in [by: Callers \cup {Nobody}, until: Int]
  /\ at \in [Callers -> Locations]
  /\ call \in [Callers -> [since: Int, holds: Int, tries: Int, wake: Int, got: Answers]]

(* The holder's token is in Redis, or its time to live is over.            *)
Locks ==
  \A c \in Callers:
    Holding(c) =>
      /\ call[c].holds \in 0..now
      /\ \/ lock = [by |-> c, until |-> call[c].holds + LockTTL]
         \/ now >= call[c].holds + LockTTL

Life == CacheTTL + Jitter + LocalTTL

(* The caches keep what they say they keep.                                *)
CachesFresh ==
  /\ entry.what # "none" /\ entry.until <= entry.made + CacheTTL + Jitter
  /\ negative.what \in {"none", "nothing"} /\ negative.until <= negative.made + NegativeTTL
  /\ \A p \in Processes: local[p].what # "none" /\ local[p].until <= local[p].made + Life

(* An answer that waits to be stored is of this moment.                    *)
StoresFresh == \A c \in Callers: at[c] = "store" => call[c].got.made = now

-----------------------------------------------------------------------------
(* Types. *)

(* Whatever the sources reply, an attempt comes to one of three outcomes.  *)
LEMMA AttemptOutcomes == Attempt \subseteq Outcomes
<1>1. ASSUME NEW r PROVE Cascade(r, "guess") \in Outcomes
  BY DEF Cascade, Outcomes
<1>2. Forecast \subseteq Outcomes
  <2> DEFINE F(known, near, located, a, m, q, w) ==
               <<FetchAmap(known, near, a), FetchOpenMeteo(located, m), FetchQWeather(q, near, w)>>
  <2>1. Forecast = {Cascade(F(known, near, located, a, m, q, w), GeographyFallback):
                      known, near, located \in BOOLEAN, a, m, q, w \in Replies}
    BY DEF Forecast
  <2> HIDE DEF F
  <2> QED
    BY <1>1, <2>1 DEF GeographyFallback
<1>3. ASSUME NEW what \in Price PROVE what \in Outcomes
  <2>1. PICK r \in Replies, named \in BOOLEAN: what = Cascade(<<FetchPrice(r, named)>>, "guess")
    BY <1>3 DEF Price, StructuredEstimate
  <2> QED
    BY <1>1, <2>1
<1>4. ASSUME NEW what \in Places PROVE what \in Outcomes
  <2>1. PICK s \in (SUBSET Replies) \ {{}}, a, n \in Replies, enough \in BOOLEAN:
          what = Cascade(<<SearchAndExtract(s, a, enough, n)>>, "guess")
    BY <1>4 DEF Places
  <2> QED
    BY <1>1, <2>1
<1> QED
  BY <1>2, <1>3, <1>4, Zenon DEF Attempt

LEMMA GotoType ==
  ASSUME Types, NEW c \in Callers, NEW a \in Locations, Goto(c, a)
  PROVE  at' \in [Callers -> Locations]
BY DEF Goto, Types

LEMMA OverType ==
  ASSUME Types, NEW c \in Callers, Over(c)
  PROVE  at' \in [Callers -> Locations]
BY GotoType DEF Over, Locations

LEMMA PlainType ==
  ASSUME NEW e \in Entries
  PROVE  Plain(e) \in Answers
BY DEF Plain, Entries, Answers

LEMMA KeptType ==
  ASSUME NEW a, a.what \in Whats, a.made \in Int, Types, NEW ttl \in Int
  PROVE  Kept(a, ttl) \in Entries
BY DEF Kept, Entries, Types

LEMMA CachedType ==
  ASSUME Types, NEW c \in Callers, NEW a \in Answers, Cached(c, a)
  PROVE  /\ at' \in [Callers -> Locations]
         /\ call' \in [Callers -> [since: Int, holds: Int, tries: Int, wake: Int, got: Answers]]
<1>1. at' \in [Callers -> Locations]
  BY OverType DEF Cached
<1>2. call' = [call EXCEPT ![c].got = a]
  BY DEF Cached
<1> QED
  BY <1>1, <1>2 DEF Types

LEMMA LocalizedType ==
  ASSUME Types, NEW c \in Callers, NEW e, e.what \in Whats, e.made \in Int
  PROVE  Localized(c, e) \in [Processes -> Entries]
<1>1. Kept(e, LocalTTL) \in Entries
  BY KeptType, TimeAssumption
<1> QED
  BY <1>1, HomeAssumption DEF Localized, Types

LEMMA GotType ==
  ASSUME Types, NEW c \in Callers, NEW what \in Whats, Got(c, what)
  PROVE  /\ at' \in [Callers -> Locations]
         /\ call' \in [Callers -> [since: Int, holds: Int, tries: Int, wake: Int, got: Answers]]
<1> DEFINE a == [what |-> what, made |-> now]
<1>1. at' \in [Callers -> Locations]
  BY GotoType DEF Got, Locations
<1>2. a \in Answers
  BY DEF Types, Answers
<1>3. call' = [call EXCEPT ![c] = [call[c] EXCEPT !.got = a, !.wake = Never]]
  BY DEF Got, Types
<1> HIDE DEF a
<1>4. [call[c] EXCEPT !.got = a, !.wake = Never]
        \in [since: Int, holds: Int, tries: Int, wake: Int, got: Answers]
  <2>1. call[c] \in [since: Int, holds: Int, tries: Int, wake: Int, got: Answers]
    BY DEF Types
  <2>2. Never \in Int
    OBVIOUS
  <2> HIDE DEF Never
  <2> QED
    BY <1>2, <2>1, <2>2
<1> QED
  BY <1>1, <1>3, <1>4 DEF Types

LEMMA MissedType ==
  ASSUME Types, NEW c \in Callers, Missed(c)
  PROVE  /\ at' \in [Callers -> Locations]
         /\ call' \in [Callers -> [since: Int, holds: Int, tries: Int, wake: Int, got: Answers]]
<1>1. at' \in [Callers -> Locations]
  BY GotoType DEF Missed, Locations
<1>2. call' = [call EXCEPT ![c].wake = IF Holding(c) THEN Never ELSE now + LockWait]
  BY DEF Missed
<1> QED
  BY <1>1, <1>2, TimeAssumption DEF Types

NoCallType == NoCall \in [since: Int, holds: Int, tries: Int, wake: Int, got: Answers]

LEMMA NoCallIsCall == NoCallType
BY DEF NoCallType, NoCall, Nothing, Answers, Whats

LEMMA EmptyIsEntry == Empty \in Entries
BY DEF Empty, Entries, Whats

LEMMA TypesInit == Init => Types
BY NoCallIsCall, EmptyIsEntry DEF Init, Types, NoCallType, Locations, Free

LEMMA LookupTypes ==
  ASSUME Types, NEW c \in Callers,
         Call(c) \/ ReadLocal(c) \/ ReadCache(c) \/ ReadNegative(c) \/ ReadRaises(c)
  PROVE  Types'
<1>1. CASE Call(c)
  <2>1. Refusals \subseteq Answers
    BY DEF Refusals, Unavailable, Answers, Whats, Outcomes, Types
  <2>2. at' \in [Callers -> Locations]
    BY <1>1, GotoType DEF Call, Locations
  <2>3. call' \in [Callers -> [since: Int, holds: Int, tries: Int, wake: Int, got: Answers]]
    BY <1>1, <2>1 DEF Call, Types
  <2> QED
    BY <1>1, <2>2, <2>3 DEF Call, Types, caches
<1>2. CASE ReadLocal(c)
  <2>1. Plain(local[Home[c]]) \in Answers
    BY PlainType, HomeAssumption DEF Types
  <2>2. at' \in [Callers -> Locations]
        /\ call' \in [Callers -> [since: Int, holds: Int, tries: Int, wake: Int, got: Answers]]
    BY <1>2, <2>1, CachedType, GotoType DEF ReadLocal, Locations, Types
  <2> QED
    BY <1>2, <2>2 DEF ReadLocal, Types, caches
<1>3. CASE ReadCache(c)
  <2>1. Plain(entry) \in Answers
    BY PlainType DEF Types
  <2>2. at' \in [Callers -> Locations]
        /\ call' \in [Callers -> [since: Int, holds: Int, tries: Int, wake: Int, got: Answers]]
    BY <1>3, <2>1, CachedType, GotoType DEF ReadCache, Locations, Types
  <2>3. Localized(c, entry) \in [Processes -> Entries]
    BY LocalizedType DEF Types, Entries
  <2>4. local' \in [Processes -> Entries]
    BY <1>3, <2>3 DEF ReadCache, Types
  <2> QED
    BY <1>3, <2>2, <2>4 DEF ReadCache, Types
<1>4. CASE ReadNegative(c)
  <2>1. Plain(negative) \in Answers
    BY PlainType DEF Types
  <2>2. at' \in [Callers -> Locations]
        /\ call' \in [Callers -> [since: Int, holds: Int, tries: Int, wake: Int, got: Answers]]
    BY <1>4, <2>1, CachedType, MissedType DEF ReadNegative
  <2> QED
    BY <1>4, <2>2 DEF ReadNegative, Types, caches
<1>5. CASE ReadRaises(c)
  <2>1. at' \in [Callers -> Locations]
        /\ call' \in [Callers -> [since: Int, holds: Int, tries: Int, wake: Int, got: Answers]]
    BY <1>5, MissedType, GotoType DEF ReadRaises, Locations, Types
  <2> QED
    BY <1>5, <2>1 DEF ReadRaises, Types, caches
<1> QED
  BY <1>1, <1>2, <1>3, <1>4, <1>5

LEMMA LockTypes ==
  ASSUME Types, NEW c \in Callers, TakeLock(c) \/ GoUnlocked(c) \/ Release(c)
  PROVE  Types'
<1>1. CASE TakeLock(c)
  <2>1. at' \in [Callers -> Locations]
    BY <1>1, GotoType DEF TakeLock, Locations
  <2>2. call' \in [Callers -> [since: Int, holds: Int, tries: Int, wake: Int, got: Answers]]
    <3>1. call' = [call EXCEPT ![c] = [call[c] EXCEPT !.holds = now, !.wake = Never]]
      BY <1>1 DEF TakeLock, Types
    <3>2. [call[c] EXCEPT !.holds = now, !.wake = Never]
            \in [since: Int, holds: Int, tries: Int, wake: Int, got: Answers]
      <4>1. call[c] \in [since: Int, holds: Int, tries: Int, wake: Int, got: Answers]
        BY DEF Types
      <4>2. now \in Int /\ Never \in Int
        BY DEF Types
      <4> HIDE DEF Never
      <4> QED
        BY <4>1, <4>2
    <3> QED
      BY <3>1, <3>2 DEF Types
  <2>3. lock' \in [by: Callers \cup {Nobody}, until: Int]
    BY <1>1, TimeAssumption DEF TakeLock, Types
  <2> QED
    BY <1>1, <2>1, <2>2, <2>3 DEF TakeLock, Types, caches
<1>2. CASE GoUnlocked(c)
  <2>1. at' \in [Callers -> Locations]
    BY <1>2, GotoType DEF GoUnlocked, Locations
  <2> QED
    BY <1>2, <2>1 DEF GoUnlocked, Types, caches
<1>3. CASE Release(c)
  <2>1. lock' \in [by: Callers \cup {Nobody}, until: Int]
    BY <1>3 DEF Release, Unlocked, Free, Types
  <2>2. at' \in [Callers -> Locations]
    BY <1>3, GotoType DEF Release, Return, Locations
  <2>3. call' \in [Callers -> [since: Int, holds: Int, tries: Int, wake: Int, got: Answers]]
    BY <1>3, NoCallIsCall DEF Release, Return, Types, NoCallType
  <2> QED
    BY <1>3, <2>1, <2>2, <2>3 DEF Release, Return, Types, caches
<1> QED
  BY <1>1, <1>2, <1>3

LEMMA ReturnTypes ==
  ASSUME Types, NEW c \in Callers, Return(c, "answered"), UNCHANGED lock
  PROVE  Types'
<1>1. at' \in [Callers -> Locations]
  BY GotoType DEF Return, Locations
<1>2. call' \in [Callers -> [since: Int, holds: Int, tries: Int, wake: Int, got: Answers]]
  BY NoCallIsCall DEF Return, Types, NoCallType
<1> QED
  BY <1>1, <1>2 DEF Return, Types, caches

LEMMA StoreTypes ==
  ASSUME Types, NEW c \in Callers, Store(c)
  PROVE  Types'
<1>1. at' \in [Callers -> Locations]
  BY OverType DEF Store
<1>2. call[c].got.what \in Whats /\ call[c].got.made \in Int
  BY DEF Types, Answers
<1>3. entry' \in Entries /\ negative' \in Entries /\ local' \in [Processes -> Entries]
  <2>1. CASE Stored(c) /\ call[c].got.what = "none"
    BY <2>1, <1>2, KeptType, TimeAssumption DEF Stored, Types
  <2>2. CASE Stored(c) /\ call[c].got.what # "none"
    <3>1. \E ttl \in (CacheTTL - Jitter)..(CacheTTL + Jitter):
             entry' = Kept(call[c].got, ttl)
      BY <2>2 DEF Stored
    <3>2. CacheTTL \in Int /\ Jitter \in Int
      BY TimeAssumption
    <3>3. entry' \in Entries
      BY <3>1, <3>2, <1>2, KeptType
    <3>4. local' \in [Processes -> Entries]
      BY <2>2, <1>2, LocalizedType DEF Stored
    <3> QED
      BY <2>2, <3>3, <3>4 DEF Stored, Types
  <2>3. CASE UNCHANGED caches
    BY <2>3 DEF caches, Types
  <2> QED
    BY <2>1, <2>2, <2>3 DEF Store
<1> QED
  BY <1>1, <1>3 DEF Store, Types

LEMMA AttemptTypes ==
  ASSUME Types, NEW c \in Callers,
         BuiltIn(c) \/ Begin(c) \/ Succeed(c) \/ TimeOut(c) \/ Resume(c)
  PROVE  Types'
<1> DEFINE Calls == [Callers -> [since: Int, holds: Int, tries: Int, wake: Int, got: Answers]]
<1>1. CASE BuiltIn(c)
  <2>1. at' \in [Callers -> Locations] /\ call' \in Calls
    BY <1>1, GotType DEF BuiltIn, Whats, Outcomes
  <2> QED
    BY <1>1, <2>1 DEF BuiltIn, Types, caches
<1>2. CASE Begin(c)
  <2>1. at' \in [Callers -> Locations]
    BY <1>2, GotoType DEF Begin, Locations
  <2>2. call' \in Calls
    <3>1. call' = [call EXCEPT ![c] =
                     [call[c] EXCEPT !.tries = call[c].tries + 1, !.wake = now + Timeout]]
      BY <1>2 DEF Begin, Types
    <3>2. [call[c] EXCEPT !.tries = call[c].tries + 1, !.wake = now + Timeout]
            \in [since: Int, holds: Int, tries: Int, wake: Int, got: Answers]
      <4>1. call[c] \in [since: Int, holds: Int, tries: Int, wake: Int, got: Answers]
        BY DEF Types
      <4>2. call[c].tries + 1 \in Int /\ now + Timeout \in Int
        BY TimeAssumption DEF Types
      <4> QED
        BY <4>1, <4>2
    <3> QED
      BY <3>1, <3>2 DEF Types
  <2> QED
    BY <1>2, <2>1, <2>2 DEF Begin, Types, caches
<1>3. CASE Succeed(c)
  <2>1. at' \in [Callers -> Locations] /\ call' \in Calls
    BY <1>3, GotType, AttemptOutcomes DEF Succeed, Whats
  <2> QED
    BY <1>3, <2>1 DEF Succeed, Types, caches
<1>4. CASE TimeOut(c)
  <2>1. CASE Retried(c)
    <3>1. at' \in [Callers -> Locations]
      BY <1>4, <2>1, GotoType DEF TimeOut, Locations
    <3>2. 2 ^ (call[c].tries - 1) \in Int
      BY DEF Types
    <3>3. call' = [call EXCEPT ![c].wake = now + 2 ^ (call[c].tries - 1)]
      BY <1>4, <2>1 DEF TimeOut
    <3>4. call' \in Calls
      BY <3>2, <3>3 DEF Types
    <3> QED
      BY <1>4, <3>1, <3>4 DEF TimeOut, Types, caches
  <2>2. CASE ~Retried(c)
    <3>1. at' \in [Callers -> Locations] /\ call' \in Calls
      BY <1>4, <2>2, GotType DEF TimeOut, Whats
    <3> QED
      BY <1>4, <3>1 DEF TimeOut, Types, caches
  <2> QED
    BY <2>1, <2>2
<1>5. CASE Resume(c)
  <2>1. at' \in [Callers -> Locations]
    BY <1>5, GotoType DEF Resume, Locations
  <2> QED
    BY <1>5, <2>1 DEF Resume, Types, caches
<1> QED
  BY <1>1, <1>2, <1>3, <1>4, <1>5

LEMMA DisturbedTypes ==
  ASSUME Types,
         \/ \E c \in Callers: Cancel(c) \/ LockRaises(c)
         \/ \E p \in Processes: Crash(p)
         \/ Tick \/ UNCHANGED vars
  PROVE  Types'
<1> DEFINE Calls == [Callers -> [since: Int, holds: Int, tries: Int, wake: Int, got: Answers]]
<1>1. ASSUME NEW c \in Callers, Cancel(c) \/ LockRaises(c) PROVE Types'
  <2>1. at' \in [Callers -> Locations]
    BY <1>1, GotoType DEF Cancel, LockRaises, GiveUp, Locations
  <2>2. [call EXCEPT ![c].got = Nothing] \in Calls
    BY DEF Nothing, Answers, Whats, Types
  <2>3. [call EXCEPT ![c] = NoCall] \in Calls
    BY NoCallIsCall DEF NoCallType, Types
  <2> QED
    BY <1>1, <2>1, <2>2, <2>3 DEF Cancel, LockRaises, GiveUp, Types, caches
<1>2. ASSUME NEW p \in Processes, Crash(p) PROVE Types'
  <2>1. at' \in [Callers -> Locations]
    BY <1>2 DEF Crash, Locations, Types
  <2>2. call' \in Calls
    BY <1>2, NoCallIsCall DEF Crash, NoCallType, Types
  <2>3. local' \in [Processes -> Entries]
    BY <1>2, EmptyIsEntry DEF Crash, Types
  <2> QED
    BY <1>2, <2>1, <2>2, <2>3 DEF Crash, Types
<1>3. CASE Tick
  <2>1. ASSUME NEW e \in Entries PROVE Alive(e) \in Entries
    BY <2>1, EmptyIsEntry DEF Alive
  <2>2. entry' \in Entries /\ negative' \in Entries /\ local' \in [Processes -> Entries]
    BY <1>3, <2>1 DEF Tick, Types
  <2>3. lock' \in [by: Callers \cup {Nobody}, until: Int]
    BY <1>3 DEF Tick, Free, Types
  <2> QED
    BY <1>3, <2>2, <2>3 DEF Tick, Types
<1>4. CASE UNCHANGED vars
  BY <1>4 DEF vars, caches, Types
<1> QED
  BY <1>1, <1>2, <1>3, <1>4

LEMMA TypesStep == Types /\ [Next]_vars => Types'
<1> SUFFICES ASSUME Types, [Next]_vars PROVE Types'
  OBVIOUS
<1>1. ASSUME NEW c \in Callers, Step(c) PROVE Types'
  <2>1. CASE Call(c) \/ ReadLocal(c) \/ ReadCache(c) \/ ReadNegative(c) \/ ReadRaises(c)
    BY <2>1, LookupTypes
  <2>2. CASE TakeLock(c) \/ GoUnlocked(c) \/ Release(c)
    BY <1>1, <2>2, LockTypes
  <2>3. CASE Return(c, "answered") /\ UNCHANGED <<lock, used>>
    BY <2>3, ReturnTypes
  <2>4. CASE BuiltIn(c) \/ Begin(c) \/ Succeed(c) \/ TimeOut(c) \/ Resume(c)
    BY <2>4, AttemptTypes
  <2>5. CASE Store(c)
    BY <2>5, StoreTypes
  <2>6. CASE Cancel(c) \/ LockRaises(c)
    BY <2>6, DisturbedTypes
  <2> QED
    BY <1>1, <2>1, <2>2, <2>3, <2>4, <2>5, <2>6 DEF Step
<1> QED
  BY <1>1, DisturbedTypes DEF Next

(* Every variable that the properties read keeps its type, whatever the    *)
(* sources reply to an attempt and in whatever order the callers move.     *)
THEOREM TypeCorrect == Spec => []Types
BY TypesInit, TypesStep, PTL DEF Spec

-----------------------------------------------------------------------------
(* The lock of the entry. *)

LEMMA LocksInit == Init => Locks /\ HoldersExclude
BY DEF Init, Locks, HoldersExclude, Holding, NoCall

(* Everything but taking and releasing leaves the lock alone, or frees it  *)
(* when its time is over; and nobody comes to believe it holds it.         *)
LockKept ==
  /\ lock' = lock
  /\ now' = now
  /\ \A c \in Callers: Holding(c)' => Holding(c) /\ call'[c].holds = call[c].holds

LEMMA KeepsLocks ==
  ASSUME Types, Locks, HoldersExclude, LockKept
  PROVE  Locks' /\ HoldersExclude'
BY DEF LockKept, Locks, HoldersExclude, Holding

(* One call changes, and not when it began to hold the lock.               *)
LEMMA OneCallKeepsLocks ==
  ASSUME Types, NEW c \in Callers, lock' = lock, now' = now,
         NEW d, call' = [call EXCEPT ![c] = d], d.holds \in {Never, call[c].holds}
  PROVE  LockKept
BY DEF LockKept, Holding, Types

LEMMA CachedKeepsLocks ==
  ASSUME Types, NEW c \in Callers, NEW a, Cached(c, a), lock' = lock, now' = now
  PROVE  LockKept
<1>1. call' = [call EXCEPT ![c] = [call[c] EXCEPT !.got = a]]
  BY DEF Cached, Types
<1>2. [call[c] EXCEPT !.got = a].holds = call[c].holds
  BY DEF Types
<1> QED
  BY <1>1, <1>2, OneCallKeepsLocks

LEMMA MissedKeepsLocks ==
  ASSUME Types, NEW c \in Callers, Missed(c), lock' = lock, now' = now
  PROVE  LockKept
<1> DEFINE w == IF Holding(c) THEN Never ELSE now + LockWait
<1>1. call' = [call EXCEPT ![c] = [call[c] EXCEPT !.wake = w]]
  BY DEF Missed, Types
<1> HIDE DEF w
<1>2. [call[c] EXCEPT !.wake = w].holds = call[c].holds
  BY DEF Types
<1> QED
  BY <1>1, <1>2, OneCallKeepsLocks

LEMMA GotKeepsLocks ==
  ASSUME Types, NEW c \in Callers, NEW what, Got(c, what), lock' = lock, now' = now
  PROVE  LockKept
<1> DEFINE a == [what |-> what, made |-> now]
<1>1. call' = [call EXCEPT ![c] = [call[c] EXCEPT !.got = a, !.wake = Never]]
  BY DEF Got, Types
<1> HIDE DEF a
<1>2. [call[c] EXCEPT !.got = a, !.wake = Never].holds = call[c].holds
  BY DEF Types
<1> QED
  BY <1>1, <1>2, OneCallKeepsLocks

LEMMA LookupsKeepLocks ==
  ASSUME Types, NEW c \in Callers,
         \/ Call(c) \/ ReadLocal(c) \/ ReadCache(c) \/ ReadNegative(c) \/ ReadRaises(c)
         \/ BuiltIn(c) \/ Begin(c) \/ Succeed(c) \/ TimeOut(c) \/ Resume(c) \/ Store(c)
         \/ GoUnlocked(c)
  PROVE  LockKept
<1>1. CASE Call(c)
  <2>1. lock' = lock /\ now' = now
    BY <1>1 DEF Call
  <2>2. \A d \in Callers: call'[d].holds = call[d].holds
    BY <1>1 DEF Call, Types
  <2> QED
    BY <2>1, <2>2 DEF LockKept, Holding
<1>2. CASE ReadLocal(c)
  BY <1>2, CachedKeepsLocks DEF ReadLocal, LockKept, Holding
<1>3. CASE ReadCache(c)
  BY <1>3, CachedKeepsLocks DEF ReadCache, LockKept, Holding
<1>4. CASE ReadNegative(c)
  BY <1>4, CachedKeepsLocks, MissedKeepsLocks DEF ReadNegative
<1>5. CASE ReadRaises(c)
  BY <1>5, MissedKeepsLocks DEF ReadRaises, LockKept, Holding
<1>6. CASE BuiltIn(c) \/ Succeed(c)
  BY <1>6, GotKeepsLocks DEF BuiltIn, Succeed
<1>7. CASE Begin(c)
  <2>1. \A d \in Callers: call'[d].holds = call[d].holds
    BY <1>7 DEF Begin, Types
  <2> QED
    BY <1>7, <2>1 DEF Begin, LockKept, Holding
<1>8. CASE TimeOut(c)
  <2>1. CASE Retried(c)
    <3> DEFINE w == now + 2 ^ (call[c].tries - 1)
    <3>1. call' = [call EXCEPT ![c] = [call[c] EXCEPT !.wake = w]]
      BY <1>8, <2>1 DEF TimeOut, Types
    <3> HIDE DEF w
    <3>2. [call[c] EXCEPT !.wake = w].holds = call[c].holds
      BY DEF Types
    <3> QED
      BY <1>8, <3>1, <3>2, OneCallKeepsLocks DEF TimeOut
  <2>2. CASE ~Retried(c)
    BY <1>8, <2>2, GotKeepsLocks DEF TimeOut
  <2> QED
    BY <2>1, <2>2
<1>9. CASE Resume(c) \/ Store(c) \/ GoUnlocked(c)
  BY <1>9 DEF Resume, Store, GoUnlocked, LockKept, Holding
<1> QED
  BY <1>1, <1>2, <1>3, <1>4, <1>5, <1>6, <1>7, <1>8, <1>9

(* Whoever takes the lock finds it free, or its holder beyond its time.    *)
LEMMA TakingKeepsLocks ==
  ASSUME Types, Locks, HoldersExclude, NEW c \in Callers, TakeLock(c)
  PROVE  Locks' /\ HoldersExclude'
<1>1. /\ lock' = [by |-> c, until |-> now + LockTTL] /\ now' = now
      /\ call'[c].holds = now
      /\ \A d \in Callers \ {c}: call'[d] = call[d]
  BY DEF TakeLock, Types
<1>2. \A d \in Callers: Holding(d) => now >= call[d].holds + LockTTL
  BY TimeAssumption, CallersAssumption DEF TakeLock, Locked, Locks, Types
<1>3. LockTTL \in Nat \ {0}
  BY TimeAssumption
<1>4. Locks'
  BY <1>1, <1>2, <1>3 DEF Locks, Holding, Types
<1>5. ASSUME NEW a \in Callers, NEW b \in Callers, a # b, Holding(a)', Holding(b)',
             call'[a].holds <= call'[b].holds
      PROVE  call'[b].holds - call'[a].holds >= LockTTL
  <2>1. CASE a = c
    BY <1>1, <1>2, <1>3, <1>5, <2>1 DEF Holding, Types
  <2>2. CASE b = c
    BY <1>1, <1>2, <1>3, <1>5, <2>2 DEF Holding, Types
  <2>3. CASE a # c /\ b # c
    BY <1>1, <1>5, <2>3 DEF Holding, HoldersExclude
  <2> QED
    BY <2>1, <2>2, <2>3
<1> QED
  BY <1>4, <1>5 DEF HoldersExclude

(* A release frees the lock of the one who releases it, if any.            *)
LEMMA ReleasingKeepsLocks ==
  ASSUME Types, Locks, HoldersExclude, NEW c \in Callers,
         Release(c) \/ (Return(c, "answered") /\ UNCHANGED lock) \/ Cancel(c) \/ LockRaises(c)
  PROVE  Locks' /\ HoldersExclude'
<1>1. /\ now' = now
      /\ \/ lock' = lock
         \/ lock.by = c /\ ~Holding(c)'
  BY DEF Release, Return, Unlocked, Cancel, LockRaises, GiveUp, Holding, NoCall, Types
<1>2. \A d \in Callers: Holding(d)' => Holding(d) /\ call'[d].holds = call[d].holds
  BY DEF Release, Return, Cancel, LockRaises, GiveUp, Holding, NoCall, Types
<1> QED
  BY <1>1, <1>2 DEF Locks, HoldersExclude, Holding, Types

LEMMA TimeKeepsLocks ==
  ASSUME Types, Locks, HoldersExclude,
         Tick \/ (\E p \in Processes: Crash(p)) \/ UNCHANGED vars
  PROVE  Locks' /\ HoldersExclude'
<1>1. CASE Tick
  <2>1. now' = now + 1 /\ call' = call /\ lock' = IF now + 1 < lock.until THEN lock ELSE Free
    BY <1>1 DEF Tick
  <2> QED
    BY <2>1, TimeAssumption DEF Locks, HoldersExclude, Holding, Types
<1>2. ASSUME NEW p \in Processes, Crash(p) PROVE LockKept
  BY <1>2 DEF Crash, LockKept, Holding, NoCall, Types
<1>3. CASE UNCHANGED vars
  BY <1>3, KeepsLocks DEF vars, LockKept, Holding
<1> QED
  BY <1>1, <1>2, <1>3, KeepsLocks

LInv == Types /\ Locks /\ HoldersExclude

LEMMA LocksStep == LInv /\ [Next]_vars => LInv'
<1> SUFFICES ASSUME LInv, [Next]_vars PROVE Locks' /\ HoldersExclude'
  BY TypesStep DEF LInv
<1> USE DEF LInv
<1>1. ASSUME NEW c \in Callers, Step(c) PROVE Locks' /\ HoldersExclude'
  <2>1. CASE LockKept
    BY <2>1, KeepsLocks
  <2>2. CASE TakeLock(c)
    BY <2>2, TakingKeepsLocks
  <2>3. CASE Release(c) \/ Cancel(c) \/ LockRaises(c)
    BY <2>3, ReleasingKeepsLocks
  <2>4. CASE Return(c, "answered") /\ UNCHANGED <<lock, used>>
    BY <2>4, ReleasingKeepsLocks
  <2> QED
    BY <1>1, <2>1, <2>2, <2>3, <2>4, LookupsKeepLocks DEF Step
<1> QED
  BY <1>1, TimeKeepsLocks DEF Next

(* Two callers believe they hold the lock of an entry only when one has    *)
(* held it beyond its time to live (tools/base.py:141), for any callers,   *)
(* processes, failing commands, cancellations and crashes.                 *)
THEOREM HoldersAreExclusive == Spec => []HoldersExclude
<1>1. Init => LInv
  BY TypesInit, LocksInit DEF LInv
<1>2. LInv => HoldersExclude
  BY DEF LInv
<1> QED
  BY <1>1, <1>2, LocksStep, PTL DEF Spec

-----------------------------------------------------------------------------
(* The age of answers. *)

FInv == Types /\ CachesFresh /\ StoresFresh /\ AnswersFresh

(* What a look into a cache finds is young enough to be an answer.         *)
Young(a) == now - a.made < (IF a.what = "none" THEN NegativeTTL ELSE Life)

LEMMA CachesAreYoung ==
  ASSUME Types, CachesFresh
  PROVE  /\ Present(entry) => Young(entry)
         /\ Present(negative) => Young(negative)
         /\ \A p \in Processes: Present(local[p]) => Young(local[p])
<1>1. CacheTTL \in Nat /\ Jitter \in Nat /\ NegativeTTL \in Nat /\ LocalTTL \in Nat
  BY TimeAssumption
<1> QED
  BY <1>1 DEF Types, CachesFresh, Present, Young, Life, Entries

LEMMA NewIsYoung ==
  ASSUME Types, NEW a, a.made = now
  PROVE  Young(a)
<1>1. CacheTTL \in Nat \ {0} /\ Jitter \in Nat /\ NegativeTTL \in Nat \ {0} /\ LocalTTL \in Nat
  BY TimeAssumption
<1> QED
  BY <1>1 DEF Types, Young, Life

LEMMA FreshInit == Init => CachesFresh /\ StoresFresh /\ AnswersFresh
BY TimeAssumption DEF Init, CachesFresh, StoresFresh, AnswersFresh, Empty, Life

(* The call of d: what it has is as young as before, or new, or found now. *)
StillYoung(d) ==
  /\ at'[d] = "store" =>
       \/ call'[d].got.made = now
       \/ at[d] = "store" /\ call'[d].got = call[d].got
  /\ at'[d] \in {"answered", "release"} =>
       \/ call'[d].got = Nothing \/ Young(call'[d].got)
       \/ at[d] \in {"answered", "release"} /\ call'[d].got = call[d].got

LEMMA YoungStays ==
  ASSUME FInv, now' = now, \A d \in Callers: StillYoung(d)
  PROVE  StoresFresh' /\ AnswersFresh'
BY DEF FInv, StoresFresh, AnswersFresh, StillYoung, Young, Life

(* Only the call of c moves.                                               *)
LEMMA OneCallStays ==
  ASSUME FInv, NEW c \in Callers, now' = now, StillYoung(c),
         \A d \in Callers \ {c}: at'[d] = at[d] /\ call'[d] = call[d]
  PROVE  StoresFresh' /\ AnswersFresh'
<1>1. \A d \in Callers: StillYoung(d)
  BY DEF StillYoung
<1> QED
  BY <1>1, YoungStays

Alone(c) == \A d \in Callers \ {c}: at'[d] = at[d] /\ call'[d] = call[d]

LEMMA CachedYoung ==
  ASSUME Types, NEW c \in Callers, NEW a, Young(a), Cached(c, a)
  PROVE  StillYoung(c) /\ Alone(c)
<1>1. call'[c].got = a
  BY DEF Cached, Types
<1>2. at'[c] \in {"release", "answered"}
  BY DEF Cached, Over, Goto, Types
<1>3. Alone(c)
  BY DEF Cached, Over, Goto, Alone, Types
<1> QED
  BY <1>1, <1>2, <1>3 DEF StillYoung

LEMMA MissedYoung ==
  ASSUME Types, NEW c \in Callers, Missed(c)
  PROVE  StillYoung(c) /\ Alone(c)
BY DEF Missed, Goto, StillYoung, Alone, Types

LEMMA GotYoung ==
  ASSUME Types, NEW c \in Callers, NEW what, Got(c, what)
  PROVE  StillYoung(c) /\ Alone(c)
<1>1. call'[c].got.made = now
  BY DEF Got, Types
<1>2. at'[c] = "store" /\ Alone(c)
  BY DEF Got, Goto, Alone, Types
<1> QED
  BY <1>1, <1>2 DEF StillYoung

LEMMA LookupsYoung ==
  ASSUME FInv, NEW c \in Callers,
         Call(c) \/ ReadLocal(c) \/ ReadCache(c) \/ ReadNegative(c) \/ ReadRaises(c)
  PROVE  StoresFresh' /\ AnswersFresh'
<1> USE DEF FInv
<1>1. now' = now
  BY DEF Call, ReadLocal, ReadCache, ReadNegative, ReadRaises
<1>2. CASE Call(c)
  <2>1. Alone(c)
    BY <1>2 DEF Call, Goto, Alone, Types
  <2>2. \/ at'[c] = "local"
        \/ at'[c] = "answered" /\ call'[c].got.made = now
    BY <1>2 DEF Call, Goto, Refusals, Unavailable, Types
  <2>3. StillYoung(c)
    BY <2>2, NewIsYoung DEF StillYoung
  <2> QED
    BY <1>1, <2>1, <2>3, OneCallStays DEF Alone
<1>3. CASE ReadLocal(c)
  <2>1. CASE Present(local[Home[c]])
    <3>1. Young(Plain(local[Home[c]]))
      BY <2>1, CachesAreYoung, HomeAssumption DEF Young, Plain
    <3> QED
      BY <1>1, <1>3, <2>1, <3>1, CachedYoung, OneCallStays DEF ReadLocal, Alone
  <2>2. CASE ~Present(local[Home[c]])
    <3>1. StillYoung(c) /\ Alone(c)
      BY <1>3, <2>2 DEF ReadLocal, Goto, StillYoung, Alone, Types
    <3> QED
      BY <1>1, <3>1, OneCallStays DEF Alone
  <2> QED
    BY <2>1, <2>2
<1>4. CASE ReadCache(c)
  <2>1. CASE Present(entry)
    <3>1. Young(Plain(entry))
      BY <2>1, CachesAreYoung DEF Young, Plain
    <3> QED
      BY <1>1, <1>4, <2>1, <3>1, CachedYoung, OneCallStays DEF ReadCache, Alone
  <2>2. CASE ~Present(entry)
    <3>1. StillYoung(c) /\ Alone(c)
      BY <1>4, <2>2 DEF ReadCache, Goto, StillYoung, Alone, Types
    <3> QED
      BY <1>1, <3>1, OneCallStays DEF Alone
  <2> QED
    BY <2>1, <2>2
<1>5. CASE ReadNegative(c)
  <2>1. Present(negative) => Young(Plain(negative))
    BY CachesAreYoung DEF Young, Plain
  <2>2. StillYoung(c) /\ Alone(c)
    BY <1>5, <2>1, CachedYoung, MissedYoung DEF ReadNegative
  <2> QED
    BY <1>1, <2>2, OneCallStays DEF Alone
<1>6. CASE ReadRaises(c)
  <2>1. StillYoung(c) /\ Alone(c)
    BY <1>6, MissedYoung DEF ReadRaises, Goto, StillYoung, Alone, Types
  <2> QED
    BY <1>1, <2>1, OneCallStays DEF Alone
<1> QED
  BY <1>2, <1>3, <1>4, <1>5, <1>6

LEMMA AttemptsYoung ==
  ASSUME FInv, NEW c \in Callers,
         \/ BuiltIn(c) \/ Begin(c) \/ Succeed(c) \/ TimeOut(c) \/ Resume(c) \/ Store(c)
         \/ TakeLock(c) \/ GoUnlocked(c) \/ Release(c)
         \/ (Return(c, "answered") /\ UNCHANGED lock)
         \/ Cancel(c) \/ LockRaises(c)
  PROVE  StoresFresh' /\ AnswersFresh'
<1> USE DEF FInv
<1>1. now' = now
  BY DEF BuiltIn, Begin, Succeed, TimeOut, Resume, Store, TakeLock, GoUnlocked, Release, Return,
         Cancel, LockRaises, GiveUp
<1>2. CASE BuiltIn(c) \/ Succeed(c)
  BY <1>1, <1>2, GotYoung, OneCallStays DEF BuiltIn, Succeed, Alone
<1>3. CASE Begin(c) \/ Resume(c) \/ TakeLock(c) \/ GoUnlocked(c) \/ Release(c)
           \/ (Return(c, "answered") /\ UNCHANGED lock)
  <2>1. at'[c] \in {"attempt", "begin", "local", "idle"}
    BY <1>3 DEF Begin, Resume, TakeLock, GoUnlocked, Release, Return, Goto, Types
  <2>2. Alone(c)
    BY <1>3 DEF Begin, Resume, TakeLock, GoUnlocked, Release, Return, Goto, Alone, Types
  <2> QED
    BY <1>1, <2>1, <2>2, OneCallStays DEF StillYoung, Alone
<1>4. CASE TimeOut(c)
  <2>1. CASE Retried(c)
    <3>1. StillYoung(c) /\ Alone(c)
      BY <1>4, <2>1 DEF TimeOut, Goto, StillYoung, Alone, Types
    <3> QED
      BY <1>1, <3>1, OneCallStays DEF Alone
  <2>2. CASE ~Retried(c)
    BY <1>1, <1>4, <2>2, GotYoung, OneCallStays DEF TimeOut, Alone
  <2> QED
    BY <2>1, <2>2
<1>5. CASE Store(c)
  <2>1. Young(call[c].got)
    BY <1>5, NewIsYoung DEF Store, StoresFresh
  <2>2. call' = call /\ at'[c] # "store" /\ Alone(c)
    BY <1>5 DEF Store, Over, Goto, Alone, Types
  <2> QED
    BY <1>1, <2>1, <2>2, OneCallStays DEF StillYoung, Alone
<1>6. CASE Cancel(c) \/ LockRaises(c)
  <2>1. at'[c] = "idle" \/ (at'[c] = "release" /\ call'[c].got = Nothing)
    <3>1. CASE Goto(c, "release") /\ call' = [call EXCEPT ![c].got = Nothing]
      <4>1. call'[c].got = Nothing
        BY <3>1 DEF Types
      <4> QED
        BY <3>1, <4>1 DEF Goto, Types
    <3>2. CASE Goto(c, "idle")
      <4>1. at'[c] = "idle"
        BY <3>2 DEF Goto, Types
      <4> QED
        BY <4>1
    <3> QED
      BY <1>6, <3>1, <3>2 DEF Cancel, LockRaises, GiveUp
  <2>2. Alone(c)
    BY <1>6 DEF Cancel, LockRaises, GiveUp, Goto, Alone, Types
  <2> QED
    BY <1>1, <2>1, <2>2, OneCallStays DEF StillYoung, Alone
<1> QED
  BY <1>2, <1>3, <1>4, <1>5, <1>6

(* Time passes only while nobody has an answer in hand.                    *)
LEMMA TimeYoung ==
  ASSUME FInv, Tick \/ (\E p \in Processes: Crash(p)) \/ UNCHANGED vars
  PROVE  StoresFresh' /\ AnswersFresh'
<1> USE DEF FInv
<1>1. CASE Tick
  BY <1>1 DEF Tick, Lasting, StoresFresh, AnswersFresh
<1>2. ASSUME NEW p \in Processes, Crash(p) PROVE StoresFresh' /\ AnswersFresh'
  <2>1. now' = now
        /\ \A d \in Callers: at'[d] = "idle" \/ (at'[d] = at[d] /\ call'[d] = call[d])
    BY <1>2 DEF Crash
  <2> QED
    BY <2>1, YoungStays DEF StillYoung
<1>3. CASE UNCHANGED vars
  BY <1>3 DEF vars, StoresFresh, AnswersFresh
<1> QED
  BY <1>1, <1>2, <1>3

-----------------------------------------------------------------------------
(* The caches. *)

LEMMA LocalizedFresh ==
  ASSUME Types, CachesFresh, NEW c \in Callers, NEW e, e.what # "none", e.made \in Int,
         now < e.made + CacheTTL + Jitter, local' = Localized(c, e)
  PROVE  \A p \in Processes: local'[p].what # "none" /\ local'[p].until <= local'[p].made + Life
<1>1. CacheTTL \in Nat /\ Jitter \in Nat /\ LocalTTL \in Nat
  BY TimeAssumption
<1>2. \A p \in Processes: local'[p] = IF p = Home[c] THEN Kept(e, LocalTTL) ELSE local[p]
  BY DEF Localized, Types
<1>3. Kept(e, LocalTTL).what # "none"
      /\ Kept(e, LocalTTL).until <= Kept(e, LocalTTL).made + Life
  BY <1>1 DEF Kept, Life, Types
<1> QED
  BY <1>2, <1>3 DEF CachesFresh

LEMMA CachesStep == FInv /\ [Next]_vars => CachesFresh'
<1> SUFFICES ASSUME FInv, [Next]_vars PROVE CachesFresh'
  OBVIOUS
<1> USE DEF FInv
<1>1. CASE UNCHANGED caches
  BY <1>1 DEF caches, CachesFresh
<1>2. ASSUME NEW c \in Callers, ReadCache(c) PROVE CachesFresh'
  <2>1. CASE Present(entry)
    <3>1. now < entry.made + CacheTTL + Jitter /\ entry.made \in Int
      <4>1. CacheTTL \in Nat /\ Jitter \in Nat
        BY TimeAssumption
      <4> QED
        BY <2>1, <4>1 DEF Present, CachesFresh, Types, Entries
    <3>2. \A p \in Processes: local'[p].what # "none"
                             /\ local'[p].until <= local'[p].made + Life
      BY <1>2, <2>1, <3>1, LocalizedFresh DEF ReadCache, CachesFresh
    <3> QED
      BY <1>2, <3>2 DEF ReadCache, CachesFresh
  <2>2. CASE ~Present(entry)
    BY <1>2, <2>2 DEF ReadCache, CachesFresh
  <2> QED
    BY <2>1, <2>2
<1>3. ASSUME NEW c \in Callers, Store(c), Stored(c) PROVE CachesFresh'
  <2>1. call[c].got.made = now /\ now \in Nat
    BY <1>3 DEF Store, StoresFresh, Types
  <2>2. CacheTTL \in Nat \ {0} /\ Jitter \in Nat /\ NegativeTTL \in Nat
    BY TimeAssumption
  <2>3. CASE call[c].got.what = "none"
    BY <1>3, <2>1, <2>2, <2>3 DEF Stored, Kept, CachesFresh
  <2>4. CASE call[c].got.what # "none"
    <3>1. PICK ttl \in (CacheTTL - Jitter)..(CacheTTL + Jitter): entry' = Kept(call[c].got, ttl)
      BY <1>3, <2>4 DEF Stored
    <3>2. entry'.what # "none" /\ entry'.until <= entry'.made + CacheTTL + Jitter
      BY <2>1, <2>2, <2>4, <3>1 DEF Kept
    <3>3. \A p \in Processes: local'[p].what # "none"
                             /\ local'[p].until <= local'[p].made + Life
      BY <1>3, <2>1, <2>2, <2>4, LocalizedFresh DEF Stored
    <3> QED
      BY <1>3, <2>4, <3>2, <3>3 DEF Stored, CachesFresh
  <2> QED
    BY <2>3, <2>4
<1>4. CASE Tick
  <2>1. ASSUME NEW e \in Entries PROVE Alive(e) = e \/ Alive(e) = Empty
    BY DEF Alive
  <2>2. CacheTTL \in Nat /\ Jitter \in Nat /\ NegativeTTL \in Nat /\ LocalTTL \in Nat
    BY TimeAssumption
  <2>3. entry' \in {entry, Empty} /\ negative' \in {negative, Empty}
        /\ \A p \in Processes: local'[p] \in {local[p], Empty}
    BY <1>4, <2>1 DEF Tick, Types
  <2> QED
    BY <2>2, <2>3 DEF CachesFresh, Empty, Life
<1>5. ASSUME NEW p \in Processes, Crash(p) PROVE CachesFresh'
  <2>1. CacheTTL \in Nat /\ Jitter \in Nat /\ LocalTTL \in Nat
    BY TimeAssumption
  <2>2. \A q \in Processes: local'[q] \in {local[q], Empty}
    BY <1>5 DEF Crash, Types
  <2> QED
    BY <1>5, <2>1, <2>2 DEF Crash, CachesFresh, Empty, Life
<1>6. ASSUME NEW c \in Callers, Step(c), ~UNCHANGED caches
      PROVE  ReadCache(c) \/ (Store(c) /\ Stored(c))
  BY <1>6 DEF Step, Call, ReadLocal, ReadNegative, ReadRaises, TakeLock, GoUnlocked, Release,
             Return, BuiltIn, Begin, Succeed, TimeOut, Resume, Store, Cancel, LockRaises, GiveUp
<1>7. CASE UNCHANGED vars
  BY <1>1, <1>7 DEF vars
<1> QED
  BY <1>1, <1>2, <1>3, <1>4, <1>5, <1>6, <1>7 DEF Next

(* No caller is given an answer older than both caches together keep it,   *)
(* nor a failure older than a failure is kept (tools/base.py:113), in      *)
(* whatever order any number of callers fetch, store and look up.          *)
THEOREM AnswersAreFresh == Spec => []AnswersFresh
<1>1. Init => FInv
  BY TypesInit, FreshInit DEF FInv
<1>2. FInv /\ [Next]_vars => FInv'
  <2> SUFFICES ASSUME FInv, [Next]_vars PROVE StoresFresh' /\ AnswersFresh'
    BY TypesStep, CachesStep DEF FInv
  <2>1. ASSUME NEW c \in Callers, Step(c) PROVE StoresFresh' /\ AnswersFresh'
    <3>1. CASE Call(c) \/ ReadLocal(c) \/ ReadCache(c) \/ ReadNegative(c) \/ ReadRaises(c)
      BY <3>1, LookupsYoung
    <3>2. CASE ~(Call(c) \/ ReadLocal(c) \/ ReadCache(c) \/ ReadNegative(c) \/ ReadRaises(c))
      BY <2>1, <3>2, AttemptsYoung DEF Step
    <3> QED
      BY <3>1, <3>2
  <2> QED
    BY <2>1, TimeYoung DEF Next
<1>3. FInv => AnswersFresh
  BY DEF FInv
<1> QED
  BY <1>1, <1>2, <1>3, PTL DEF Spec

-----------------------------------------------------------------------------
(* The time a call takes. *)

Retries == MaxRetries[kind]

(* A call that has made n attempts, and paused after each, is not older.   *)
Due(n) == LockWait + n * Timeout + 2 ^ n - 1

LEMMA DueGrows ==
  ASSUME Types, NEW n \in 0..Retries
  PROVE  /\ Retries \in Nat /\ Longest \in Nat
         /\ Due(n) \in Nat /\ Due(n) >= LockWait
         /\ Due(n) + Timeout + 2 ^ n = Due(n + 1)
         /\ Due(n) + Timeout <= Longest
<1>1. LockWait \in Nat /\ Timeout \in Nat /\ Retries \in Nat
  BY TimeAssumption, KindAssumption DEF Types, Retries
<1>2. \A m \in 0..Retries: 2 ^ m \in 1..(2 ^ Retries) /\ 2 ^ (m + 1) = 2 * 2 ^ m
  BY PowerAssumption, Zenon DEF Types, Retries
<1>3. n * Timeout \in Nat /\ (n + 1) * Timeout = n * Timeout + Timeout
  BY <1>1
<1>4. n * Timeout <= Retries * Timeout
  BY <1>1
<1>5. (Retries + 1) * Timeout = Retries * Timeout + Timeout /\ Retries * Timeout \in Nat
  BY <1>1
<1>6. 2 ^ Retries \in Nat
  BY <1>1, <1>2
<1>7. Due(n) \in Nat /\ Due(n) >= LockWait /\ Due(n) + Timeout + 2 ^ n = Due(n + 1)
  BY <1>1, <1>2, <1>3, <1>6 DEF Due
<1>8. Longest \in Nat /\ Due(n) + Timeout <= Longest
  BY <1>1, <1>2, <1>3, <1>4, <1>5, <1>6 DEF Due, Longest, Retries
<1> QED
  BY <1>1, <1>7, <1>8

(* How old the call of c may be, where it is.  Nothing lasts on the way to *)
(* the lock, and what lasts ends before the call is due.                   *)
Timely(c) ==
  LET n == call[c].tries
      since == call[c].since
      wake == call[c].wake
  IN /\ at[c] = "idle" => n = 0 /\ ~Holding(c)
     /\ at[c] \in {"local", "cache", "negative"} =>
          n = 0 /\ now <= since + LockWait /\ (~Holding(c) => now = since)
     /\ at[c] = "lock" => n = 0 /\ now <= wake /\ wake <= since + LockWait
     /\ at[c] = "begin" => n \in 0..Retries /\ now <= since + Due(n)
     /\ at[c] = "attempt" =>
          n \in 1..(Retries + 1) /\ now <= wake /\ wake <= since + Due(n - 1) + Timeout
     /\ at[c] = "pause" => n \in 1..Retries /\ now <= wake /\ wake <= since + Due(n)
     /\ at[c] \in {"store", "release", "answered"} => now <= since + Longest

CallsTimely == \A c \in Callers: Timely(c)

TInv == Types /\ CallsTimely

LEMMA TimelyInit == Init => CallsTimely
BY DEF Init, CallsTimely, Timely, NoCall, Holding

(* Only the call of c moves, within a moment.                              *)
Moves(c) ==
  /\ now' = now /\ kind' = kind
  /\ Alone(c)

LEMMA OneCallTimely ==
  ASSUME TInv, NEW c \in Callers, Moves(c), Timely(c)'
  PROVE  CallsTimely'
BY DEF TInv, CallsTimely, Timely, Moves, Alone, Holding, Retries, Longest

LEMMA OverTimely ==
  ASSUME TInv, NEW c \in Callers, Over(c), now' = now, kind' = kind,
         call'[c].since = call[c].since, now <= call[c].since + Longest
  PROVE  Timely(c)'
<1>1. at'[c] \in {"release", "answered"}
  BY DEF Over, Goto, TInv, Types
<1> QED
  BY <1>1 DEF Timely, Longest

LEMMA CachedTimely ==
  ASSUME TInv, NEW c \in Callers, NEW a, Cached(c, a), now' = now, kind' = kind,
         at[c] \in {"local", "cache", "negative"}
  PROVE  Moves(c) /\ Timely(c)'
<1>1. call'[c].since = call[c].since
  BY DEF Cached, TInv, Types
<1>2. now <= call[c].since + Longest
  <2>1. now <= call[c].since + LockWait
    BY DEF TInv, CallsTimely, Timely
  <2>2. 0 \in 0..Retries
    BY KindAssumption DEF TInv, Types, Retries
  <2>3. Due(0) + Timeout <= Longest /\ Due(0) >= LockWait /\ Due(0) \in Nat /\ Longest \in Nat
    BY <2>2, DueGrows DEF TInv
  <2> QED
    BY <2>1, <2>3, TimeAssumption DEF TInv, Types
<1>3. Timely(c)'
  BY <1>1, <1>2, OverTimely DEF Cached
<1>4. Moves(c)
  BY DEF Cached, Over, Goto, Moves, Alone, TInv, Types
<1> QED
  BY <1>3, <1>4

LEMMA MissedTimely ==
  ASSUME TInv, NEW c \in Callers, Missed(c), now' = now, kind' = kind, at[c] = "negative"
  PROVE  Moves(c) /\ Timely(c)'
<1> DEFINE w == IF Holding(c) THEN Never ELSE now + LockWait
<1>1. /\ call'[c].since = call[c].since
      /\ call'[c].tries = call[c].tries /\ call'[c].holds = call[c].holds
      /\ call'[c].wake = w
      /\ at'[c] = IF Holding(c) THEN "begin" ELSE "lock"
  BY DEF Missed, Goto, TInv, Types
<1>2. call[c].tries = 0 /\ now <= call[c].since + LockWait /\ (~Holding(c) => now = call[c].since)
  BY DEF TInv, CallsTimely, Timely
<1>3. 0 \in 0..Retries /\ LockWait \in Nat
  BY KindAssumption, TimeAssumption DEF TInv, Types, Retries
<1>4. Due(0) >= LockWait /\ Due(0) \in Nat
  BY <1>3, DueGrows DEF TInv
<1>5. now \in Nat /\ call[c].since \in Int
  BY DEF TInv, Types
<1>6. Due(0)' = Due(0) /\ Retries' = Retries
  BY DEF Due, Retries
<1>7. Moves(c)
  BY DEF Missed, Goto, Moves, Alone, TInv, Types
<1>8. CASE Holding(c)
  BY <1>1, <1>2, <1>3, <1>4, <1>5, <1>6, <1>7, <1>8 DEF Timely, Holding
<1>9. CASE ~Holding(c)
  BY <1>1, <1>2, <1>3, <1>5, <1>7, <1>9 DEF Timely, Holding
<1> QED
  BY <1>7, <1>8, <1>9

LEMMA LookupsTimely ==
  ASSUME TInv, NEW c \in Callers,
         Call(c) \/ ReadLocal(c) \/ ReadCache(c) \/ ReadNegative(c) \/ ReadRaises(c)
  PROVE  Moves(c) /\ Timely(c)'
<1>1. CASE Call(c)
  <2>1. /\ call'[c].since = now /\ call'[c].tries = call[c].tries
        /\ call'[c].holds = call[c].holds
        /\ at'[c] \in {"local", "answered"}
    BY <1>1 DEF Call, Goto, TInv, Types
  <2>2. call[c].tries = 0 /\ ~Holding(c)
    BY <1>1 DEF Call, TInv, CallsTimely, Timely
  <2>3. 0 \in 0..Retries /\ LockWait \in Nat
    BY KindAssumption, TimeAssumption DEF TInv, Types, Retries
  <2>4. Longest \in Nat
    BY <2>3, DueGrows DEF TInv
  <2>5. now' = now /\ kind' = kind /\ Longest' = Longest
    BY <1>1 DEF Call, Longest
  <2>6. Moves(c)
    BY <1>1 DEF Call, Goto, Moves, Alone, TInv, Types
  <2> QED
    BY <2>1, <2>2, <2>3, <2>4, <2>5, <2>6 DEF Timely, Holding, TInv, Types
<1>2. CASE ReadLocal(c)
  <2>1. CASE Present(local[Home[c]])
    BY <1>2, <2>1, CachedTimely DEF ReadLocal
  <2>2. CASE ~Present(local[Home[c]])
    BY <1>2, <2>2 DEF ReadLocal, Goto, Moves, Alone, TInv, Types, CallsTimely, Timely, Holding
  <2> QED
    BY <2>1, <2>2
<1>3. CASE ReadCache(c)
  <2>1. CASE Present(entry)
    BY <1>3, <2>1, CachedTimely DEF ReadCache
  <2>2. CASE ~Present(entry)
    BY <1>3, <2>2 DEF ReadCache, Goto, Moves, Alone, TInv, Types, CallsTimely, Timely, Holding
  <2> QED
    BY <2>1, <2>2
<1>4. CASE ReadNegative(c)
  BY <1>4, CachedTimely, MissedTimely DEF ReadNegative
<1>5. CASE ReadRaises(c)
  <2>1. CASE at[c] = "cache" /\ Goto(c, "negative") /\ UNCHANGED <<call, breaker>>
    BY <1>5, <2>1 DEF ReadRaises, Goto, Moves, Alone, TInv, Types, CallsTimely, Timely, Holding
  <2> QED
    BY <1>5, <2>1, MissedTimely DEF ReadRaises
<1> QED
  BY <1>1, <1>2, <1>3, <1>4, <1>5

LEMMA LocksTimely ==
  ASSUME TInv, NEW c \in Callers,
         \/ TakeLock(c) \/ GoUnlocked(c) \/ Release(c)
         \/ Return(c, "answered")
  PROVE  Moves(c) /\ Timely(c)'
<1>1. 0 \in 0..Retries /\ LockWait \in Nat
  BY KindAssumption, TimeAssumption DEF TInv, Types, Retries
<1>2. Due(0) >= LockWait /\ Due(0) \in Nat
  BY <1>1, DueGrows DEF TInv
<1>3. now \in Nat /\ call[c].since \in Int /\ call[c].wake \in Int
  BY DEF TInv, Types
<1>4. CASE TakeLock(c)
  <2>1. /\ call'[c].since = call[c].since /\ call'[c].tries = call[c].tries
        /\ call'[c].holds = now /\ at'[c] = "local"
    BY <1>4 DEF TakeLock, Goto, TInv, Types
  <2>2. call[c].tries = 0 /\ now <= call[c].wake /\ call[c].wake <= call[c].since + LockWait
    BY <1>4 DEF TakeLock, TInv, CallsTimely, Timely
  <2>3. Moves(c)
    BY <1>4 DEF TakeLock, Goto, Moves, Alone, TInv, Types
  <2> QED
    BY <1>1, <1>3, <1>4, <2>1, <2>2, <2>3 DEF TakeLock, Timely, Holding
<1>5. CASE GoUnlocked(c)
  <2>1. call' = call /\ at'[c] = "begin"
    BY <1>5 DEF GoUnlocked, Goto, TInv, Types
  <2>2. call[c].tries = 0 /\ now <= call[c].wake /\ call[c].wake <= call[c].since + LockWait
    BY <1>5 DEF GoUnlocked, TInv, CallsTimely, Timely
  <2>3. Moves(c) /\ Due(0)' = Due(0) /\ Retries' = Retries
    BY <1>5 DEF GoUnlocked, Goto, Moves, Alone, TInv, Types, Due, Retries
  <2> QED
    BY <1>1, <1>2, <1>3, <1>5, <2>1, <2>2, <2>3 DEF GoUnlocked, Timely
<1>6. CASE Release(c) \/ Return(c, "answered")
  <2>1. call'[c] = NoCall /\ at'[c] = "idle"
    BY <1>6 DEF Release, Return, Goto, TInv, Types
  <2>2. Moves(c)
    BY <1>6 DEF Release, Return, Goto, Moves, Alone, TInv, Types
  <2> QED
    BY <2>1, <2>2 DEF Timely, NoCall, Holding
<1> QED
  BY <1>4, <1>5, <1>6

LEMMA GotTimely ==
  ASSUME TInv, NEW c \in Callers, NEW what, Got(c, what), now' = now, kind' = kind,
         now <= call[c].since + Longest
  PROVE  Moves(c) /\ Timely(c)'
<1>1. call'[c].since = call[c].since /\ at'[c] = "store"
  BY DEF Got, Goto, TInv, Types
<1>2. Moves(c) /\ Longest' = Longest
  BY DEF Got, Goto, Moves, Alone, TInv, Types, Longest
<1> QED
  BY <1>1, <1>2 DEF Timely

(* A pause after the n-th attempt makes up what the next one may have.     *)
LEMMA AttemptsTimely ==
  ASSUME TInv, NEW c \in Callers,
         BuiltIn(c) \/ Begin(c) \/ Succeed(c) \/ TimeOut(c) \/ Resume(c) \/ Store(c)
  PROVE  Moves(c) /\ Timely(c)'
<1>1. /\ now \in Nat /\ call[c].since \in Int /\ call[c].wake \in Int /\ call[c].tries \in Int
      /\ Timeout \in Nat /\ Retries \in Nat
  BY KindAssumption, TimeAssumption DEF TInv, Types, Retries
<1>2. \A n \in 0..Retries:
         /\ Longest \in Nat /\ Due(n) \in Nat
         /\ Due(n) + Timeout + 2 ^ n = Due(n + 1)
         /\ Due(n) + Timeout <= Longest
  BY DueGrows DEF TInv
<1>3. now' = now /\ kind' = kind /\ Retries' = Retries /\ \A n: Due(n)' = Due(n)
  BY DEF BuiltIn, Begin, Succeed, TimeOut, Resume, Store, Retries, Due
<1>4. at[c] = "attempt" =>
        /\ call[c].tries - 1 \in 0..Retries /\ now <= call[c].wake
        /\ call[c].wake <= call[c].since + Due(call[c].tries - 1) + Timeout
  BY <1>1 DEF TInv, CallsTimely, Timely
<1>5. at[c] = "begin" => call[c].tries \in 0..Retries /\ now <= call[c].since + Due(call[c].tries)
  BY DEF TInv, CallsTimely, Timely
<1>6. at[c] \in {"begin", "attempt"} => now <= call[c].since + Longest
  <2>1. CASE at[c] = "begin"
    BY <1>1, <1>2, <1>5, <2>1
  <2>2. CASE at[c] = "attempt"
    BY <1>1, <1>2, <1>4, <2>2
  <2> QED
    BY <2>1, <2>2
<1>7. CASE BuiltIn(c) \/ Succeed(c)
  BY <1>3, <1>6, <1>7, GotTimely DEF BuiltIn, Succeed
<1>8. CASE Begin(c)
  <2>1. /\ call'[c].since = call[c].since /\ call'[c].tries = call[c].tries + 1
        /\ call'[c].wake = now + Timeout /\ at'[c] = "attempt"
    BY <1>8 DEF Begin, Goto, TInv, Types
  <2>2. Moves(c)
    BY <1>8 DEF Begin, Goto, Moves, Alone, TInv, Types
  <2>3. call'[c].tries \in 1..(Retries + 1) /\ call'[c].tries - 1 = call[c].tries
    BY <1>1, <1>5, <1>8, <2>1 DEF Begin
  <2>4. now <= now + Timeout /\ now + Timeout <= call[c].since + Due(call[c].tries) + Timeout
    BY <1>1, <1>2, <1>5, <1>8 DEF Begin
  <2> QED
    BY <1>3, <2>1, <2>2, <2>3, <2>4 DEF Timely
<1>9. CASE TimeOut(c)
  <2>1. CASE Retried(c)
    <3> DEFINE pause == 2 ^ (call[c].tries - 1)
    <3>1. /\ call'[c].since = call[c].since /\ call'[c].tries = call[c].tries
          /\ call'[c].wake = now + pause /\ at'[c] = "pause"
      BY <1>9, <2>1 DEF TimeOut, Goto, TInv, Types
    <3>2. Moves(c)
      BY <1>9, <2>1 DEF TimeOut, Goto, Moves, Alone, TInv, Types
    <3>3. call[c].tries \in 1..Retries /\ call[c].tries - 1 + 1 = call[c].tries
      BY <1>1, <1>4, <1>9, <2>1 DEF TimeOut, Retried, Retries
    <3>4. pause \in Nat
      BY <1>3, <1>4, <1>9, PowerAssumption DEF TimeOut, TInv, Types, Retries
    <3>5. Due(call[c].tries - 1) + Timeout + pause = Due(call[c].tries)
      BY <1>2, <1>4, <1>9, <3>3 DEF TimeOut
    <3>6. Due(call[c].tries - 1) \in Nat
      BY <1>2, <1>4, <1>9 DEF TimeOut
    <3> HIDE DEF pause
    <3>7. now <= now + pause /\ now + pause <= call[c].since + Due(call[c].tries)
      BY <1>1, <1>4, <1>9, <3>4, <3>5, <3>6 DEF TimeOut
    <3> QED
      BY <1>3, <3>1, <3>2, <3>3, <3>7 DEF Timely
  <2>2. CASE ~Retried(c)
    BY <1>3, <1>6, <1>9, <2>2, GotTimely DEF TimeOut
  <2> QED
    BY <2>1, <2>2
<1>10. CASE Resume(c)
  <2>1. call' = call /\ at'[c] = "begin"
    BY <1>10 DEF Resume, Goto, TInv, Types
  <2>2. call[c].tries \in 1..Retries /\ now <= call[c].wake
        /\ call[c].wake <= call[c].since + Due(call[c].tries)
    BY <1>10 DEF Resume, TInv, CallsTimely, Timely
  <2>3. Moves(c)
    BY <1>10 DEF Resume, Goto, Moves, Alone, TInv, Types
  <2>4. call[c].tries \in 0..Retries /\ now <= call[c].since + Due(call[c].tries)
    BY <1>1, <1>2, <2>2
  <2> QED
    BY <1>3, <2>1, <2>3, <2>4 DEF Timely
<1>11. CASE Store(c)
  <2>1. now <= call[c].since + Longest
    BY <1>11 DEF Store, TInv, CallsTimely, Timely
  <2>2. Moves(c)
    BY <1>11 DEF Store, Over, Goto, Moves, Alone, TInv, Types
  <2> QED
    BY <1>3, <1>11, <2>1, <2>2, OverTimely DEF Store
<1> QED
  BY <1>7, <1>8, <1>9, <1>10, <1>11

LEMMA CancelTimely ==
  ASSUME TInv, NEW c \in Callers, Cancel(c) \/ LockRaises(c)
  PROVE  Moves(c) /\ Timely(c)'
<1>1. now' = now /\ kind' = kind /\ Moves(c)
  BY DEF Cancel, LockRaises, GiveUp, Goto, Moves, Alone, TInv, Types
<1>2. CASE Holding(c) /\ at[c] \in {"begin", "attempt", "pause", "store"}
  <2>1. at'[c] = "release" /\ call'[c].since = call[c].since
    BY <1>2 DEF Cancel, LockRaises, GiveUp, Goto, TInv, Types
  <2>2. /\ now \in Nat /\ call[c].since \in Int /\ call[c].wake \in Int
        /\ call[c].tries \in Int /\ Timeout \in Nat /\ Retries \in Nat
    BY KindAssumption, TimeAssumption DEF TInv, Types, Retries
  <2>3. \A n \in 0..Retries:
          Longest \in Nat /\ Due(n) \in Nat /\ Due(n) + Timeout <= Longest
    BY DueGrows DEF TInv
  <2>4. now <= call[c].since + Longest
    <3>1. CASE at[c] = "begin" \/ at[c] = "pause"
      <4>1. call[c].tries \in 0..Retries /\ now <= call[c].since + Due(call[c].tries)
        <5>1. Timely(c)
          BY DEF TInv, CallsTimely
        <5>2. CASE at[c] = "begin"
          BY <5>1, <5>2 DEF Timely
        <5>3. CASE at[c] = "pause"
          <6>1. /\ call[c].tries \in 1..Retries /\ now <= call[c].wake
                /\ call[c].wake <= call[c].since + Due(call[c].tries)
            BY <5>1, <5>3 DEF Timely
          <6> QED
            BY <6>1, <2>2, <2>3
        <5> QED
          BY <3>1, <5>2, <5>3
      <4> QED
        BY <2>2, <2>3, <4>1
    <3>2. CASE at[c] = "attempt"
      <4>1. call[c].tries - 1 \in 0..Retries /\ now <= call[c].wake
            /\ call[c].wake <= call[c].since + Due(call[c].tries - 1) + Timeout
        BY <2>2, <3>2 DEF TInv, CallsTimely, Timely
      <4> QED
        BY <2>2, <2>3, <4>1
    <3>3. CASE at[c] = "store"
      BY <3>3 DEF TInv, CallsTimely, Timely
    <3> QED
      BY <1>2, <3>1, <3>2, <3>3
  <2> QED
    BY <1>1, <2>1, <2>4 DEF Timely, Longest
<1>3. CASE ~(Holding(c) /\ at[c] \in {"begin", "attempt", "pause", "store"})
  <2>1. at'[c] = "idle" /\ call'[c] = NoCall
    BY <1>3 DEF Cancel, LockRaises, GiveUp, Goto, TInv, Types
  <2> QED
    BY <1>1, <2>1 DEF Timely, NoCall, Holding
<1> QED
  BY <1>1, <1>2, <1>3

(* The clock stops for whoever does what takes no time.                    *)
LEMMA TickTimely ==
  ASSUME TInv, Tick
  PROVE  CallsTimely'
<1>1. now' = now + 1 /\ now \in Nat /\ kind' = kind /\ at' = at /\ call' = call
  BY DEF Tick, TInv, Types
<1>2. SUFFICES ASSUME NEW c \in Callers PROVE Timely(c)'
  BY DEF CallsTimely
<1>3. Timely(c) /\ call[c].wake \in Int
  BY DEF TInv, CallsTimely, Types
<1>4. CASE at[c] = "idle"
  BY <1>1, <1>3, <1>4 DEF Timely, Holding
<1>5. CASE at[c] \in {"lock", "attempt", "pause"} /\ now < call[c].wake
  BY <1>1, <1>3, <1>5 DEF Timely, Holding, Retries, Due
<1> QED
  BY <1>4, <1>5 DEF Tick, Lasting

LEMMA TimelyStep == TInv /\ [Next]_vars => TInv'
<1> SUFFICES ASSUME TInv, [Next]_vars PROVE CallsTimely'
  BY TypesStep DEF TInv
<1>1. ASSUME NEW c \in Callers, Step(c) PROVE CallsTimely'
  <2>1. CASE Call(c) \/ ReadLocal(c) \/ ReadCache(c) \/ ReadNegative(c) \/ ReadRaises(c)
    BY <2>1, LookupsTimely, OneCallTimely
  <2>2. CASE TakeLock(c) \/ GoUnlocked(c) \/ Release(c) \/ Return(c, "answered")
    BY <2>2, LocksTimely, OneCallTimely
  <2>3. CASE BuiltIn(c) \/ Begin(c) \/ Succeed(c) \/ TimeOut(c) \/ Resume(c) \/ Store(c)
    BY <2>3, AttemptsTimely, OneCallTimely
  <2>4. CASE Cancel(c) \/ LockRaises(c)
    BY <2>4, CancelTimely, OneCallTimely
  <2> QED
    BY <1>1, <2>1, <2>2, <2>3, <2>4 DEF Step
<1>2. ASSUME NEW p \in Processes, Crash(p) PROVE CallsTimely'
  <2>1. now' = now /\ kind' = kind
    BY <1>2 DEF Crash
  <2>2. SUFFICES ASSUME NEW c \in Callers PROVE Timely(c)'
    BY DEF CallsTimely
  <2>3. CASE Home[c] = p
    <3>1. at'[c] = "idle" /\ call'[c] = NoCall
      BY <1>2, <2>3 DEF Crash
    <3> QED
      BY <3>1 DEF Timely, NoCall, Holding
  <2>4. CASE Home[c] # p
    <3>1. at'[c] = at[c] /\ call'[c] = call[c]
      BY <1>2, <2>4 DEF Crash
    <3>2. Timely(c)
      BY DEF TInv, CallsTimely
    <3> QED
      BY <2>1, <3>1, <3>2 DEF Timely, Holding, Retries, Due, Longest
  <2> QED
    BY <2>3, <2>4
<1>3. CASE UNCHANGED vars
  BY <1>3 DEF vars, TInv, CallsTimely, Timely, Holding, Retries, Due, Longest
<1> QED
  BY <1>1, <1>2, <1>3, TickTimely DEF Next

LEMMA TimelyAnswers == TInv => AnsweredInTime
<1> SUFFICES ASSUME TInv, NEW c \in Callers, at[c] # "idle"
             PROVE  now - call[c].since <= Longest
  BY DEF AnsweredInTime
<1>1. /\ now \in Nat /\ call[c].since \in Int /\ call[c].wake \in Int /\ call[c].tries \in Int
      /\ LockWait \in Nat /\ Timeout \in Nat /\ Retries \in Nat /\ at[c] \in Locations
  BY KindAssumption, TimeAssumption DEF TInv, Types, Retries
<1>2. \A n \in 0..Retries:
        /\ Longest \in Nat /\ Due(n) \in Nat /\ Due(n) >= LockWait
        /\ Due(n) + Timeout <= Longest
  BY DueGrows DEF TInv
<1>3. Timely(c)
  BY DEF TInv, CallsTimely
<1>4. CASE at[c] \in {"local", "cache", "negative", "lock"}
  <2>1. now <= call[c].since + LockWait
    BY <1>1, <1>3, <1>4 DEF Timely
  <2>2. LockWait <= Longest /\ Longest \in Nat
    BY <1>1, <1>2
  <2> QED
    BY <1>1, <2>1, <2>2
<1>5. CASE at[c] = "begin"
  <2>1. call[c].tries \in 0..Retries /\ now <= call[c].since + Due(call[c].tries)
    BY <1>3, <1>5 DEF Timely
  <2> QED
    BY <1>1, <1>2, <2>1
<1>6. CASE at[c] = "attempt"
  <2>1. call[c].tries - 1 \in 0..Retries /\ now <= call[c].wake
        /\ call[c].wake <= call[c].since + Due(call[c].tries - 1) + Timeout
    BY <1>1, <1>3, <1>6 DEF Timely
  <2> QED
    BY <1>1, <1>2, <2>1
<1>7. CASE at[c] = "pause"
  <2>1. call[c].tries \in 0..Retries /\ now <= call[c].wake
        /\ call[c].wake <= call[c].since + Due(call[c].tries)
    BY <1>1, <1>3, <1>7 DEF Timely
  <2> QED
    BY <1>1, <1>2, <2>1
<1>8. CASE at[c] \in {"store", "release", "answered"}
  <2>1. now <= call[c].since + Longest /\ Longest \in Nat
    BY <1>1, <1>2, <1>3, <1>8 DEF Timely
  <2> QED
    BY <1>1, <2>1
<1> QED
  BY <1>1, <1>4, <1>5, <1>6, <1>7, <1>8 DEF Locations

(* A call is over within the wait for the lock, its attempts and its       *)
(* pauses (tools/base.py:159), however often it is repeated, whatever the  *)
(* other callers and Redis do, and whichever of them are cancelled or die. *)
THEOREM AnsweredInTimeHolds == Spec => []AnsweredInTime
<1>1. Init => TInv
  BY TypesInit, TimelyInit DEF TInv
<1> QED
  BY <1>1, TimelyStep, TimelyAnswers, PTL DEF Spec
=============================================================================
