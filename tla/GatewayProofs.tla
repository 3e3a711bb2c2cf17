--------------------------- MODULE GatewayProofs ---------------------------
(***************************************************************************)
(* Proofs about Gateway, for any finite set of requests, any limits and    *)
(* any number of disturbances: the sliding window and the stream counter   *)
(* keep their limits, and the breaker opens on enough failures and stays   *)
(* open for its period.                                                    *)
(*                                                                         *)
(* The window's limit is not inductive by itself: what the sorted set      *)
(* holds has to be what was admitted (Remembered).  The stream counter     *)
(* needs that only streams ever acquire and release (OnlyStreams).  The    *)
(* breaker counts no more failures of a tick than there were (Fallen), and *)
(* the sum of fewer failures over more ticks is no greater (SumGrows).     *)
(***************************************************************************)
EXTENDS Gateway, FiniteSetTheorems, WellFoundedInduction, TLAPS

USE DEF Never

(* A member of the window was admitted at its time, and everything that    *)
(* was admitted less than a window ago is a member.                        *)
Remembered ==
  \A k \in Keys, r \in Requests:
    /\ hits[k][r] \in {Never, admitted[k][r]}
    /\ admitted[k][r] <= now
    /\ admitted[k][r] > now - LimitWindow => hits[k][r] = admitted[k][r]

(* Only a stream takes a place in the count or gives it back.              *)
OnlyStreams ==
  \A r \in Requests: at[r] \in {"acquire", "undo", "release"} => path[r] = "stream"

Windows == Remembered /\ WindowLimit
Streams == OnlyStreams /\ StreamsCounted /\ StreamLimit

IInv == TypeOK /\ Windows /\ Streams

-----------------------------------------------------------------------------
(* Types. *)

LEMMA SpendType ==
  ASSUME TypeOK, NEW d \in Disturbances, Spend(d)
  PROVE  used' \in [Disturbances -> Nat]
BY DEF Spend, TypeOK

LEMMA GotoType ==
  ASSUME TypeOK, NEW r \in Requests, NEW a \in Places, Goto(r, a)
  PROVE  at' \in [Requests -> Places]
BY DEF Goto, TypeOK

LEMMA EndsType ==
  ASSUME TypeOK, NEW r \in Requests, NEW a \in Places, Ends(r, a)
  PROVE  at' \in [Requests -> Places]
BY GotoType DEF Ends, Places

LEMMA RecentType ==
  ASSUME NEW f \in [Ticks -> Nat]
  PROVE  Recent(f) \in [Ticks -> Nat]
BY DEF Recent

LEMMA LimitedType ==
  ASSUME TypeOK, NEW k \in Keys, NEW r \in Requests, NEW a \in Places, Limited(k, r, a)
  PROVE  /\ hits' \in [Keys -> [Requests -> Ticks \cup {Never}]]
         /\ admitted' \in [Keys -> [Requests -> Ticks \cup {Never}]]
         /\ at' \in [Requests -> Places]
         /\ used' \in [Disturbances -> Nat]
<1>1. Trimmed(k) \in [Requests -> Ticks \cup {Never}]
  BY DEF Trimmed, TypeOK
<1>2. CASE Allow(k, r) /\ Goto(r, a) /\ UNCHANGED used
  BY <1>1, <1>2, GotoType DEF Allow, TypeOK
<1>3. CASE Deny(k) /\ Goto(r, "refused") /\ UNCHANGED used
  BY <1>1, <1>3, GotoType DEF Deny, TypeOK, Places
<1>4. CASE Spend("redis") /\ Goto(r, a) /\ UNCHANGED limitVars
  BY <1>4, GotoType, SpendType DEF limitVars, TypeOK, Disturbances
<1> QED
  BY <1>2, <1>3, <1>4 DEF Limited

LEMMA BreakerType ==
  ASSUME TypeOK, RecordSuccess \/ RecordFailure
  PROVE  /\ state' \in {"closed", "open", "half"}
         /\ openUntil' \in Nat
         /\ {failures', successes', fell'} \subseteq [Ticks -> Nat]
<1>1. NoCalls \in [Ticks -> Nat]
  BY DEF NoCalls
<1>2. Recent(failures) \in [Ticks -> Nat] /\ Recent(successes) \in [Ticks -> Nat]
  BY RecentType DEF TypeOK
<1>3. now \in Nat /\ OpenFor \in Nat
  BY BreakerAssumption, TimeAssumption DEF TypeOK, Ticks
<1>4. CASE RecordSuccess
  <2>1. [Recent(successes) EXCEPT ![now] = @ + 1] \in [Ticks -> Nat]
    BY <1>2 DEF TypeOK
  <2>2. failures' \in [Ticks -> Nat] /\ successes' \in [Ticks -> Nat]
    BY <1>1, <1>2, <1>4, <2>1 DEF RecordSuccess
  <2>3. fell' = fell /\ openUntil' = openUntil /\ state' \in {state, "closed"}
    BY <1>4 DEF RecordSuccess
  <2> QED
    BY <2>2, <2>3 DEF TypeOK
<1>5. CASE RecordFailure
  BY <1>1, <1>2, <1>3, <1>5 DEF RecordFailure, TypeOK
<1> QED
  BY <1>4, <1>5

LEMMA TypeStep == TypeOK /\ [Next]_vars => TypeOK'
<1> SUFFICES ASSUME TypeOK, [Next]_vars PROVE TypeOK'
  OBVIOUS
<1> USE DEF limitVars, sseVars, breakerVars, reqVars
<1>1. ASSUME NEW r \in Requests, Step(r) \/ AcquireRaises(r) \/ Abort(r) \/ Arrives(r)
      PROVE  TypeOK'
  <2>1. CASE Arrives(r)
    <3>1. PICK p \in {"public", "api", "stream"}, o \in {"user", "guest"}: Arrive(r, p, o)
      BY <2>1 DEF Arrives
    <3>2. "ip" \in Keys /\ (IF p = "public" THEN "done" ELSE "auth") \in Places
      BY DEF Keys, Places
    <3> QED
      BY <3>1, <3>2, LimitedType DEF Arrive, TypeOK
  <2>2. CASE Auth(r)
    BY <2>2, GotoType DEF Auth, TypeOK, Places
  <2>3. CASE RateLimit(r)
    <3>1. role[r] \in Keys /\ (IF path[r] = "stream" THEN "acquire" ELSE "allow") \in Places
      BY DEF Keys, Places, TypeOK
    <3> QED
      BY <2>3, <3>1, LimitedType DEF RateLimit, TypeOK
  <2>4. CASE AcquireSSE(r)
    <3>1. at' \in [Requests -> Places]
      BY <2>4, GotoType DEF AcquireSSE, Places
    <3>2. used' \in [Disturbances -> Nat] /\ sseTtl' \in BOOLEAN
      BY <2>4, SpendType DEF AcquireSSE, TypeOK, Disturbances
    <3> QED
      BY <2>4, <3>1, <3>2 DEF AcquireSSE, TypeOK
  <2>5. CASE UndoSSE(r)
    <3>1. at' \in [Requests -> Places]
      BY <2>5, GotoType DEF UndoSSE, Places
    <3>2. used' \in [Disturbances -> Nat] /\ sse' \in Int
      BY <2>5, SpendType DEF UndoSSE, TypeOK, Disturbances
    <3>3. drift' \in {drift, TRUE}
      BY <2>5 DEF UndoSSE
    <3> QED
      BY <2>5, <3>1, <3>2, <3>3 DEF UndoSSE, TypeOK
  <2>6. CASE ReleaseSSE(r)
    <3>1. at' \in [Requests -> Places]
      BY <2>6, GotoType DEF ReleaseSSE, Places
    <3>2. used' \in [Disturbances -> Nat] /\ sse' \in Int
      BY <2>6, SpendType DEF ReleaseSSE, TypeOK, Disturbances
    <3>3. drift' \in {drift, TRUE}
      BY <2>6 DEF ReleaseSSE
    <3> QED
      BY <2>6, <3>1, <3>2, <3>3 DEF ReleaseSSE, TypeOK
  <2>7. CASE BreakerAllow(r)
    <3>1. at' \in [Requests -> Places]
      BY <2>7, GotoType, EndsType DEF BreakerAllow, Places
    <3>2. failures' \in [Ticks -> Nat] /\ successes' \in [Ticks -> Nat]
      BY <2>7, RecentType DEF BreakerAllow, TypeOK
    <3>3. state' \in {"closed", "open", "half"}
      BY <2>7 DEF BreakerAllow, TypeOK
    <3> QED
      BY <2>7, <3>1, <3>2, <3>3 DEF BreakerAllow, TypeOK
  <2>8. CASE Answer(r)
    <3>1. at' \in [Requests -> Places]
      BY <2>8, EndsType DEF Answer, Places
    <3> QED
      BY <2>8, <3>1, BreakerType DEF Answer, TypeOK
  <2>9. CASE AcquireRaises(r)
    <3>1. at' \in [Requests -> Places]
      BY <2>9, GotoType DEF AcquireRaises, Places
    <3> QED
      BY <2>9, <3>1, SpendType DEF AcquireRaises, TypeOK, Disturbances
  <2>10. CASE Abort(r)
    <3>1. at' \in [Requests -> Places]
      BY <2>10, EndsType DEF Abort, Places
    <3> QED
      BY <2>10, <3>1, SpendType DEF Abort, TypeOK, Disturbances
  <2> QED
    BY <1>1, <2>1, <2>2, <2>3, <2>4, <2>5, <2>6, <2>7, <2>8, <2>9, <2>10 DEF Step
<1>2. CASE SseExpires
  <2>1. used' \in [Disturbances -> Nat]
    BY <1>2, SpendType DEF SseExpires, Disturbances
  <2>2. sse' = 0 /\ sseTtl' = FALSE /\ drift' = TRUE
    BY <1>2 DEF SseExpires
  <2>3. UNCHANGED <<limitVars, breakerVars, now, reqVars, at>>
    BY <1>2 DEF SseExpires
  <2>4. sse' \in Int
    BY <2>2
  <2>5. sseTtl' \in BOOLEAN /\ drift' \in BOOLEAN
    BY <2>2, Zenon
  <2> QED
    BY <2>1, <2>3, <2>4, <2>5 DEF TypeOK
<1>3. CASE Restart
  <2>1. at' \in [Requests -> Places]
    BY <1>3 DEF Restart, TypeOK, Places
  <2>2. NoCalls \in [Ticks -> Nat]
    BY DEF NoCalls
  <2>3. drift' \in BOOLEAN
    BY <1>3, Zenon DEF Restart, TypeOK
  <2> QED
    BY <1>3, <2>1, <2>2, <2>3, SpendType DEF Restart, TypeOK, Disturbances
<1>4. CASE Tick
  <2>1. now' \in Ticks
    BY <1>4, TimeAssumption DEF Tick, TypeOK, Ticks
  <2> QED
    BY <1>4, <2>1 DEF Tick, TypeOK
<1>5. CASE UNCHANGED vars
  BY <1>5 DEF vars, TypeOK
<1> QED
  BY <1>1, <1>2, <1>3, <1>4, <1>5 DEF Next

-----------------------------------------------------------------------------
(* The sliding window. *)

(* A request that is let through is one more than the members, of which    *)
(* there are fewer than the limit; and of the requests let through in a    *)
(* window that contains this moment, all others are members.               *)
LEMMA AllowWindows ==
  ASSUME TypeOK, Windows, NEW k \in Keys, NEW r \in Requests, Allow(k, r), UNCHANGED now
  PROVE  Windows'
<1>1. now \in Nat /\ LimitWindow \in Nat \ {0} /\ Ticks \subseteq Nat
  BY TimeAssumption DEF TypeOK, Ticks
<1>2. \A l \in Keys, q \in Requests:
        /\ admitted'[l][q] = IF l = k /\ q = r THEN now ELSE admitted[l][q]
        /\ hits'[l][q] = IF l # k THEN hits[l][q]
                         ELSE IF q = r THEN now
                         ELSE IF Fresh(hits[k][q]) THEN hits[k][q] ELSE Never
  BY DEF Allow, Trimmed, Members, TypeOK
<1>3. \A l \in Keys, q \in Requests: admitted[l][q] \in Int /\ hits[l][q] \in Int
  BY DEF TypeOK, Ticks
<1>4. Remembered'
  BY <1>1, <1>2, <1>3 DEF Windows, Remembered, Fresh
<1>5. WindowLimit'
  <2> SUFFICES ASSUME NEW l \in Keys, NEW t \in Ticks
               PROVE  Cardinality({q \in Requests: admitted'[l][q] \in t..(t + LimitWindow - 1)})
                        <= Limit[l]
    BY DEF WindowLimit
  <2> DEFINE Was == {q \in Requests: admitted[l][q] \in t..(t + LimitWindow - 1)}
             Is  == {q \in Requests: admitted'[l][q] \in t..(t + LimitWindow - 1)}
  <2>1. Cardinality(Was) <= Limit[l] /\ Limit[l] \in Nat
    BY LimitAssumption DEF Windows, WindowLimit
  <2>2. IsFiniteSet(Was) /\ IsFiniteSet(Is) /\ IsFiniteSet(Members(k))
    BY RequestsAssumption, FS_Subset DEF Members
  <2>3. CASE l # k \/ now \notin t..(t + LimitWindow - 1)
    <3>1. Is \subseteq Was
      BY <1>2, <2>3
    <3>2. Cardinality(Is) <= Cardinality(Was)
      BY <2>2, <3>1, FS_Subset
    <3> QED
      BY <2>1, <2>2, <3>2, FS_CardinalityType
  <2>4. CASE l = k /\ now \in t..(t + LimitWindow - 1)
    <3>1. Is \subseteq Members(k) \cup {r}
      BY <1>1, <1>2, <1>3, <2>4 DEF Windows, Remembered, Members, Fresh
    <3>2. /\ IsFiniteSet(Members(k) \cup {r})
          /\ Cardinality(Members(k) \cup {r}) <= Cardinality(Members(k)) + 1
      <4>1. Cardinality(Members(k)) \in Nat
        BY <2>2, FS_CardinalityType
      <4>2. /\ IsFiniteSet(Members(k) \cup {r})
            /\ Cardinality(Members(k) \cup {r}) \in {Cardinality(Members(k)), Cardinality(Members(k)) + 1}
        BY <2>2, FS_AddElement
      <4> QED
        BY <4>1, <4>2
    <3>3. Cardinality(Is) <= Cardinality(Members(k) \cup {r})
      BY <3>1, <3>2, FS_Subset
    <3>4. Cardinality(Members(k)) < Limit[k]
      BY DEF Allow
    <3> QED
      BY <2>1, <2>2, <2>4, <3>2, <3>3, <3>4, FS_CardinalityType
  <2> QED
    BY <2>3, <2>4
<1> QED
  BY <1>4, <1>5 DEF Windows

LEMMA DenyWindows ==
  ASSUME TypeOK, Windows, NEW k \in Keys, Deny(k), UNCHANGED now
  PROVE  Windows'
<1>1. now \in Nat /\ LimitWindow \in Nat \ {0}
  BY TimeAssumption DEF TypeOK, Ticks
<1>2. \A l \in Keys, q \in Requests:
        hits'[l][q] = IF l = k /\ ~Fresh(hits[k][q]) THEN Never ELSE hits[l][q]
  BY DEF Deny, Trimmed, Members, TypeOK
<1>3. \A l \in Keys, q \in Requests: admitted[l][q] \in Int /\ hits[l][q] \in Int
  BY DEF TypeOK, Ticks
<1>4. Remembered'
  BY <1>1, <1>2, <1>3 DEF Windows, Remembered, Fresh, Deny
<1>5. WindowLimit'
  BY DEF Windows, WindowLimit, Deny
<1> QED
  BY <1>4, <1>5 DEF Windows

LEMMA LimitedWindows ==
  ASSUME TypeOK, Windows, NEW k \in Keys, NEW r \in Requests, NEW a, Limited(k, r, a),
         UNCHANGED now
  PROVE  Windows'
<1>1. CASE UNCHANGED limitVars
  BY <1>1 DEF limitVars, Windows, Remembered, WindowLimit
<1> QED
  BY <1>1, AllowWindows, DenyWindows DEF Limited

LEMMA WindowStep == TypeOK /\ Windows /\ [Next]_vars => Windows'
<1> SUFFICES ASSUME TypeOK, Windows, [Next]_vars PROVE Windows'
  OBVIOUS
<1>1. CASE UNCHANGED <<limitVars, now>>
  BY <1>1 DEF limitVars, Windows, Remembered, WindowLimit
<1>2. ASSUME NEW r \in Requests, Arrives(r) PROVE Windows'
  <2>1. PICK p \in {"public", "api", "stream"}, o \in {"user", "guest"}: Arrive(r, p, o)
    BY <1>2 DEF Arrives
  <2>2. "ip" \in Keys
    BY DEF Keys
  <2> QED
    BY <2>1, <2>2, LimitedWindows DEF Arrive
<1>3. ASSUME NEW r \in Requests, RateLimit(r) PROVE Windows'
  <2>1. role[r] \in Keys
    BY DEF Keys, TypeOK
  <2> QED
    BY <1>3, <2>1, LimitedWindows DEF RateLimit
<1>4. CASE Tick
  <2>1. now \in Nat /\ now' = now + 1 /\ UNCHANGED <<hits, admitted>>
    BY <1>4 DEF Tick, TypeOK, Ticks, limitVars
  <2>2. \A l \in Keys, q \in Requests: admitted[l][q] \in Int
    BY DEF TypeOK, Ticks
  <2>3. Remembered'
    BY <2>1, <2>2, TimeAssumption DEF Windows, Remembered
  <2> QED
    BY <2>1, <2>3 DEF Windows, WindowLimit
<1>5. ASSUME NEW r \in Requests, Step(r) \/ AcquireRaises(r) \/ Abort(r)
      PROVE  UNCHANGED <<limitVars, now>> \/ RateLimit(r)
  BY <1>5 DEF Step, Auth, AcquireSSE, UndoSSE, ReleaseSSE, BreakerAllow, Answer, AcquireRaises, Abort
<1>6. SseExpires \/ Restart \/ UNCHANGED vars => UNCHANGED <<limitVars, now>>
  BY DEF SseExpires, Restart, vars
<1> QED
  BY <1>1, <1>2, <1>3, <1>4, <1>5, <1>6 DEF Next

-----------------------------------------------------------------------------
(* The stream counter. *)

LEMMA OpenFinite ==
  /\ IsFiniteSet(Open) /\ Cardinality(Open) \in Nat
  /\ IsFiniteSet(Undoing) /\ Cardinality(Undoing) \in Nat
BY RequestsAssumption, FS_Subset, FS_CardinalityType DEF Open, Undoing

(* Nobody takes a place, gives one back, or moves between the two sets.    *)
LEMMA SameStreams ==
  ASSUME Streams, OnlyStreams', Open' = Open, Undoing' = Undoing,
         UNCHANGED <<sse, drift>> \/ drift'
  PROVE  Streams'
BY DEF Streams, StreamsCounted, StreamLimit

(* A request that is no stream, or whose place stays on the same side of   *)
(* the count, leaves both sets as they are.                                *)
Counted == {"allow", "upstream", "release"}

LEMMA PathKept ==
  ASSUME TypeOK, Streams, NEW r \in Requests, NEW a \in Places, Goto(r, a), UNCHANGED path,
         a \in {"acquire", "undo", "release"} => path[r] = "stream",
         at[r] # "undo", a # "undo",
         path[r] = "stream" => (at[r] \in Counted <=> a \in Counted)
  PROVE  OnlyStreams' /\ Open' = Open /\ Undoing' = Undoing
<1>1. \A q \in Requests: at'[q] = IF q = r THEN a ELSE at[q]
  BY DEF Goto, TypeOK
<1>2. OnlyStreams'
  BY <1>1 DEF Streams, OnlyStreams
<1>3. \A q \in Requests: path[q] = "stream" => (at'[q] \in Counted <=> at[q] \in Counted)
  BY <1>1
<1>4. Open' = Open
  BY <1>3 DEF Open, Counted
<1>5. Undoing' = Undoing
  BY <1>1 DEF Undoing
<1> QED
  BY <1>2, <1>4, <1>5

LEMMA EndKept ==
  ASSUME TypeOK, Streams, NEW r \in Requests, at[r] \in {"allow", "upstream"},
         NEW how \in {"done", "refused"}, Ends(r, how), UNCHANGED path
  PROVE  OnlyStreams' /\ Open' = Open /\ Undoing' = Undoing
<1>1. CASE path[r] = "stream"
  BY <1>1, PathKept DEF Ends, Places, Counted
<1>2. CASE path[r] # "stream"
  BY <1>2, PathKept DEF Ends, Places, Counted
<1> QED
  BY <1>1, <1>2

(* A stream is counted, refused or not; it is let through only when, with  *)
(* it, the count is within the maximum.                                    *)
LEMMA AcquireStreams ==
  ASSUME TypeOK, Streams, NEW r \in Requests, AcquireSSE(r)
  PROVE  Streams'
<1>1. at[r] = "acquire" /\ path[r] = "stream" /\ UNCHANGED path
  BY DEF AcquireSSE, Streams, OnlyStreams, reqVars
<1>2. sse \in Int /\ sse' = sse + 1 /\ UNCHANGED drift
  BY DEF AcquireSSE, TypeOK
<1>3. MaxSSE \in Nat
  BY LimitAssumption
<1>4. CASE Over(sse')
  <2>1. \A q \in Requests: at'[q] = IF q = r THEN "undo" ELSE at[q]
    BY <1>4 DEF AcquireSSE, Goto, TypeOK
  <2>2. OnlyStreams'
    BY <1>1, <2>1 DEF Streams, OnlyStreams
  <2>3. Open' = Open
    BY <1>1, <2>1 DEF Open
  <2>4. Undoing' = Undoing \cup {r} /\ r \notin Undoing
    BY <1>1, <2>1 DEF Undoing
  <2>5. Cardinality(Undoing') = Cardinality(Undoing) + 1
    BY <2>4, OpenFinite, FS_AddElement
  <2> QED
    BY <1>2, <2>2, <2>3, <2>5, OpenFinite DEF Streams, StreamsCounted, StreamLimit
<1>5. CASE ~Over(sse')
  <2>1. \A q \in Requests: at'[q] = IF q = r THEN "allow" ELSE at[q]
    BY <1>5 DEF AcquireSSE, Goto, TypeOK
  <2>2. OnlyStreams'
    BY <1>1, <2>1 DEF Streams, OnlyStreams
  <2>3. Undoing' = Undoing
    BY <1>1, <2>1 DEF Undoing
  <2>4. Open' = Open \cup {r} /\ r \notin Open
    BY <1>1, <2>1 DEF Open
  <2>5. Cardinality(Open') = Cardinality(Open) + 1
    BY <2>4, OpenFinite, FS_AddElement
  <2>6. sse + 1 <= MaxSSE
    BY <1>2, <1>3, <1>5 DEF Over
  <2> QED
    BY <1>2, <1>3, <2>2, <2>3, <2>5, <2>6, OpenFinite DEF Streams, StreamsCounted, StreamLimit
<1> QED
  BY <1>4, <1>5

LEMMA UndoStreams ==
  ASSUME TypeOK, Streams, NEW r \in Requests, UndoSSE(r)
  PROVE  Streams'
<1>1. \A q \in Requests: at'[q] = IF q = r THEN "refused" ELSE at[q]
  BY DEF UndoSSE, Goto, TypeOK
<1>2. at[r] = "undo" /\ UNCHANGED path
  BY DEF UndoSSE, reqVars
<1>3. OnlyStreams'
  BY <1>1, <1>2 DEF Streams, OnlyStreams
<1>4. Open' = Open
  BY <1>1, <1>2 DEF Open
<1>5. Undoing' = Undoing \ {r} /\ r \in Undoing
  BY <1>1, <1>2 DEF Undoing
<1>6. Cardinality(Undoing') = Cardinality(Undoing) - 1
  BY <1>5, OpenFinite, FS_RemoveElement
<1>7. drift' \/ (sse' = sse - 1 /\ UNCHANGED drift)
  BY DEF UndoSSE
<1> QED
  BY <1>3, <1>4, <1>6, <1>7, OpenFinite DEF Streams, StreamsCounted, StreamLimit, TypeOK

LEMMA ReleaseStreams ==
  ASSUME TypeOK, Streams, NEW r \in Requests, ReleaseSSE(r)
  PROVE  Streams'
<1>1. \A q \in Requests: at'[q] = IF q = r THEN "done" ELSE at[q]
  BY DEF ReleaseSSE, Goto, TypeOK
<1>2. at[r] = "release" /\ path[r] = "stream" /\ UNCHANGED path
  BY DEF ReleaseSSE, Streams, OnlyStreams, reqVars
<1>3. OnlyStreams'
  BY <1>1, <1>2 DEF Streams, OnlyStreams
<1>4. Undoing' = Undoing
  BY <1>1, <1>2 DEF Undoing
<1>5. Open' = Open \ {r} /\ r \in Open
  BY <1>1, <1>2 DEF Open
<1>6. Cardinality(Open') = Cardinality(Open) - 1
  BY <1>5, OpenFinite, FS_RemoveElement
<1>7. drift' \/ (sse' = sse - 1 /\ UNCHANGED drift)
  BY DEF ReleaseSSE
<1>8. MaxSSE \in Nat
  BY LimitAssumption
<1> QED
  BY <1>3, <1>4, <1>6, <1>7, <1>8, OpenFinite DEF Streams, StreamsCounted, StreamLimit, TypeOK

LEMMA RestartStreams ==
  ASSUME TypeOK, Streams, Restart
  PROVE  Streams'
<1>1. CASE \E r \in Requests: at[r] \notin {"new"} \cup Ended
  <2>1. drift' = TRUE
    BY <1>1, Zenon DEF Restart
  <2>2. OnlyStreams'
    BY DEF Restart, Streams, OnlyStreams, Ended, reqVars
  <2> QED
    BY <2>1, <2>2 DEF Streams, StreamsCounted, StreamLimit
<1>2. CASE ~\E r \in Requests: at[r] \notin {"new"} \cup Ended
  <2>1. at' = at /\ UNCHANGED <<path, sse>>
    BY <1>2 DEF Restart, TypeOK, reqVars
  <2>2. drift' = drift
    BY <1>2, Zenon DEF Restart, TypeOK
  <2> QED
    BY <2>1, <2>2, SameStreams DEF Streams, OnlyStreams, Open, Undoing
<1> QED
  BY <1>1, <1>2

LEMMA StreamStep == TypeOK /\ Streams /\ [Next]_vars => Streams'
<1> SUFFICES ASSUME TypeOK, Streams, [Next]_vars PROVE Streams'
  OBVIOUS
<1> USE DEF sseVars, reqVars
<1>1. ASSUME NEW r \in Requests, Arrives(r) PROVE Streams'
  <2>1. PICK p \in {"public", "api", "stream"}, o \in {"user", "guest"}: Arrive(r, p, o)
    BY <1>1 DEF Arrives
  <2>2. PICK a \in {"done", "auth", "refused"}: Goto(r, a)
    BY <2>1 DEF Arrive, Limited
  <2>3. /\ at[r] = "new"
        /\ \A q \in Requests: at'[q] = IF q = r THEN a ELSE at[q]
        /\ \A q \in Requests: q # r => path'[q] = path[q]
        /\ UNCHANGED <<sse, drift>>
    BY <2>1, <2>2 DEF Arrive, Goto, TypeOK
  <2>4. OnlyStreams' /\ Open' = Open /\ Undoing' = Undoing
    BY <2>3 DEF Streams, OnlyStreams, Open, Undoing
  <2> QED
    BY <2>3, <2>4, SameStreams
<1>2. ASSUME NEW r \in Requests, Auth(r) PROVE Streams'
  <2>1. PICK a \in {"refused", "limit"}: Goto(r, a)
    BY <1>2 DEF Auth
  <2>2. OnlyStreams' /\ Open' = Open /\ Undoing' = Undoing
    BY <1>2, <2>1, PathKept DEF Auth, Places, Counted
  <2> QED
    BY <1>2, <2>2, SameStreams DEF Auth
<1>3. ASSUME NEW r \in Requests, RateLimit(r) PROVE Streams'
  <2>1. PICK a \in {"refused", "acquire", "allow"}:
          Goto(r, a) /\ (a = "acquire" => path[r] = "stream") /\ (a = "allow" => path[r] # "stream")
    BY <1>3 DEF RateLimit, Limited
  <2>2. OnlyStreams' /\ Open' = Open /\ Undoing' = Undoing
    BY <1>3, <2>1, PathKept DEF RateLimit, Places, Counted
  <2> QED
    BY <1>3, <2>2, SameStreams DEF RateLimit
<1>4. ASSUME NEW r \in Requests, BreakerAllow(r) PROVE Streams'
  <2>1. CASE Goto(r, "upstream")
    <3>1. OnlyStreams' /\ Open' = Open /\ Undoing' = Undoing
      BY <1>4, <2>1, PathKept DEF BreakerAllow, Places, Counted
    <3> QED
      BY <1>4, <3>1, SameStreams DEF BreakerAllow
  <2>2. CASE Ends(r, "refused")
    <3>1. OnlyStreams' /\ Open' = Open /\ Undoing' = Undoing
      BY <1>4, <2>2, EndKept DEF BreakerAllow
    <3> QED
      BY <1>4, <3>1, SameStreams DEF BreakerAllow
  <2> QED
    BY <1>4, <2>1, <2>2 DEF BreakerAllow
<1>5. ASSUME NEW r \in Requests, Answer(r) \/ Abort(r) PROVE Streams'
  <2>1. at[r] = "upstream" /\ Ends(r, "done") /\ UNCHANGED <<path, sse, drift>>
    BY <1>5 DEF Answer, Abort
  <2>2. OnlyStreams' /\ Open' = Open /\ Undoing' = Undoing
    BY <2>1, EndKept
  <2> QED
    BY <2>1, <2>2, SameStreams
<1>6. ASSUME NEW r \in Requests, AcquireRaises(r) PROVE Streams'
  <2>1. \A q \in Requests: at'[q] = IF q = r THEN "allow" ELSE at[q]
    BY <1>6 DEF AcquireRaises, Goto, TypeOK
  <2>2. OnlyStreams'
    BY <1>6, <2>1 DEF AcquireRaises, Streams, OnlyStreams
  <2>3. drift' = TRUE
    BY <1>6 DEF AcquireRaises
  <2> QED
    BY <2>2, <2>3 DEF Streams, StreamsCounted, StreamLimit
<1>7. CASE SseExpires
  <2>1. drift' = TRUE /\ OnlyStreams'
    BY <1>7 DEF SseExpires, Streams, OnlyStreams
  <2> QED
    BY <2>1 DEF Streams, StreamsCounted, StreamLimit
<1>8. CASE Tick \/ UNCHANGED vars
  <2>1. UNCHANGED <<at, path, sse, drift>>
    BY <1>8 DEF Tick, vars
  <2> QED
    BY <2>1 DEF Streams, OnlyStreams, StreamsCounted, StreamLimit, Open, Undoing
<1> QED
  BY <1>1, <1>2, <1>3, <1>4, <1>5, <1>6, <1>7, <1>8,
     AcquireStreams, UndoStreams, ReleaseStreams, RestartStreams DEF Next, Step

-----------------------------------------------------------------------------
(* The results. *)

LEMMA InitIInv == Init => IInv
<1> SUFFICES ASSUME Init PROVE IInv
  OBVIOUS
<1>1. TypeOK
  <2>1. now \in Ticks /\ openUntil \in Nat /\ sse \in Int
    BY TimeAssumption DEF Init, Ticks
  <2>2. sseTtl \in BOOLEAN /\ drift \in BOOLEAN
    BY Zenon DEF Init
  <2>3. NoCalls \in [Ticks -> Nat]
    BY DEF NoCalls
  <2>4. at \in [Requests -> Places]
    BY DEF Init, Places
  <2> QED
    BY <2>1, <2>2, <2>3, <2>4 DEF Init, TypeOK
<1>2. Windows
  <2>1. Remembered
    BY TimeAssumption DEF Init, Remembered
  <2>2. ASSUME NEW k \in Keys, NEW t \in Ticks
        PROVE  Cardinality({r \in Requests: admitted[k][r] \in t..(t + LimitWindow - 1)})
                 <= Limit[k]
    <3>1. {r \in Requests: admitted[k][r] \in t..(t + LimitWindow - 1)} = {}
      BY TimeAssumption DEF Init, Ticks
    <3>2. Cardinality({}) = 0 /\ Limit[k] \in Nat
      BY FS_EmptySet, LimitAssumption
    <3> QED
      BY <3>1, <3>2
  <2> QED
    BY <2>1, <2>2 DEF Windows, WindowLimit
<1>3. Streams
  <2>1. Open = {} /\ Undoing = {} /\ OnlyStreams
    BY DEF Init, Open, Undoing, OnlyStreams
  <2> QED
    BY <2>1, FS_EmptySet, LimitAssumption DEF Init, Streams, StreamsCounted, StreamLimit
<1> QED
  BY <1>1, <1>2, <1>3 DEF IInv

(* The invariant of the gateway: types, the sliding windows and the stream *)
(* counter, for any requests, limits and disturbances.                     *)
THEOREM GatewayInductive == Spec => []IInv
<1>1. IInv /\ [Next]_vars => IInv'
  BY TypeStep, WindowStep, StreamStep DEF IInv
<1> QED
  BY InitIInv, <1>1, PTL DEF Spec

(* Whichever window of time one looks at, no key lets more than its limit  *)
(* through (internal/limit Allow).                                         *)
THEOREM WindowsHold == Spec => []WindowLimit
<1>1. IInv => WindowLimit
  BY DEF IInv, Windows
<1> QED
  BY <1>1, GatewayInductive, PTL

(* While no command was lost and the counter has not expired, a user has   *)
(* no more streams than allowed (internal/middleware RateLimit).           *)
THEOREM StreamsLimited == Spec => []StreamLimit
<1>1. IInv => StreamLimit
  BY DEF IInv, Streams
<1> QED
  BY <1>1, GatewayInductive, PTL

(* And the counter says how many they are (internal/limit AcquireSSE,      *)
(* ReleaseSSE).                                                            *)
THEOREM StreamsAreCounted == Spec => []StreamsCounted
<1>1. IInv => StreamsCounted
  BY DEF IInv, Streams
<1> QED
  BY <1>1, GatewayInductive, PTL

(* Nothing but the end of its period, or a restart of the gateway, takes   *)
(* the breaker out of the open state: in it, successes and failures of     *)
(* requests let through before are only counted (internal/breaker).        *)
THEOREM OpenStaysOpen == Spec => StaysOpen
<1>1. ASSUME TypeOK, [Next]_vars, state = "open", state' # "open"
      PROVE  now > openUntil \/ used'["crash"] > used["crash"]
  <2>1. RecordSuccess \/ RecordFailure => state' = "open"
    BY <1>1 DEF RecordSuccess, RecordFailure
  <2>2. Restart => used'["crash"] > used["crash"]
    BY <1>1 DEF Restart, Spend, TypeOK, Disturbances
  <2>3. ASSUME NEW r \in Requests, BreakerAllow(r) PROVE now > openUntil
    BY <1>1, <2>3 DEF BreakerAllow
  <2>4. ASSUME NEW r \in Requests, Answer(r) PROVE FALSE
    BY <1>1, <2>1, <2>4 DEF Answer
  <2>5. ASSUME NEW r \in Requests, Step(r) \/ Arrives(r) \/ AcquireRaises(r) \/ Abort(r)
        PROVE  now > openUntil
    BY <1>1, <2>3, <2>4, <2>5
       DEF Step, Arrives, Arrive, Auth, RateLimit, AcquireSSE, UndoSSE, ReleaseSSE, AcquireRaises,
           Abort, breakerVars
  <2>6. SseExpires \/ Tick \/ UNCHANGED vars => state' = state
    BY DEF SseExpires, Tick, vars, breakerVars
  <2> QED
    BY <1>1, <2>2, <2>5, <2>6 DEF Next
<1>2. IInv => TypeOK
  BY DEF IInv
<1> QED
  BY <1>1, <1>2, GatewayInductive, PTL DEF Spec, StaysOpen

-----------------------------------------------------------------------------
(* Sums over finite sets, by smallest counterexamples. *)

Pick(u) == CHOOSE x \in u: TRUE

(* g is the sum of f over each subset of S, as MapThenSumSet computes it.  *)
Sums(g, f, S) ==
  g = [u \in SUBSET S |-> IF u = {} THEN 0 ELSE f[Pick(u)] + g[u \ {Pick(u)}]]

SumOver(f, S) == MapThenSumSet(LAMBDA x: f[x], S)

LEMMA SumIsSums ==
  ASSUME NEW f, NEW S
  PROVE  SumOver(f, S) = (CHOOSE g: Sums(g, f, S))[S]
BY DEF SumOver, MapThenSumSet, MapThenFoldSet, Sums, Pick

(* What is false of some subset is false of one and true of all smaller.   *)
LEMMA SmallestSubset ==
  ASSUME NEW S, IsFiniteSet(S), NEW T, T \subseteq SUBSET S, T # {}
  PROVE  \E u \in T: \A v \in T: v \subseteq u => v = u
<1>1. IsWellFoundedOn(StrictSubsetOrdering(S), SUBSET S)
  BY FS_StrictSubsetOrderingWellFounded, FS_FiniteSubsetsOfFinite
<1>2. PICK u \in T: \A v \in T: ~(<<v, u>> \in StrictSubsetOrdering(S))
  BY <1>1, WFMin
<1>3. ASSUME NEW v \in T, v \subseteq u, v # u PROVE FALSE
  <2>1. <<v, u>> \in StrictSubsetOrdering(S)
    BY <1>3 DEF StrictSubsetOrdering
  <2> QED
    BY <1>2, <2>1
<1> QED
  BY <1>3

LEMMA SumsStep ==
  ASSUME NEW S, NEW f, NEW g, Sums(g, f, S), NEW u \in SUBSET S
  PROVE  /\ u = {} => g[u] = 0
         /\ u # {} => /\ Pick(u) \in u
                      /\ g[u] = f[Pick(u)] + g[u \ {Pick(u)}]
BY DEF Sums, Pick

LEMMA SumsAgree ==
  ASSUME NEW S, IsFiniteSet(S), NEW R \in SUBSET S, NEW f, NEW g, NEW h,
         Sums(g, f, S), Sums(h, f, R)
  PROVE  \A u \in SUBSET R: g[u] = h[u]
<1> DEFINE T == {u \in SUBSET R: g[u] # h[u]}
<1> SUFFICES ASSUME T # {} PROVE FALSE
  OBVIOUS
<1>1. PICK u \in T: \A v \in T: v \subseteq u => v = u
  <2>1. T \subseteq SUBSET S
    OBVIOUS
  <2> HIDE DEF T
  <2> QED
    BY <2>1, SmallestSubset
<1>2. u \in SUBSET R /\ u \in SUBSET S /\ g[u] # h[u]
  OBVIOUS
<1>3. /\ u = {} => g[u] = 0
      /\ u # {} => Pick(u) \in u /\ g[u] = f[Pick(u)] + g[u \ {Pick(u)}]
  BY <1>2, SumsStep
<1>4. /\ u = {} => h[u] = 0
      /\ u # {} => h[u] = f[Pick(u)] + h[u \ {Pick(u)}]
  BY <1>2, SumsStep
<1>5. u \ {Pick(u)} \notin T
  BY <1>1, <1>2, <1>3, <1>4
<1> QED
  BY <1>2, <1>3, <1>4, <1>5

LEMMA SumsExist ==
  ASSUME NEW S, IsFiniteSet(S), NEW f
  PROVE  \E g: Sums(g, f, S)
<1> DEFINE T == {u \in SUBSET S: ~\E g: Sums(g, f, u)}
<1> SUFFICES ASSUME T # {} PROVE FALSE
  OBVIOUS
<1>1. PICK u \in T: \A v \in T: v \subseteq u => v = u
  <2>1. T \subseteq SUBSET S
    OBVIOUS
  <2> HIDE DEF T
  <2> QED
    BY <2>1, SmallestSubset
<1> DEFINE G(v) == CHOOSE g: Sums(g, f, v)
           below == [v \in SUBSET u |-> IF v = {} THEN 0 ELSE f[Pick(v)] + G(v \ {Pick(v)})[v \ {Pick(v)}]]
<1>2. ASSUME NEW v \in SUBSET u, v # u PROVE Sums(G(v), f, v)
  BY <1>1, <1>2
<1>3. ASSUME NEW v \in SUBSET u, v # u PROVE G(v)[v] = below[v]
  <2>1. Sums(G(v), f, v) /\ v \in SUBSET v
    BY <1>2, <1>3
  <2> HIDE DEF G
  <2>2. CASE v = {}
    BY <2>1, <2>2, SumsStep
  <2>3. CASE v # {}
    <3> DEFINE w == v \ {Pick(v)}
    <3>1. Pick(v) \in v /\ G(v)[v] = f[Pick(v)] + G(v)[w]
      BY <2>1, <2>3, SumsStep
    <3>2. w \in SUBSET u /\ w # u /\ w \in SUBSET v /\ w \in SUBSET w
      BY <1>3, <3>1
    <3>3. Sums(G(w), f, w)
      BY <1>2, <3>2
    <3>4. IsFiniteSet(v)
      BY FS_Subset
    <3>5. G(v)[w] = G(w)[w]
      BY <2>1, <3>2, <3>3, <3>4, SumsAgree
    <3> QED
      BY <2>3, <3>1, <3>5
  <2> QED
    BY <2>2, <2>3
<1>4. Sums(below, f, u)
  <2>1. ASSUME NEW v \in SUBSET u, v # {}
        PROVE  G(v \ {Pick(v)})[v \ {Pick(v)}] = below[v \ {Pick(v)}]
    <3>1. Pick(v) \in v
      BY <2>1 DEF Pick
    <3>2. v \ {Pick(v)} \in SUBSET u /\ v \ {Pick(v)} # u
      BY <3>1
    <3> HIDE DEF G, below
    <3> QED
      BY <1>3, <3>2
  <2> HIDE DEF G
  <2>2. below = [v \in SUBSET u |-> IF v = {} THEN 0 ELSE f[Pick(v)] + below[v \ {Pick(v)}]]
    BY <2>1
  <2> HIDE DEF below
  <2> QED
    BY <2>2 DEF Sums
<1> QED
  BY <1>1, <1>4

LEMMA SumIsRecursive ==
  ASSUME NEW S, IsFiniteSet(S), NEW f
  PROVE  \E g: Sums(g, f, S) /\ \A u \in SUBSET S: SumOver(f, u) = g[u]
<1> DEFINE G(u) == CHOOSE g: Sums(g, f, u)
<1>1. ASSUME NEW u \in SUBSET S PROVE Sums(G(u), f, u)
  <2>1. IsFiniteSet(u)
    BY FS_Subset
  <2> QED
    BY <2>1, SumsExist
<1>2. ASSUME NEW u \in SUBSET S PROVE SumOver(f, u) = G(S)[u]
  <2>1. SumOver(f, u) = G(u)[u]
    BY SumIsSums
  <2>2. Sums(G(u), f, u) /\ Sums(G(S), f, S)
    BY <1>1
  <2> HIDE DEF G
  <2>3. G(S)[u] = G(u)[u]
    BY <2>2, SumsAgree
  <2> QED
    BY <2>1, <2>3
<1> QED
  BY <1>1, <1>2

LEMMA SumStep ==
  ASSUME NEW S, IsFiniteSet(S), NEW f, NEW u \in SUBSET S
  PROVE  /\ u = {} => SumOver(f, u) = 0
         /\ u # {} => /\ Pick(u) \in u
                      /\ SumOver(f, u) = f[Pick(u)] + SumOver(f, u \ {Pick(u)})
<1>1. PICK g: Sums(g, f, S) /\ \A v \in SUBSET S: SumOver(f, v) = g[v]
  BY SumIsRecursive
<1>2. /\ u = {} => g[u] = 0
      /\ u # {} => Pick(u) \in u /\ g[u] = f[Pick(u)] + g[u \ {Pick(u)}]
  BY <1>1, SumsStep
<1>3. SumOver(f, u) = g[u] /\ SumOver(f, u \ {Pick(u)}) = g[u \ {Pick(u)}]
  BY <1>1
<1> QED
  BY <1>2, <1>3

LEMMA SumIsNat ==
  ASSUME NEW S, IsFiniteSet(S), NEW f \in [S -> Nat]
  PROVE  \A u \in SUBSET S: SumOver(f, u) \in Nat
<1> DEFINE T == {u \in SUBSET S: SumOver(f, u) \notin Nat}
<1> SUFFICES ASSUME T # {} PROVE FALSE
  OBVIOUS
<1>1. PICK u \in T: \A v \in T: v \subseteq u => v = u
  <2>1. T \subseteq SUBSET S
    OBVIOUS
  <2> HIDE DEF T
  <2> QED
    BY <2>1, SmallestSubset
<1>2. /\ u = {} => SumOver(f, u) = 0
      /\ u # {} => Pick(u) \in u /\ SumOver(f, u) = f[Pick(u)] + SumOver(f, u \ {Pick(u)})
  <2>1. u \in SUBSET S
    OBVIOUS
  <2> HIDE DEF T
  <2> QED
    BY <2>1, SumStep
<1>3. u # {} => SumOver(f, u \ {Pick(u)}) \in Nat
  BY <1>1, <1>2
<1> QED
  BY <1>2, <1>3

(* The order in which the elements are taken does not matter.              *)
LEMMA SumOfOneMore ==
  ASSUME NEW S, IsFiniteSet(S), NEW f \in [S -> Nat], NEW u \in SUBSET S, NEW x \in S \ u
  PROVE  SumOver(f, u \cup {x}) = f[x] + SumOver(f, u)
<1> DEFINE Bad(v) == \E y \in S \ v: SumOver(f, v \cup {y}) # f[y] + SumOver(f, v)
           T == {v \in SUBSET S: Bad(v)}
<1> SUFFICES ASSUME T # {} PROVE FALSE
  OBVIOUS
<1>1. PICK v \in T: \A w \in T: w \subseteq v => w = v
  <2>1. T \subseteq SUBSET S
    OBVIOUS
  <2> HIDE DEF T
  <2> QED
    BY <2>1, SmallestSubset
<1>2. PICK y \in S \ v: SumOver(f, v \cup {y}) # f[y] + SumOver(f, v)
  OBVIOUS
<1> DEFINE z == Pick(v \cup {y})
           w == v \ {z}
<1>3. z \in v \cup {y} /\ SumOver(f, v \cup {y}) = f[z] + SumOver(f, (v \cup {y}) \ {z})
  <2> DEFINE vy == v \cup {y}
  <2>1. vy \in SUBSET S /\ vy # {}
    OBVIOUS
  <2> HIDE DEF vy, T
  <2>2. Pick(vy) \in vy /\ SumOver(f, vy) = f[Pick(vy)] + SumOver(f, vy \ {Pick(vy)})
    BY <2>1, SumStep
  <2> QED
    BY <2>2 DEF vy
<1>4. CASE z = y
  <2>1. (v \cup {y}) \ {z} = v
    BY <1>4
  <2> QED
    BY <1>2, <1>3, <1>4, <2>1
<1>5. CASE z # y
  <2>1. z \in v /\ w \subseteq v /\ w # v /\ w \in SUBSET S
    BY <1>3, <1>5
  <2>2. w \notin T
    BY <1>1, <2>1
  <2>3. z \in S \ w /\ y \in S \ w
    BY <2>1
  <2>4. SumOver(f, w \cup {z}) = f[z] + SumOver(f, w) /\ SumOver(f, w \cup {y}) = f[y] + SumOver(f, w)
    BY <2>1, <2>2, <2>3
  <2>5. w \cup {z} = v /\ w \cup {y} = (v \cup {y}) \ {z}
    BY <1>5, <2>1
  <2>6. SumOver(f, w) \in Nat /\ f[z] \in Nat /\ f[y] \in Nat
    BY <2>1, SumIsNat
  <2> HIDE DEF z, w
  <2> QED
    BY <1>2, <1>3, <2>4, <2>5, <2>6
<1> QED
  BY <1>4, <1>5

(* A sum in which what is outside R counts nothing is at most that of more *)
(* over R.                                                                 *)
LEMMA SumGrows ==
  ASSUME NEW S, IsFiniteSet(S), NEW R \in SUBSET S, NEW f \in [S -> Nat], NEW h \in [S -> Nat],
         \A x \in S: f[x] <= (IF x \in R THEN h[x] ELSE 0)
  PROVE  SumOver(f, S) <= SumOver(h, R)
<1> DEFINE T == {u \in SUBSET S: ~(SumOver(f, u) <= SumOver(h, u \cap R))}
<1> SUFFICES T = {}
  BY S \cap R = R
<1> SUFFICES ASSUME T # {} PROVE FALSE
  OBVIOUS
<1>1. PICK u \in T: \A v \in T: v \subseteq u => v = u
  <2>1. T \subseteq SUBSET S
    OBVIOUS
  <2> HIDE DEF T
  <2> QED
    BY <2>1, SmallestSubset
<1> DEFINE x == Pick(u)
           w == u \ {x}
<1>2. /\ u = {} => SumOver(f, u) = 0
      /\ u # {} => x \in u /\ SumOver(f, u) = f[x] + SumOver(f, w)
  <2>1. u \in SUBSET S
    OBVIOUS
  <2> HIDE DEF T
  <2> QED
    BY <2>1, SumStep
<1>3. \A v \in SUBSET S: SumOver(f, v) \in Nat /\ SumOver(h, v) \in Nat
  BY SumIsNat
<1>4. u # {}
  BY <1>2, <1>3
<1>5. w \notin T /\ w \in SUBSET S
  BY <1>1, <1>2, <1>4
<1>6. SumOver(f, w) <= SumOver(h, w \cap R)
  BY <1>5
<1>7. SumOver(h, u \cap R) >= SumOver(h, w \cap R) + f[x]
  <2>1. CASE x \in R
    <3>1. u \cap R = (w \cap R) \cup {x} /\ w \cap R \in SUBSET S /\ x \in S \ (w \cap R)
      BY <1>2, <1>4, <2>1
    <3>2. SumOver(h, u \cap R) = h[x] + SumOver(h, w \cap R)
      BY <3>1, SumOfOneMore
    <3>3. f[x] <= h[x] /\ f[x] \in Nat /\ h[x] \in Nat /\ SumOver(h, w \cap R) \in Nat
      BY <1>3, <2>1, <3>1
    <3> HIDE DEF x, w
    <3> QED
      BY <3>2, <3>3
  <2>2. CASE x \notin R
    <3>1. u \cap R = w \cap R /\ x \in S /\ w \cap R \in SUBSET S
      BY <1>2, <1>4, <2>2
    <3>2. f[x] = 0 /\ SumOver(h, w \cap R) \in Nat
      BY <1>3, <2>2, <3>1
    <3> HIDE DEF x, w
    <3> QED
      BY <3>1, <3>2
  <2> QED
    BY <2>1, <2>2
<1>8. /\ f[x] \in Nat /\ SumOver(f, w) \in Nat /\ SumOver(h, w \cap R) \in Nat
      /\ SumOver(h, u \cap R) \in Nat
  BY <1>2, <1>3, <1>4, <1>5
<1> HIDE DEF x, w
<1>9. SumOver(f, u) <= SumOver(h, u \cap R)
  BY <1>2, <1>4, <1>6, <1>7, <1>8
<1> QED
  BY <1>9

-----------------------------------------------------------------------------
(* The breaker opens. *)

(* It counts no failure that there was not.                                *)
Fallen == \A t \in Ticks: failures[t] <= fell[t]

LEMMA FallenFailure ==
  ASSUME TypeOK, Fallen, RecordFailure
  PROVE  Fallen'
<1> DEFINE f == [Recent(failures) EXCEPT ![now] = @ + 1]
<1>1. failures \in [Ticks -> Nat] /\ fell \in [Ticks -> Nat] /\ now \in Ticks
  BY DEF TypeOK
<1>2. fell' = [fell EXCEPT ![now] = @ + 1] /\ failures' \in {f, NoCalls}
  BY DEF RecordFailure
<1> SUFFICES ASSUME NEW t \in Ticks PROVE failures'[t] <= fell'[t]
  BY DEF Fallen
<1>3. failures[t] \in Nat /\ fell[t] \in Nat /\ failures[t] <= fell[t]
  BY <1>1 DEF Fallen
<1>4. fell'[t] = IF t = now THEN fell[t] + 1 ELSE fell[t]
  BY <1>1, <1>2
<1>5. Recent(failures)[t] \in {0, failures[t]} /\ Recent(failures) \in [Ticks -> Nat]
  BY <1>1, RecentType DEF Recent
<1>6. f[t] = IF t = now THEN Recent(failures)[t] + 1 ELSE Recent(failures)[t]
  BY <1>1, <1>5
<1>7. NoCalls[t] = 0
  BY DEF NoCalls
<1> HIDE DEF f
<1>8. CASE failures' = f
  BY <1>3, <1>4, <1>5, <1>6, <1>8
<1>9. CASE failures' = NoCalls
  BY <1>3, <1>4, <1>7, <1>9
<1> QED
  BY <1>2, <1>8, <1>9

LEMMA FallenStep == TypeOK /\ Fallen /\ [Next]_vars => Fallen'
<1> SUFFICES ASSUME TypeOK, Fallen, [Next]_vars PROVE Fallen'
  OBVIOUS
<1> DEFINE Fewer == fell' = fell /\ failures' \in {failures, Recent(failures), NoCalls}
<1>1. CASE Fewer
  <2> SUFFICES ASSUME NEW t \in Ticks PROVE failures'[t] <= fell'[t]
    BY DEF Fallen
  <2>1. failures[t] \in Nat /\ fell[t] \in Nat /\ failures[t] <= fell[t]
    BY DEF Fallen, TypeOK
  <2>2. Recent(failures)[t] \in {0, failures[t]} /\ NoCalls[t] = 0
    BY DEF Recent, NoCalls
  <2> QED
    BY <1>1, <2>1, <2>2
<1>2. RecordSuccess => Fewer
  BY DEF RecordSuccess
<1>3. ASSUME NEW r \in Requests, Arrives(r) \/ Step(r) \/ AcquireRaises(r) \/ Abort(r)
      PROVE  RecordFailure \/ Fewer
  <2>1. CASE Answer(r)
    BY <1>2, <2>1 DEF Answer
  <2>2. CASE BreakerAllow(r)
    BY <2>2 DEF BreakerAllow
  <2>3. CASE Arrives(r) \/ Auth(r) \/ RateLimit(r) \/ AcquireSSE(r) \/ UndoSSE(r)
             \/ ReleaseSSE(r) \/ AcquireRaises(r) \/ Abort(r)
    BY <2>3
       DEF Arrives, Arrive, Auth, RateLimit, AcquireSSE, UndoSSE, ReleaseSSE, AcquireRaises,
           Abort, breakerVars
  <2> QED
    BY <1>3, <2>1, <2>2, <2>3 DEF Step
<1>4. Restart \/ SseExpires \/ Tick \/ UNCHANGED vars => Fewer
  BY DEF Restart, SseExpires, Tick, vars, breakerVars
<1> HIDE DEF Fewer
<1>5. RecordFailure \/ Fewer
  BY <1>3, <1>4 DEF Next
<1> QED
  BY <1>1, <1>5, FallenFailure

(* The breaker opens from the closed state only on enough failures within  *)
(* the window (internal/breaker), whichever requests they are of and       *)
(* however many ticks, requests and disturbances there are.                *)
THEOREM BreakerOpensOnFailures == Spec => OpensOnFailures
<1> DEFINE R == {t \in Ticks: t >= now - FailWindow}
<1>1. ASSUME TypeOK, Fallen, [Next]_vars, state = "closed", state' = "open"
      PROVE  MapThenSumSet(LAMBDA t: fell'[t], R) >= FailThreshold
  <2>1. RecordFailure
    <3>1. ASSUME NEW r \in Requests, Step(r) \/ Arrives(r) \/ AcquireRaises(r) \/ Abort(r)
          PROVE  RecordFailure
      BY <1>1, <3>1
         DEF Step, Arrives, Arrive, Auth, RateLimit, AcquireSSE, UndoSSE, ReleaseSSE,
             AcquireRaises, Abort, BreakerAllow, Answer, RecordSuccess, breakerVars
    <3>2. Restart \/ SseExpires \/ Tick \/ UNCHANGED vars => state' = "closed"
      BY <1>1 DEF Restart, SseExpires, Tick, vars, breakerVars
    <3> QED
      BY <1>1, <3>1, <3>2 DEF Next
  <2> DEFINE f == [Recent(failures) EXCEPT ![now] = @ + 1]
             h == fell'
  <2>2. SumOver(f, Ticks) >= FailThreshold
    BY <1>1, <2>1 DEF RecordFailure, Trips, Total, SumOver
  <2>3. f \in [Ticks -> Nat] /\ h \in [Ticks -> Nat]
    BY <1>1, <2>1, RecentType DEF RecordFailure, TypeOK
  <2>4. \A t \in Ticks: f[t] <= (IF t \in R THEN h[t] ELSE 0)
    BY <1>1, <2>1, BreakerAssumption DEF RecordFailure, Fallen, Recent, TypeOK, Ticks
  <2>5. IsFiniteSet(Ticks) /\ R \in SUBSET Ticks
    BY FS_Interval, TimeAssumption DEF Ticks
  <2>6. SumOver(h, R) = MapThenSumSet(LAMBDA t: fell'[t], R)
    BY DEF SumOver
  <2> HIDE DEF f, h, R
  <2>7. SumOver(f, Ticks) <= SumOver(h, R)
    BY <2>3, <2>4, <2>5, SumGrows
  <2>8. SumOver(f, Ticks) \in Nat /\ SumOver(h, R) \in Nat /\ FailThreshold \in Nat
    BY <2>3, <2>5, SumIsNat, BreakerAssumption
  <2> QED
    BY <2>2, <2>6, <2>7, <2>8
<1>2. Init => TypeOK /\ Fallen
  BY InitIInv DEF IInv, Init, Fallen, NoCalls
<1>3. TypeOK /\ Fallen /\ [Next]_vars => (TypeOK /\ Fallen)'
  BY TypeStep, FallenStep
<1>4. TypeOK /\ Fallen /\ [Next]_vars =>
        [state = "closed" /\ state' = "open" =>
           MapThenSumSet(LAMBDA t: fell'[t], {t \in Ticks: t >= now - FailWindow})
             >= FailThreshold]_vars
  BY <1>1
<1> QED
  BY <1>2, <1>3, <1>4, PTL DEF Spec, OpensOnFailures
=============================================================================
