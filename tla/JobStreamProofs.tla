-------------------------- MODULE JobStreamProofs --------------------------
(***************************************************************************)
(* What a stream has sent, for any number of streams, clients, entries and *)
(* disturbances.                                                           *)
(*                                                                         *)
(* The argument: a message in the queue of a healthy stream stays in it or *)
(* goes to the client, so what was sent stays sent (Keeps).  The cursor    *)
(* only takes values that some task has just sent up to, and an answer     *)
(* starts where a cursor once was; the last drain starts after the         *)
(* watching tasks have stopped and sees at least what they saw.            *)
(***************************************************************************)
EXTENDS JobStream, SequenceTheorems, TLAPS

USE NoClientAssumption, MaxEntriesAssumption, BudgetAssumption, MaxDisturbancesAssumption

Healthy(s) == gen[s] = "open" /\ ~broken[s]

\* Everything after the client's last event id, up to n, has been sent.
SentUpTo(s, n) == Healthy(s) => (from[s] + 1) .. n \subseteq QueuedOrGot(s)

FirstPhase == {"off", "query", "deliver", "check"}
LastPhase == {"lastQuery", "lastDeliver", "conclude", "returned"}

\* A task that is not at its start was started by an opened stream; the
\* watching tasks run only after main's first drain and not beside its last.
Phases ==
  \A s \in Streams :
    /\ at[s]["main"] \in MainLabels
    /\ gen[s] = "unused" => at[s]["main"] = "off"
    /\ at[s]["main"] \in FirstPhase \cup LastPhase =>
         at[s]["sub"] = "off" /\ at[s]["poll"] = "off"
    /\ at[s]["main"] \in FirstPhase => saw[s] = 0

AnswersContinue ==
  \A s \in Streams, t \in Tasks :
    at[s][t] \in Answering =>
      /\ asked[s][t].after <= asked[s][t].len
      /\ SentUpTo(s, asked[s][t].after)

\* The last drain asks for at least what the watching tasks saw.
LastDrainSuffices ==
  \A s \in Streams :
    at[s]["main"] = "lastDeliver" => saw[s] <= asked[s]["main"].len

SentInv == CursorMeansSent /\ DoneAfterLastEntry /\ AnswersContinue /\ LastDrainSuffices

IInv == TypeOK /\ Phases /\ SentInv
-----------------------------------------------------------------------------
(* Sequences of messages. *)

Items(q) == {q[i] : i \in DOMAIN q}

LEMMA SentItems ==
  \A s : /\ QueuedOrGot(s) = got[client[s]] \cup Items(queue[s])
        /\ QueuedOrGot(s)' = got'[client'[s]] \cup Items(queue'[s])
  BY DEF QueuedOrGot, Items

LEMMA ConcatElements ==
  ASSUME NEW S, NEW p \in Seq(S), NEW q \in Seq(S)
  PROVE  Items(p) \cup Items(q) \subseteq Items(p \o q)
<1> DEFINE r == p \o q
<1>1. /\ r \in Seq(S)
      /\ Len(r) = Len(p) + Len(q)
      /\ \A i \in 1 .. Len(p) + Len(q) : r[i] = IF i <= Len(p) THEN p[i] ELSE q[i - Len(p)]
  BY ConcatProperties
<1>2. /\ Len(p) \in Nat /\ Len(q) \in Nat /\ Len(r) \in Nat
      /\ DOMAIN p = 1 .. Len(p) /\ DOMAIN q = 1 .. Len(q) /\ DOMAIN r = 1 .. Len(r)
  BY <1>1, LenProperties
<1> HIDE DEF r
<1>3. ASSUME NEW i \in DOMAIN p PROVE \E k \in DOMAIN r : r[k] = p[i]
  BY <1>1, <1>2
<1>4. ASSUME NEW i \in DOMAIN q PROVE \E k \in DOMAIN r : r[k] = q[i]
  <2>1. i + Len(p) \in DOMAIN r /\ r[i + Len(p)] = q[i]
    BY <1>1, <1>2
  <2> QED
    BY <2>1
<1> QED
  BY <1>3, <1>4 DEF r, Items

LEMMA TailElements ==
  ASSUME NEW S, NEW q \in Seq(S), q # << >>
  PROVE  Items(q) \subseteq {Head(q)} \cup Items(Tail(q))
<1> DEFINE r == Tail(q)
<1>1. /\ r \in Seq(S)
      /\ Len(r) = Len(q) - 1
      /\ \A i \in 1 .. Len(r) : r[i] = q[i + 1]
      /\ Head(q) = q[1]
  BY HeadTailProperties
<1>2. /\ Len(q) \in Nat /\ DOMAIN q = 1 .. Len(q) /\ DOMAIN r = 1 .. Len(r)
  BY <1>1, LenProperties
<1> HIDE DEF r
<1>3. ASSUME NEW i \in DOMAIN q, i # 1 PROVE \E k \in DOMAIN r : r[k] = q[i]
  <2>1. i - 1 \in DOMAIN r /\ r[i - 1] = q[i]
    BY <1>1, <1>2, <1>3
  <2> QED
    BY <2>1
<1> QED
  BY <1>1, <1>3 DEF r, Items

LEMMA IdsElements ==
  ASSUME NEW lo \in Nat, NEW hi \in Nat, lo <= hi
  PROVE  /\ Ids(lo, hi) \in Seq(0 .. hi)
         /\ (lo + 1) .. hi \subseteq Items(Ids(lo, hi))
<1>1. Ids(lo, hi) = [i \in 1 .. hi - lo |-> lo + i] /\ hi - lo \in Nat
  BY DEF Ids
<1>2. \A i \in 1 .. hi - lo : lo + i \in 0 .. hi
  OBVIOUS
<1>3. Ids(lo, hi) \in [1 .. hi - lo -> 0 .. hi]
  BY <1>1, <1>2
<1>4. ASSUME NEW n \in (lo + 1) .. hi
      PROVE  \E i \in DOMAIN Ids(lo, hi) : Ids(lo, hi)[i] = n
  <2>1. n - lo \in 1 .. hi - lo /\ lo + (n - lo) = n
    OBVIOUS
  <2> QED
    BY <1>1, <2>1
<1> QED
  BY <1>1, <1>3, <1>4, SeqDef DEF Items
-----------------------------------------------------------------------------
(* Types. *)

UsedType == used \in [Disturbances -> Nat]

LEMMA SpendType ==
  ASSUME NEW d \in Disturbances, UsedType, Spend(d) PROVE UsedType'
  BY DEF UsedType, Spend

LEMMA LogLength == JobType => Len(log) \in Nat
  BY DEF JobType

\* Whatever is bounded by the log stays so when the log grows.
LEMMA GrowGen ==
  ASSUME JobType, GenType, UNCHANGED genVars, Len(log') = Len(log) + 1
  PROVE  GenType'
<1>1. 0 .. Len(log) \subseteq 0 .. Len(log')
  BY LogLength
<1>2. \A s \in Streams : queue[s] \in Seq(0 .. Len(log'))
  BY <1>1, SeqMonotonic DEF GenType
<1>3. queue \in [Streams -> Seq(0 .. Len(log'))]
  BY <1>2 DEF GenType
<1> QED
  BY <1>3 DEF GenType, genVars

LEMMA GrowPush ==
  ASSUME JobType, PushType, UNCHANGED <<at, cursor, asked, saw>>,
         mail' \in [Streams -> Nat], Len(log') = Len(log) + 1
  PROVE  PushType'
<1>1. 0 .. Len(log) \subseteq 0 .. Len(log')
  BY LogLength
<1>2. \A s \in Streams, t \in Tasks :
        asked[s][t] \in [after : 0 .. Len(log'), len : 0 .. Len(log')]
  BY <1>1 DEF PushType
<1>3. asked' \in [Streams -> [Tasks -> [after : 0 .. Len(log'), len : 0 .. Len(log')]]]
  BY <1>2 DEF PushType
<1>4. cursor' \in [Streams -> 0 .. Len(log')] /\ saw' \in [Streams -> 0 .. Len(log')]
  BY <1>1 DEF PushType
<1> QED
  BY <1>3, <1>4 DEF PushType

LEMMA GrowClients ==
  ASSUME JobType, ClientType, UNCHANGED clientVars, Len(log') = Len(log) + 1
  PROVE  ClientType'
<1>1. 0 .. Len(log) \subseteq 0 .. Len(log') /\ 1 .. Len(log) \subseteq 1 .. Len(log')
  BY LogLength
<1> QED
  BY <1>1 DEF ClientType, clientVars

LEMMA RecordType ==
  ASSUME JobType, PushType, UsedType, NEW stage \in {"working", "completed"}, Record(stage)
  PROVE  /\ log' \in Seq({"working", "completed"})
         /\ Len(log') = Len(log) + 1
         /\ status' \in {"working", "completed", "failed"}
         /\ mail' \in [Streams -> Nat]
         /\ UsedType'
<1>1. log' \in Seq({"working", "completed"}) /\ Len(log') = Len(log) + 1
  BY AppendProperties DEF JobType, Record
<1>2. CASE /\ mail' = [s \in Streams |-> IF Listening(s) THEN mail[s] + 1 ELSE mail[s]]
           /\ UNCHANGED used
  BY <1>1, <1>2 DEF PushType, UsedType, Record
<1>3. CASE Spend("fault") /\ UNCHANGED mail
  BY <1>1, <1>3, SpendType DEF PushType, Record, Disturbances
<1> QED
  BY <1>2, <1>3 DEF Record

LEMMA BroadcastType ==
  ASSUME GenType, NEW msgs \in Seq(0 .. Len(log)), Broadcast(msgs),
         UNCHANGED <<log, gen, client, from, broken>>
  PROVE  GenType'
<1>1. ASSUME NEW s \in Streams PROVE queue[s] \o msgs \in Seq(0 .. Len(log))
  BY ConcatProperties DEF GenType
<1>2. queue' \in [Streams -> Seq(0 .. Len(log))]
  BY <1>1 DEF Broadcast, GenType
<1>3. \A s \in Streams : gen[s] # "open" => queue'[s] = << >>
  BY DEF Broadcast, GenType
<1> QED
  BY <1>2, <1>3 DEF GenType

Labels(t) == IF t = "main" THEN MainLabels ELSE IF t = "sub" THEN SubLabels ELSE PollLabels

\* One task moves to a label of its own, the rest of the push is typed apart.
LEMMA GotoType ==
  ASSUME PushType, NEW s \in Streams, NEW t \in Tasks, NEW l \in Labels(t), Goto(s, t, l),
         cursor' \in [Streams -> 0 .. Len(log)],
         asked' \in [Streams -> [Tasks -> [after : 0 .. Len(log), len : 0 .. Len(log)]]],
         mail' \in [Streams -> Nat],
         saw' \in [Streams -> 0 .. Len(log)],
         UNCHANGED log
  PROVE  PushType'
<1> DEFINE All == MainLabels \cup SubLabels \cup PollLabels
<1>1. at \in [Streams -> [Tasks -> All]] /\ l \in All
  BY DEF PushType, Labels
<1>2. at' = [at EXCEPT ![s] = [at[s] EXCEPT ![t] = l]]
  BY <1>1 DEF Goto
<1> HIDE DEF All
<1>3. at' \in [Streams -> [Tasks -> All]]
  BY <1>1, <1>2
<1>4. ASSUME NEW r \in Streams
      PROVE  at'[r]["sub"] \in SubLabels /\ at'[r]["poll"] \in PollLabels
  <2>1. at[r]["sub"] \in SubLabels /\ at[r]["poll"] \in PollLabels
    BY DEF PushType
  <2>2. r # s => at'[r] = at[r]
    BY <1>1, <1>2
  <2>3. \A u \in Tasks : at'[s][u] = IF u = t THEN l ELSE at[s][u]
    BY <1>1, <1>2
  <2> QED
    BY <2>1, <2>2, <2>3 DEF Labels, Tasks
<1> QED
  BY <1>3, <1>4 DEF PushType, All

LEMMA PushParts ==
  ASSUME PushType, UNCHANGED log
  PROVE  /\ UNCHANGED cursor => cursor' \in [Streams -> 0 .. Len(log)]
         /\ UNCHANGED asked =>
              asked' \in [Streams -> [Tasks -> [after : 0 .. Len(log), len : 0 .. Len(log)]]]
         /\ UNCHANGED mail => mail' \in [Streams -> Nat]
         /\ UNCHANGED saw => saw' \in [Streams -> 0 .. Len(log)]
  BY DEF PushType

LEMMA QueryTypes ==
  ASSUME TypeOK, NEW s \in Streams, NEW t \in Tasks, Query(s, t)
  PROVE  TypeOK'
<1> USE DEF TypeOK
<1> DEFINE l == IF at[s][t] = "query" THEN "deliver" ELSE "lastDeliver"
           q == [after |-> cursor[s], len |-> Len(log)]
<1>1. Goto(s, t, l) /\ asked' = [asked EXCEPT ![s][t] = q]
      /\ UNCHANGED <<jobVars, genVars, cursor, mail, saw, clientVars, used>>
  BY DEF Query
<1>2. l \in Labels(t)
  BY DEF Query, Querying, Labels, PushType, MainLabels, SubLabels, PollLabels, Tasks
<1>3. q \in [after : 0 .. Len(log), len : 0 .. Len(log)]
  BY LogLength DEF PushType
<1>4. asked' \in [Streams -> [Tasks -> [after : 0 .. Len(log), len : 0 .. Len(log)]]]
  <2> HIDE DEF q
  <2> QED
    BY <1>1, <1>3 DEF PushType
<1> HIDE DEF l, q
<1>5. PushType'
  BY <1>1, <1>2, <1>4, GotoType, PushParts DEF jobVars
<1> QED
  BY <1>1, <1>5 DEF jobVars, genVars, clientVars, JobType, GenType, ClientType

LEMMA AnswerType ==
  ASSUME PushType, JobType, NEW s \in Streams, NEW t \in Tasks,
         NEW hi \in asked[s][t].len .. Len(log)
  PROVE  hi \in 0 .. Len(log) /\ asked[s][t].after \in 0 .. Len(log)
<1>1. asked[s][t] \in [after : 0 .. Len(log), len : 0 .. Len(log)]
  BY DEF PushType
<1> QED
  BY <1>1, LogLength

LEMMA DeliverTypes ==
  ASSUME TypeOK, AnswersContinue, NEW s \in Streams, NEW t \in Tasks, Deliver(s, t)
  PROVE  TypeOK'
<1> USE DEF TypeOK
<1>0. PICK hi \in asked[s][t].len .. Len(log) :
        LET lo == asked[s][t].after IN
        /\ Broadcast(Ids(lo, hi))
        /\ cursor' = [cursor EXCEPT ![s] = IF hi > lo THEN hi ELSE @]
        /\ Goto(s, t, AfterDrain(t, at[s][t], hi > lo))
  BY DEF Deliver
<1> DEFINE lo == asked[s][t].after
           l == AfterDrain(t, at[s][t], hi > lo)
<1>1. /\ hi \in 0 .. Len(log) /\ lo \in 0 .. Len(log) /\ lo <= hi
      /\ Len(log) \in Nat
  <2>1. lo <= asked[s][t].len
    BY DEF AnswersContinue, Deliver
  <2>2. asked[s][t] \in [after : 0 .. Len(log), len : 0 .. Len(log)]
    BY DEF PushType
  <2> QED
    BY <2>1, <2>2, AnswerType, LogLength
<1>2. UNCHANGED <<jobVars, gen, client, from, broken, mail, saw, clientVars, used>>
      /\ asked' = [asked EXCEPT ![s][t] = NoQuery]
  BY DEF Deliver
<1>3. l \in Labels(t)
  BY DEF Deliver, Answering, AfterDrain, Labels, PushType, MainLabels, SubLabels, PollLabels,
         Tasks
<1>4. cursor' \in [Streams -> 0 .. Len(log)]
  BY <1>0, <1>1 DEF PushType
<1>5. asked' \in [Streams -> [Tasks -> [after : 0 .. Len(log), len : 0 .. Len(log)]]]
  <2>1. NoQuery \in [after : 0 .. Len(log), len : 0 .. Len(log)]
    BY <1>1 DEF NoQuery
  <2> QED
    BY <1>2, <2>1 DEF PushType
<1>6. Ids(lo, hi) \in Seq(0 .. Len(log))
  <2> HIDE DEF lo
  <2>1. lo \in Nat /\ hi \in Nat /\ lo <= hi /\ 0 .. hi \subseteq 0 .. Len(log)
    BY <1>1
  <2>2. Ids(lo, hi) \in Seq(0 .. hi)
    BY <2>1, IdsElements
  <2> QED
    BY <2>1, <2>2, SeqMonotonic
<1>7. Broadcast(Ids(lo, hi)) /\ Goto(s, t, l)
  BY <1>0
<1> HIDE DEF l, lo
<1>8. PushType'
  BY <1>2, <1>3, <1>4, <1>5, <1>7, GotoType, PushParts DEF jobVars
<1>9. GenType'
  BY <1>2, <1>6, <1>7, BroadcastType DEF jobVars
<1> QED
  BY <1>2, <1>8, <1>9 DEF jobVars, clientVars, JobType, ClientType

LEMMA FirstCheckTypes ==
  ASSUME TypeOK, NEW s \in Streams, FirstCheck(s)
  PROVE  TypeOK'
<1> USE DEF TypeOK
<1>1. UNCHANGED <<jobVars, gen, client, from, broken, cursor, asked, mail, saw, clientVars, used>>
  BY DEF FirstCheck
<1>2. CASE Broadcast(<<Done>>) /\ Goto(s, "main", "returned")
  <2>1. <<Done>> \in Seq(0 .. Len(log))
    BY LogLength DEF Done
  <2>2. GenType'
    BY <1>1, <1>2, <2>1, BroadcastType DEF jobVars
  <2>3. "returned" \in Labels("main") /\ "main" \in Tasks
    BY DEF Labels, MainLabels, Tasks
  <2>4. PushType'
    BY <1>1, <1>2, <2>3, GotoType, PushParts DEF jobVars
  <2> QED
    BY <1>1, <2>2, <2>4 DEF jobVars, clientVars, JobType, ClientType
<1>3. CASE /\ at' = [at EXCEPT ![s] = [main |-> "watch", sub |-> "subscribe", poll |-> "query"]]
           /\ UNCHANGED queue
  <2>1. [main |-> "watch", sub |-> "subscribe", poll |-> "query"]
          \in [Tasks -> MainLabels \cup SubLabels \cup PollLabels]
    BY DEF Tasks, MainLabels, SubLabels, PollLabels
  <2>2. PushType'
    BY <1>1, <1>3, <2>1 DEF PushType, SubLabels, PollLabels, jobVars
  <2> QED
    BY <1>1, <1>3, <2>2 DEF jobVars, clientVars, JobType, GenType, ClientType
<1> QED
  BY <1>2, <1>3 DEF FirstCheck

\* The steps of one task that touch neither the queues nor the cursor.
LEMMA TaskTypes ==
  ASSUME TypeOK, NEW s \in Streams, NEW t \in Tasks,
         Subscribe(s) \/ Hear(s) \/ Check(s, t) \/ TaskFails(s, t)
  PROVE  TypeOK'
<1> USE DEF TypeOK
<1>1. CASE Subscribe(s)
  <2>1. "listen" \in Labels("sub") /\ "sub" \in Tasks
    BY DEF Labels, SubLabels, Tasks
  <2>2. PushType'
    BY <1>1, <2>1, GotoType, PushParts DEF Subscribe, jobVars
  <2> QED
    BY <1>1, <2>2 DEF Subscribe, jobVars, genVars, clientVars, JobType, GenType, ClientType
<1>2. CASE Hear(s)
  <2>1. "query" \in Labels("sub") /\ "sub" \in Tasks
    BY DEF Labels, SubLabels, Tasks
  <2>2. mail' \in [Streams -> Nat]
    BY <1>2 DEF Hear, PushType
  <2>3. PushType'
    BY <1>2, <2>1, <2>2, GotoType, PushParts DEF Hear, jobVars
  <2> QED
    BY <1>2, <2>3 DEF Hear, jobVars, genVars, clientVars, JobType, GenType, ClientType
<1>3. CASE Check(s, t)
  <2>1. PICK l \in {"exited", "listen", "query"} : Goto(s, t, l) /\ l \in Labels(t)
    BY <1>3 DEF Check, Labels, SubLabels, PollLabels
  <2>2. saw' \in [Streams -> 0 .. Len(log)]
    <3>1. Larger(saw[s], Len(log)) \in 0 .. Len(log)
      BY LogLength DEF PushType, Larger
    <3> QED
      BY <1>3, <3>1 DEF Check, PushType
  <2>3. PushType'
    BY <1>3, <2>1, <2>2, GotoType, PushParts DEF Check, jobVars
  <2> QED
    BY <1>3, <2>3 DEF Check, jobVars, genVars, clientVars, JobType, GenType, ClientType
<1>4. CASE TaskFails(s, t)
  <2> DEFINE l == IF t = "main" THEN "raised" ELSE "exited"
  <2>1. l \in Labels(t)
    BY DEF Labels, MainLabels, SubLabels, PollLabels
  <2>2. Goto(s, t, l) /\ UNCHANGED <<jobVars, genVars, cursor, asked, mail, saw, clientVars>>
    BY <1>4 DEF TaskFails
  <2>3. UsedType'
    BY <1>4, SpendType DEF TaskFails, UsedType, Disturbances
  <2> HIDE DEF l
  <2>4. PushType'
    BY <2>1, <2>2, GotoType, PushParts DEF jobVars
  <2> QED
    BY <2>2, <2>3, <2>4 DEF UsedType, jobVars, genVars, clientVars, JobType, GenType, ClientType
<1> QED
  BY <1>1, <1>2, <1>3, <1>4

LEMMA MainTypes ==
  ASSUME TypeOK, NEW s \in Streams, Wake(s) \/ Conclude(s)
  PROVE  TypeOK'
<1> USE DEF TypeOK
<1>1. CASE Wake(s)
  <2>1. [main |-> "lastQuery", sub |-> "off", poll |-> "off"]
          \in [Tasks -> MainLabels \cup SubLabels \cup PollLabels]
    BY DEF Tasks, MainLabels, SubLabels, PollLabels
  <2>2. [t \in Tasks |-> NoQuery] \in [Tasks -> [after : 0 .. Len(log), len : 0 .. Len(log)]]
    BY LogLength DEF NoQuery
  <2>3. /\ at' = [at EXCEPT ![s] = [main |-> "lastQuery", sub |-> "off", poll |-> "off"]]
        /\ asked' = [asked EXCEPT ![s] = [t \in Tasks |-> NoQuery]]
        /\ mail' = [mail EXCEPT ![s] = 0]
        /\ UNCHANGED <<jobVars, genVars, cursor, saw, clientVars, used>>
    BY <1>1 DEF Wake
  <2>4. asked' \in [Streams -> [Tasks -> [after : 0 .. Len(log), len : 0 .. Len(log)]]]
    BY <2>2, <2>3 DEF PushType
  <2>5. PushType'
    BY <2>1, <2>3, <2>4 DEF PushType, SubLabels, PollLabels, jobVars
  <2> QED
    BY <2>3, <2>5 DEF jobVars, genVars, clientVars, JobType, GenType, ClientType
<1>2. CASE Conclude(s)
  <2>1. <<Done>> \in Seq(0 .. Len(log))
    BY LogLength DEF Done
  <2>2. GenType'
    BY <1>2, <2>1, BroadcastType DEF Conclude, jobVars
  <2>3. "returned" \in Labels("main") /\ "main" \in Tasks
    BY DEF Labels, MainLabels, Tasks
  <2>4. PushType'
    BY <1>2, <2>3, GotoType, PushParts DEF Conclude, jobVars
  <2> QED
    BY <1>2, <2>2, <2>4 DEF Conclude, jobVars, clientVars, JobType, ClientType
<1> QED
  BY <1>1, <1>2

LEMMA JobTypes ==
  ASSUME TypeOK, RunStage \/ RunEnds \/ ChatTurnDone
  PROVE  TypeOK'
<1> USE DEF TypeOK
<1> USE DEF UsedType
<1>1. ASSUME NEW stage \in {"working", "completed"}, Record(stage), ended' \in BOOLEAN,
             UNCHANGED <<genVars, at, cursor, asked, saw, clientVars>>
      PROVE  TypeOK'
  <2>1. /\ log' \in Seq({"working", "completed"}) /\ Len(log') = Len(log) + 1
        /\ status' \in {"working", "completed", "failed"} /\ mail' \in [Streams -> Nat]
        /\ UsedType'
    BY <1>1, RecordType
  <2> QED
    BY <1>1, <2>1, GrowGen, GrowPush, GrowClients DEF JobType
<1>2. CASE RunStage
  BY <1>1, <1>2 DEF RunStage, JobType
<1>3. CASE RunEnds
  <2>1. CASE Record("completed")
    BY <1>1, <1>3, <2>1 DEF RunEnds
  <2>2. CASE status' = "failed" /\ UNCHANGED <<log, mail, used>>
    BY <1>3, <2>2 DEF RunEnds, JobType, GenType, PushType, ClientType, genVars, clientVars
  <2> QED
    BY <1>3, <2>1, <2>2 DEF RunEnds
<1>4. CASE ChatTurnDone
  <2>1. <<Done>> \in Seq(0 .. Len(log))
    BY LogLength DEF Done
  <2>2. GenType'
    BY <1>4, <2>1, BroadcastType DEF ChatTurnDone, jobVars
  <2>3. UsedType'
    BY <1>4, SpendType DEF ChatTurnDone, Disturbances
  <2> QED
    BY <1>4, <2>2, <2>3 DEF ChatTurnDone, jobVars, pushVars, clientVars, JobType, PushType, ClientType
<1> QED
  BY <1>2, <1>3, <1>4

LEMMA CloseType ==
  ASSUME GenType, PushType, NEW s \in Streams, Close(s), UNCHANGED log
  PROVE  GenType' /\ PushType'
<1> DEFINE l == IF at[s]["main"] \in {"returned", "raised"} THEN at[s]["main"] ELSE "cancelled"
<1>1. /\ gen' = [gen EXCEPT ![s] = "closed"] /\ queue' = [queue EXCEPT ![s] = << >>]
      /\ UNCHANGED <<client, from, broken, cursor, asked, mail, saw>>
  BY DEF Close
<1>2. GenType'
  <2>1. << >> \in Seq(0 .. Len(log))
    BY EmptySeq
  <2> QED
    BY <1>1, <2>1 DEF GenType
<1>3. l \in Labels("main") /\ "main" \in Tasks
  BY DEF Labels, MainLabels, Tasks
<1>4. Goto(s, "main", l)
  BY <1>3 DEF Close, Goto, PushType
<1> HIDE DEF l
<1> QED
  BY <1>1, <1>2, <1>3, <1>4, GotoType, PushParts

LEMMA OpenTypes ==
  ASSUME TypeOK, NEW s \in Streams, NEW c \in Clients, Open(c, s)
  PROVE  TypeOK'
<1> USE DEF TypeOK, UsedType
<1>1. /\ gen[s] = "unused"
      /\ client' = [client EXCEPT ![s] = c] /\ from' = [from EXCEPT ![s] = last[c]]
      /\ UNCHANGED <<jobVars, broken, queue, asked, mail, saw, last, got>>
  BY DEF Open
<1>2. last[c] \in 0 .. Len(log) /\ last[c] \in Nat
  BY LogLength DEF ClientType
<1>3. CASE /\ gen' = [gen EXCEPT ![s] = "open"] /\ cursor' = [cursor EXCEPT ![s] = last[c]]
           /\ Goto(s, "main", "query") /\ view' = [view EXCEPT ![c] = "following"]
           /\ UNCHANGED used
  <2>1. GenType'
    BY <1>1, <1>2, <1>3 DEF GenType, jobVars
  <2>2. "query" \in Labels("main") /\ "main" \in Tasks
    BY DEF Labels, MainLabels, Tasks
  <2>3. cursor' \in [Streams -> 0 .. Len(log)]
    BY <1>2, <1>3 DEF PushType
  <2>4. PushType'
    BY <1>1, <1>3, <2>2, <2>3, GotoType, PushParts DEF jobVars
  <2> QED
    BY <1>1, <1>3, <2>1, <2>4 DEF jobVars, JobType, ClientType
<1>4. CASE /\ Spend("fault") /\ gen' = [gen EXCEPT ![s] = "closed"]
           /\ view' = [view EXCEPT ![c] = "told"] /\ UNCHANGED <<cursor, at>>
  <2>1. GenType'
    BY <1>1, <1>2, <1>4 DEF GenType, jobVars
  <2>2. UsedType'
    BY <1>4, SpendType DEF Disturbances
  <2> QED
    BY <1>1, <1>4, <2>1, <2>2 DEF jobVars, JobType, PushType, ClientType
<1> QED
  BY <1>3, <1>4 DEF Open

\* The message at the head of an open stream's queue is one of its elements.
LEMMA HeadIsMessage ==
  ASSUME GenType, NEW s \in Streams, queue[s] # << >>
  PROVE  Head(queue[s]) \in 0 .. Len(log) /\ Tail(queue[s]) \in Seq(0 .. Len(log))
<1>1. queue[s] \in Seq(0 .. Len(log))
  BY DEF GenType
<1> QED
  BY <1>1, HeadTailProperties

LEMMA YieldTypes ==
  ASSUME TypeOK, NEW s \in Streams, Yield(s)
  PROVE  TypeOK'
<1> USE DEF TypeOK
<1>1. gen[s] = "open" /\ queue[s] # << >> /\ UNCHANGED <<jobVars, used>>
  BY DEF Yield
<1>2. client[s] \in Clients
  BY <1>1 DEF GenType
<1>3. CASE /\ Close(s)
           /\ view' = IF broken[s] THEN view ELSE [view EXCEPT ![client[s]] = "told"]
           /\ UNCHANGED <<last, got>>
  <2>1. GenType' /\ PushType'
    BY <1>1, <1>3, CloseType DEF jobVars
  <2> QED
    BY <1>1, <1>2, <1>3, <2>1 DEF jobVars, JobType, ClientType
<1>4. CASE /\ Head(queue[s]) # Done
           /\ queue' = [queue EXCEPT ![s] = Tail(@)]
           /\ \/ ~broken[s] /\ Receive(client[s], Head(queue[s]))
              \/ broken[s] /\ UNCHANGED <<last, got>>
           /\ UNCHANGED <<gen, client, from, broken, pushVars, view>>
  <2>1. Head(queue[s]) \in 0 .. Len(log) /\ Tail(queue[s]) \in Seq(0 .. Len(log))
    BY <1>1, HeadIsMessage
  <2>2. GenType'
    BY <1>1, <1>4, <2>1 DEF GenType, jobVars
  <2> DEFINE id == Head(queue[s])
  <2>3. id \in 1 .. Len(log)
    BY <1>4, <2>1, LogLength DEF Done
  <2>4. last' \in [Clients -> 0 .. Len(log)] /\ got' \in [Clients -> SUBSET (1 .. Len(log))]
    <3>1. CASE Receive(client[s], id)
      <4> HIDE DEF id
      <4>1. Larger(last[client[s]], id) \in 0 .. Len(log) /\ 0 \in 0 .. Len(log)
        BY <1>2, <2>3, LogLength DEF ClientType, Larger
      <4> QED
        BY <1>2, <2>3, <3>1, <4>1 DEF Receive, ClientType
    <3>2. CASE UNCHANGED <<last, got>>
      BY <3>2 DEF ClientType
    <3> QED
      BY <1>4, <3>1, <3>2
  <2> QED
    BY <1>1, <1>4, <2>2, <2>4 DEF jobVars, pushVars, JobType, PushType, ClientType
<1> QED
  BY <1>3, <1>4 DEF Yield

LEMMA EndTypes ==
  ASSUME TypeOK, NEW s \in Streams, Drop(s) \/ Notice(s) \/ Timeout(s)
  PROVE  TypeOK'
<1> USE DEF TypeOK, UsedType
<1>1. gen[s] = "open" /\ client[s] \in Clients
  BY DEF Drop, Notice, Timeout, GenType
<1>2. CASE Drop(s)
  <2>1. UsedType'
    BY <1>2, SpendType DEF Drop, Disturbances
  <2> QED
    BY <1>1, <1>2, <2>1 DEF Drop, jobVars, pushVars, JobType, GenType, PushType, ClientType
<1>3. CASE Notice(s)
  <2>1. GenType' /\ PushType'
    BY <1>3, CloseType DEF Notice, jobVars
  <2> QED
    BY <1>3, <2>1 DEF Notice, jobVars, clientVars, JobType, ClientType
<1>4. CASE Timeout(s)
  <2>1. GenType' /\ PushType'
    BY <1>4, CloseType DEF Timeout, jobVars
  <2>2. UsedType'
    BY <1>4, SpendType DEF Timeout, Disturbances
  <2> QED
    BY <1>1, <1>4, <2>1, <2>2 DEF Timeout, jobVars, JobType, ClientType
<1> QED
  BY <1>2, <1>3, <1>4

LEMMA TypeInit == Init => TypeOK
<1> SUFFICES ASSUME Init PROVE TypeOK
  OBVIOUS
<1>1. Len(log) = 0 /\ 0 .. Len(log) = {0} /\ \A S : << >> \in Seq(S)
  BY EmptySeq DEF Init
<1>2. JobType
  BY <1>1 DEF Init, JobType
<1>3. GenType
  BY <1>1 DEF Init, GenType
<1>4. PushType
  BY <1>1 DEF Init, PushType, MainLabels, SubLabels, PollLabels, Tasks, NoQuery
<1>5. ClientType
  BY <1>1 DEF Init, ClientType
<1>6. used \in [Disturbances -> Nat]
  BY DEF Init
<1> QED
  BY <1>2, <1>3, <1>4, <1>5, <1>6 DEF TypeOK

LEMMA TypeStep == TypeOK /\ AnswersContinue /\ [Next]_vars => TypeOK'
<1> SUFFICES ASSUME TypeOK, AnswersContinue, [Next]_vars PROVE TypeOK'
  OBVIOUS
<1>1. ASSUME NEW s \in Streams, Stream(s) PROVE TypeOK'
  <2>1. ASSUME NEW t \in Tasks, Query(s, t) \/ Deliver(s, t) PROVE TypeOK'
    BY <2>1, QueryTypes, DeliverTypes
  <2>2. ASSUME NEW t \in Tasks, Check(s, t) \/ TaskFails(s, t) PROVE TypeOK'
    BY <2>2, TaskTypes
  <2>3. CASE Subscribe(s) \/ Hear(s)
    BY <2>3, TaskTypes DEF Tasks
  <2>4. CASE FirstCheck(s) \/ Wake(s) \/ Conclude(s)
    BY <2>4, FirstCheckTypes, MainTypes
  <2>5. CASE (\E c \in Clients : Open(c, s)) \/ Yield(s) \/ Drop(s) \/ Notice(s) \/ Timeout(s)
    BY <2>5, OpenTypes, YieldTypes, EndTypes
  <2> QED
    BY <1>1, <2>1, <2>2, <2>3, <2>4, <2>5 DEF Stream, Push
<1>2. CASE RunStage \/ RunEnds \/ ChatTurnDone
  BY <1>2, JobTypes
<1>3. CASE UNCHANGED vars
  BY <1>3 DEF vars, jobVars, genVars, pushVars, clientVars, TypeOK, JobType, GenType, PushType,
              ClientType
<1> QED
  BY <1>1, <1>2, <1>3 DEF Next
-----------------------------------------------------------------------------
(* Phases. *)

LEMMA PhaseSame ==
  ASSUME Phases, UNCHANGED <<at, saw>>,
         \A r \in Streams : gen'[r] = "unused" => gen[r] = "unused"
  PROVE  Phases'
  BY DEF Phases

\* A watching task that moves was started, so main is in neither phase.
LEMMA PhaseGoto ==
  ASSUME TypeOK, Phases, NEW s \in Streams, NEW t \in Tasks, NEW l \in Labels(t),
         Goto(s, t, l),
         \A r \in Streams : gen'[r] = "unused" => gen[r] = "unused",
         gen'[s] # "unused" \/ at[s][t] # "off",
         t # "main" => at[s][t] # "off",
         \A r \in Streams : r # s \/ t = "main" => saw'[r] = saw[r],
         t = "main" /\ l \in FirstPhase => at[s]["main"] \in FirstPhase,
         t = "main" /\ l \in LastPhase => at[s]["main"] \in FirstPhase \cup LastPhase
  PROVE  Phases'
<1>1. at \in [Streams -> [Tasks -> MainLabels \cup SubLabels \cup PollLabels]]
  BY DEF TypeOK, PushType
<1>2. \A r \in Streams : r # s => at'[r] = at[r]
  BY <1>1 DEF Goto
<1>3. \A u \in Tasks : at'[s][u] = IF u = t THEN l ELSE at[s][u]
  BY <1>1 DEF Goto
<1>4. CASE t = "main"
  BY <1>2, <1>3, <1>4 DEF Phases, Tasks, Labels
<1>5. CASE t \in {"sub", "poll"}
  <2>1. at[s]["main"] \notin FirstPhase \cup LastPhase /\ at'[s]["main"] = at[s]["main"]
    BY <1>3, <1>5 DEF Phases, Tasks
  <2>2. gen'[s] = "unused" => at[s]["main"] = "off"
    BY DEF Phases
  <2> QED
    BY <1>2, <1>5, <2>1, <2>2 DEF Phases, FirstPhase
<1> QED
  BY <1>4, <1>5 DEF Tasks

LEMMA PhaseTask ==
  ASSUME TypeOK, Phases, NEW s \in Streams, NEW t \in Tasks,
         Query(s, t) \/ Deliver(s, t) \/ Check(s, t) \/ TaskFails(s, t)
  PROVE  Phases'
<1>1. CASE Query(s, t)
  <2> DEFINE l == IF at[s][t] = "query" THEN "deliver" ELSE "lastDeliver"
  <2>1. /\ Goto(s, t, l) /\ UNCHANGED <<gen, saw>>
        /\ at[s][t] \in Querying
    BY <1>1 DEF Query, genVars
  <2>2. l \in Labels(t)
    BY <2>1 DEF Querying, TypeOK, PushType, Labels, MainLabels, SubLabels, PollLabels, Tasks
  <2>3. /\ at[s][t] # "off"
        /\ t = "main" /\ l \in FirstPhase => at[s]["main"] \in FirstPhase
        /\ t = "main" /\ l \in LastPhase => at[s]["main"] \in FirstPhase \cup LastPhase
    BY <2>1 DEF Querying, FirstPhase, LastPhase
  <2> HIDE DEF l
  <2> QED
    BY <2>1, <2>2, <2>3, PhaseGoto
<1>2. CASE Deliver(s, t)
  <2>1. PICK hi \in asked[s][t].len .. Len(log) :
                 Goto(s, t, AfterDrain(t, at[s][t], hi > asked[s][t].after))
    BY <1>2 DEF Deliver
  <2> DEFINE l == AfterDrain(t, at[s][t], hi > asked[s][t].after)
  <2>2. /\ UNCHANGED <<gen, saw>>
        /\ at[s][t] \in Answering
    BY <1>2 DEF Deliver
  <2>3. l \in Labels(t)
    BY <2>2 DEF Answering, AfterDrain, TypeOK, PushType, Labels, MainLabels, SubLabels, PollLabels,
                Tasks
  <2>4. /\ at[s][t] # "off"
        /\ t = "main" /\ l \in FirstPhase => at[s]["main"] \in FirstPhase
        /\ t = "main" /\ l \in LastPhase => at[s]["main"] \in FirstPhase \cup LastPhase
    BY <2>2 DEF Answering, AfterDrain, FirstPhase, LastPhase
  <2>5. Goto(s, t, l)
    BY <2>1
  <2> HIDE DEF l
  <2> QED
    BY <2>2, <2>3, <2>4, <2>5, PhaseGoto
<1>3. CASE Check(s, t)
  <2>1. PICK l \in {"exited", "listen", "query"} : Goto(s, t, l) /\ l \in Labels(t)
    BY <1>3 DEF Check, Labels, SubLabels, PollLabels
  <2>2. /\ t # "main" /\ at[s][t] # "off" /\ UNCHANGED gen
        /\ \A r \in Streams : r # s => saw'[r] = saw[r]
    BY <1>3 DEF Check, genVars, TypeOK, PushType
  <2> QED
    BY <2>1, <2>2, PhaseGoto
<1>4. CASE TaskFails(s, t)
  <2> DEFINE l == IF t = "main" THEN "raised" ELSE "exited"
  <2>1. Goto(s, t, l) /\ UNCHANGED <<gen, saw>> /\ at[s][t] # "off"
    BY <1>4 DEF TaskFails, genVars
  <2>2. l \in Labels(t) /\ l \notin FirstPhase \cup LastPhase
    BY DEF Labels, MainLabels, SubLabels, PollLabels, FirstPhase, LastPhase
  <2> HIDE DEF l
  <2> QED
    BY <2>1, <2>2, PhaseGoto
<1> QED
  BY <1>1, <1>2, <1>3, <1>4

LEMMA PhasePush ==
  ASSUME TypeOK, Phases, NEW s \in Streams,
         FirstCheck(s) \/ Subscribe(s) \/ Hear(s) \/ Wake(s) \/ Conclude(s)
  PROVE  Phases'
<1>0. "main" \in Tasks /\ "sub" \in Tasks
  BY DEF Tasks
<1>1. CASE FirstCheck(s)
  <2>1. UNCHANGED <<gen, saw>> /\ at[s]["main"] = "check"
    BY <1>1 DEF FirstCheck
  <2>2. CASE Goto(s, "main", "returned")
    BY <1>0, <2>1, <2>2, PhaseGoto DEF Labels, MainLabels, FirstPhase, LastPhase
  <2>3. CASE at' = [at EXCEPT ![s] = [main |-> "watch", sub |-> "subscribe", poll |-> "query"]]
    <3>1. /\ \A r \in Streams : r # s => at'[r] = at[r]
          /\ at'[s]["main"] = "watch" /\ gen[s] # "unused"
      BY <2>1, <2>3 DEF TypeOK, PushType, Phases
    <3> QED
      BY <2>1, <3>1 DEF Phases, MainLabels, FirstPhase, LastPhase
  <2> QED
    BY <1>1, <2>2, <2>3 DEF FirstCheck
<1>2. CASE Subscribe(s) \/ Hear(s)
  <2>1. /\ UNCHANGED <<gen, saw>> /\ at[s]["sub"] # "off"
        /\ Goto(s, "sub", "listen") \/ Goto(s, "sub", "query")
    BY <1>2 DEF Subscribe, Hear, genVars
  <2>2. "listen" \in Labels("sub") /\ "query" \in Labels("sub")
    BY DEF Labels, SubLabels
  <2> QED
    BY <1>0, <2>1, <2>2, PhaseGoto
<1>3. CASE Wake(s)
  <2>1. /\ UNCHANGED <<gen, saw>> /\ at[s]["main"] = "watch"
        /\ at' = [at EXCEPT ![s] = [main |-> "lastQuery", sub |-> "off", poll |-> "off"]]
    BY <1>3 DEF Wake, genVars
  <2>2. /\ \A r \in Streams : r # s => at'[r] = at[r]
        /\ at'[s] = [main |-> "lastQuery", sub |-> "off", poll |-> "off"]
        /\ gen[s] # "unused"
    BY <2>1 DEF TypeOK, PushType, Phases
  <2> QED
    BY <2>1, <2>2 DEF Phases, MainLabels, FirstPhase, LastPhase
<1>4. CASE Conclude(s)
  BY <1>0, <1>4, PhaseGoto DEF Conclude, Labels, MainLabels, FirstPhase, LastPhase
<1> QED
  BY <1>1, <1>2, <1>3, <1>4

LEMMA PhaseClose ==
  ASSUME TypeOK, Phases, NEW s \in Streams, Close(s)
  PROVE  Phases'
<1> DEFINE l == IF at[s]["main"] \in {"returned", "raised"} THEN at[s]["main"] ELSE "cancelled"
<1>1. gen' = [gen EXCEPT ![s] = "closed"] /\ UNCHANGED saw
  BY DEF Close
<1>2. gen'[s] # "unused" /\ \A r \in Streams : gen'[r] = "unused" => gen[r] = "unused"
  BY <1>1 DEF TypeOK, GenType
<1>3. l \in Labels("main") /\ "main" \in Tasks
  BY DEF Labels, MainLabels, Tasks
<1>4. Goto(s, "main", l)
  BY <1>3 DEF Close, Goto, TypeOK, PushType
<1>5. l \notin FirstPhase /\ (l \in LastPhase => at[s]["main"] \in FirstPhase \cup LastPhase)
  BY DEF FirstPhase, LastPhase
<1> HIDE DEF l
<1> QED
  BY <1>1, <1>2, <1>3, <1>4, <1>5, PhaseGoto

LEMMA PhaseGen ==
  ASSUME TypeOK, Phases, NEW s \in Streams,
         (\E c \in Clients : Open(c, s)) \/ Yield(s) \/ Drop(s) \/ Notice(s) \/ Timeout(s)
  PROVE  Phases'
<1>1. CASE \E c \in Clients : Open(c, s)
  <2>1. /\ gen[s] = "unused" /\ UNCHANGED saw
        /\ \/ gen' = [gen EXCEPT ![s] = "open"] /\ Goto(s, "main", "query")
           \/ gen' = [gen EXCEPT ![s] = "closed"] /\ UNCHANGED at
    BY <1>1 DEF Open
  <2>2. gen'[s] # "unused" /\ \A r \in Streams : gen'[r] = "unused" => gen[r] = "unused"
    BY <2>1 DEF TypeOK, GenType
  <2>3. /\ "main" \in Tasks /\ "query" \in Labels("main")
        /\ "query" \in FirstPhase /\ "query" \notin LastPhase
        /\ at[s]["main"] \in FirstPhase
    BY <2>1 DEF Tasks, Labels, MainLabels, Phases, FirstPhase, LastPhase
  <2> QED
    BY <2>1, <2>2, <2>3, PhaseGoto, PhaseSame
<1>2. CASE Close(s)
  BY <1>2, PhaseClose
<1>3. CASE UNCHANGED <<gen, pushVars>>
  BY <1>3, PhaseSame DEF pushVars
<1> QED
  BY <1>1, <1>2, <1>3 DEF Yield, Drop, Notice, Timeout

LEMMA PhaseStep == TypeOK /\ Phases /\ [Next]_vars => Phases'
<1> SUFFICES ASSUME TypeOK, Phases, [Next]_vars PROVE Phases'
  OBVIOUS
<1>1. ASSUME NEW s \in Streams, Stream(s) PROVE Phases'
  BY <1>1, PhaseTask, PhasePush, PhaseGen DEF Stream, Push
<1>2. CASE RunStage \/ RunEnds \/ ChatTurnDone \/ UNCHANGED vars
  <2>1. UNCHANGED <<gen, at, saw>>
    BY <1>2 DEF RunStage, RunEnds, ChatTurnDone, vars, genVars, pushVars
  <2> QED
    BY <2>1, PhaseSame
<1> QED
  BY <1>1, <1>2 DEF Next
-----------------------------------------------------------------------------
(* What was sent stays sent. *)

\* A stream that is healthy after the step was healthy before it, for the same
\* request, and everything it had sent is still queued or received.
Keeps(s) ==
  Healthy(s)' =>
    /\ Healthy(s)
    /\ UNCHANGED from[s]
    /\ QueuedOrGot(s) \subseteq QueuedOrGot(s)'

LEMMA SentStays ==
  ASSUME NEW s \in Streams, NEW n, Keeps(s), SentUpTo(s, n)
  PROVE  Healthy(s)' => (from'[s] + 1) .. n \subseteq QueuedOrGot(s)'
  BY DEF Keeps, SentUpTo

LEMMA KeepsSame ==
  ASSUME UNCHANGED <<gen, client, from, broken, queue, got>>, NEW s \in Streams
  PROVE  Keeps(s)
  BY DEF Keeps, Healthy, QueuedOrGot

LEMMA KeepsBroadcast ==
  ASSUME GenType, NEW msgs \in Seq(0 .. Len(log)), Broadcast(msgs),
         UNCHANGED <<gen, client, from, broken, got>>, NEW s \in Streams
  PROVE  /\ Keeps(s)
         /\ Healthy(s)' => Items(msgs) \subseteq QueuedOrGot(s)'
<1> SUFFICES ASSUME Healthy(s)
             PROVE  /\ QueuedOrGot(s) \subseteq QueuedOrGot(s)'
                    /\ Items(msgs) \subseteq QueuedOrGot(s)'
  BY DEF Keeps, Healthy
<1>1. queue[s] \in Seq(0 .. Len(log)) /\ queue'[s] = queue[s] \o msgs
  BY DEF GenType, Broadcast, Healthy
<1>2. Items(queue[s]) \cup Items(msgs) \subseteq Items(queue'[s])
  BY <1>1, ConcatElements
<1> QED
  BY <1>2, SentItems

LEMMA KeepsClose ==
  ASSUME GenType, NEW s \in Streams, Close(s), UNCHANGED got, NEW r \in Streams
  PROVE  Keeps(r)
<1>1. gen'[s] = "closed" /\ (r # s => gen'[r] = gen[r] /\ queue'[r] = queue[r])
  BY DEF Close, GenType
<1>2. UNCHANGED <<client, from, broken>>
  BY DEF Close
<1> QED
  BY <1>1, <1>2 DEF Keeps, Healthy, QueuedOrGot

LEMMA KeepsYield ==
  ASSUME TypeOK, NEW s \in Streams, Yield(s), NEW r \in Streams
  PROVE  Keeps(r)
<1>1. gen[s] = "open" /\ queue[s] # << >> /\ client[s] \in Clients
  BY DEF Yield, TypeOK, GenType
<1>2. CASE Close(s) /\ UNCHANGED got
  BY <1>2, KeepsClose DEF TypeOK
<1>3. CASE /\ queue' = [queue EXCEPT ![s] = Tail(@)]
           /\ \/ ~broken[s] /\ Receive(client[s], Head(queue[s]))
              \/ broken[s] /\ UNCHANGED <<last, got>>
           /\ UNCHANGED <<gen, client, from, broken, pushVars, view>>
  <2>1. \A c \in Clients : got[c] \subseteq got'[c]
    BY <1>1, <1>3 DEF Receive, TypeOK, ClientType
  <2>2. Healthy(r) => client[r] \in Clients
    BY DEF Healthy, TypeOK, GenType
  <2>3. CASE r # s
    <3>1. queue'[r] = queue[r]
      BY <1>3, <2>3 DEF TypeOK, GenType
    <3> QED
      BY <1>3, <2>1, <2>2, <3>1 DEF Keeps, Healthy, QueuedOrGot
  <2>4. CASE r = s /\ ~broken[s]
    <3>1. Head(queue[s]) \in got'[client[s]]
      BY <1>1, <1>3, <2>4 DEF Receive, TypeOK, ClientType
    <3>2. queue'[s] = Tail(queue[s]) /\ queue[s] \in Seq(0 .. Len(log))
      BY <1>3 DEF TypeOK, GenType
    <3>3. Items(queue[s]) \subseteq {Head(queue[s])} \cup Items(queue'[s])
      BY <1>1, <3>2, TailElements
    <3> QED
      BY <1>1, <1>3, <2>1, <2>4, <3>1, <3>3, SentItems DEF Keeps, Healthy
  <2>5. CASE r = s /\ broken[s]
    BY <1>3, <2>5 DEF Keeps, Healthy
  <2> QED
    BY <2>3, <2>4, <2>5 DEF TypeOK, GenType
<1> QED
  BY <1>2, <1>3 DEF Yield

LEMMA KeepsDrop ==
  ASSUME GenType, NEW s \in Streams, Drop(s), NEW r \in Streams
  PROVE  Keeps(r)
<1>1. broken'[r] = IF r = s THEN TRUE ELSE broken[r]
  BY DEF Drop, GenType
<1> QED
  BY <1>1 DEF Drop, Keeps, Healthy, QueuedOrGot
-----------------------------------------------------------------------------
(* The sending invariant. *)

\* A step after which no task has a new answer, no coroutine is newly at its
\* end unless nobody saw the job finished, and the cursors are as they were.
LEMMA SentMoves ==
  ASSUME TypeOK, SentInv, UNCHANGED cursor,
         \A s \in Streams : Keeps(s),
         \A s \in Streams, t \in Tasks :
           at'[s][t] \in Answering => at[s][t] = at'[s][t] /\ asked'[s][t] = asked[s][t],
         \A s \in Streams : at'[s]["main"] \in LastPhase => saw'[s] = saw[s],
         \A s \in Streams :
           at'[s]["main"] \in {"conclude", "returned"} =>
             at[s]["main"] \in {"conclude", "returned"} \/ saw[s] = 0
  PROVE  SentInv'
<1>1. CursorMeansSent'
  BY SentStays DEF SentInv, CursorMeansSent, SentUpTo, Healthy
<1>2. AnswersContinue'
  <2> SUFFICES ASSUME NEW s \in Streams, NEW t \in Tasks, at'[s][t] \in Answering
               PROVE  /\ asked'[s][t].after <= asked'[s][t].len
                      /\ SentUpTo(s, asked[s][t].after)'
    BY DEF AnswersContinue, Answering
  <2>1. asked'[s][t] = asked[s][t] /\ at[s][t] \in Answering
    OBVIOUS
  <2>2. asked[s][t].after <= asked[s][t].len /\ SentUpTo(s, asked[s][t].after)
    BY <2>1 DEF SentInv, AnswersContinue
  <2> QED
    BY <2>1, <2>2, SentStays DEF SentUpTo
<1>3. LastDrainSuffices'
  <2> SUFFICES ASSUME NEW s \in Streams, at'[s]["main"] = "lastDeliver"
               PROVE  saw'[s] <= asked'[s]["main"].len
    BY DEF LastDrainSuffices
  <2>1. at[s]["main"] = "lastDeliver" /\ asked'[s]["main"] = asked[s]["main"] /\ saw'[s] = saw[s]
    BY DEF Answering, Tasks, LastPhase
  <2> QED
    BY <2>1 DEF SentInv, LastDrainSuffices
<1>4. DoneAfterLastEntry'
  <2> SUFFICES ASSUME NEW s \in Streams, Healthy(s)', at'[s]["main"] \in {"conclude", "returned"}
               PROVE  (from'[s] + 1) .. saw'[s] \subseteq QueuedOrGot(s)'
    BY DEF DoneAfterLastEntry, Healthy
  <2>1. saw'[s] = saw[s] /\ UNCHANGED from[s] /\ Healthy(s)
    BY DEF LastPhase, Keeps
  <2>2. CASE saw[s] = 0
    <3>1. from[s] \in Nat
      BY DEF TypeOK, GenType
    <3>2. (from[s] + 1) .. 0 = {}
      BY <3>1
    <3> QED
      BY <2>1, <2>2, <3>2
  <2>3. CASE at[s]["main"] \in {"conclude", "returned"}
    <3>1. SentUpTo(s, saw[s])
      BY <2>3 DEF SentInv, DoneAfterLastEntry, SentUpTo, Healthy
    <3> QED
      BY <2>1, <3>1, SentStays
  <2> QED
    BY <2>2, <2>3
<1> QED
  BY <1>1, <1>2, <1>3, <1>4 DEF SentInv

LEMMA SentQuery ==
  ASSUME TypeOK, SentInv, NEW s \in Streams, NEW t \in Tasks, Query(s, t)
  PROVE  SentInv'
<1> DEFINE l == IF at[s][t] = "query" THEN "deliver" ELSE "lastDeliver"
           q == [after |-> cursor[s], len |-> Len(log)]
<1>1. /\ Goto(s, t, l) /\ asked' = [asked EXCEPT ![s][t] = q]
      /\ UNCHANGED <<jobVars, genVars, cursor, mail, saw, clientVars, used>>
      /\ at[s][t] \in Querying
  BY DEF Query
<1>2. \A r \in Streams, u \in Tasks :
        IF r = s /\ u = t THEN at'[r][u] = l /\ asked'[r][u] = q
                          ELSE at'[r][u] = at[r][u] /\ asked'[r][u] = asked[r][u]
  <2> HIDE DEF l, q
  <2> QED
    BY <1>1 DEF Goto, TypeOK, PushType
<1>3. \A r \in Streams : Keeps(r)
  BY <1>1, KeepsSame DEF genVars, clientVars
<1>5. q.after <= q.len /\ q.len = Len(log) /\ q.after = cursor[s]
  BY LogLength DEF TypeOK, PushType
<1> HIDE DEF q
<1>6. CursorMeansSent'
  BY <1>1, <1>3, SentStays DEF SentInv, CursorMeansSent, SentUpTo, Healthy
<1>7. AnswersContinue'
  <2> SUFFICES ASSUME NEW r \in Streams, NEW u \in Tasks, at'[r][u] \in Answering
               PROVE  /\ asked'[r][u].after <= asked'[r][u].len
                      /\ SentUpTo(r, asked[r][u].after)'
    BY DEF AnswersContinue, Answering
  <2>1. CASE r = s /\ u = t
    <3>1. asked'[r][u] = q
      BY <1>2, <2>1
    <3>2. SentUpTo(s, cursor[s])'
      BY <1>1, <1>6 DEF CursorMeansSent, SentUpTo, Healthy
    <3> QED
      BY <1>1, <1>5, <2>1, <3>1, <3>2 DEF SentUpTo
  <2>2. CASE ~(r = s /\ u = t)
    <3>1. asked'[r][u] = asked[r][u] /\ at[r][u] \in Answering
      BY <1>2, <2>2
    <3>2. asked[r][u].after <= asked[r][u].len /\ SentUpTo(r, asked[r][u].after)
      BY <3>1 DEF SentInv, AnswersContinue
    <3>3. SentUpTo(r, asked[r][u].after) =>
            (Healthy(r)' => (from'[r] + 1) .. asked[r][u].after \subseteq QueuedOrGot(r)')
      BY <1>3, SentStays
    <3> QED
      BY <3>1, <3>2, <3>3 DEF SentUpTo
  <2> QED
    BY <2>1, <2>2
<1>8. LastDrainSuffices'
  <2> SUFFICES ASSUME NEW r \in Streams, at'[r]["main"] = "lastDeliver"
               PROVE  saw'[r] <= asked'[r]["main"].len
    BY DEF LastDrainSuffices
  <2>1. saw'[r] = saw[r] /\ saw[r] <= Len(log)
    BY <1>1, LogLength DEF TypeOK, PushType
  <2> QED
    BY <1>2, <1>5, <2>1 DEF SentInv, LastDrainSuffices, Tasks
<1>9. DoneAfterLastEntry'
  <2> SUFFICES ASSUME NEW r \in Streams, Healthy(r)', at'[r]["main"] \in {"conclude", "returned"}
               PROVE  (from'[r] + 1) .. saw'[r] \subseteq QueuedOrGot(r)'
    BY DEF DoneAfterLastEntry, Healthy
  <2>1. at[r]["main"] \in {"conclude", "returned"}
    BY <1>2 DEF Tasks
  <2>2. SentUpTo(r, saw[r])
    BY <2>1 DEF SentInv, DoneAfterLastEntry, SentUpTo, Healthy
  <2> QED
    BY <1>1, <1>3, <2>2, SentStays
<1> QED
  BY <1>6, <1>7, <1>8, <1>9 DEF SentInv

LEMMA SentDeliver ==
  ASSUME TypeOK, SentInv, NEW s \in Streams, NEW t \in Tasks, Deliver(s, t)
  PROVE  SentInv'
<1> DEFINE lo == asked[s][t].after
<1>0. PICK hi \in asked[s][t].len .. Len(log) :
        /\ Broadcast(Ids(lo, hi))
        /\ cursor' = [cursor EXCEPT ![s] = IF hi > lo THEN hi ELSE @]
        /\ Goto(s, t, AfterDrain(t, at[s][t], hi > lo))
  BY DEF Deliver
<1> DEFINE l == AfterDrain(t, at[s][t], hi > lo)
<1>1. /\ at[s][t] \in Answering
      /\ asked' = [asked EXCEPT ![s][t] = NoQuery]
      /\ UNCHANGED <<jobVars, gen, client, from, broken, mail, saw, clientVars, used>>
  BY DEF Deliver
<1>2. asked[s][t] \in [after : 0 .. Len(log), len : 0 .. Len(log)] /\ Len(log) \in Nat
  BY LogLength DEF TypeOK, PushType
<1>3. lo <= asked[s][t].len /\ SentUpTo(s, lo)
  BY <1>1 DEF SentInv, AnswersContinue
<1>4. lo \in Nat /\ hi \in Nat /\ lo <= hi /\ hi <= Len(log) /\ asked[s][t].len <= hi
  BY <1>2, <1>3
<1>5. \A r \in Streams, u \in Tasks :
        IF r = s /\ u = t THEN at'[r][u] = l
                          ELSE at'[r][u] = at[r][u] /\ asked'[r][u] = asked[r][u]
  <2>1. Goto(s, t, l)
    BY <1>0
  <2> HIDE DEF l, lo
  <2> QED
    BY <1>1, <2>1 DEF Goto, TypeOK, PushType
<1>6. l \notin Answering /\ (l \in {"conclude", "returned"} => at[s][t] = "lastDeliver")
  BY <1>1 DEF Answering, AfterDrain
<1>7. \A r \in Streams : cursor'[r] = IF r = s /\ hi > lo THEN hi ELSE cursor[r]
  BY <1>0 DEF TypeOK, PushType
<1>8. Ids(lo, hi) \in Seq(0 .. Len(log)) /\ (lo + 1) .. hi \subseteq Items(Ids(lo, hi))
  <2> HIDE DEF lo
  <2>1. Ids(lo, hi) \in Seq(0 .. hi) /\ (lo + 1) .. hi \subseteq Items(Ids(lo, hi))
    BY <1>4, IdsElements
  <2>2. 0 .. hi \subseteq 0 .. Len(log)
    BY <1>2, <1>4
  <2> QED
    BY <2>1, <2>2, SeqMonotonic
<1> HIDE DEF l, lo
<1>9. ASSUME NEW r \in Streams
      PROVE  Keeps(r) /\ (Healthy(r)' => Items(Ids(lo, hi)) \subseteq QueuedOrGot(r)')
  BY <1>0, <1>1, <1>8, KeepsBroadcast DEF TypeOK, clientVars
\* The answer continues what had been sent.
<1>10. Healthy(s)' => (from'[s] + 1) .. hi \subseteq QueuedOrGot(s)'
  <2> SUFFICES ASSUME Healthy(s)', NEW n \in (from'[s] + 1) .. hi
               PROVE  n \in QueuedOrGot(s)'
    OBVIOUS
  <2>1. (from'[s] + 1) .. lo \subseteq QueuedOrGot(s)' /\ (lo + 1) .. hi \subseteq QueuedOrGot(s)'
    BY <1>3, <1>8, <1>9, SentStays
  <2>2. from'[s] \in Nat
    BY <1>1 DEF TypeOK, GenType
  <2>3. n \in (from'[s] + 1) .. lo \/ n \in (lo + 1) .. hi
    BY <1>4, <2>2
  <2> QED
    BY <2>1, <2>3
<1>11. \A r \in Streams : \A n : SentUpTo(r, n) =>
         (Healthy(r)' => (from'[r] + 1) .. n \subseteq QueuedOrGot(r)')
  BY <1>9, SentStays
<1>12. CursorMeansSent'
  <2> SUFFICES ASSUME NEW r \in Streams, Healthy(r)'
               PROVE  (from'[r] + 1) .. cursor'[r] \subseteq QueuedOrGot(r)'
    BY DEF CursorMeansSent, Healthy
  <2>1. SentUpTo(r, cursor[r])
    BY DEF SentInv, CursorMeansSent, SentUpTo, Healthy
  <2> QED
    BY <1>7, <1>10, <1>11, <2>1
<1>13. AnswersContinue'
  <2> SUFFICES ASSUME NEW r \in Streams, NEW u \in Tasks, at'[r][u] \in Answering
               PROVE  /\ asked'[r][u].after <= asked'[r][u].len
                      /\ SentUpTo(r, asked[r][u].after)'
    BY DEF AnswersContinue, Answering
  <2>1. asked'[r][u] = asked[r][u] /\ at[r][u] \in Answering
    BY <1>5, <1>6
  <2>2. asked[r][u].after <= asked[r][u].len /\ SentUpTo(r, asked[r][u].after)
    BY <2>1 DEF SentInv, AnswersContinue
  <2> QED
    BY <1>11, <2>1, <2>2 DEF SentUpTo
<1>14. LastDrainSuffices'
  <2> SUFFICES ASSUME NEW r \in Streams, at'[r]["main"] = "lastDeliver"
               PROVE  saw'[r] <= asked'[r]["main"].len
    BY DEF LastDrainSuffices
  <2>1. at[r]["main"] = "lastDeliver" /\ asked'[r]["main"] = asked[r]["main"]
    BY <1>5, <1>6 DEF Tasks, Answering
  <2> QED
    BY <1>1, <2>1 DEF SentInv, LastDrainSuffices
<1>15. DoneAfterLastEntry'
  <2> SUFFICES ASSUME NEW r \in Streams, Healthy(r)', at'[r]["main"] \in {"conclude", "returned"}
               PROVE  (from'[r] + 1) .. saw'[r] \subseteq QueuedOrGot(r)'
    BY DEF DoneAfterLastEntry, Healthy
  <2>1. saw'[r] = saw[r] /\ saw[r] \in Nat
    BY <1>1, LogLength DEF TypeOK, PushType
  <2>2. CASE r = s /\ t = "main"
    <3>1. at[s]["main"] = "lastDeliver"
      BY <1>5, <1>6, <2>2
    <3>2. saw[s] <= hi
      BY <1>2, <1>4, <2>1, <2>2, <3>1 DEF SentInv, LastDrainSuffices
    <3>3. from'[s] \in Nat
      BY <1>1 DEF TypeOK, GenType
    <3>4. (from'[s] + 1) .. saw[s] \subseteq (from'[s] + 1) .. hi
      BY <1>4, <2>1, <2>2, <3>2, <3>3
    <3> QED
      BY <1>10, <2>1, <2>2, <3>4
  <2>3. CASE ~(r = s /\ t = "main")
    <3>1. at[r]["main"] \in {"conclude", "returned"}
      BY <1>5, <2>3 DEF Tasks
    <3>2. SentUpTo(r, saw[r])
      BY <3>1 DEF SentInv, DoneAfterLastEntry, SentUpTo, Healthy
    <3> QED
      BY <1>11, <2>1, <3>2
  <2> QED
    BY <2>2, <2>3
<1> QED
  BY <1>12, <1>13, <1>14, <1>15 DEF SentInv

\* A new request has been sent nothing, and owes nothing up to its own id.
LEMMA SentOpen ==
  ASSUME TypeOK, Phases, SentInv, NEW s \in Streams, NEW c \in Clients, Open(c, s)
  PROVE  SentInv'
<1>1. /\ gen[s] = "unused" /\ at[s]["main"] = "off"
      /\ at[s]["sub"] = "off" /\ at[s]["poll"] = "off" /\ saw[s] = 0
  BY DEF Open, Phases, FirstPhase
<1>2. /\ client' = [client EXCEPT ![s] = c] /\ from' = [from EXCEPT ![s] = last[c]]
      /\ UNCHANGED <<jobVars, broken, queue, asked, mail, saw, last, got>>
      /\ last[c] \in Nat
  BY LogLength DEF Open, TypeOK, ClientType
<1>3. \A r \in Streams : r # s =>
        /\ gen'[r] = gen[r] /\ client'[r] = client[r] /\ from'[r] = from[r]
        /\ cursor'[r] = cursor[r] /\ at'[r] = at[r]
  BY <1>2 DEF Open, Goto, TypeOK, GenType, PushType
<1>4. ASSUME NEW r \in Streams, r # s PROVE Keeps(r)
  BY <1>2, <1>3, <1>4 DEF Keeps, Healthy, QueuedOrGot
<1>5. /\ Healthy(s)' => cursor'[s] = last[c]
      /\ from'[s] = last[c]
      /\ at'[s]["main"] \in {"query", "off"} /\ at'[s]["sub"] = "off" /\ at'[s]["poll"] = "off"
  BY <1>1, <1>2 DEF Open, Healthy, Goto, TypeOK, GenType, PushType, Tasks
<1>6. CursorMeansSent'
  <2> SUFFICES ASSUME NEW r \in Streams, Healthy(r)'
               PROVE  (from'[r] + 1) .. cursor'[r] \subseteq QueuedOrGot(r)'
    BY DEF CursorMeansSent, Healthy
  <2>1. CASE r = s
    <3>1. (last[c] + 1) .. last[c] = {}
      BY <1>2
    <3> QED
      BY <1>5, <2>1, <3>1
  <2>2. CASE r # s
    <3>1. SentUpTo(r, cursor[r])
      BY DEF SentInv, CursorMeansSent, SentUpTo, Healthy
    <3> QED
      BY <1>3, <1>4, <2>2, <3>1, SentStays
  <2> QED
    BY <2>1, <2>2
<1>7. AnswersContinue'
  <2> SUFFICES ASSUME NEW r \in Streams, NEW u \in Tasks, at'[r][u] \in Answering
               PROVE  /\ asked'[r][u].after <= asked'[r][u].len
                      /\ SentUpTo(r, asked[r][u].after)'
    BY DEF AnswersContinue, Answering
  <2>1. r # s
    BY <1>5 DEF Answering, Tasks
  <2>2. asked'[r][u] = asked[r][u] /\ at[r][u] \in Answering
    BY <1>2, <1>3, <2>1
  <2>3. asked[r][u].after <= asked[r][u].len /\ SentUpTo(r, asked[r][u].after)
    BY <2>2 DEF SentInv, AnswersContinue
  <2> QED
    BY <1>4, <2>1, <2>2, <2>3, SentStays DEF SentUpTo
<1>8. LastDrainSuffices'
  BY <1>2, <1>3, <1>5 DEF SentInv, LastDrainSuffices
<1>9. DoneAfterLastEntry'
  <2> SUFFICES ASSUME NEW r \in Streams, Healthy(r)', at'[r]["main"] \in {"conclude", "returned"}
               PROVE  (from'[r] + 1) .. saw'[r] \subseteq QueuedOrGot(r)'
    BY DEF DoneAfterLastEntry, Healthy
  <2>1. r # s
    BY <1>5
  <2>2. at[r]["main"] \in {"conclude", "returned"}
    BY <1>3, <2>1
  <2>3. SentUpTo(r, saw[r])
    BY <2>2 DEF SentInv, DoneAfterLastEntry, SentUpTo, Healthy
  <2> QED
    BY <1>2, <1>4, <2>1, <2>3, SentStays
<1> QED
  BY <1>6, <1>7, <1>8, <1>9 DEF SentInv

\* The labels after a task has moved.
LEMMA GotoLabels ==
  ASSUME TypeOK, NEW s \in Streams, NEW t \in Tasks, NEW l, Goto(s, t, l)
  PROVE  \A r \in Streams, u \in Tasks :
           at'[r][u] = IF r = s /\ u = t THEN l ELSE at[r][u]
  BY DEF Goto, TypeOK, PushType

LEMMA SentTask ==
  ASSUME TypeOK, Phases, SentInv, NEW s \in Streams, NEW t \in Tasks,
         Subscribe(s) \/ Hear(s) \/ Check(s, t) \/ TaskFails(s, t)
  PROVE  SentInv'
<1>1. /\ UNCHANGED <<genVars, cursor, asked, got>>
      /\ \A r \in Streams : Keeps(r)
  BY KeepsSame DEF Subscribe, Hear, Check, TaskFails, genVars, clientVars
<1>2. PICK u \in Tasks, l \in {"listen", "query", "exited", "raised"} : Goto(s, u, l)
  BY DEF Subscribe, Hear, Check, TaskFails, Tasks
<1>3. \A r \in Streams, v \in Tasks : at'[r][v] = IF r = s /\ v = u THEN l ELSE at[r][v]
  BY <1>2, GotoLabels
<1>4. \A r \in Streams : at'[r]["main"] \in LastPhase => saw'[r] = saw[r]
  <2>1. CASE Subscribe(s) \/ Hear(s) \/ TaskFails(s, t)
    BY <2>1 DEF Subscribe, Hear, TaskFails
  <2>2. CASE Check(s, t)
    <3>1. t \in {"sub", "poll"} /\ at[s][t] = "check" /\ \A r \in Streams : r # s => saw'[r] = saw[r]
      BY <2>2 DEF Check, TypeOK, PushType
    <3>2. at[s]["main"] \notin LastPhase
      BY <3>1 DEF Phases
    <3>3. l \notin LastPhase
      BY DEF LastPhase
    <3> QED
      BY <1>3, <3>1, <3>2, <3>3 DEF Tasks
  <2> QED
    BY <2>1, <2>2
<1>5. \A r \in Streams, v \in Tasks :
        at'[r][v] \in Answering => at[r][v] = at'[r][v] /\ asked'[r][v] = asked[r][v]
  BY <1>1, <1>3 DEF Answering
<1>6. \A r \in Streams : at'[r]["main"] \in {"conclude", "returned"} =>
                           at[r]["main"] \in {"conclude", "returned"}
  BY <1>3 DEF Tasks
<1> QED
  BY <1>1, <1>4, <1>5, <1>6, SentMoves

LEMMA SentMain ==
  ASSUME TypeOK, Phases, SentInv, NEW s \in Streams,
         FirstCheck(s) \/ Wake(s) \/ Conclude(s)
  PROVE  SentInv'
<1>0. <<Done>> \in Seq(0 .. Len(log)) /\ "main" \in Tasks
  BY LogLength DEF Done, Tasks, TypeOK
<1>1. CASE FirstCheck(s)
  <2>1. /\ UNCHANGED <<gen, client, from, broken, cursor, asked, saw, got>>
        /\ at[s]["main"] = "check" /\ saw[s] = 0
    BY <1>1 DEF FirstCheck, clientVars, Phases, FirstPhase
  <2>2. \A r \in Streams : Keeps(r)
    BY <1>0, <1>1, <2>1, KeepsBroadcast, KeepsSame DEF FirstCheck, TypeOK
  <2>3. /\ \A r \in Streams : r # s => at'[r] = at[r]
        /\ \A u \in Tasks : at'[s][u] \in {at[s][u], "returned", "watch", "subscribe", "query"}
    BY <1>1 DEF FirstCheck, Goto, TypeOK, PushType, Tasks
  <2>4. \A r \in Streams, u \in Tasks :
          at'[r][u] \in Answering => at[r][u] = at'[r][u] /\ asked'[r][u] = asked[r][u]
    BY <2>1, <2>3 DEF Answering
  <2> QED
    BY <2>1, <2>2, <2>3, <2>4, SentMoves
<1>2. CASE Wake(s)
  <2>1. /\ UNCHANGED <<genVars, cursor, saw, got>> /\ \A r \in Streams : Keeps(r)
    BY <1>2, KeepsSame DEF Wake, genVars, clientVars
  <2>2. /\ \A r \in Streams : r # s => at'[r] = at[r] /\ asked'[r] = asked[r]
        /\ at'[s] = [main |-> "lastQuery", sub |-> "off", poll |-> "off"]
    BY <1>2 DEF Wake, TypeOK, PushType
  <2>3. \A r \in Streams, u \in Tasks :
          at'[r][u] \in Answering => at[r][u] = at'[r][u] /\ asked'[r][u] = asked[r][u]
    BY <2>2 DEF Answering, Tasks
  <2> QED
    BY <2>1, <2>2, <2>3, SentMoves
<1>3. CASE Conclude(s)
  <2>1. /\ UNCHANGED <<gen, client, from, broken, cursor, asked, saw, got>>
        /\ \A r \in Streams : Keeps(r)
    BY <1>0, <1>3, KeepsBroadcast DEF Conclude, TypeOK, clientVars
  <2>2. at[s]["main"] = "conclude" /\ Goto(s, "main", "returned")
    BY <1>3 DEF Conclude
  <2>3. \A r \in Streams, u \in Tasks :
          at'[r][u] = IF r = s /\ u = "main" THEN "returned" ELSE at[r][u]
    BY <1>0, <2>2, GotoLabels
  <2>4. \A r \in Streams, u \in Tasks :
          at'[r][u] \in Answering => at[r][u] = at'[r][u] /\ asked'[r][u] = asked[r][u]
    BY <2>1, <2>3 DEF Answering
  <2>5. \A r \in Streams : at'[r]["main"] \in {"conclude", "returned"} =>
                             at[r]["main"] \in {"conclude", "returned"}
    BY <1>0, <2>2, <2>3
  <2> QED
    BY <2>1, <2>4, <2>5, SentMoves
<1> QED
  BY <1>1, <1>2, <1>3

LEMMA SentKept ==
  ASSUME TypeOK, SentInv, UNCHANGED <<at, cursor, asked, saw>>, \A s \in Streams : Keeps(s)
  PROVE  SentInv'
  BY SentMoves

LEMMA SentClose ==
  ASSUME TypeOK, SentInv, NEW s \in Streams, Close(s), UNCHANGED got
  PROVE  SentInv'
<1>1. /\ UNCHANGED <<cursor, asked, saw>> /\ \A r \in Streams : Keeps(r)
  BY KeepsClose DEF Close, TypeOK
<1>2. /\ \A r \in Streams : r # s => at'[r] = at[r]
      /\ at'[s]["main"] \in {at[s]["main"], "cancelled"}
      /\ at'[s]["sub"] = at[s]["sub"] /\ at'[s]["poll"] = at[s]["poll"]
  BY DEF Close, TypeOK, PushType, Tasks
<1>3. \A r \in Streams, u \in Tasks :
        at'[r][u] \in Answering => at[r][u] = at'[r][u] /\ asked'[r][u] = asked[r][u]
  BY <1>1, <1>2 DEF Answering, Tasks
<1>4. \A r \in Streams : at'[r]["main"] \in {"conclude", "returned"} =>
                           at[r]["main"] \in {"conclude", "returned"}
  BY <1>2
<1> QED
  BY <1>1, <1>3, <1>4, SentMoves

LEMMA SentGen ==
  ASSUME TypeOK, SentInv, NEW s \in Streams, Yield(s) \/ Drop(s) \/ Notice(s) \/ Timeout(s)
  PROVE  SentInv'
<1>1. CASE Close(s) /\ UNCHANGED got
  BY <1>1, SentClose
<1>2. CASE Yield(s) /\ UNCHANGED pushVars
  BY <1>2, KeepsYield, SentKept DEF pushVars
<1>3. CASE Drop(s)
  BY <1>3, KeepsDrop, SentKept DEF Drop, pushVars, TypeOK
<1> QED
  BY <1>1, <1>2, <1>3 DEF Yield, Notice, Timeout, clientVars

LEMMA SentJob ==
  ASSUME TypeOK, SentInv, RunStage \/ RunEnds \/ ChatTurnDone \/ UNCHANGED vars
  PROVE  SentInv'
<1>1. CASE ChatTurnDone
  <2>1. <<Done>> \in Seq(0 .. Len(log))
    BY LogLength DEF Done, TypeOK
  <2> QED
    BY <1>1, <2>1, KeepsBroadcast, SentKept DEF ChatTurnDone, pushVars, clientVars, TypeOK
<1>2. CASE RunStage \/ RunEnds \/ UNCHANGED vars
  <2>1. UNCHANGED <<gen, client, from, broken, queue, got, at, cursor, asked, saw>>
    BY <1>2 DEF RunStage, RunEnds, vars, genVars, pushVars, clientVars
  <2> QED
    BY <2>1, KeepsSame, SentKept
<1> QED
  BY <1>1, <1>2

LEMMA SentStep == TypeOK /\ Phases /\ SentInv /\ [Next]_vars => SentInv'
<1> SUFFICES ASSUME TypeOK, Phases, SentInv, [Next]_vars PROVE SentInv'
  OBVIOUS
<1>1. ASSUME NEW s \in Streams, Stream(s) PROVE SentInv'
  <2>1. ASSUME NEW t \in Tasks, Query(s, t) \/ Deliver(s, t) PROVE SentInv'
    BY <2>1, SentQuery, SentDeliver
  <2>2. ASSUME NEW t \in Tasks, Check(s, t) \/ TaskFails(s, t) PROVE SentInv'
    BY <2>2, SentTask
  <2>3. CASE Subscribe(s) \/ Hear(s)
    BY <2>3, SentTask DEF Tasks
  <2>4. CASE FirstCheck(s) \/ Wake(s) \/ Conclude(s)
    BY <2>4, SentMain
  <2>5. CASE (\E c \in Clients : Open(c, s)) \/ Yield(s) \/ Drop(s) \/ Notice(s) \/ Timeout(s)
    BY <2>5, SentOpen, SentGen
  <2> QED
    BY <1>1, <2>1, <2>2, <2>3, <2>4, <2>5 DEF Stream, Push
<1>2. CASE RunStage \/ RunEnds \/ ChatTurnDone \/ UNCHANGED vars
  BY <1>2, SentJob
<1> QED
  BY <1>1, <1>2 DEF Next
-----------------------------------------------------------------------------
(* Results. *)

LEMMA InvInit == Init => IInv
<1> SUFFICES ASSUME Init PROVE IInv
  OBVIOUS
<1>1. TypeOK
  BY TypeInit
<1>2. Phases
  BY DEF Init, Phases, Tasks, MainLabels, FirstPhase, LastPhase
<1>3. SentInv
  BY DEF Init, SentInv, CursorMeansSent, DoneAfterLastEntry, AnswersContinue, LastDrainSuffices,
         Answering, Tasks
<1> QED
  BY <1>1, <1>2, <1>3 DEF IInv

LEMMA InvStep == IInv /\ [Next]_vars => IInv'
<1>1. SentInv => AnswersContinue
  BY DEF SentInv
<1> QED
  BY <1>1, TypeStep, PhaseStep, SentStep DEF IInv

\* The inductive invariant of the stream: types, the phases of the push
\* coroutine and what each of its drains has sent.
THEOREM StreamInductive == Spec => []IInv
  BY InvInit, InvStep, PTL DEF Spec

\* No cursor, answer, message or client of api/chat_runtime.py and useSSE.ts
\* ever names an event beyond the log, and closed streams keep no messages.
THEOREM StreamTypes == Spec => []TypeOK
<1>1. IInv => TypeOK
  BY DEF IInv
<1> QED
  BY <1>1, StreamInductive, PTL

\* The last_event_id that main, listener and poll share (chat_runtime.py:497)
\* never passes an entry that was not sent, in any interleaving of the three.
THEOREM CursorsMeanSent == Spec => []CursorMeansSent
<1>1. IInv => CursorMeansSent
  BY DEF IInv, SentInv
<1> QED
  BY <1>1, StreamInductive, PTL

\* The drain after the watching tasks (chat_runtime.py:597) sends every entry
\* there was when one of them found the job finished, before the done message.
THEOREM DoneComesLast == Spec => []DoneAfterLastEntry
<1>1. IInv => DoneAfterLastEntry
  BY DEF IInv, SentInv
<1> QED
  BY <1>1, StreamInductive, PTL
=============================================================================
