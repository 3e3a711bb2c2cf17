-------------------------- MODULE ChatClientProofs --------------------------
(***************************************************************************)
(* Proofs about ChatClient, for any conversations, number of connections   *)
(* and of waiting operations: the tab has one connection, and is connected *)
(* only while it is alive; and what is saved of a chat is never lost.      *)
(*                                                                         *)
(* Connecting picks a connection that is gone, of which there must be one: *)
(* the current one is the only one that is not (Sound), unless one is      *)
(* being aborted, and then nothing else happens (Settled).                 *)
(*                                                                         *)
(* What the screen shows of a saved chat goes on from what is saved of it, *)
(* and an id that the server has yet to give out names no saved chat       *)
(* (Keeps); so saving only adds to what was saved.                         *)
(***************************************************************************)
EXTENDS ChatClient, TLAPS

Phases == {"none", "fetching", "open", "aborted"}

Connection(s) ==
  /\ DOMAIN s = {"at", "conv", "job", "jobs"}
  /\ s.at \in Phases
  /\ s.at = "none" => s = Gone

(* The fields of the tab, of which the proof looks at three.               *)
Shape(t) ==
  /\ DOMAIN t = DOMAIN Blank
  /\ DOMAIN t.streams = Streams
  /\ \A n \in Streams: Connection(t.streams[n])
  /\ t.connected \in BOOLEAN

(* The current connection is alive, and the only one.                      *)
Sound(t) ==
  /\ Shape(t)
  /\ t.current \in Streams \cup {0}
  /\ t.current # 0 => Live(t, t.current)
  /\ \A n \in Streams: Live(t, n) => n = t.current
  /\ t.connected => t.current # 0

-----------------------------------------------------------------------------
(* The operations of the store. *)

Fields == {"session", "shown", "messages", "loading", "connected", "streaming", "job", "active",
           "timer", "current", "streams", "snapshots"}

LEMMA BlankFields == DOMAIN Blank = Fields
BY DEF Blank, Fields

(* An operation that leaves the connections alone.                         *)
Same(t, u) ==
  /\ DOMAIN u = DOMAIN t
  /\ u.streams = t.streams /\ u.current = t.current /\ u.connected = t.connected

LEMMA SameIsSound ==
  ASSUME NEW t, NEW u, Same(t, u), Sound(t)
  PROVE  Sound(u)
BY DEF Same, Sound, Shape, Live

LEMMA SameIsTransitive ==
  ASSUME NEW t, NEW u, NEW v, Same(t, u), Same(u, v)
  PROVE  Same(t, v)
BY DEF Same

LEMMA SayIsSame ==
  ASSUME NEW t, DOMAIN t = Fields, NEW role
  PROVE  Same(t, Say(t, role))
BY DEF Same, Say, Fields

LEMMA SaveIsSame ==
  ASSUME NEW t, DOMAIN t = Fields
  PROVE  Same(t, SaveChatSnapshot(t))
<1>1. \A s: Same(t, [t EXCEPT !.snapshots = s])
  BY DEF Same, Fields
<1>2. SaveChatSnapshot(t) = t
      \/ SaveChatSnapshot(t) =
           [t EXCEPT !.snapshots = [t.snapshots EXCEPT ![SnapshotId(t)] = t.messages]]
  BY DEF SaveChatSnapshot, Fields
<1>3. Same(t, t)
  BY DEF Same
<1> QED
  BY <1>1, <1>2, <1>3

LEMMA ClearIsSame ==
  ASSUME NEW t, DOMAIN t = Fields
  PROVE  Same(t, Clear(t))
<1>1. Same(t, SaveChatSnapshot(t))
  BY SaveIsSame
<1>2. DOMAIN SaveChatSnapshot(t) = Fields
  BY <1>1 DEF Same
<1>3. Same(SaveChatSnapshot(t), Clear(t))
  BY <1>2 DEF Same, Clear, Fields
<1> QED
  BY <1>1, <1>3, SameIsTransitive

LEMMA FlushIsSame ==
  ASSUME NEW t, DOMAIN t = Fields
  PROVE  Same(t, Flush(t))
<1>1. Same(t, t)
  BY DEF Same
<1>2. Same(t, Say(t, "assistant")) /\ DOMAIN Say(t, "assistant") = Fields
  BY SayIsSame DEF Same
<1>3. Same(Say(t, "assistant"), [Say(t, "assistant") EXCEPT !.streaming = FALSE])
  BY <1>2 DEF Same, Fields
<1> QED
  BY <1>1, <1>2, <1>3, SameIsTransitive DEF Flush

-----------------------------------------------------------------------------
(* Connecting and disconnecting. *)

LEMMA GoneIsConnection == Connection(Gone) /\ Gone.at = "none"
BY DEF Connection, Gone, Phases

(* Another phase of the one connection of n.                               *)
LEMMA DisconnectShape ==
  ASSUME NEW t, Sound(t)
  PROVE  /\ Shape(Disconnect(t))
         /\ Disconnect(t).current = 0 /\ Disconnect(t).connected = FALSE
         /\ \A n \in Streams: ~Live(Disconnect(t), n)
         /\ \A n \in Streams: n # t.current => Disconnect(t).streams[n] = t.streams[n]
<1> DEFINE ss == IF t.current = 0 THEN t.streams
                 ELSE [t.streams EXCEPT ![t.current] =
                         [t.streams[t.current] EXCEPT !.at = "aborted"]]
<1>1. /\ DOMAIN Disconnect(t) = Fields
      /\ Disconnect(t).streams = ss
      /\ Disconnect(t).current = 0 /\ Disconnect(t).connected = FALSE
  BY BlankFields DEF Disconnect, Sound, Shape, Fields, Connection
<1>2. DOMAIN ss = Streams
      /\ \A n \in Streams: n # t.current => ss[n] = t.streams[n]
  BY DEF Sound, Shape
<1>3. ASSUME t.current # 0
      PROVE  Connection(ss[t.current]) /\ ss[t.current].at = "aborted"
  BY <1>3 DEF Sound, Shape, Connection, Phases
<1> HIDE DEF ss
<1>4. ASSUME NEW n \in Streams
      PROVE  Connection(ss[n]) /\ ss[n].at \notin {"fetching", "open"}
  <2>1. n # 0
    BY StreamsAssumption
  <2>2. CASE n = t.current
    BY <1>3, <2>1, <2>2
  <2>3. CASE n # t.current
    BY <1>2, <2>3 DEF Sound, Shape, Live
  <2> QED
    BY <2>2, <2>3
<1> QED
  BY <1>1, <1>2, <1>4, BlankFields DEF Shape, Live

(* When none is being aborted, one is gone.                                *)
LEMMA OneIsGone ==
  ASSUME NEW t, Sound(t), \A n \in Streams: t.streams[n].at # "aborted"
  PROVE  \E n \in Streams: t.streams[n] = Gone
<1>1. PICK n \in Streams: n # t.current
  BY StreamsAssumption
<1>2. t.streams[n].at = "none"
  BY <1>1 DEF Sound, Shape, Connection, Phases, Live
<1> QED
  BY <1>1, <1>2 DEF Sound, Shape, Connection

LEMMA ConnectIsSound ==
  ASSUME NEW t, Sound(t), \A n \in Streams: t.streams[n].at # "aborted", NEW k, NEW job
  PROVE  Sound(Connect(t, k, job))
<1> DEFINE n == CHOOSE m \in Streams: t.streams[m] = Gone
           d == Disconnect(t)
           s == [at |-> "fetching", conv |-> k, job |-> job, jobs |-> {job} \ {None}]
           u == Connect(t, k, job)
<1>1. n \in Streams
  BY OneIsGone
<1>2. n # 0
  BY <1>1, StreamsAssumption
<1>3. Shape(d) /\ \A m \in Streams: ~Live(d, m)
  BY DisconnectShape
<1>4. u = [d EXCEPT !.current = n, !.connected = TRUE, !.streams = [d.streams EXCEPT ![n] = s]]
  BY <1>3, BlankFields DEF Connect, Shape, Fields
<1>5. Connection(s) /\ s.at = "fetching"
  BY DEF Connection, Phases
<1> HIDE DEF n, d, s, u
<1>6. /\ DOMAIN u = Fields
      /\ u.current = n /\ u.connected = TRUE /\ u.streams = [d.streams EXCEPT ![n] = s]
  BY <1>3, <1>4, BlankFields DEF Shape, Fields
<1>7. DOMAIN u.streams = Streams /\ u.streams[n] = s
      /\ \A m \in Streams: m # n => u.streams[m] = d.streams[m]
  BY <1>1, <1>3, <1>6 DEF Shape
<1>8. Shape(u)
  BY <1>3, <1>5, <1>6, <1>7, BlankFields DEF Shape
<1>9. \A m \in Streams: Live(u, m) => m = n
  BY <1>3, <1>7 DEF Live
<1>10. Live(u, n)
  BY <1>5, <1>7 DEF Live
<1>11. Sound(u)
  BY <1>1, <1>2, <1>6, <1>8, <1>9, <1>10 DEF Sound
<1> QED
  BY <1>11 DEF u

LEMMA FinallyIsSound ==
  ASSUME NEW t, Sound(t), NEW n \in Streams
  PROVE  Sound(Finally(t, n))
<1> DEFINE u == Finally(t, n)
<1>1. /\ DOMAIN u = Fields
      /\ u.streams = [t.streams EXCEPT ![n] = Gone]
      /\ u.current = IF t.current = n THEN 0 ELSE t.current
      /\ u.connected = FALSE
  BY BlankFields DEF Finally, Sound, Shape, Fields
<1> HIDE DEF u
<1>2. DOMAIN u.streams = Streams /\ u.streams[n] = Gone
      /\ \A m \in Streams: m # n => u.streams[m] = t.streams[m]
  BY <1>1 DEF Sound, Shape
<1>3. Shape(u)
  BY <1>1, <1>2, GoneIsConnection, BlankFields DEF Sound, Shape
<1>4. ~Live(u, n) /\ \A m \in Streams: m # n => (Live(u, m) <=> Live(t, m))
  BY <1>2, GoneIsConnection DEF Live
<1>5. u.current \in Streams \cup {0} /\ (u.current # 0 => Live(u, u.current))
  BY <1>1, <1>4, StreamsAssumption DEF Sound
<1>6. \A m \in Streams: Live(u, m) => m = u.current
  BY <1>1, <1>4 DEF Sound
<1>7. Sound(u)
  BY <1>1, <1>3, <1>5, <1>6 DEF Sound
<1> QED
  BY <1>7 DEF u

-----------------------------------------------------------------------------
(* The steps. *)

LEMMA SoundFields ==
  ASSUME NEW t, Sound(t)
  PROVE  DOMAIN t = Fields
BY BlankFields DEF Sound, Shape

LEMMA BlankIsSound ==
  ASSUME NEW s
  PROVE  Sound([Blank EXCEPT !.snapshots = s])
<1> DEFINE u == [Blank EXCEPT !.snapshots = s]
<1>1. /\ DOMAIN u = Fields
      /\ u.streams = [n \in Streams |-> Gone] /\ u.current = 0 /\ u.connected = FALSE
  BY DEF Blank, Fields
<1> HIDE DEF u
<1>2. Sound(u)
  BY <1>1, GoneIsConnection, BlankFields DEF Sound, Shape, Live
<1> QED
  BY <1>2 DEF u

(* More of what a live connection carries, or its answer.                  *)
LEMMA CarriesIsSound ==
  ASSUME NEW t, Sound(t), NEW n \in Streams, Live(t, n), NEW u, NEW s,
         DOMAIN u = DOMAIN t, u.current = t.current, u.connected = t.connected,
         u.streams = [t.streams EXCEPT ![n] = s],
         DOMAIN s = {"at", "conv", "job", "jobs"}, s.at \in {"fetching", "open"}
  PROVE  Sound(u)
<1>1. DOMAIN u.streams = Streams /\ u.streams[n] = s
      /\ \A m \in Streams: m # n => u.streams[m] = t.streams[m]
  BY DEF Sound, Shape
<1>2. Connection(s)
  BY DEF Connection, Phases
<1>3. Shape(u)
  BY <1>1, <1>2 DEF Sound, Shape
<1>4. \A m \in Streams: Live(u, m) <=> Live(t, m)
  BY <1>1 DEF Live
<1> QED
  BY <1>3, <1>4 DEF Sound

LEMMA OpenIsSound ==
  ASSUME Sound(tab), Settled, NEW t, Same(tab, t), NEW k
  PROVE  Sound(OpenStream(t, k))
<1>1. Sound(t) /\ \A n \in Streams: t.streams[n].at # "aborted"
  BY SameIsSound DEF Settled, Same
<1> QED
  BY <1>1, ConnectIsSound DEF OpenStream

LEMMA StreamSteps ==
  ASSUME Sound(tab), NEW n \in Streams, Aborted(n) \/ Stream(n)
  PROVE  Sound(tab')
<1> DEFINE Ds == {"at", "conv", "job", "jobs"}
<1>1. DOMAIN tab = Fields /\ DOMAIN tab.streams[n] = Ds
  BY SoundFields DEF Sound, Shape, Connection
<1>2. Sound(Finally(tab, n)) /\ DOMAIN Finally(tab, n) = Fields
  BY FinallyIsSound, SoundFields
<1>3. CASE Aborted(n)
  BY <1>2, <1>3 DEF Aborted
<1>4. CASE Opened(n)
  <2> DEFINE js == IF tab.streams[n].jobs = {} THEN {tab.streams[n].conv} \cap running
                   ELSE tab.streams[n].jobs
             s == [[tab.streams[n] EXCEPT !.at = "open"] EXCEPT !.jobs = js]
  <2>1. tab' = [tab EXCEPT !.streams = [tab.streams EXCEPT ![n] = s]]
    BY <1>1, <1>4 DEF Opened, Fields, Sound, Shape
  <2>2. DOMAIN s = Ds /\ s.at = "open"
    BY <1>1
  <2> HIDE DEF s
  <2>3. /\ DOMAIN tab' = DOMAIN tab /\ tab'.current = tab.current
        /\ tab'.connected = tab.connected /\ tab'.streams = [tab.streams EXCEPT ![n] = s]
    BY <1>1, <2>1 DEF Fields
  <2>4. Live(tab, n)
    BY <1>4 DEF Opened, IsAt, Live
  <2> QED
    BY <2>2, <2>3, <2>4, CarriesIsSound
<1>5. CASE Refused(n)
  <2>1. Same(Finally(tab, n), tab')
    BY <1>2, <1>5 DEF Refused, Same, Fields
  <2> QED
    BY <1>2, <2>1, SameIsSound
<1>6. CASE Fails(n)
  <2> DEFINE w == [tab.streams[n] EXCEPT !.at = "none", !.jobs = {}]
  <2>1. tab' = [Finally(tab, n) EXCEPT !.loading = FALSE, !.timer = w]
    BY <1>6 DEF Fails
  <2> HIDE DEF w
  <2>2. Same(Finally(tab, n), tab')
    BY <1>2, <2>1 DEF Same, Fields
  <2> QED
    BY <1>2, <2>2, SameIsSound
<1>7. CASE Ends(n)
  BY <1>2, <1>7 DEF Ends
<1>8. CASE JobCreated(n)
  <2> DEFINE k == tab.streams[n].conv
             s == [tab.streams[n] EXCEPT !.jobs = tab.streams[n].jobs \cup {k}]
  <2>1. tab' = [tab EXCEPT !.job = k, !.active = k, !.loading = TRUE,
                           !.streams = [tab.streams EXCEPT ![n] = s]]
    BY <1>1, <1>8 DEF JobCreated, Fields, Sound, Shape
  <2>2. DOMAIN s = Ds /\ s.at = tab.streams[n].at
    BY <1>1
  <2> HIDE DEF s, k
  <2>3. /\ DOMAIN tab' = DOMAIN tab /\ tab'.current = tab.current
        /\ tab'.connected = tab.connected /\ tab'.streams = [tab.streams EXCEPT ![n] = s]
    BY <1>1, <2>1 DEF Fields
  <2>4. Live(tab, n) /\ tab.streams[n].at = "open"
    BY <1>8 DEF JobCreated, IsAt, Live
  <2> QED
    BY <2>2, <2>3, <2>4, CarriesIsSound
<1>9. Same(tab, Say(tab, "assistant")) /\ DOMAIN Say(tab, "assistant") = Fields
  BY <1>1, SayIsSame DEF Same
<1>10. CASE IntentReady(n)
  <2>1. Same(Say(tab, "assistant"), tab')
    BY <1>9, <1>10 DEF IntentReady, Same, Fields
  <2> QED
    BY <1>9, <2>1, SameIsSound
<1>11. CASE Answered(n)
  <2> DEFINE said == [Say(tab, "assistant") EXCEPT !.loading = FALSE]
  <2>1. Same(Say(tab, "assistant"), said) /\ DOMAIN said = Fields
    BY <1>9 DEF Same, Fields
  <2>2. tab' = said \/ tab' = [said EXCEPT !.streaming = FALSE] \/ tab' = SaveChatSnapshot(said)
    BY <1>11 DEF Answered
  <2> HIDE DEF said
  <2>3. Sound(said)
    BY <1>9, <2>1, SameIsSound
  <2>4. Same(said, [said EXCEPT !.streaming = FALSE]) /\ Same(said, SaveChatSnapshot(said))
    BY <2>1, SaveIsSame DEF Same, Fields
  <2> QED
    BY <2>2, <2>3, <2>4, SameIsSound
<1>12. ASSUME NEW j, Stage(n, j) \/ Token(n, j) PROVE Sound(tab')
  <2>1. Same(tab, tab')
    BY <1>1, <1>12 DEF Stage, Token, Same, Fields
  <2> QED
    BY <2>1, SameIsSound
<1>13. ASSUME NEW j, JobEnds(n, j) PROVE Sound(tab')
  <2> DEFINE said0 == Say(tab, "assistant")
             s == [tab.streams[n] EXCEPT !.jobs = tab.streams[n].jobs \ {j}]
             said == [said0 EXCEPT !.active = None, !.loading = FALSE, !.streaming = FALSE,
                                   !.streams = [said0.streams EXCEPT ![n] = s]]
  <2>1. tab' \in {said, SaveChatSnapshot(said)}
    <3>1. said0.streams = tab.streams
      BY <1>9 DEF Same
    <3>2. said = [said0 EXCEPT !.active = None, !.loading = FALSE, !.streaming = FALSE,
                               !.streams[n].jobs = @ \ {j}]
      BY <1>9, <3>1 DEF Fields, Sound, Shape
    <3> QED
      BY <1>13, <3>2 DEF JobEnds
  <2>2. DOMAIN s = Ds /\ s.at = tab.streams[n].at
    BY <1>1
  <2> HIDE DEF s, said0
  <2>3. /\ DOMAIN said = Fields /\ said.current = tab.current
        /\ said.connected = tab.connected /\ said.streams = [tab.streams EXCEPT ![n] = s]
    BY <1>9 DEF Same, Fields, said0
  <2> HIDE DEF said
  <2>4. Live(tab, n) /\ tab.streams[n].at = "open"
    BY <1>13 DEF JobEnds, IsAt, Live
  <2>5. Sound(said)
    BY <1>1, <2>2, <2>3, <2>4, CarriesIsSound
  <2>6. Same(said, SaveChatSnapshot(said))
    BY <2>3, SaveIsSame
  <2> QED
    BY <2>1, <2>5, <2>6, SameIsSound
<1>14. CASE Done(n)
  <2>1. Sound(Flush(tab))
    BY <1>1, FlushIsSame, SameIsSound
  <2>2. Sound(Disconnect(Flush(tab)))
    BY <2>1, DisconnectShape DEF Sound
  <2> QED
    BY <1>14, <2>2, FinallyIsSound DEF Done
<1> QED
  BY <1>3, <1>4, <1>5, <1>6, <1>7, <1>8, <1>10, <1>11, <1>12, <1>13, <1>14 DEF Stream

(* Whatever an operation does with a tab that differs only in what it      *)
(* shows, the connections stay sound.                                      *)
LEMMA ProceedIsSound ==
  ASSUME Sound(tab), Settled, NEW o, NEW kind, NEW t, Same(tab, t), Proceed(o, kind, t)
  PROVE  Sound(tab')
<1>1. Sound(t) /\ DOMAIN t = Fields
  BY SameIsSound, SoundFields
<1>2. CASE tab' = [Clear(t) EXCEPT !.active = None]
  <2>1. Same(t, Clear(t)) /\ DOMAIN Clear(t) = Fields
    BY <1>1, ClearIsSame DEF Same
  <2>2. Same(Clear(t), tab')
    BY <1>2, <2>1 DEF Same, Fields
  <2> QED
    BY <1>1, <2>1, <2>2, SameIsSound
<1>3. CASE tab' = t
  BY <1>1, <1>3
<1>4. CASE tab' = OpenStream(t, t.session)
  BY <1>4, OpenIsSound
<1> QED
  BY <1>2, <1>3, <1>4 DEF Proceed

LEMMA OperationSteps ==
  ASSUME Sound(tab), NEW o \in Slots, Operation(o)
  PROVE  Sound(tab')
<1>1. DOMAIN tab = Fields
  BY SoundFields
<1>2. Same(tab, tab)
  BY DEF Same
<1>3. ASSUME NEW kind, NEW t, Same(tab, t), Begin(o, kind, t) PROVE Sound(tab')
  BY <1>3, ProceedIsSound, SameIsSound DEF Begin, Act
<1>4. CASE Authorised(o)
  BY <1>2, <1>4, ProceedIsSound DEF Authorised, Awaits
<1>5. CASE Created(o)
  <2>1. PICK k \in Conversations \ made:
          tab' = [tab EXCEPT !.session = k] \/ tab' = OpenStream([tab EXCEPT !.session = k], k)
    BY <1>5 DEF Created
  <2>2. Same(tab, [tab EXCEPT !.session = k])
    BY <1>1 DEF Same, Fields
  <2>3. Settled
    BY <1>5 DEF Created, Awaits
  <2> QED
    BY <2>1, <2>2, <2>3, OpenIsSound, SameIsSound
<1>6. CASE Posted(o)
  BY <1>2, <1>6, OpenIsSound DEF Posted, Awaits
<1>7. CASE OpFails(o)
  <2>1. Same(tab, Say(tab, "assistant")) /\ DOMAIN Say(tab, "assistant") = Fields
    BY <1>1, SayIsSame DEF Same
  <2>2. Same(Say(tab, "assistant"), [Say(tab, "assistant") EXCEPT !.loading = FALSE])
    BY <2>1 DEF Same, Fields
  <2> QED
    BY <1>7, <2>1, <2>2, SameIsSound DEF OpFails
<1>8. CASE Send(o)
  <2>1. PICK still \in {FALSE, tab.streaming}:
          Begin(o, "send", [Say(tab, "user") EXCEPT !.streaming = still, !.loading = TRUE])
    BY <1>8 DEF Send
  <2>2. Same(tab, Say(tab, "user")) /\ DOMAIN Say(tab, "user") = Fields
    BY <1>1, SayIsSame DEF Same
  <2>3. Same(Say(tab, "user"),
             [Say(tab, "user") EXCEPT !.streaming = still, !.loading = TRUE])
    BY <2>2 DEF Same, Fields
  <2> QED
    BY <1>3, <2>1, <2>2, <2>3, SameIsTransitive
<1>9. CASE NewChat(o)
  BY <1>1, <1>3, <1>9, ClearIsSame DEF NewChat
<1> QED
  BY <1>4, <1>5, <1>6, <1>7, <1>8, <1>9 DEF Operation

LEMMA OtherSteps ==
  ASSUME Sound(tab),
         \/ \E k \in Conversations: Unheard(k)
         \/ \E k \in Conversations \cup Drafts: RestoreChat(k)
         \/ Reconnect \/ Effect \/ Reload \/ UNCHANGED vars
  PROVE  Sound(tab')
<1>1. DOMAIN tab = Fields
  BY SoundFields
<1>2. CASE (\E k \in Conversations: Unheard(k)) \/ UNCHANGED vars
  BY <1>2 DEF Unheard, vars
<1>3. ASSUME NEW k \in Conversations \cup Drafts, RestoreChat(k) PROVE Sound(tab')
  <2>1. Same(tab, tab')
    BY <1>1, <1>3 DEF RestoreChat, Same, Fields
  <2> QED
    BY <2>1, SameIsSound
<1>4. CASE Reconnect
  <2> DEFINE t == [tab EXCEPT !.timer = Gone]
  <2>1. Same(tab, t)
    BY <1>1 DEF Same, Fields
  <2>2. Sound(t) /\ \A n \in Streams: t.streams[n].at # "aborted"
    BY <1>4, <2>1, SameIsSound DEF Reconnect, Settled, Same
  <2> HIDE DEF t
  <2>3. \A k, job: Sound(Connect(t, k, job))
    BY <2>2, ConnectIsSound
  <2> QED
    BY <1>4, <2>3 DEF Reconnect, t
<1>5. CASE Effect
  <2> DEFINE t == [tab EXCEPT !.shown = tab.session]
  <2>1. Same(tab, t)
    BY <1>1 DEF Same, Fields
  <2>2. tab' = t \/ tab' = OpenStream(t, t.session)
    BY <1>5 DEF Effect
  <2> HIDE DEF t
  <2> QED
    BY <1>5, <2>1, <2>2, OpenIsSound, SameIsSound DEF Effect
<1>6. CASE Reload
  BY <1>6, BlankIsSound DEF Reload
<1> QED
  BY <1>2, <1>3, <1>4, <1>5, <1>6

(* The tab has at most one connection that is alive, and believes itself   *)
(* connected only while it is (hooks/useChat.ts:82), however the user's    *)
(* operations and the events of the streams interleave.                    *)
THEOREM ConnectionIsAlive == Spec => []ConnectedMeansLive
<1>1. Init => Sound(tab)
  <2>1. Blank = [Blank EXCEPT !.snapshots = Blank.snapshots]
    BY DEF Blank
  <2> QED
    BY <2>1, BlankIsSound DEF Init
<1>2. Sound(tab) /\ [Next]_vars => Sound(tab)'
  <2> SUFFICES ASSUME Sound(tab), [Next]_vars PROVE Sound(tab')
    OBVIOUS
  <2> QED
    BY StreamSteps, OperationSteps, OtherSteps DEF Next
<1>3. Sound(tab) => ConnectedMeansLive
  BY DEF Sound, ConnectedMeansLive
<1> QED
  BY <1>1, <1>2, <1>3, PTL DEF Spec

-----------------------------------------------------------------------------
(* The chats that are saved. *)

Roles == {"user", "assistant"}
Ids == Conversations \cup Drafts

LEMMA PrefixByItems ==
  ASSUME NEW s \in Seq(Roles), NEW t \in Seq(Roles)
  PROVE  IsPrefix(s, t) <=> Len(s) <= Len(t) /\ \A i \in 1..Len(s): s[i] = t[i]
<1>1. ASSUME IsPrefix(s, t) PROVE Len(s) <= Len(t) /\ \A i \in 1..Len(s): s[i] = t[i]
  <2>1. Len(s) <= Len(t) /\ SubSeq(s, 1, Len(s)) = SubSeq(t, 1, Len(s))
    BY <1>1 DEF IsPrefix
  <2>2. ASSUME NEW i \in 1..Len(s)
        PROVE  SubSeq(s, 1, Len(s))[i] = s[i] /\ SubSeq(t, 1, Len(s))[i] = t[i]
    BY <2>1
  <2> QED
    BY <2>1, <2>2
<1>2. ASSUME Len(s) <= Len(t), \A i \in 1..Len(s): s[i] = t[i] PROVE IsPrefix(s, t)
  <2>1. SubSeq(s, 1, Len(s)) = SubSeq(t, 1, Len(s))
    BY <1>2
  <2> QED
    BY <1>2, <2>1 DEF IsPrefix
<1> QED
  BY <1>1, <1>2

LEMMA PrefixOfItself ==
  ASSUME NEW s \in Seq(Roles)
  PROVE  IsPrefix(s, s) /\ IsPrefix(<<>>, s)
<1>1. IsPrefix(s, s)
  BY DEF IsPrefix
<1>2. IsPrefix(<<>>, s)
  <2> DEFINE e == <<>>
  <2>1. e \in Seq(Roles) /\ Len(e) = 0 /\ Len(s) \in Nat
    OBVIOUS
  <2> HIDE DEF e
  <2>2. Len(e) <= Len(s) /\ \A i \in 1..Len(e): e[i] = s[i]
    BY <2>1
  <2>3. IsPrefix(e, s)
    BY <2>1, <2>2, PrefixByItems
  <2> QED
    BY <2>3 DEF e
<1> QED
  BY <1>1, <1>2

LEMMA PrefixOfMore ==
  ASSUME NEW s \in Seq(Roles), NEW t \in Seq(Roles), NEW role \in Roles, IsPrefix(s, t)
  PROVE  IsPrefix(s, Append(t, role))
<1>1. Len(s) <= Len(t) /\ \A i \in 1..Len(s): s[i] = t[i]
  BY PrefixByItems
<1> DEFINE more == Append(t, role)
<1>2. /\ more \in Seq(Roles) /\ Len(more) = Len(t) + 1
      /\ \A i \in 1..Len(t): more[i] = t[i]
  OBVIOUS
<1> HIDE DEF more
<1>3. Len(s) \in Nat /\ Len(t) \in Nat
  OBVIOUS
<1>4. IsPrefix(s, more)
  BY <1>1, <1>2, <1>3, PrefixByItems
<1> QED
  BY <1>4 DEF more

LEMMA PrefixTransitive ==
  ASSUME NEW s \in Seq(Roles), NEW t \in Seq(Roles), NEW u \in Seq(Roles),
         IsPrefix(s, t), IsPrefix(t, u)
  PROVE  IsPrefix(s, u)
<1>1. Len(s) <= Len(t) /\ \A i \in 1..Len(s): s[i] = t[i]
  BY PrefixByItems
<1>2. Len(t) <= Len(u) /\ \A i \in 1..Len(t): t[i] = u[i]
  BY PrefixByItems
<1> QED
  BY <1>1, <1>2, PrefixByItems

(* What the screen shows of a saved chat goes on from what is saved of it, *)
(* and nothing is saved yet under an id that the server has not given out. *)
Keeps(t, m) ==
  /\ DOMAIN t = Fields
  /\ t.messages \in Seq(Roles)
  /\ t.snapshots \in [Ids -> Seq(Roles)]
  /\ t.session # None => t.session \in Ids /\ IsPrefix(t.snapshots[t.session], t.messages)
  /\ t.session \in Conversations => t.session \in m
  /\ \A k \in Conversations \ m: t.snapshots[k] = <<>>

Grows(t, u) == \A k \in Ids: IsPrefix(t.snapshots[k], u.snapshots[k])

(* An operation that leaves the chats alone.                               *)
Quiet(t, u) ==
  /\ DOMAIN u = DOMAIN t
  /\ u.session = t.session /\ u.messages = t.messages /\ u.snapshots = t.snapshots

LEMMA QuietKeeps ==
  ASSUME NEW m, NEW t, NEW u, Keeps(t, m), Quiet(t, u)
  PROVE  Keeps(u, m) /\ Grows(t, u)
BY PrefixOfItself DEF Keeps, Quiet, Grows

LEMMA GrowsTransitive ==
  ASSUME NEW m, NEW n, NEW o, NEW t, NEW u, NEW v, Keeps(t, m), Keeps(u, n), Keeps(v, o),
         Grows(t, u), Grows(u, v)
  PROVE  Grows(t, v)
<1> SUFFICES ASSUME NEW k \in Ids PROVE IsPrefix(t.snapshots[k], v.snapshots[k])
  BY DEF Grows
<1>1. t.snapshots[k] \in Seq(Roles) /\ u.snapshots[k] \in Seq(Roles) /\ v.snapshots[k] \in Seq(Roles)
  BY DEF Keeps
<1> QED
  BY <1>1, PrefixTransitive DEF Grows

(* A quiet operation after one that keeps the chats.                       *)
LEMMA ThenQuiet ==
  ASSUME NEW m, NEW t, NEW u, NEW v, Keeps(u, m), Grows(t, u), Quiet(u, v)
  PROVE  Keeps(v, m) /\ Grows(t, v)
BY QuietKeeps DEF Quiet, Grows

LEMMA SayKeeps ==
  ASSUME NEW m, NEW t, Keeps(t, m), NEW role \in Roles
  PROVE  Keeps(Say(t, role), m) /\ Grows(t, Say(t, role))
<1> DEFINE u == Say(t, role)
<1>1. /\ DOMAIN u = Fields /\ u.messages = Append(t.messages, role)
      /\ u.snapshots = t.snapshots /\ u.session = t.session
  BY DEF Say, Keeps, Fields
<1> HIDE DEF u
<1>2. ASSUME t.session # None PROVE IsPrefix(u.snapshots[u.session], u.messages)
  <2>1. t.session \in Ids /\ IsPrefix(t.snapshots[t.session], t.messages)
    BY <1>2 DEF Keeps
  <2>2. t.snapshots[t.session] \in Seq(Roles) /\ t.messages \in Seq(Roles)
    BY <2>1 DEF Keeps
  <2> QED
    BY <1>1, <2>1, <2>2, PrefixOfMore
<1>3. u.messages \in Seq(Roles)
  BY <1>1 DEF Keeps
<1>4. Keeps(u, m)
  BY <1>1, <1>2, <1>3 DEF Keeps
<1>5. Grows(t, u)
  BY <1>1, PrefixOfItself DEF Grows, Keeps
<1> QED
  BY <1>4, <1>5 DEF u

CanSave(t) == t.messages # <<>> /\ t.session = None => \E d \in Drafts: t.snapshots[d] = <<>>

LEMMA SaveKeeps ==
  ASSUME NEW m, NEW t, Keeps(t, m), CanSave(t)
  PROVE  /\ Keeps(SaveChatSnapshot(t), m) /\ Grows(t, SaveChatSnapshot(t))
         /\ SaveChatSnapshot(t).messages = t.messages /\ SaveChatSnapshot(t).session = t.session
<1>1. CASE t.messages = <<>>
  BY <1>1, QuietKeeps DEF SaveChatSnapshot, Quiet
<1>2. CASE t.messages # <<>>
  <2> DEFINE id == SnapshotId(t)
             u == SaveChatSnapshot(t)
  <2>1. id \in Ids /\ IsPrefix(t.snapshots[id], t.messages)
    <3>1. CASE t.session # None
      BY <3>1 DEF SnapshotId, Keeps
    <3>2. CASE t.session = None
      <4>1. id \in Drafts /\ t.snapshots[id] = <<>>
        BY <1>2, <3>2 DEF SnapshotId, CanSave
      <4> QED
        BY <4>1, PrefixOfItself DEF Keeps, Ids
    <3> QED
      BY <3>1, <3>2
  <2>2. id \in Conversations => id \in m
    <3>1. CASE t.session # None
      BY <3>1 DEF SnapshotId, Keeps
    <3>2. CASE t.session = None
      BY <1>2, <3>2, IdsAssumption DEF SnapshotId, CanSave
    <3> QED
      BY <3>1, <3>2
  <2>3. t.session # None => id = t.session
    BY DEF SnapshotId
  <2> HIDE DEF id
  <2>4. u = [t EXCEPT !.snapshots = [t.snapshots EXCEPT ![id] = t.messages]]
    BY <1>2 DEF SaveChatSnapshot, id, Keeps, Fields
  <2> HIDE DEF u
  <2>5. /\ DOMAIN u = Fields /\ u.messages = t.messages /\ u.session = t.session
        /\ u.snapshots = [t.snapshots EXCEPT ![id] = t.messages]
    BY <2>4 DEF Keeps, Fields
  <2>6. u.snapshots \in [Ids -> Seq(Roles)] /\ u.snapshots[id] = t.messages
        /\ \A k \in Ids \ {id}: u.snapshots[k] = t.snapshots[k]
    BY <2>1, <2>5 DEF Keeps
  <2>7. Grows(t, u)
    <3> SUFFICES ASSUME NEW k \in Ids PROVE IsPrefix(t.snapshots[k], u.snapshots[k])
      BY DEF Grows
    <3>1. t.snapshots[k] \in Seq(Roles)
      BY DEF Keeps
    <3> QED
      BY <2>1, <2>6, <3>1, PrefixOfItself
  <2>8. Keeps(u, m)
    <3>1. u.session # None => u.session \in Ids /\ IsPrefix(u.snapshots[u.session], u.messages)
      BY <2>1, <2>3, <2>5, <2>6, PrefixOfItself DEF Keeps
    <3>2. \A k \in Conversations \ m: u.snapshots[k] = <<>>
      BY <2>2, <2>6 DEF Keeps, Ids
    <3> QED
      BY <2>5, <2>6, <3>1, <3>2 DEF Keeps
  <2> QED
    BY <2>5, <2>7, <2>8 DEF u
<1> QED
  BY <1>1, <1>2

LEMMA ClearKeeps ==
  ASSUME NEW m, NEW t, Keeps(t, m), CanSave(t)
  PROVE  Keeps(Clear(t), m) /\ Grows(t, Clear(t)) /\ CanSave(Clear(t))
<1> DEFINE s == SaveChatSnapshot(t)
           u == Clear(t)
<1>1. Keeps(s, m) /\ Grows(t, s)
  BY SaveKeeps
<1> HIDE DEF s
<1>2. u = [s EXCEPT !.session = None, !.messages = <<>>, !.loading = FALSE, !.job = None,
                    !.streaming = FALSE]
  BY DEF Clear, s
<1> HIDE DEF u
<1>3. DOMAIN u = Fields /\ u.session = None /\ u.messages = <<>> /\ u.snapshots = s.snapshots
  BY <1>1, <1>2 DEF Keeps, Fields
<1>4. None \notin Conversations /\ <<>> \in Seq(Roles)
  BY IdsAssumption
<1>5. Keeps(u, m) /\ Grows(t, u) /\ CanSave(u)
  BY <1>1, <1>3, <1>4 DEF Keeps, Grows, CanSave
<1> QED
  BY <1>5 DEF u

LEMMA FlushKeeps ==
  ASSUME NEW m, NEW t, Keeps(t, m)
  PROVE  Keeps(Flush(t), m) /\ Grows(t, Flush(t))
<1>1. CASE t.streaming
  <2> DEFINE u == Say(t, "assistant")
  <2>1. Keeps(u, m) /\ Grows(t, u)
    BY SayKeeps DEF Roles
  <2> HIDE DEF u
  <2>2. Quiet(u, [u EXCEPT !.streaming = FALSE])
    BY <2>1 DEF Keeps, Quiet, Fields
  <2> QED
    BY <1>1, <2>1, <2>2, ThenQuiet DEF Flush, u
<1>2. CASE ~t.streaming
  BY <1>2, QuietKeeps DEF Flush, Quiet
<1> QED
  BY <1>1, <1>2

LEMMA FinallyIsQuiet ==
  ASSUME NEW m, NEW t, Keeps(t, m), NEW n
  PROVE  Quiet(t, Finally(t, n))
BY DEF Quiet, Finally, Keeps, Fields

LEMMA ConnectIsQuiet ==
  ASSUME NEW m, NEW t, Keeps(t, m)
  PROVE  Quiet(t, Disconnect(t)) /\ \A k, job: Quiet(t, Connect(t, k, job)) /\ Quiet(t, OpenStream(t, k))
<1>1. Quiet(t, Disconnect(t)) /\ DOMAIN Disconnect(t) = Fields
  BY DEF Quiet, Disconnect, Keeps, Fields
<1>2. ASSUME NEW k, NEW job PROVE Quiet(t, Connect(t, k, job))
  <2> DEFINE d == Disconnect(t)
  <2> HIDE DEF d
  <2>1. \A s, n: Quiet(d, [d EXCEPT !.current = n, !.connected = TRUE, !.streams[n] = s])
    BY <1>1 DEF Quiet, Fields, d
  <2> QED
    BY <1>1, <2>1 DEF Connect, Quiet, d
<1> QED
  BY <1>1, <1>2 DEF OpenStream

ChatsKept(m) == Keeps(tab', m) /\ Grows(tab, tab')

LEMMA StreamKeeps ==
  ASSUME Keeps(tab, made), NEW n \in Streams, Aborted(n) \/ Stream(n)
  PROVE  ChatsKept(made) /\ made' = made
<1> USE DEF ChatsKept
<1>1. DOMAIN tab = Fields
  BY DEF Keeps
<1>2. made' = made
  <2>1. CASE Aborted(n) \/ Opened(n) \/ Refused(n) \/ Fails(n) \/ Ends(n)
    BY <2>1 DEF Aborted, Opened, Refused, Fails, Ends, server
  <2>2. CASE JobCreated(n) \/ IntentReady(n) \/ Answered(n) \/ Done(n)
    BY <2>2 DEF JobCreated, IntentReady, Answered, Done, server
  <2>3. ASSUME NEW j, Stage(n, j) \/ Token(n, j) \/ JobEnds(n, j) PROVE made' = made
    BY <2>3 DEF Stage, Token, JobEnds, server
  <2> QED
    BY <2>1, <2>2, <2>3 DEF Stream
<1> DEFINE f == Finally(tab, n)
<1>3. Quiet(tab, f) /\ DOMAIN f = Fields
  BY <1>1, FinallyIsQuiet DEF Quiet
<1>4. CASE Aborted(n) \/ Ends(n)
  BY <1>2, <1>3, <1>4, QuietKeeps DEF Aborted, Ends
<1>5. CASE Refused(n) \/ Fails(n)
  <2> DEFINE w == [tab.streams[n] EXCEPT !.at = "none", !.jobs = {}]
  <2>1. \/ tab' = [f EXCEPT !.loading = FALSE]
        \/ tab' = [f EXCEPT !.loading = FALSE, !.timer = w]
    BY <1>5 DEF Refused, Fails
  <2> HIDE DEF f, w
  <2>2. Quiet(tab, tab')
    BY <1>1, <1>3, <2>1 DEF Quiet, Fields
  <2> QED
    BY <1>2, <2>2, QuietKeeps
<1>6. CASE Opened(n) \/ JobCreated(n)
  BY <1>1, <1>2, <1>6, QuietKeeps DEF Opened, JobCreated, Quiet, Fields
<1>7. ASSUME NEW j, Stage(n, j) \/ Token(n, j) PROVE ChatsKept(made)
  BY <1>1, <1>7, QuietKeeps DEF Stage, Token, Quiet, Fields
<1> DEFINE a == Say(tab, "assistant")
<1>8. Keeps(a, made) /\ Grows(tab, a) /\ a.session = tab.session /\ a.snapshots = tab.snapshots
  BY <1>1, SayKeeps DEF Roles, Say, Fields
<1>9. CASE IntentReady(n)
  <2> HIDE DEF a
  <2>1. Quiet(a, [a EXCEPT !.loading = TRUE])
    BY <1>8 DEF Keeps, Quiet, Fields
  <2> QED
    BY <1>2, <1>8, <1>9, <2>1, ThenQuiet DEF IntentReady, a
<1>10. ASSUME NEW said, Quiet(a, said), IsAt(n, "open"),
              tab' \in {said, [said EXCEPT !.streaming = FALSE], SaveChatSnapshot(said)}
       PROVE  ChatsKept(made)
  <2> HIDE DEF a
  <2>1. Keeps(said, made) /\ Grows(tab, said)
    BY <1>8, <1>10, ThenQuiet
  <2>2. CASE tab' = said
    BY <2>1, <2>2
  <2>3. CASE tab' = [said EXCEPT !.streaming = FALSE]
    <3>1. Quiet(said, tab')
      BY <2>1, <2>3 DEF Quiet, Keeps, Fields
    <3> QED
      BY <2>1, <3>1, ThenQuiet
  <2>4. CASE tab' = SaveChatSnapshot(said)
    <3>1. CanSave(said)
      BY <1>8, <1>10 DEF CanSave, Quiet, IsAt, Room
    <3>2. Keeps(tab', made) /\ Grows(said, tab')
      BY <2>1, <2>4, <3>1, SaveKeeps
    <3> QED
      BY <2>1, <3>2, GrowsTransitive
  <2> QED
    BY <1>10, <2>2, <2>3, <2>4
<1>11. CASE Answered(n)
  <2> DEFINE said == [a EXCEPT !.loading = FALSE]
  <2>1. IsAt(n, "open")
        /\ tab' \in {said, [said EXCEPT !.streaming = FALSE], SaveChatSnapshot(said)}
    BY <1>11 DEF Answered
  <2> HIDE DEF a
  <2>2. Quiet(a, said)
    BY <1>8 DEF Keeps, Quiet, Fields
  <2> HIDE DEF said
  <2> QED
    BY <1>2, <1>10, <2>1, <2>2
<1>12. ASSUME NEW j, JobEnds(n, j) PROVE ChatsKept(made)
  <2> DEFINE said == [a EXCEPT !.active = None, !.loading = FALSE, !.streaming = FALSE,
                               !.streams[n].jobs = @ \ {j}]
  <2>1. IsAt(n, "open") /\ tab' \in {said, SaveChatSnapshot(said)}
    BY <1>12 DEF JobEnds
  <2> HIDE DEF a
  <2>2. Quiet(a, said)
    BY <1>8 DEF Keeps, Quiet, Fields
  <2> HIDE DEF said
  <2> QED
    BY <1>10, <2>1, <2>2
<1>13. CASE Done(n)
  <2> DEFINE u == Flush(tab)
             d == Disconnect(u)
  <2>1. Keeps(u, made) /\ Grows(tab, u)
    BY FlushKeeps
  <2> HIDE DEF u
  <2>2. Keeps(d, made) /\ Grows(tab, d)
    BY <2>1, ConnectIsQuiet, ThenQuiet
  <2> HIDE DEF d
  <2>3. tab' = Finally(d, n)
    BY <1>13 DEF Done, d, u
  <2> QED
    BY <1>2, <2>2, <2>3, FinallyIsQuiet, ThenQuiet
<1> QED
  BY <1>2, <1>4, <1>5, <1>6, <1>7, <1>9, <1>11, <1>12, <1>13 DEF Stream

(* Whatever an operation does with the tab t, it finds room to save it.    *)
LEMMA ProceedKeeps ==
  ASSUME Keeps(tab, made), NEW o, NEW kind, NEW t, Keeps(t, made), Grows(tab, t), CanSave(t),
         Proceed(o, kind, t)
  PROVE  ChatsKept(made)
<1> USE DEF ChatsKept
<1>1. CASE tab' = [Clear(t) EXCEPT !.active = None]
  <2> DEFINE u == Clear(t)
  <2>1. Keeps(u, made) /\ Grows(t, u)
    BY ClearKeeps
  <2>2. Grows(tab, u)
    BY <2>1, GrowsTransitive
  <2> HIDE DEF u
  <2>3. Quiet(u, [u EXCEPT !.active = None])
    BY <2>1 DEF Keeps, Quiet, Fields
  <2> QED
    BY <1>1, <2>1, <2>2, <2>3, ThenQuiet DEF u
<1>2. CASE tab' = t
  BY <1>2
<1>3. CASE tab' = OpenStream(t, t.session)
  BY <1>3, ConnectIsQuiet, ThenQuiet
<1> QED
  BY <1>1, <1>2, <1>3 DEF Proceed

LEMMA BeginKeeps ==
  ASSUME Keeps(tab, made), NEW o, NEW kind, NEW t, Keeps(t, made), Grows(tab, t), CanSave(t),
         Begin(o, kind, t)
  PROVE  ChatsKept(made) /\ made' = made
<1>1. CASE authed
  BY <1>1, ProceedKeeps DEF Begin, server
<1>2. CASE ~authed
  BY <1>2 DEF Begin, server, ChatsKept
<1> QED
  BY <1>1, <1>2

LEMMA OperationKeeps ==
  ASSUME Keeps(tab, made), NEW o \in Slots, Operation(o)
  PROVE  ChatsKept(made')
<1> DEFINE a == Say(tab, "assistant")
           b == Say(tab, "user")
<1>1. DOMAIN tab = Fields
  BY DEF Keeps
<1>2. /\ Keeps(a, made) /\ Grows(tab, a)
      /\ Keeps(b, made) /\ Grows(tab, b) /\ b.session = tab.session /\ b.snapshots = tab.snapshots
  BY <1>1, SayKeeps DEF Roles, Say, Fields
<1>3. Keeps(tab, made) /\ Grows(tab, tab)
  BY QuietKeeps DEF Quiet
<1>4. Room => CanSave(tab) /\ CanSave(b)
  BY <1>2 DEF Room, CanSave
<1>5. CASE Authorised(o)
  BY <1>3, <1>4, <1>5, ProceedKeeps DEF Authorised, Awaits, server
<1>6. CASE Created(o)
  <2>1. PICK k \in Conversations \ made:
          /\ made' = made \cup {k}
          /\ \/ tab' = [tab EXCEPT !.session = k]
             \/ tab' = OpenStream([tab EXCEPT !.session = k], k)
    BY <1>6 DEF Created
  <2> DEFINE t == [tab EXCEPT !.session = k]
  <2>2. /\ DOMAIN t = Fields /\ t.session = k
        /\ t.messages = tab.messages /\ t.snapshots = tab.snapshots
    BY <1>1 DEF Fields
  <2> HIDE DEF t
  <2>3. t.snapshots[k] = <<>> /\ k \in Ids
    BY <2>2 DEF Keeps, Ids
  <2>4. IsPrefix(t.snapshots[k], t.messages)
    BY <2>2, <2>3, PrefixOfItself DEF Keeps
  <2>5. Keeps(t, made')
    BY <2>1, <2>2, <2>3, <2>4 DEF Keeps
  <2>6. Grows(tab, t)
    BY <2>2, PrefixOfItself DEF Grows, Keeps
  <2>7. tab' = t \/ tab' = OpenStream(t, k)
    BY <2>1 DEF t
  <2> QED
    BY <2>5, <2>6, <2>7, ConnectIsQuiet, ThenQuiet DEF ChatsKept
<1>7. CASE Posted(o)
  <2>1. made' = made /\ (tab' = tab \/ tab' = OpenStream(tab, ops[o].conv))
    BY <1>7 DEF Posted
  <2> QED
    BY <1>3, <2>1, ConnectIsQuiet, ThenQuiet DEF ChatsKept
<1>8. CASE OpFails(o)
  <2>1. made' = made /\ (tab' = tab \/ tab' = [a EXCEPT !.loading = FALSE])
    BY <1>8 DEF OpFails, server
  <2> HIDE DEF a
  <2>2. Quiet(a, [a EXCEPT !.loading = FALSE])
    BY <1>2 DEF Quiet, Keeps, Fields
  <2> QED
    BY <1>2, <1>3, <2>1, <2>2, ThenQuiet DEF ChatsKept
<1>9. CASE Send(o)
  <2>1. PICK still \in {FALSE, tab.streaming}:
          Begin(o, "send", [b EXCEPT !.streaming = still, !.loading = TRUE])
    BY <1>9 DEF Send
  <2> HIDE DEF b
  <2> DEFINE t == [b EXCEPT !.streaming = still, !.loading = TRUE]
  <2>2. Quiet(b, t)
    BY <1>2 DEF Quiet, Keeps, Fields
  <2>3. CanSave(t)
    BY <1>4, <2>1, <2>2 DEF Begin, CanSave, Quiet
  <2> HIDE DEF t
  <2>4. Keeps(t, made) /\ Grows(tab, t)
    BY <1>2, <2>2, ThenQuiet
  <2> QED
    BY <2>1, <2>3, <2>4, BeginKeeps DEF t
<1>10. CASE NewChat(o)
  BY <1>4, <1>10, ClearKeeps, BeginKeeps DEF NewChat, Begin
<1> QED
  BY <1>5, <1>6, <1>7, <1>8, <1>9, <1>10 DEF Operation

LEMMA RestoredKeeps ==
  ASSUME Keeps(tab, made), NEW k \in Ids, RestoreChat(k)
  PROVE  ChatsKept(made) /\ made' = made
<1>1. /\ tab.snapshots[k] # <<>> /\ made' = made
      /\ tab' = [tab EXCEPT !.session = k, !.messages = tab.snapshots[k], !.loading = FALSE]
  BY DEF RestoreChat, server
<1>2. /\ DOMAIN tab' = Fields /\ tab'.session = k
      /\ tab'.messages = tab.snapshots[k] /\ tab'.snapshots = tab.snapshots
  BY <1>1 DEF Keeps, Fields
<1>3. tab.snapshots[k] \in Seq(Roles) /\ IsPrefix(tab.snapshots[k], tab.snapshots[k])
  BY PrefixOfItself DEF Keeps
<1>4. k \in Conversations => k \in made
  BY <1>1 DEF Keeps
<1>5. Keeps(tab', made)
  BY <1>2, <1>3, <1>4 DEF Keeps
<1>6. Grows(tab, tab')
  BY <1>2, PrefixOfItself DEF Grows, Keeps
<1> QED
  BY <1>1, <1>5, <1>6 DEF ChatsKept

LEMMA OtherKeeps ==
  ASSUME Keeps(tab, made),
         \/ \E k \in Conversations: Unheard(k)
         \/ \E k \in Conversations \cup Drafts: RestoreChat(k)
         \/ Reconnect \/ Effect \/ Reload \/ UNCHANGED vars
  PROVE  ChatsKept(made) /\ made' = made
<1> USE DEF ChatsKept
<1>1. DOMAIN tab = Fields
  BY DEF Keeps
<1>2. Keeps(tab, made) /\ Grows(tab, tab)
  BY QuietKeeps DEF Quiet
<1>3. CASE (\E k \in Conversations: Unheard(k)) \/ UNCHANGED vars
  BY <1>2, <1>3 DEF Unheard, vars, server
<1>4. ASSUME NEW k \in Conversations \cup Drafts, RestoreChat(k)
      PROVE  ChatsKept(made) /\ made' = made
  BY <1>4, RestoredKeeps DEF Ids
<1>5. CASE Reconnect
  <2> DEFINE t == [tab EXCEPT !.timer = Gone]
  <2>1. Quiet(tab, t)
    BY <1>1 DEF Quiet, Fields
  <2>2. \E k, job: tab' = Connect(t, k, job)
    BY <1>5 DEF Reconnect
  <2> HIDE DEF t
  <2>3. Keeps(t, made) /\ Grows(tab, t)
    BY <2>1, QuietKeeps
  <2>4. Keeps(tab', made) /\ Grows(tab, tab')
    BY <2>2, <2>3, ConnectIsQuiet, ThenQuiet
  <2> QED
    BY <1>5, <2>4 DEF Reconnect, server
<1>6. CASE Effect
  <2> DEFINE t == [tab EXCEPT !.shown = tab.session]
  <2>1. Quiet(tab, t)
    BY <1>1 DEF Quiet, Fields
  <2>2. tab' = t \/ tab' = OpenStream(t, tab.session)
    BY <1>6 DEF Effect
  <2> HIDE DEF t
  <2>3. Keeps(t, made) /\ Grows(tab, t)
    BY <2>1, QuietKeeps
  <2>4. Keeps(tab', made) /\ Grows(tab, tab')
    BY <2>2, <2>3, ConnectIsQuiet, ThenQuiet
  <2> QED
    BY <1>6, <2>4 DEF Effect, server
<1>7. CASE Reload
  <2>1. /\ DOMAIN tab' = Fields /\ tab'.session = None /\ tab'.messages = <<>>
        /\ tab'.snapshots = tab.snapshots
    BY <1>7 DEF Reload, Blank, Fields
  <2>2. <<>> \in Seq(Roles) /\ None \notin Conversations
    BY IdsAssumption
  <2>3. Keeps(tab', made)
    BY <2>1, <2>2 DEF Keeps
  <2>4. Grows(tab, tab')
    BY <1>2, <2>1 DEF Grows
  <2> QED
    BY <1>7, <2>3, <2>4 DEF Reload, server
<1> QED
  BY <1>3, <1>4, <1>5, <1>6, <1>7

(* What a snapshot holds of a chat is never lost: it is only replaced by   *)
(* one that goes on from it (chatStore.ts:397), however many operations    *)
(* wait for the server while chats are restored, started and created.      *)
THEOREM SnapshotsOnlyGrow == Spec => SnapshotsGrow
<1> DEFINE KInv == Keeps(tab, made)
<1>1. Init => KInv
  <2> SUFFICES ASSUME Init PROVE KInv
    OBVIOUS
  <2>1. /\ DOMAIN tab = Fields /\ tab.session = None /\ tab.messages = <<>>
        /\ tab.snapshots = [k \in Conversations \cup Drafts |-> <<>>]
    BY DEF Init, Blank, Fields
  <2>2. <<>> \in Seq(Roles) /\ None \notin Conversations
    BY IdsAssumption
  <2> QED
    BY <2>1, <2>2 DEF Keeps, Ids
<1>2. KInv /\ [Next]_vars => KInv' /\ Grows(tab, tab')
  <2> SUFFICES ASSUME KInv, [Next]_vars PROVE Keeps(tab', made') /\ Grows(tab, tab')
    OBVIOUS
  <2>1. ASSUME NEW n \in Streams, Aborted(n) \/ Stream(n) PROVE ChatsKept(made')
    BY <2>1, StreamKeeps
  <2>2. ASSUME NEW o \in Slots, Operation(o) PROVE ChatsKept(made')
    BY <2>2, OperationKeeps
  <2> QED
    BY <2>1, <2>2, OtherKeeps DEF Next, ChatsKept
<1>3. KInv /\ [Next]_vars =>
        [\A k \in Conversations \cup Drafts: IsPrefix(tab.snapshots[k], tab'.snapshots[k])]_vars
  BY <1>2 DEF Grows, Ids
<1> QED
  BY <1>1, <1>2, <1>3, PTL DEF Spec, SnapshotsGrow
=============================================================================
