----------------------------- MODULE ChatClient -----------------------------
(***************************************************************************)
(* One tab of the web client: the chat store (stores/chatStore.ts), its    *)
(* event stream (hooks/useSSE.ts, lib/chatEvents.ts), and the operations   *)
(* of hooks/useChat.ts, which await the server and meanwhile leave the     *)
(* user free to send, to start a new chat or to restore an old one.        *)
(*                                                                         *)
(* A message is the role of who says it.  In which order a job sends its   *)
(* events is JobStream's; here they come in any order.                     *)
(***************************************************************************)
EXTENDS Naturals, Sequences, SequencesExt, FiniteSets, FiniteSetsExt

CONSTANTS
  Conversations,  \* ids that the server hands out
  Drafts,         \* ids that the store invents for chats without one
  None,
  Streams,        \* the connections there can be: a new one and the one it aborts
  Slots,          \* bound: operations that wait for the server at a time
  MaxMessages,    \* bound: messages on the screen
  MaxActs,        \* bound: what the user does
  Budget,         \* bound: how often each kind of disturbance may happen
  MaxDisturbances \* bound: how many may happen altogether

Disturbances == {"network", "auth", "end", "reload"}

ASSUME StreamsAssumption == Streams \subseteq Nat \ {0} /\ \E m, n \in Streams: m # n
ASSUME IdsAssumption == None \notin Conversations \cup Drafts /\ Conversations \cap Drafts = {}
ASSUME BudgetAssumption == Budget \in [Disturbances -> Nat] /\ MaxDisturbances \in Nat

VARIABLES
  tab,     \* the store and the refs of the hooks
  ops,     \* the operations that wait
  authed,  \* authRef is set
  made,    \* the conversations created
  asked,   \* those whose message the server has yet to answer
  running, \* those whose planning job runs
  acts,    \* how often the user has done something
  used

server == <<made, asked, running>>
vars == <<tab, ops, authed, server, acts, used>>

Spend(d) ==
  /\ used[d] < Budget[d]
  /\ MapThenSumSet(LAMBDA e: used[e], Disturbances) < MaxDisturbances
  /\ used' = [used EXCEPT ![d] = @ + 1]

Gone == [at |-> "none", conv |-> None, job |-> None, jobs |-> {}]
Idle == [kind |-> "none", at |-> "idle", conv |-> None]

(* shown is prevSessionIdRef, active is activeJobIdRef, current abortRef,  *)
(* and streaming says whether streamingContent holds any text.             *)
Blank ==
  [session |-> None, shown |-> None, messages |-> <<>>, loading |-> FALSE, connected |-> FALSE,
   streaming |-> FALSE, job |-> None, active |-> None, timer |-> Gone, current |-> 0,
   streams |-> [n \in Streams |-> Gone],
   snapshots |-> [k \in Conversations \cup Drafts |-> <<>>]]

Boot == [kind |-> "boot", at |-> "auth", conv |-> None]
Started == [o \in Slots |-> IF o = CHOOSE s \in Slots: TRUE THEN Boot ELSE Idle]

Init ==
  /\ tab = Blank
  /\ ops = Started
  /\ authed = FALSE
  /\ made = {} /\ asked = {} /\ running = {}
  /\ acts = 0
  /\ used = [d \in Disturbances |-> 0]

\* Bound: there is room for what a step may show or save.
Room ==
  /\ Len(tab.messages) < MaxMessages
  /\ tab.session = None => \E d \in Drafts: tab.snapshots[d] = <<>>

\* An abort is noticed before any other event of the tab.
Settled == \A n \in Streams: tab.streams[n].at # "aborted"

IsAt(n, a) == Settled /\ Room /\ tab.streams[n].at = a
Awaits(o, a) == Settled /\ Room /\ ops[o].at = a

-----------------------------------------------------------------------------
(* The store. *)

Say(t, role) == [t EXCEPT !.messages = Append(@, role)]

\* A chat without an id is saved under a new one.
SnapshotId(t) ==
  IF t.session # None THEN t.session ELSE CHOOSE d \in Drafts: t.snapshots[d] = <<>>

SaveChatSnapshot(t) ==
  IF t.messages = <<>> THEN t ELSE [t EXCEPT !.snapshots[SnapshotId(t)] = t.messages]

\* Mutant: the cleared chat keeps its id.
Clear_keepsSession(t) ==
  [SaveChatSnapshot(t) EXCEPT !.messages = <<>>, !.loading = FALSE, !.job = None, !.streaming = FALSE]

Clear(t) ==
  [SaveChatSnapshot(t) EXCEPT !.session = None, !.messages = <<>>, !.loading = FALSE,
                              !.job = None, !.streaming = FALSE]

\* The text streamed so far becomes a message.
Flush(t) == IF t.streaming THEN [Say(t, "assistant") EXCEPT !.streaming = FALSE] ELSE t

-----------------------------------------------------------------------------
(* The stream. *)

Live(t, n) == t.streams[n].at \in {"fetching", "open"}

Disconnect(t) ==
  [t EXCEPT !.timer = Gone, !.current = 0, !.connected = FALSE,
            !.streams = IF t.current = 0 THEN @ ELSE [@ EXCEPT ![t.current].at = "aborted"]]

Connect(t, k, job) ==
  LET n == CHOOSE m \in Streams: t.streams[m] = Gone
  IN  [Disconnect(t) EXCEPT
         !.current = n, !.connected = TRUE,
         !.streams[n] = [at |-> "fetching", conv |-> k, job |-> job, jobs |-> {job} \ {None}]]

\* The job is whichever the tab knows of, also one of another conversation.
OpenStream(t, k) ==
  Connect(t, k, IF t.active # None THEN t.active ELSE IF t.loading THEN t.job ELSE None)

\* Mutant: a stream that ends does not reset the store.
Finally_silent(t, n) ==
  [t EXCEPT !.streams[n] = Gone, !.current = IF @ = n THEN 0 ELSE @]

\* finally: whichever stream is the current one, the store is disconnected.
Finally(t, n) ==
  [t EXCEPT !.streams[n] = Gone, !.current = IF @ = n THEN 0 ELSE @, !.connected = FALSE]

Aborted(n) ==
  /\ tab.streams[n].at = "aborted"
  /\ tab' = Finally(tab, n)
  /\ UNCHANGED <<ops, authed, server, used, acts>>

\* Without a job the server sends that of the conversation, if one runs.
Opened(n) ==
  /\ IsAt(n, "fetching") /\ tab.streams[n].conv \in made
  /\ tab' = [tab EXCEPT !.streams[n].at = "open",
                        !.streams[n].jobs = IF @ = {} THEN {tab.streams[n].conv} \cap running ELSE @]
  /\ UNCHANGED <<ops, authed, server, used, acts>>

\* The token is refused: no more attempts.
Refused(n) ==
  /\ IsAt(n, "fetching")
  /\ Spend("auth")
  /\ tab' = [Finally(tab, n) EXCEPT !.loading = FALSE]
  /\ UNCHANGED <<ops, authed, server, acts>>

\* The fetch or the stream fails, or the server does not know the chat:
\* again after a pause.
Fails(n) ==
  /\ Settled /\ Live(tab, n)
  /\ \/ tab.streams[n].at = "fetching" /\ tab.streams[n].conv \notin made /\ UNCHANGED used
     \/ Spend("network")
  /\ tab' = [Finally(tab, n) EXCEPT !.loading = FALSE,
                                     !.timer = [tab.streams[n] EXCEPT !.at = "none", !.jobs = {}]]
  /\ UNCHANGED <<ops, authed, server, acts>>

\* The server ends the stream without a done: nothing is retried.
Ends(n) ==
  /\ IsAt(n, "open")
  /\ Spend("end")
  /\ tab' = Finally(tab, n)
  /\ UNCHANGED <<ops, authed, server, acts>>

Reconnect ==
  /\ Settled /\ tab.timer # Gone
  /\ tab' = Connect([tab EXCEPT !.timer = Gone], tab.timer.conv,
                     IF tab.active # None THEN tab.active ELSE tab.timer.job)
  /\ UNCHANGED <<ops, authed, server, used, acts>>

-----------------------------------------------------------------------------
(* handleChatEvent: what arrives is shown in the chat that is on screen.   *)

JobCreated(n) ==
  LET k == tab.streams[n].conv IN
  /\ IsAt(n, "open") /\ k \in asked \ running
  /\ tab' = [tab EXCEPT !.job = k, !.active = k, !.loading = TRUE, !.streams[n].jobs = @ \cup {k}]
  /\ asked' = asked \ {k} /\ running' = running \cup {k}
  /\ UNCHANGED <<ops, authed, made, used, acts>>

IntentReady(n) ==
  /\ IsAt(n, "open") /\ tab.streams[n].conv \in asked
  /\ tab' = [Say(tab, "assistant") EXCEPT !.loading = TRUE]
  /\ UNCHANGED <<ops, authed, server, used, acts>>

\* A question, an error, or the answer, with which the chat is saved.
Answered(n) ==
  LET k == tab.streams[n].conv IN
  /\ IsAt(n, "open") /\ k \in asked
  /\ LET said == [Say(tab, "assistant") EXCEPT !.loading = FALSE]
     IN  \/ tab' = said
         \/ tab' = [said EXCEPT !.streaming = FALSE]
         \/ tab' = SaveChatSnapshot(said)
  /\ asked' = asked \ {k}
  /\ UNCHANGED <<ops, authed, made, running, used, acts>>

Stage(n, j) ==
  /\ IsAt(n, "open") /\ j \in tab.streams[n].jobs \cap running
  /\ tab' = [tab EXCEPT !.loading = TRUE]
  /\ UNCHANGED <<ops, authed, server, used, acts>>

Token(n, j) ==
  /\ IsAt(n, "open") /\ j \in tab.streams[n].jobs \cap running
  /\ tab' = [tab EXCEPT !.streaming = TRUE]
  /\ UNCHANGED <<ops, authed, server, used, acts>>

\* The text of a completed job replaces what was streamed of it, and the
\* chat is saved; one that failed or was cancelled keeps what was streamed.
JobEnds(n, j) ==
  /\ IsAt(n, "open") /\ j \in tab.streams[n].jobs
  /\ LET said == [Say(tab, "assistant") EXCEPT !.active = None, !.loading = FALSE, !.streaming = FALSE,
                                                !.streams[n].jobs = @ \ {j}]
     IN  tab' \in {said, SaveChatSnapshot(said)}
  /\ running' = running \ {j}
  /\ UNCHANGED <<ops, authed, made, asked, used, acts>>

Done(n) ==
  /\ IsAt(n, "open")
  /\ tab' = Finally(Disconnect(Flush(tab)), n)
  /\ UNCHANGED <<ops, authed, server, used, acts>>

\* What the server sends while nobody listens is lost.
Unheard(k) ==
  /\ k \in asked \cup running
  /\ \A n \in Streams: tab.streams[n].at = "open" => tab.streams[n].conv # k
  /\ asked' = asked \ {k} /\ running' = running \ {k}
  /\ UNCHANGED <<tab, ops, authed, made, used, acts>>

-----------------------------------------------------------------------------
(* The operations of useChat.  Each reads the session anew after it has    *)
(* been given a token, and not again after that.                           *)

SetOp(o, op) == ops' = [ops EXCEPT ![o] = op]
Finish(o) == SetOp(o, Idle)

\* What an operation does once it is authorised: t is the tab it finds.
Proceed(o, kind, t) ==
  IF kind = "new"
  THEN /\ tab' = [Clear(t) EXCEPT !.active = None]
       /\ SetOp(o, [kind |-> kind, at |-> "create", conv |-> None])
  ELSE IF t.session = None
  THEN tab' = t /\ SetOp(o, [kind |-> kind, at |-> "create", conv |-> None])
  ELSE IF kind = "boot"
  THEN tab' = OpenStream(t, t.session) /\ Finish(o)
  ELSE tab' = t /\ SetOp(o, [kind |-> kind, at |-> "post", conv |-> t.session])

Act ==
  /\ Settled
  /\ acts < MaxActs
  /\ acts' = acts + 1

Begin(o, kind, t) ==
  /\ Room /\ ops[o] = Idle
  /\ Act
  /\ IF authed THEN Proceed(o, kind, t)
     ELSE tab' = t /\ SetOp(o, [kind |-> kind, at |-> "auth", conv |-> None])
  /\ UNCHANGED <<authed, server, used>>

Authorised(o) ==
  /\ Awaits(o, "auth")
  /\ authed' = TRUE
  /\ Proceed(o, ops[o].kind, tab)
  /\ UNCHANGED <<server, used, acts>>

\* createConversation: its id becomes the session's, whatever that is now.
Created(o) ==
  /\ Awaits(o, "create")
  /\ \E k \in Conversations \ made:
       LET t == [tab EXCEPT !.session = k] IN
       /\ made' = made \cup {k}
       /\ IF ops[o].kind = "send"
          THEN tab' = t /\ SetOp(o, [ops[o] EXCEPT !.at = "post", !.conv = k])
          ELSE tab' = OpenStream(t, k) /\ Finish(o)
  /\ UNCHANGED <<authed, asked, running, used, acts>>

\* postChatMessage, and then the stream of the chat that it was sent to.
Posted(o) ==
  /\ Awaits(o, "post") /\ ops[o].conv \in made
  /\ asked' = asked \cup {ops[o].conv}
  /\ tab' = IF tab.connected THEN tab ELSE OpenStream(tab, ops[o].conv)
  /\ Finish(o)
  /\ UNCHANGED <<authed, made, running, used, acts>>

\* A message that could not be sent is apologised for, but not where the
\* itinerary is confirmed or changed.
OpFails(o) ==
  /\ Settled /\ Room /\ ops[o] # Idle
  /\ \/ ops[o].at = "post" /\ ops[o].conv \notin made /\ UNCHANGED used
     \/ Spend("network")
  /\ \/ ops[o].kind = "send" /\ tab' = [Say(tab, "assistant") EXCEPT !.loading = FALSE]
     \/ UNCHANGED tab
  /\ Finish(o)
  /\ UNCHANGED <<authed, server, acts>>

-----------------------------------------------------------------------------
(* The user. *)

\* What is typed stops the answer that is shown, confirming or changing
\* the itinerary does not.
Send(o) ==
  /\ ~tab.loading
  /\ \E still \in {FALSE, tab.streaming}:
       Begin(o, "send", [Say(tab, "user") EXCEPT !.streaming = still, !.loading = TRUE])

NewChat(o) == Begin(o, "new", Clear(tab))

\* restoreChat: the chat that is left is not saved.
RestoreChat(k) ==
  /\ Act
  /\ tab.snapshots[k] # <<>>
  /\ tab' = [tab EXCEPT !.session = k, !.messages = tab.snapshots[k], !.loading = FALSE]
  /\ UNCHANGED <<ops, authed, server, used>>

\* The effect of a new session: a stream for it, when one follows another.
Effect ==
  /\ Settled /\ tab.shown # tab.session
  /\ LET t == [tab EXCEPT !.shown = tab.session]
     IN  tab' = IF None \in {tab.shown, tab.session} THEN t ELSE OpenStream(t, tab.session)
  /\ UNCHANGED <<ops, authed, server, used, acts>>

\* Only the snapshots survive a reload of the page.
Reload ==
  /\ Settled
  /\ Spend("reload")
  /\ tab' = [Blank EXCEPT !.snapshots = tab.snapshots]
  /\ ops' = Started
  /\ authed' = FALSE
  /\ UNCHANGED <<server, acts>>

-----------------------------------------------------------------------------
Stream(n) ==
  \/ Opened(n) \/ Refused(n) \/ Fails(n) \/ Ends(n)
  \/ JobCreated(n) \/ IntentReady(n) \/ Answered(n) \/ Done(n)
  \/ \E j \in Conversations: Stage(n, j) \/ Token(n, j) \/ JobEnds(n, j)

Operation(o) == Authorised(o) \/ Created(o) \/ Posted(o) \/ OpFails(o) \/ Send(o) \/ NewChat(o)

Next ==
  \/ \E n \in Streams: Aborted(n) \/ Stream(n)
  \/ \E o \in Slots: Operation(o)
  \/ \E k \in Conversations: Unheard(k)
  \/ \E k \in Conversations \cup Drafts: RestoreChat(k)
  \/ Reconnect \/ Effect \/ Reload

Spec == Init /\ [][Next]_vars

-----------------------------------------------------------------------------
(* What a snapshot holds of a chat is never lost: it is only replaced by   *)
(* one that goes on from it, however restoring, starting and creating      *)
(* chats overlap (saveChatSnapshot, chatStore.ts:397).                     *)
SnapshotsGrow ==
  [][\A k \in Conversations \cup Drafts: IsPrefix(tab.snapshots[k], tab'.snapshots[k])]_vars

(* The tab has one connection, and believes itself connected only while it *)
(* is not broken: sendMessage opens no stream when isConnected says so,    *)
(* and the answer would never be seen (useChat.ts:82).                     *)
ConnectedMeansLive ==
  /\ \A n \in Streams: Live(tab, n) => n = tab.current
  /\ tab.connected => tab.current # 0 /\ Live(tab, tab.current)
=============================================================================
