----------------------------- MODULE JobStream -----------------------------
(***************************************************************************)
(* How the events of one planning job reach the browsers that follow it:   *)
(* the event log and status of the job as a worker leaves them, the        *)
(* push_job_status coroutine of api/chat_runtime.py with its two watching  *)
(* tasks, the SSE queues of its ConnectionManager, the stream generator of *)
(* api/v1/chat.py, and the client of hooks/useSSE.ts that reconnects with  *)
(* the last event id it received.                                          *)
(*                                                                         *)
(* All streams belong to one conversation, so that every message goes to   *)
(* the queue of every stream that is registered.  The Python code between  *)
(* two awaits is one step: a query is sent in one step (with the cursor of *)
(* that moment) and answered in another, and the loop over the answer      *)
(* cannot be interrupted, because put_nowait does not wait.                *)
(***************************************************************************)
EXTENDS Naturals, Sequences

CONSTANTS
  Streams,     \* bound: the connections that are ever opened
  Clients,     \* browser tabs
  NoClient,
  MaxEntries,  \* bound: how many stages the run reports before its last
  Budget,      \* bound: how often each kind of disturbance may happen
  MaxDisturbances  \* bound: how many may happen altogether

Disturbances == {"fault", "drop", "timeout", "chat"}

ASSUME NoClientAssumption == NoClient \notin Clients
ASSUME MaxEntriesAssumption == MaxEntries \in Nat
ASSUME BudgetAssumption == Budget \in [Disturbances -> Nat]
ASSUME MaxDisturbancesAssumption == MaxDisturbances \in Nat

\* "completed" stands for every final stage that is logged, "failed" for the
\* final status that a release writes without an entry, "working" for the rest.
Finished == {"completed", "failed"}

\* The coroutine itself, its Redis listener and its two-second poll.
Tasks == {"main", "sub", "poll"}

Done == 0  \* the done message; a stage message is its event id

VARIABLES
  (* the job, as the database shows it *)
  log,      \* the stages of its events; an event id is an index
  status,
  ended,    \* the worker has left the job
  (* the SSE generators *)
  gen,      \* unused, open (its queue is registered) or closed
  client,   \* the client that opened the stream
  from,     \* last_event_id of the request
  broken,   \* the connection is gone, the server has not noticed
  queue,
  (* the push coroutines *)
  at,       \* where each task of the stream's push is
  cursor,   \* last_event_id, shared by the tasks
  asked,    \* of a query under way: its cursor, the log's length when sent
  mail,     \* notifications not yet read by the listener
  saw,      \* history: entries there were when a task saw the job finished
  (* the clients *)
  view,     \* away, following a stream, told it is done, or left
  last,     \* lastEventIdRef
  got,      \* history: ids received
  (* bounds *)
  used

jobVars    == <<log, status, ended>>
genVars    == <<gen, client, from, broken, queue>>
pushVars   == <<at, cursor, asked, mail, saw>>
clientVars == <<view, last, got>>
vars       == <<jobVars, genVars, pushVars, clientVars, used>>

Spend(d) ==
  /\ used[d] < Budget[d]
  /\ used["fault"] + used["drop"] + used["timeout"] + used["chat"] < MaxDisturbances
  /\ used' = [used EXCEPT ![d] = @ + 1]

Larger(m, n) == IF m > n THEN m ELSE n

NoQuery == [after |-> 0, len |-> 0]

Init ==
  /\ log = << >>
  /\ status = "working"
  /\ ended = FALSE
  /\ gen = [s \in Streams |-> "unused"]
  /\ client = [s \in Streams |-> NoClient]
  /\ from = [s \in Streams |-> 0]
  /\ broken = [s \in Streams |-> FALSE]
  /\ queue = [s \in Streams |-> << >>]
  /\ at = [s \in Streams |-> [t \in Tasks |-> "off"]]
  /\ cursor = [s \in Streams |-> 0]
  /\ asked = [s \in Streams |-> [t \in Tasks |-> NoQuery]]
  /\ mail = [s \in Streams |-> 0]
  /\ saw = [s \in Streams |-> 0]
  /\ view = [c \in Clients |-> "away"]
  /\ last = [c \in Clients |-> 0]
  /\ got = [c \in Clients |-> {}]
  /\ used = [d \in Disturbances |-> 0]
-----------------------------------------------------------------------------
(* The job.  PlanningJob shows what a worker may do to the row; here only  *)
(* its entries, the statuses that end a stream and the notification count. *)

Listening(s) == at[s]["sub"] \in {"listen", "query", "deliver", "check"}

\* record_stage: entry and status in one transaction, then a notification on
\* job:status, which only those hear who have subscribed.
Record(stage) ==
  /\ log' = Append(log, stage)
  /\ status' = stage
  /\ \/ /\ mail' = [s \in Streams |-> IF Listening(s) THEN mail[s] + 1 ELSE mail[s]]
        /\ UNCHANGED used
     \/ Spend("fault") /\ UNCHANGED mail

\* A graph node may report "completed" although the run goes on.
RunStage ==
  /\ ~ended
  /\ Len(log) < MaxEntries
  /\ \E stage \in {"working", "completed"} : Record(stage)
  /\ UNCHANGED <<ended, genVars, at, cursor, asked, saw, clientVars>>

\* The run ends with a logged outcome, or is released as failed without one.
RunEnds ==
  /\ ~ended
  /\ ended' = TRUE
  /\ \/ Record("completed")
     \/ status' = "failed" /\ UNCHANGED <<log, mail, used>>
  /\ UNCHANGED <<genVars, at, cursor, asked, saw, clientVars>>
-----------------------------------------------------------------------------
(* ConnectionManager *)

\* Mutant: a closed stream's queue is still registered.
Broadcast_registered(msgs) ==
  queue' = [s \in Streams |-> IF gen[s] # "unused" THEN queue[s] \o msgs ELSE queue[s]]

\* send_json.  A queue holds 512 messages, far more than a job has stages.
Broadcast(msgs) ==
  queue' = [s \in Streams |-> IF gen[s] = "open" THEN queue[s] \o msgs ELSE queue[s]]

Ids(lo, hi) == [i \in 1 .. hi - lo |-> lo + i]
-----------------------------------------------------------------------------
(* push_job_status *)

Goto(s, t, label) == at' = [at EXCEPT ![s][t] = label]

Querying == {"query", "lastQuery"}
Answering == {"deliver", "lastDeliver"}

\* _drain sends get_events_after(job_id, last_event_id).
Query(s, t) ==
  /\ at[s][t] \in Querying
  /\ asked' = [asked EXCEPT ![s][t] = [after |-> cursor[s], len |-> Len(log)]]
  /\ Goto(s, t, IF at[s][t] = "query" THEN "deliver" ELSE "lastDeliver")
  /\ UNCHANGED <<jobVars, genVars, cursor, mail, saw, clientVars, used>>

\* Only main's first drain repeats itself until there is nothing left.
AfterDrain(t, label, found) ==
  IF label = "lastDeliver" THEN "conclude"
  ELSE IF t = "main" /\ found THEN "query"
  ELSE "check"

\* Mutant: the cursor moves to the newest entry instead of the last one sent.
Deliver_newest(s, t) ==
  /\ at[s][t] \in Answering
  /\ \E hi \in asked[s][t].len .. Len(log) :
       LET lo == asked[s][t].after IN
       /\ Broadcast(Ids(lo, hi))
       /\ cursor' = [cursor EXCEPT ![s] = Len(log)]
       /\ Goto(s, t, AfterDrain(t, at[s][t], hi > lo))
  /\ asked' = [asked EXCEPT ![s][t] = NoQuery]
  /\ UNCHANGED <<jobVars, gen, client, from, broken, mail, saw, clientVars, used>>

\* The answer is what was committed at some moment since the query was sent.
\* The cursor is set, not raised: a task whose answer is older sets it back.
Deliver(s, t) ==
  /\ at[s][t] \in Answering
  /\ \E hi \in asked[s][t].len .. Len(log) :
       LET lo == asked[s][t].after IN
       /\ Broadcast(Ids(lo, hi))
       /\ cursor' = [cursor EXCEPT ![s] = IF hi > lo THEN hi ELSE @]
       /\ Goto(s, t, AfterDrain(t, at[s][t], hi > lo))
  /\ asked' = [asked EXCEPT ![s][t] = NoQuery]
  /\ UNCHANGED <<jobVars, gen, client, from, broken, mail, saw, clientVars, used>>

\* _is_done, in the first drain: done is sent at once, with no further drain.
FirstCheck(s) ==
  /\ at[s]["main"] = "check"
  /\ \/ /\ status \in Finished
        /\ Broadcast(<<Done>>)
        /\ Goto(s, "main", "returned")
     \/ /\ status \notin Finished
        /\ at' = [at EXCEPT ![s] = [main |-> "watch", sub |-> "subscribe", poll |-> "query"]]
        /\ UNCHANGED queue
  /\ UNCHANGED <<jobVars, gen, client, from, broken, cursor, asked, mail, saw, clientVars, used>>

Subscribe(s) ==
  /\ at[s]["sub"] = "subscribe"
  /\ Goto(s, "sub", "listen")
  /\ UNCHANGED <<jobVars, genVars, cursor, asked, mail, saw, clientVars, used>>

Hear(s) ==
  /\ at[s]["sub"] = "listen"
  /\ mail[s] > 0
  /\ mail' = [mail EXCEPT ![s] = @ - 1]
  /\ Goto(s, "sub", "query")
  /\ UNCHANGED <<jobVars, genVars, cursor, asked, saw, clientVars, used>>

\* Mutant: the poll drains but never looks at the status.
Check_listener(s, t) ==
  /\ t \in {"sub", "poll"}
  /\ at[s][t] = "check"
  /\ \/ /\ t = "sub" /\ status \in Finished
        /\ Goto(s, t, "exited")
        /\ saw' = [saw EXCEPT ![s] = Larger(@, Len(log))]
     \/ /\ t = "poll" \/ status \notin Finished
        /\ Goto(s, t, IF t = "sub" THEN "listen" ELSE "query")
        /\ UNCHANGED saw
  /\ UNCHANGED <<jobVars, genVars, cursor, asked, mail, clientVars, used>>

\* _is_done, in the listener and in the poll (whose next query is 2 s away).
Check(s, t) ==
  /\ t \in {"sub", "poll"}
  /\ at[s][t] = "check"
  /\ \/ /\ status \in Finished
        /\ Goto(s, t, "exited")
        /\ saw' = [saw EXCEPT ![s] = Larger(@, Len(log))]
     \/ /\ status \notin Finished
        /\ Goto(s, t, IF t = "sub" THEN "listen" ELSE "query")
        /\ UNCHANGED saw
  /\ UNCHANGED <<jobVars, genVars, cursor, asked, mail, clientVars, used>>

\* What Redis or the database raises ends a watching task quietly, and the
\* coroutine itself with an exception nobody reads.
TaskFails(s, t) ==
  /\ at[s][t] \in {"query", "check", "lastQuery", "subscribe", "listen", "conclude"}
  /\ Spend("fault")
  /\ Goto(s, t, IF t = "main" THEN "raised" ELSE "exited")
  /\ UNCHANGED <<jobVars, genVars, cursor, asked, mail, saw, clientVars>>

\* Mutant: no drain after the watching tasks.
Wake_undrained(s) ==
  /\ at[s]["main"] = "watch"
  /\ "exited" \in {at[s]["sub"], at[s]["poll"]}
  /\ at' = [at EXCEPT ![s] = [main |-> "conclude", sub |-> "off", poll |-> "off"]]
  /\ asked' = [asked EXCEPT ![s] = [t \in Tasks |-> NoQuery]]
  /\ mail' = [mail EXCEPT ![s] = 0]
  /\ UNCHANGED <<jobVars, genVars, cursor, saw, clientVars, used>>

\* FIRST_COMPLETED: one task has ended, for whatever reason; the other is
\* cancelled wherever it is, and the log is drained once more.
Wake(s) ==
  /\ at[s]["main"] = "watch"
  /\ "exited" \in {at[s]["sub"], at[s]["poll"]}
  /\ at' = [at EXCEPT ![s] = [main |-> "lastQuery", sub |-> "off", poll |-> "off"]]
  /\ asked' = [asked EXCEPT ![s] = [t \in Tasks |-> NoQuery]]
  /\ mail' = [mail EXCEPT ![s] = 0]
  /\ UNCHANGED <<jobVars, genVars, cursor, saw, clientVars, used>>

\* load_state and save_state (module SessionState), then done.
Conclude(s) ==
  /\ at[s]["main"] = "conclude"
  /\ Broadcast(<<Done>>)
  /\ Goto(s, "main", "returned")
  /\ UNCHANGED <<jobVars, gen, client, from, broken, cursor, asked, mail, saw, clientVars, used>>

\* The final of a chat turn in the same conversation is a done message too.
ChatTurnDone ==
  /\ Spend("chat")
  /\ Broadcast(<<Done>>)
  /\ UNCHANGED <<jobVars, gen, client, from, broken, pushVars, clientVars>>
-----------------------------------------------------------------------------
(* The stream generator and its client. *)

\* The finally block: the queue is unregistered and the coroutine cancelled.
\* Cancelling asyncio.wait does not cancel what it waits for: the listener and
\* the poll of a coroutine that was watching go on.
Close(s) ==
  /\ gen' = [gen EXCEPT ![s] = "closed"]
  /\ queue' = [queue EXCEPT ![s] = << >>]
  /\ at' = [at EXCEPT ![s]["main"] = IF @ \in {"returned", "raised"} THEN @ ELSE "cancelled"]
  /\ UNCHANGED <<client, from, broken, cursor, asked, mail, saw>>

\* connect: the client names its job and the last event id it knows.  When
\* restoring the session fails, the stream consists of an error and a done.
Open(c, s) ==
  /\ view[c] = "away"
  /\ gen[s] = "unused"
  /\ client' = [client EXCEPT ![s] = c]
  /\ from' = [from EXCEPT ![s] = last[c]]
  /\ \/ /\ gen' = [gen EXCEPT ![s] = "open"]
        /\ cursor' = [cursor EXCEPT ![s] = last[c]]
        /\ Goto(s, "main", "query")
        /\ view' = [view EXCEPT ![c] = "following"]
        /\ UNCHANGED used
     \/ /\ Spend("fault")
        /\ gen' = [gen EXCEPT ![s] = "closed"]
        /\ view' = [view EXCEPT ![c] = "told"]
        /\ UNCHANGED <<cursor, at>>
  /\ UNCHANGED <<jobVars, broken, queue, asked, mail, saw, last, got>>

\* handleChatEvent: a final stage makes the client forget where it was.
Receive(c, id) ==
  /\ got' = [got EXCEPT ![c] = @ \cup {id}]
  /\ last' = [last EXCEPT ![c] = IF log[id] = "completed" THEN 0 ELSE Larger(@, id)]

\* The generator yields the next message; on a broken connection it is lost.
Yield(s) ==
  /\ gen[s] = "open"
  /\ queue[s] # << >>
  /\ \/ /\ Head(queue[s]) = Done
        /\ Close(s)
        /\ view' = IF broken[s] THEN view ELSE [view EXCEPT ![client[s]] = "told"]
        /\ UNCHANGED <<last, got>>
     \/ /\ Head(queue[s]) # Done
        /\ queue' = [queue EXCEPT ![s] = Tail(@)]
        /\ \/ ~broken[s] /\ Receive(client[s], Head(queue[s]))
           \/ broken[s] /\ UNCHANGED <<last, got>>
        /\ UNCHANGED <<gen, client, from, broken, pushVars, view>>
  /\ UNCHANGED <<jobVars, used>>

\* The network fails under the client, which will reconnect.
Drop(s) ==
  /\ gen[s] = "open"
  /\ ~broken[s]
  /\ Spend("drop")
  /\ broken' = [broken EXCEPT ![s] = TRUE]
  /\ view' = [view EXCEPT ![client[s]] = "away"]
  /\ UNCHANGED <<jobVars, gen, client, from, queue, pushVars, last, got>>

Notice(s) ==
  /\ gen[s] = "open"
  /\ broken[s]
  /\ Close(s)
  /\ UNCHANGED <<jobVars, clientVars, used>>

\* The stream's own deadline: a clean end, after which no client reconnects.
Timeout(s) ==
  /\ gen[s] = "open"
  /\ Spend("timeout")
  /\ Close(s)
  /\ view' = IF broken[s] THEN view ELSE [view EXCEPT ![client[s]] = "left"]
  /\ UNCHANGED <<jobVars, last, got>>
-----------------------------------------------------------------------------
Push(s) ==
  \/ \E t \in Tasks : Query(s, t) \/ Deliver(s, t) \/ Check(s, t)
  \/ FirstCheck(s) \/ Subscribe(s) \/ Hear(s) \/ Wake(s) \/ Conclude(s)

Stream(s) ==
  \/ Push(s) \/ \E t \in Tasks : TaskFails(s, t)
  \/ \E c \in Clients : Open(c, s)
  \/ Yield(s) \/ Drop(s) \/ Notice(s) \/ Timeout(s)

Next ==
  \/ RunStage \/ RunEnds \/ ChatTurnDone
  \/ \E s \in Streams : Stream(s)

Spec == Init /\ [][Next]_vars

\* Each task of each coroutine, and each generator, is scheduled.  Nothing is
\* owed by the worker, the clients, the network and the infrastructure.
Fairness ==
  \A s \in Streams :
    /\ \A t \in Tasks : WF_vars(Query(s, t) \/ Deliver(s, t) \/ Check(s, t))
    /\ WF_vars(FirstCheck(s) \/ Wake(s) \/ Conclude(s))
    /\ WF_vars(Subscribe(s) \/ Hear(s))
    /\ WF_vars(Yield(s)) /\ WF_vars(Notice(s))

FairSpec == Spec /\ Fairness
-----------------------------------------------------------------------------
(* Properties *)

MainLabels == {"off", "query", "deliver", "check", "watch", "lastQuery", "lastDeliver",
               "conclude", "returned", "raised", "cancelled"}
SubLabels  == {"off", "subscribe", "listen", "query", "deliver", "check", "exited"}
PollLabels == {"off", "query", "deliver", "check", "exited"}

JobType ==
  /\ log \in Seq({"working", "completed"})
  /\ status \in {"working", "completed", "failed"}
  /\ ended \in BOOLEAN

GenType ==
  /\ gen \in [Streams -> {"unused", "open", "closed"}]
  /\ client \in [Streams -> Clients \cup {NoClient}]
  /\ from \in [Streams -> Nat]
  /\ broken \in [Streams -> BOOLEAN]
  /\ queue \in [Streams -> Seq(0 .. Len(log))]
  /\ \A s \in Streams :
       /\ gen[s] # "open" => queue[s] = << >>
       /\ gen[s] = "open" => client[s] \in Clients

PushType ==
  /\ at \in [Streams -> [Tasks -> MainLabels \cup SubLabels \cup PollLabels]]
  /\ \A s \in Streams : at[s]["sub"] \in SubLabels /\ at[s]["poll"] \in PollLabels
  /\ cursor \in [Streams -> 0 .. Len(log)]
  /\ asked \in [Streams -> [Tasks -> [after : 0 .. Len(log), len : 0 .. Len(log)]]]
  /\ mail \in [Streams -> Nat]
  /\ saw \in [Streams -> 0 .. Len(log)]

ClientType ==
  /\ view \in [Clients -> {"away", "following", "told", "left"}]
  /\ last \in [Clients -> 0 .. Len(log)]
  /\ got \in [Clients -> SUBSET (1 .. Len(log))]

\* A closed stream keeps no messages, and no cursor, answer or client knows an
\* event id beyond the log.
TypeOK ==
  JobType /\ GenType /\ PushType /\ ClientType /\ used \in [Disturbances -> Nat]

QueuedOrGot(s) == got[client[s]] \cup {queue[s][i] : i \in DOMAIN queue[s]}

\* The shared cursor never runs ahead of what was sent, however the drains of
\* the coroutine, the listener and the poll interleave: every entry from the
\* client's last event id up to it is in the stream's queue or at the client.
CursorMeansSent ==
  \A s \in Streams :
    gen[s] = "open" /\ ~broken[s] => (from[s] + 1) .. cursor[s] \subseteq QueuedOrGot(s)

\* A coroutine that watched the job sends done only after every entry that
\* there was when the listener or the poll found the job finished.
DoneAfterLastEntry ==
  \A s \in Streams :
    /\ gen[s] = "open" /\ ~broken[s]
    /\ at[s]["main"] \in {"conclude", "returned"}
    => (from[s] + 1) .. saw[s] \subseteq QueuedOrGot(s)

\* As long as neither Redis nor the database fails, a stream of a job that has
\* ended is told so and closes: no notification is needed for it.
StreamsEnd ==
  \A s \in Streams :
    ended /\ gen[s] = "open" ~> gen[s] = "closed" \/ used["fault"] > 0
=============================================================================
