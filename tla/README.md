# A TLA+ verification project for travelagent3

travelagent3 plans trips: a browser talks to a FastAPI backend through a Go
gateway, the backend turns a conversation into a *planning job*, a worker runs a
LangGraph over it, and the browser follows the job on a server-sent event stream.
PostgreSQL holds the jobs and their event log, Redis holds session state, locks,
caches, counters and notifications. This directory holds TLA+ models of the parts
of that system where order, failure and concurrency matter, and of the decisions
inside a turn where data is carried from place to place; the TLC runs that check
them; and TLAPS proofs of the results that should hold for any number of workers,
jobs, streams, masters, requests, retries and faults.

File and line references are to the repository's sources (paths below
`src/backend/src` unless they start with `gateway/` or `frontend/`);
`PROJECT.json` maps every definition that models code to its lines.

## 1. Inventory

| Component | State it keeps | Operations | Interacts through | Model |
|---|---|---|---|---|
| Planning job rows (`repositories/planning_job.py`, `models/planning_job.py`) | status, `locked_by`, `lock_expires_at`, `attempt_count`, event log | acquire (oldest, by id), heartbeat, release, update_stage + add_event, mark_retrying, request_cancel, force_cancel, update_status | SQL from workers, tasks, handlers, streams | `PlanningJob`, `FencedLease` |
| Planning worker (`worker/planning_worker.py`) | one execution: job, graph, heartbeat task, cancel watcher | run loop, execute_job_by_id, record_stage | lease in the row, `job:status`, `job:cancel` channels | `PlanningJob` |
| Celery tasks (`worker/planning_tasks.py`, `worker/dlq_tasks.py`) | broker messages, `task_retry:` counter | execute_planning_job, enforce_cancel_deadline, retry_dead_letter | broker, Redis, rows | `PlanningJob` |
| Job API (`api/v1/planning_jobs.py`, `services/planning_job_service.py`, `api/websocket.py`) | none | create, cancel, patch status | rows, broker, Redis | `PlanningJob` |
| Job status stream (`api/chat_runtime.py`, `api/v1/chat.py`; `frontend/` `useSSE`, `chatEvents`) | queues per stream, a cursor per push, last event id per client | register, drain, listen, poll, yield, close, reconnect | event log, status, `job:status` | `JobStream` |
| Session state (`core/memory.py`, `api/chat_runtime.py`) | hot and warm copies in Redis, cold rows and a pointer in PostgreSQL, the copy in the job row | load, save under the lock, archive, compact, restore | session lock, chat turns, pushes, archive task | `SessionState`, `SessionLease` |
| Session lock (`core/redlock.py`) | one key per Redis master | acquire, extend, release | masters may fail, keys expire | `SessionLock`, `SessionLease` |
| Gateway limits and breaker (`gateway/internal/limit`, `middleware`, `breaker`, `proxy`) | sorted set per key, stream counter, outcomes in a window | Allow, AcquireSSE, ReleaseSSE, RecordSuccess, RecordFailure | Redis, concurrent requests, upstream | `Gateway` |
| Conversation turn (`core/conversation_turn.py`, `agents/demand_parser.py`, `agents/profile_recall.py`) | profile, slots, phase, draft | parse, resolve, infer, ask | long-term memory, language model, graph | `Conversation` over `LanguageModel` |
| Planning graph (`graph/`) | channels of the checkpoint, loop counters | nodes, routers, error handler, checkpoint between turns | tools, checks, chat runtime | `GraphTurn` over `Conversation`, `LanguageModel`, `Tools`, `Checks` |
| Tools and their executor (`tools/`, `skills/`, `core/circuit_breaker.py`) | cached answers, cache locks, a breaker per process | run with cache, lock, attempts, pauses | Redis, external APIs | `ToolCalls` over `Skills` |
| Planner (`planner/`, `vrp_solver_service/`, `data/retrieval_*`, `agents/rag_retrieval.py`, `skills/route_optimizer.py`) | one request | retrieve, supplement, preprocess, solve, write | solver service, language model | `TripPlanner` over `VrpSolver`, `Retrieval`, `PlaceSearch`, `Proposal` |
| Frontend chat client (`frontend/` stores, hooks, panels) | the chat store, one stream, refs | send, confirm, new, restore, connect, abort, reload | HTTP and SSE | `ChatClient` |
| Quotas, rate limits of the backend, cost breaker | Redis counters | check and record | Redis | not modelled (section 7) |
| Authentication, dead-letter list, bookings, perception, monitoring, deployment, training | - | - | - | not modelled (section 7) |

What is hard in this system, and what would be wrong if it went wrong:

* a **lease** instead of a lock: a slow worker does not know it has been replaced,
  so everything it writes afterwards must be fenced by the owner in the WHERE clause;
* **many writers of one status column**: stages, releases, cancels, deadlines, retries
  and patches all overwrite it, mostly without looking at what it was;
* **two transactions for one fact**: the log entry and the status, the status and the
  Redis notification, the row and the recovery pointer, a check and its update;
* **a cursor shared by three coroutines** and queues shared by all streams of a
  conversation, with reconnecting clients;
* **a session in three tiers** that is read without the lock, written under it and
  archived by a third party;
* **late answers**: to a breaker that has changed its state, to a cache that has a
  fresher entry, to a tab that shows another chat;
* **state left over from the last turn**: a checkpoint, a draft, a stage that the next
  turn finds;
* **sums kept beside the data** they are the sum of, and texts put together from
  answers that leave things out.

The list in `PROJECT.json` under `hazards` puts each of these at its line.

## 2. Jobs and streams

### PlanningJob (FencedLease, MCPlanningJob, PlanningJobProofs)

One step is one database transaction, one Redis call, or the Python code between
two awaits.

| Variables | Code |
|---|---|
| `status`, `lockedBy`, `leaseExpired`, `attemptCount`, `events` | the row and its events; `leaseExpired` is `lock_expires_at < NOW()` |
| `pc`, `job`, `term`, `hb`, `watch` | an execution slot: where `_execute_job` is, its job, the attempt it claimed, its heartbeat and cancel watcher tasks |
| `messages`, `retryCount` | Celery messages and the `task_retry:` counter |
| `cancelRead`, `toSignal`, `deadlines` | a cancel handler between its SELECT and its UPDATE, between its COMMIT and its publish, and the enforcement tasks that wait |
| `used` | how much of each bound is spent |

`Acquire`, `Release`, `UpdateStage`, `SetStatus`, `MarkRetrying` are the SQL
statements with their WHERE clauses; the slot actions (`Claim`, `Poll`, `Start`,
`StageEvent`, ..., `Finish`, `ReleaseFailed`, `HandleError`) walk through
`_execute_job`, its finally block and the Celery task around it, with every call
that may raise offering a failing alternative that costs one unit of the `fault`
budget. `record_stage` commits before it notifies, so its failure comes in two
kinds: nothing written, or written and reported as failed. All intermediate stages
are one value, `working`. Cancel messages in Redis are not a variable: a publish
reaches exactly the watchers that have subscribed.

`FencedLease` is the abstract specification: a holder, an expiry flag, a term
that each grant raises, and a log to which entries are appended with the current
term. `PlanningJob!RefinesLease` maps `lockedBy`, `leaseExpired`, `attemptCount`
and `events` to it.

`PatchAssumption` limits `PATCH /planning-jobs/{id}/status` to statuses that neither
make a job claimable nor claim an outcome. The endpoint accepts any string; patching a
running job to `pending` would grant a lease twice, which is what the endpoint is
asked for and not a property of the lease.

### JobStream (MCJobStream, JobStreamProofs)

One job, one conversation, several streams and clients.

| Variables | Code |
|---|---|
| `log`, `status`, `ended` | what a stream can see of the job; `PlanningJob` shows how it comes about |
| `gen`, `client`, `from`, `broken`, `queue` | a stream generator (`event_generator`), its request's `last_event_id`, a connection that is gone but not yet noticed, its queue |
| `at`, `cursor`, `asked`, `mail`, `saw` | the three tasks of `push_job_status` (`main`, `sub`, `poll`), the shared `last_event_id`, a query under way, unread notifications, and (history) how long the log was when a task saw the job finished |
| `view`, `last`, `got` | the client: what it shows, `lastEventIdRef`, and (history) the ids it received |

A drain is two steps, `Query` and `Deliver`: the cursor is read when the query is
sent, and the answer is the log as it was at some moment since. The loop over the
answer is one step because on SSE `send_json` only calls `put_nowait`, which does
not yield. This is where the three tasks interleave: an older answer may set the
cursor back. `Wake` is `asyncio.wait(FIRST_COMPLETED)`, the cancellation of the
other task wherever it stands, and the transition to the last drain; `Close`
cancels the coroutine, but a coroutine cancelled in `asyncio.wait` leaves its two
tasks running, and so does the model.

## 3. The session

### SessionLease and SessionLock (MCSessionLock, SessionProofs)

`SessionLease` says what `acquire_lock` promises the body of its `async with`: a
client enters while nobody else is inside, or while the lease of one of the two has
run out. `SessionLock` is how `Redlock` keeps that promise with a key on each of `N`
masters: `SetKey` one master after the other (SET NX), `Enter` on a majority, `Retry`
or `GiveUp` otherwise, `DeleteKey` by token, each command with a failing alternative;
`ExpireOwned` when a key reaches its time to live under a running owner (which covers
an extension that comes late or fails), `ExpireOrphan` when nobody extends it.

| Variables | Code |
|---|---|
| `key` | the lock key on each master: whose token it holds |
| `pc`, `node`, `acks` | where an attempt is, the master it asks next, those that said yes |
| `lost` | history: where a key of the current attempt has expired |

`LeaseHolds` is the refinement: the holders of `SessionLock`, those that lost a key
counted as broken, are a `SessionLease`. `SessionState` then EXTENDS `SessionLease`
instead of the masters. The two models have no name in common (`LockSpec`, `Savers` of the
lock, `Spec`, `Clients` of the session), so that one module can prove about both.

### SessionState (MCSessionState, SessionProofs)

| Variables | Code |
|---|---|
| `hot`, `warm`, `rows`, `pointer`, `feedback` | `hot_get/set`, `warm_get/set`, Conversation rows, `archive pointer`, the job's `user_feedback` |
| `held`, `broken` | the lease |
| `at`, `mine`, `mid` | a turn or the end of a job stream: where it is, the copy it works on, whether it is in the save of `intent_ready` |
| `arch`, `restore` | the archive task and `restore_session_state` |
| `guest` | the role of the conversation's user |
| `acked`, `calm` | history: turns that were saved; nothing failed or overlapped so far |

A copy is the set of turns it holds, whether it carries a profile, and whose it says it
is: with `user_id` and `user_role`, with `user_id` only, or neither. Loading is three
reads with two write-backs outside the lock; the cold read takes the row the pointer
names, or else the one whose id is the session's (`Own`, which `POST /conversations`
inserted). Before its graph starts a turn looks for a copy once more and writes a fresh
one where there is none (`GraphCreates`), and when the graph ends its session manager
writes to the same keys without the lock (`GraphSaves`). Saving is hot, warm, the second
save of `save_gathering_state` and the job's copy under the lock; archiving is six
statements, and each archive task learns in its own way whose session it has
(`ArchivedAs`). Every await can raise, a process can die, a lease can break. The warm copy
lives for a day, so its expiry (`WarmExpires`) does not fall between the write and the
read of an activity that takes seconds; the hot copy may go at any moment.

## 4. The gateway

`Gateway` (MCGateway, GatewayProofs) follows each request through the middleware:
address limit, authentication, identity limit, stream counter, breaker, upstream,
release.

| Variables | Code |
|---|---|
| `hits` | the sorted set of each key: the time of each member |
| `sse`, `sseTtl` | `gw:sse:<user>` and whether it has an expiry |
| `state`, `failures`, `successes`, `openUntil` | the breaker, its calls per tick |
| `at`, `path`, `role` | where a request is, what it asks for and as whom |
| `admitted`, `drift`, `fell` | history: admissions per key, whether Redis has lost a command of the stream count or its expiry, failures per tick |

The Lua script of the sliding window is one step; INCR, EXPIRE's effect, the undoing
DECR and the deferred release are separate. An answer may come after the breaker has
opened, half-opened and closed again. All streams are those of one user, whose count
is kept; others are kept the same way.

## 5. A turn of a conversation

`LanguageModel`, `Conversation`, `Checks` and `Tools` are operators; `GraphTurn`
(MCGraphTurn, GraphTurnProofs) is the machine.

* `LanguageModel`: what a call of the client comes to, from what becomes of its attempts
  (busy, raising, hanging, or an answer that is or is not the JSON asked for).
* `Conversation`: what a message says about each slot, how it is merged with what the
  conversation knows, the user's own memory and that of similar users, what is missing
  and how a message is classified.
* `Checks`: the fact check against the database, the hallucination check against tool
  results, the guards on content, the score and the decisions of the output agent.
* `Tools`: which tools the graph asks about a draft and what their handlers answer, as
  far as the hallucination check reads it.

| Variables of `GraphTurn` | Code |
|---|---|
| `conv` | the conversation state of `chat_runtime`: profile, draft, phase |
| `ch` | the channels of the checkpoint: profile, draft, stage, action |
| `at`, `steps` | the node that runs next and the engine's count (LangGraph, external) |
| `out` | the patch of the output node |
| `stored` | the number of trips that ended in the database row of a registered user |
| `user`, `turns` | whether the user's messages come with the id of a registered user, with `anonymous`, or with none; turns begun |
| `told`, `log` | history: the slots the user has said in this conversation; what this turn did |

One action per node: it computes its patch, merges it into the channels the way the
reducers do, and moves where the router says. A node that raises goes to the error
handler; loop counters that routers change in the state they were given do not survive
the step, as in the code, and the model shows it is the recursion limit that ends such
a loop. The message of `intent_ready` is such a leftover too: it is put into a channel by
the first plan and never taken out, so the event comes again in later turns (`Ready`) and
saves the profile then (`Synced`).

Who the user is decides what is recalled: without any id an empty
profile and nothing else, otherwise always a profile, in which what was never stored
of the special needs reads as no. Both the long-term memory and the tools are asked for
the destination at the top of the profile, where it is not (`node_impl.py:176`,
`nodes.py:129`): a trip is stored without its city, and the tools for weather,
restaurants and hotels are never called. The model has neither.

## 6. Tools, planner and client

`ToolCalls` (MCToolCalls, ToolCallsProofs) over `Skills`. `Skills` is what one attempt comes to, given
how each source replies (usable, nothing usable, raises, hangs), for the forecast, the
price and the place search with their cascades. `ToolCalls` has `entry`, `negative` and
`lock` (Redis), `local` and `breaker` (per process), `at` and `call` (per caller) and a
clock `now`: lookups in two caches, the negative cache, the wait for the cache lock,
attempts under a timeout with growing pauses, the store, the release by token; a Redis
command that raises (the request for the lock too, which ends the call), a caller that is
cancelled, a process that dies. The place search is a kind of its own. It has its own
retry loop for each category (`skills/poi_search.py:1470`), its breaker counts cached
answers, the built-in list and refusals as well, and it keeps its lock for less time than
its attempts take. A caller of that kind is the search of one category; a search without
a category makes one such call for each and merges the answers, and that merge is in
`PlaceSearch`.

`TripPlanner` (MCTripPlanner, TripPlannerProofs) over `VrpSolver`, `Retrieval`, `PlaceSearch`, `Proposal`
follows one request: `places` from the knowledge base, its fallbacks and AMap's pages
(`Retrieval`), or from the place search, category by category from the city's own list or
from what the language model extracts of a web search (`PlaceSearch`); supplements up to a
minimum; `c` and `nodes` from preprocessing. The places of the knowledge base are filtered
by the wheelchair and the tags to avoid, and lose their score and their hours on the way
to the solver (`ByRetrieval`), as in the code. Then
the service, the local heuristic or built-in days; the greedy heuristic visit by visit
(`today`, `days`); and the text of each day (`text`), from an answer for the day, from
answers for single activities and from templates (`Proposal`). What CP-SAT demands is a
predicate (`VrpSolver`); the search itself is external.

`ChatClient` (MCChatClient, ChatClientProofs) is one tab: `tab` is the chat store with the refs of the
hooks (session, messages, snapshots, streaming, connected, current stream), `ops` the
operations that await an answer, `made`, `asked`, `running` what the server has. The
user acts between any two answers; streams deliver events in any order, since the order
within a job is the subject of `JobStream`.

## 7. Not modelled

* *Statements without effect here*: `update_result`, `mark_cancelled`, `check_cancelled`
  (no caller), `confirm_cancel`; the graph nodes that no edge of a run reaches; tool
  handlers whose answers nobody reads; feasibility and disambiguation, whose results
  reach nobody; `publish_token` (no caller).
* *The dead-letter list* (`core/dead_letter.py`): `push_dead_letter` is not imported where
  it is called, so the list stays empty in this version. The call and its NameError are
  in `PlanningJob`.
* *Quotas, the backend's rate limits, the cost breaker*: Redis counters that are
  incremented, compared and rolled back, the pattern of the gateway's stream counter.
* *Authentication*: token issue, rotation and revocation are one request and one row at
  a time.
* *Perception, bookings, monitoring, deployment, migrations, training, page rendering*:
  stateless, single statements, or outside the running system.
* *Details of modelled components*: the TTL of the retry counter (seven days), the
  websocket transport (there a send yields), a stream queue at its 512 messages, a stream
  opened without a job id, compression and deletion of cold rows after 90 days, embeddings
  and SQL text, prompts, the tables of city data, the CP-SAT search, asynchronous solver
  callbacks, distance matrices that come with a request to the solver (`solver.py:75`; the
  backend sends none), the texts of the tips, a cancellation that `push_job_status`
  swallows while it waits for its main task (`chat_runtime.py:590`), a Redis that hangs
  instead of raising. The limiter's scores are whole seconds (`limiter.go:46`), and so are
  the ticks of `Gateway`: a window measured in real time can hold a little more.
* *`models/travel_slots.py`* is imported but absent from the repository; the slots are
  modelled as the code that uses them and its tests have them.
* *Overlapping turns of one conversation inside the graph*: `GraphTurn` runs one turn at a
  time; `SessionState` overlaps their loads and saves.

## 8. Runs

| Run | Properties | What it shows |
|---|---|---|
| `job_safety` | TypeOK, RunningHasLease, OneExecutionPerAttempt, FencedLog, ForceCancelEndsAttempt, OutcomeLogged, LeaseNotStolen, FinishedNotRevived, RefinesLease | two Celery workers, one job: the lease fences the log, no attempt runs twice, outcomes are logged, the rows implement `FencedLease` |
| `job_settles` | JobsSettle | two embedded workers with fair scheduling: every committed job ends, unless the infrastructure failed |
| `job_crash_orphan` | CrashLeavesNoOrphan *(violated)* | a crash after a stage leaves a row nobody may claim |
| `stream_delivery` | CursorMeansSent, DoneAfterLastEntry | the shared cursor never passes an entry that was not sent, done follows what the tasks saw |
| `stream_reconnect` | TypeOK, StreamsEnd | leaked tasks of a first stream; every stream of an ended job closes |
| `session_lock` | LockTypeOK, GrantsHold, LeaseHolds | a granted key stands until it expires; Redlock is a lease |
| `session_state` | PointerNamesRow, SerialTurnsSurvive, NeverLockedForever | a turn, a stream's save and the archiver with failures and expiries: recovery finds a row, what is saved in turn is loaded again, no session stays locked |
| `gateway` | WindowLimit, StreamLimit, StreamsCounted, OpensOnFailures, StaysOpen | limits hold under interleaved requests; late answers do not open or close the breaker out of turn |
| `graph_turns` | TripEndsOnce, DraftAwaitsUser, PlansOnWhatWasSaid, KnownStays, EveryTurnEnds | two turns through the whole graph |
| `tools` | AnswersFresh, AnsweredInTime, HoldersExclude | three calls in two processes for one answer |
| `planner` | PlanKeepsLimits, LeavesNoRoom, AttractionsSuffice, TextFitsPlan | from a profile to the text of each day |
| `client` | SnapshotsGrow, ConnectedMeansLive | one tab that starts, restores and recovers chats while earlier requests still answer |

One property is violated, `CrashLeavesNoOrphan`: a worker that dies after its first graph
stage leaves a row whose status is no longer `running`, and only `running` rows are taken
over. `PROJECT.json` quotes the documents under `findings`. Everything else holds.

**Where the code and its documents differ besides.** The models follow the code here, and
no property claims what the document says.

* *Special needs nobody mentioned.* The prompt of the demand parser says
  "未提及是否带老人 → has_elderly=null（不要猜 false）" and the same of children
  (`agents/demand_parser.py:40-41` and `77`), the resolver says "Special flags: unknown
  stays null" (`agents/memory_conflict_resolver.py:86`), and
  `tests/unit/core/test_conversation_turn.py:186-187` expects both to be asked for. But
  the recall of any user ends in a `UserProfile` whose flags are `False` by default
  (`schemas.py:23-24`), the resolver takes that for an answer, and the question is never
  asked; the test passes because it replaces the recall with one that returns nothing.
  `Recalled` fills an unmentioned flag with no in the same way. So `PlansOnWhatWasSaid`
  claims that what is planned for was said or remembered, and nothing of a flag that is no;
  `KnownStays` counts such a no as known.
* *The enriched profile.* "Sync the graph result back to the legacy conversation state so
  the next turn can resume with the enriched profile/itinerary"
  (`api/chat_runtime.py:388-389`). The result of a planning turn carries no profile, since
  the patch of the output node has one only when it asks, and `intent_ready`, which has
  one, is sent only once a plan was begun in the first phase (`graph/gathering.py:113`),
  which ends with the first turn. In a conversation that was asked something first, what
  the answers said is forgotten after the trip that used it. `Result`, `Ready` and
  `Synced` of `GraphTurn` do the same.
* *Guests and cold storage.* "Guests do not get cold storage" (`core/memory.py:119`). The
  archive tasks tell a guest by the `user_role` of a hot copy, and the graph's session
  manager writes the same keys with a `user_id` and no `user_role`
  (`graph/session_manager.py:22-65`). Such a copy passes for a registered user's until the
  turn's own save overwrites it, and for good when that save finds the lock taken.
  `GraphCreates` and `GraphSaves` of `SessionState` write such copies.

**What the models also show.** These follow from the code as it is, and the properties
above are stated so as not to claim more than it does: a stage written after a cancel
request overwrites `cancelling`, so the deadline finds nothing to enforce; a cancel that
was checked before a job finished sets it back to `cancelling`; the dead-letter path
raises before it marks a job failed; a stream opened just before the end can report done
without the outcome; overlapping turns lose updates (`calm` is false then), and a second
Conversation row appears when an overwritten state has lost its conversation id; after a
Redis error the stream count drifts for good; a turn that only answers books a draft left
by an earlier one; the commute constraints of the CP-SAT model make any day with a visit
infeasible, so the heuristic answers; the vector search never sees the interests of the
profile; the message of `intent_ready` is sent again on later turns; `get_poi_detail`
echoes the name of a place it does not know; a stream that ends without done is not
opened again.

**Bounds.**

* `job_*`: two workers are what a takeover needs (a slow one and its successor); jobs
  interact only in `Poll`'s choice of the oldest, so the runs use one and the proofs cover
  any number. `MaxAttempts = 2` reaches the limit with one takeover. `MaxEvents` stops
  only optional stages. One unit of each disturbance, two of faults, reaches every failing
  branch alone and in pairs.
* `stream_*`: one stream with two intermediate entries and the final one is what three
  drains with different answers need; two streams are needed only for what one leaves
  behind for the next, and there `MaxEntries = 0` keeps the state space within minutes.
* `session_lock`: three masters are the smallest number with a majority that is not all;
  two clients, and one failing command, expiry, second attempt and crash.
* `session_state`: one turn and one stream's end are the two kinds of writers; of a fault,
  an expiry and an archive task two happen together, and the one archive task inserts at
  most one row besides the session's own. Two turns of the chat that follow one another
  are left to the theorem `SerialTurnsSurviveHolds`.
* `gateway`: three requests against limits of one and two, a window of two ticks, one open
  stream, a threshold of two failures: one request more than each limit, and a request
  let through before the breaker opens that answers after.
* `graph_turns`: one slot with values and one flag, which differ in how they merge; two
  turns, since what is left over from the first is the second's problem; a recursion limit
  of 18 instead of 25, still more than the longest turn without a loop needs.
* `tools`: two callers in two processes, three calls, six ticks, times to live and
  timeouts of one or two ticks in the order the code has them; each kind of tool.
* `planner`: trips of one to four days, eight places chosen so that each limit is the one
  that decides, a city with a list of its own, one with a short one and a far one with
  none; every answer of the sources the code tells apart.
* `client`: two conversations and one draft id, two connections (the one that is and the
  one it replaces), two operations that wait, two messages, five acts of the user.

`CHECK_DEADLOCK FALSE` everywhere: jobs end, streams close, requests are answered,
budgets run out, and then the system rests.

**Fairness.** `PlanningJob!Fairness` schedules every coroutine that can run and the
tasks that were sent; it assumes that graph runs end (each tool and LLM call has a
timeout). It owes nothing to clients, to lease expiry, to crashes or faults. In
embedded mode the enforcement task needs a Celery worker besides, as in the
repository's compose files. `JobStream!Fairness` schedules the push tasks and the
generators and owes nothing to the worker, the clients or the network: the poll's
two-second timer is what makes `StreamsEnd` independent of notifications.
`SessionState!RunsOn` lets a client that has begun continue, and the keys of a dead holder
expire; no message has to come. `GraphTurn!FairSpec` lets the node that is due
run: every await in a node has a timeout; nothing makes the user take another turn.
`ToolCalls` needs no fairness: that a call is over in time is stated on the clock, which
advances only when no caller is due.

## 9. Proofs

`PlanningJobProofs` proves, for any sets of jobs and workers, any budgets and any limits:

| Theorem | Property |
|---|---|
| `TypeCorrect` | TypeOK |
| `RunningRowsAreLeased` | RunningHasLease |
| `AttemptsAreExclusive` | OneExecutionPerAttempt |
| `LogIsFenced` | FencedLog |
| `ForceCancelIsFinal` | ForceCancelEndsAttempt |
| `OutcomesAreLogged` | OutcomeLogged |
| `LeasesAreNotStolen` | LeaseNotStolen |
| `FinishedStaysFinished` | FinishedNotRevived |
| `RowsImplementLease` | RefinesLease |

The properties are not inductive by themselves. A log is only known to stay ordered
if nobody who could still append holds an old term, so the invariant
`IInv == TypeOK /\ TermsFenced /\ DistinctTerms /\ LogInv /\ StatusInv` says besides:
a slot that holds its row's lease has the row's current attempt number
(`TermsFenced`), attempt numbers of executing slots on one job differ and none
exceeds the row's (`DistinctTerms`), no entry carries an attempt beyond the row's and
a force-cancelled attempt is not the lease holder's (`LogInv`), and what a status
implies about the lease and the last entry (`StatusInv`). `Inductive` proves it, the
theorems above follow from it. The assumptions are the named ones of the module.

`JobStreamProofs`, for any number of streams, clients, entries and disturbances, so
also for the several streams of one client that the delivery run leaves out:

| Theorem | Property |
|---|---|
| `StreamTypes` | TypeOK |
| `CursorsMeanSent` | CursorMeansSent |
| `DoneComesLast` | DoneAfterLastEntry |

Its invariant `IInv == TypeOK /\ Phases /\ SentInv` adds two things. `Phases`: the
watching tasks are off before main's first drain has ended and again from its last
drain on, which is why nobody can see a later log between the last query and done.
`AnswersContinue` (in `SentInv`): an answer under way starts where everything before it
has been sent, because the cursor it was asked with did. Without it, an old answer that
sets the cursor back would not be known to be harmless.

`GatewayProofs`, for any finite set of requests, any limits, windows and budgets:

| Theorem | Property |
|---|---|
| `WindowsHold` | WindowLimit |
| `StreamsLimited` | StreamLimit |
| `StreamsAreCounted` | StreamsCounted |
| `OpenStaysOpen` | StaysOpen |
| `BreakerOpensOnFailures` | OpensOnFailures |

`WindowLimit` is not inductive: that a key admitted no more than its limit follows only
if the sorted set still knows all of them. `Remembered` says so: a member of the set was
admitted at its time, and whatever was admitted less than a window ago is a member. The
sum over the set is a cardinality, which is why the requests are finite
(`RequestsAssumption`). The stream counter needs `OnlyStreams`: nothing but a stream ever
stands before an acquire, an undo or a release. `StaysOpen` needs only the types.
`OpensOnFailures` compares two sums, of what the breaker counts and of the failures there
were, and rests on `Fallen`: the breaker counts no more failures of a tick than there
were. That the sum of fewer failures is no greater (`SumGrows`) is a fact about every
finite set. The library's induction theorems take an operator, so the module argues by a
smallest counterexample among the subsets of the set instead (`SmallestSubset`, from the
well-foundedness of strict inclusion, which the library states of a relation); in the same
way it shows that the sum, which the community modules define by a choice of functions,
is the sum of one element and the rest (`SumsExist`, `SumStep`, `SumOfOneMore`).

`SessionProofs`, about `SessionState` for any clients, rows and disturbances, and about
`SessionLock` for any number of masters, savers and disturbances:

| Theorem | Property |
|---|---|
| `PointerIsSafe` | PointerNamesRow |
| `TypeCorrect` | the TypeOK of SessionState |
| `SerialTurnsSurviveHolds` | SerialTurnsSurvive |
| `LockTypes` | LockTypeOK |
| `GrantsStand` | GrantsHold |
| `LockIsLease` | LeaseHolds |

`PointerIsSafe` follows the archiver (`Archiving`): a snapshot
from the moment it read one, a row from the moment it found one, and that row committed
once it is about to point there.

`SerialTurnsSurviveHolds` follows a saved turn through the tiers (`CalmInv`). While nothing
fails and nothing overlaps, one activity at most is under way (`Alone`); all that was saved
is in every tier that is there, and in the cold row once the warm copy is gone (`Tiers`),
in the copy a client works on (`Works`) and in the one the archiver carries (`Archived`).
A turn breaks `Tiers` when the graph writes its own state over both copies; until its save
has reached both again it holds the only full copy (`Saving`), so the invariant has to say
that nothing takes that copy away meanwhile. That an expired warm copy was archived comes
from the guard of `WarmExpires`, which is an assumption about the archive task's period.

Of the lock, `GrantsHold` is inductive with the types, and a holder has a quorum
(`InsideHasQuorum`). The refinement then needs one fact about finite sets: two quorums of
`1..N` intersect (`QuorumsMeet`, by cardinality), so of two holders one has lost its key on
the common master.

`ToolCallsProofs`, for any callers, processes, times to live and budgets:

| Theorem | Property |
|---|---|
| `HoldersAreExclusive` | HoldersExclude |
| `AnswersAreFresh` | AnswersFresh |
| `AnsweredInTimeHolds` | AnsweredInTime |
| `TypeCorrect` | types of every variable (`Types`) |

The first needs `Locks`: the token of a caller that believes it holds the lock is in
Redis with the time to live it was given, or that time is over; a late release compares
tokens and so removes nobody else's. The second needs what the caches keep to die in
time after it was made (`CachesFresh`), and that what waits to be stored was made at this
moment (`StoresFresh`), which holds because the clock only advances when no caller is due.
The third adds up pauses that double: `Due(n)` is the time by which `n` attempts and the
pauses after them are over, the wait for the lock included, and `CallsTimely` says where a
call can be within `Due` of its attempts so far. Of `2^n` the provers know nothing, so
`PowerAssumption` states the two facts used (a pause is doubled, and does not exceed the
last one) for the exponents there are; they are arithmetic, true of any numbers, and TLC
evaluates them for those of the run.

`ChatClientProofs`, for any conversations, messages and waiting operations and at least
two connections:

| Theorem | Property |
|---|---|
| `ConnectionIsAlive` | ConnectedMeansLive |
| `SnapshotsOnlyGrow` | SnapshotsGrow |

Its invariant `Sound` says that the current connection is alive and the only one that is.
Connecting aborts the current one and takes one that is gone; that there is one is what
`Sound` gives, because a tab with an aborted connection does nothing else first
(`Settled`). Snapshots only grow because of `Keeps`: what the screen shows of a chat goes
on from what is saved of it, and an id that the server has not given out yet names no
saved chat, so an answer that renames the session finds nothing to overwrite. It needs
that ids of drafts (`chat-<ms>`) are not ids of conversations, which `IdsAssumption` says.

`GraphTurnProofs`, for any slots and values, sayings, long-term memories, itineraries,
database rows and sources, and any number of turns, faults and restarts:

| Theorem | Property |
|---|---|
| `TypeCorrect` | the module's TypeOK |
| `TripEndsOnceHolds` | TripEndsOnce |
| `DraftAwaitsUserHolds` | DraftAwaitsUser |
| `PlansOnWhatWasSaidHolds` | PlansOnWhatWasSaid |
| `KnownStaysHolds` | KnownStays |

What is left over from an earlier turn makes these hard: the checkpoint still holds the
stage, the action and the draft of the last one. The invariant `IInv` tells two roads
apart. While no node has failed a turn is on the straight one, where the action of the
channels says how far it may come (`Straight`): one that clarifies reaches only the output,
and one that plans ends there. Once a node has failed, the error handler writes an action
of its own and any node may follow, and only facts remain that tie the node to the stage
and to the patch of the output node: a patch is there once the output node has answered
(`Answered`), the end of a trip is written only after that and behind it the turn closes
(`Written`), and the booking node is reached only from the output node (`Booked`).
`Carried` says that the channels know what the conversation knows and that a patch does
not say otherwise, so that saving it back loses nothing. `KnownStays` rests besides on
lemmas about the operators of `Conversation`: no merge of what is known with what
was said and remembered unsets a slot or takes a special need back (`AfterTurnKeeps`).
`PlansOnWhatWasSaid` adds `Said`: no slot with a value is in the conversation or in the
channels that the user has not told, and no special need that was not told and is not
remembered of the user either, which every merge keeps (`RecalledYes`, `AfterTurnTold`).

`TripPlannerProofs`, for any places, turns, requests, searches and answers of the sources:

| Theorem | Property |
|---|---|
| `LimitsKept` | PlanKeepsLimits |
| `NoRoomLeft` | LeavesNoRoom |
| `EnoughAsked` | AttractionsSuffice |
| `TextFitting` | TextFitsPlan |

What these properties say is computed by loops: sums of times, distances and prices,
arrivals along a route, lists made unique by name, candidates picked until three needs are
met. In the model they are folds and recursive functions, and what such a function returns
calls for an induction over the sequence, which the library's induction theorems cannot
give here because they take an operator. The module does without them. `FoldExists` shows
that a sequence of intermediate results exists whenever the step stays within a set (by
the least length for which there would be none, `NoneUpTo`); `FoldSteps` and `CountSteps`
show that a fold, or a count, goes through such a sequence, because the function chosen to
meet the recursion does. What holds of all intermediate results is again shown of the
least one of which it would not hold.

The invariant `IInv == Shape /\ Solved /\ TextFits /\ AttractionsSuffice` says what each
stage counts on. `Solved` is its core: the days so far *together with the one being
filled* are one plan within the limits (`OnePlan`), and no finished day has room for what
remains (`AllFull`). The second is why a heuristic that never comes back to a day leaves no
room: what remains only shrinks (`RemainingShrinks`), a finished day does not change, and
whether a place fits depends on nothing else. For the exact search the argument is another
one: of any circuit that satisfies the constraints of `Schedules` the arrivals are those of
the visits in order (`RouteKeepsLimits`). `EnoughAsked` counts attractions by name through
three lists that overlap (`BuiltInPlaces`, `SuppliedPlaces`, `SelectedPlaces`). TLC checked
`IInv` on the `planner` run as well.

The assumptions are on constants only. Turns and requests carry numbers as the models of
the API declare them (`TurnsAssumption`, `RequestsAssumption`). Every source answers with
places that carry their numbers (`RetrievalAssumption`, `WorldsAssumption`,
`AmapAssumption`, `DefaultsAssumption`); for the searches this is said of what `Retrieved`,
`QueryPois` and `SearchPois` return, which rank and filter what a source holds, and TLC
evaluates it for the tables of the run. In a city's own list one name is of one
kind, as it is in `skills/city_data.py`, where extras whose name is there already are dropped.

**What stays with TLC.** The liveness properties (`JobsSettle`, `StreamsEnd`,
`NeverLockedForever`, `EveryTurnEnds`), because fairness and ENABLED are beyond the
prover. What `Retrieval` and `PlaceSearch` rank and fuse is not proved but assumed to be
places, as said above. The violated
property of `job_crash_orphan` has a counterexample and no theorem.

## 10. Running it

Each `.cfg` names its run:

    tlc -workers 2 -config job_safety.cfg       MCPlanningJob.tla
    tlc -workers 2 -config job_settles.cfg      MCPlanningJob.tla
    tlc -workers 2 -config job_crash_orphan.cfg MCPlanningJob.tla
    tlc -workers 2 -config stream_delivery.cfg  MCJobStream.tla
    tlc -workers 2 -config stream_reconnect.cfg MCJobStream.tla
    tlc -workers 2 -config session_lock.cfg     MCSessionLock.tla
    tlc -workers 2 -config session_state.cfg    MCSessionState.tla
    tlc -workers 2 -config gateway.cfg          MCGateway.tla
    tlc -workers 2 -config graph_turns.cfg      MCGraphTurn.tla
    tlc -workers 2 -config tools.cfg            MCToolCalls.tla
    tlc -workers 2 -config planner.cfg          MCTripPlanner.tla
    tlc -workers 2 -config client.cfg           MCChatClient.tla

    tlapm PlanningJobProofs.tla
    tlapm JobStreamProofs.tla
    tlapm GatewayProofs.tla
    tlapm SessionProofs.tla
    tlapm ToolCallsProofs.tla
    tlapm ChatClientProofs.tla
    tlapm GraphTurnProofs.tla
    tlapm TripPlannerProofs.tla
