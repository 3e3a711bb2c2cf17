---------------------------- MODULE PlanningJob ----------------------------
(***************************************************************************)
(* The life of a planning job: the planning_jobs row and its event log     *)
(* (repositories/planning_job.py), the workers that claim, run and release *)
(* it (worker/planning_worker.py), the Celery task around a worker         *)
(* (worker/planning_tasks.py), and the API handlers that create, cancel    *)
(* and patch it (api/v1/planning_jobs.py, api/websocket.py,                *)
(* api/chat_runtime.py, services/planning_job_service.py).                 *)
(*                                                                         *)
(* One step is one database transaction, one Redis call, or the Python     *)
(* code between two awaits.  A worker is an execution slot: one Celery     *)
(* process, or the embedded polling loop.  Its id in locked_by is fresh    *)
(* for each task in Celery; a slot runs one job at a time and every write  *)
(* names the job, so reusing the slot as the id confuses no two executions.*)
(***************************************************************************)
EXTENDS Naturals, Sequences

CONSTANTS
  Jobs,           \* a finite set of numbers, in created_at order
  Workers,
  NoWorker, NoJob,
  Executor,       \* settings.planning_executor
  CancelSources,  \* which of the three cancel paths the clients use
  PatchStatuses,  \* what PATCH /planning-jobs/{id}/status is called with
  MaxAttempts,    \* planning_jobs.max_attempts
  MaxRetries,     \* settings.planning_task_max_retries
  MaxEvents,      \* bound: no optional stage is recorded past this log length
  Budget          \* bound: how often each kind of disturbance may happen

Disturbances == {"fault", "crash", "cancel", "redispatch", "patch"}

ASSUME JobsAssumption == Jobs \subseteq Nat
ASSUME NoWorkerAssumption == NoWorker \notin Workers
ASSUME NoJobAssumption == NoJob \notin Jobs
ASSUME ExecutorAssumption == Executor \in {"celery", "embedded"}
ASSUME CancelAssumption == CancelSources \subseteq {"rest", "ws", "disconnect"}
ASSUME MaxAttemptsAssumption == MaxAttempts \in Nat
ASSUME BudgetAssumption == Budget \in [Disturbances -> Nat]
\* The lease is only sound while nobody patches a job into a claimable status
\* or reports an outcome the log does not show.
ASSUME PatchAssumption == PatchStatuses \subseteq {"working", "failed"}

\* "working" stands for every intermediate stage a graph node may report
\* (gathering, planning, draft_ready, tools_executed, ...).
Finished == {"completed", "failed", "cancelled", "force_cancelled"}
Statuses == {"absent", "uncommitted", "pending", "running", "retrying",
             "working", "cancelling"} \cup Finished
Stages   == {"running", "working", "completed", "cancelled", "force_cancelled"}

VARIABLES
  (* the planning_jobs row and its planning_job_events *)
  status,        \* "absent" before INSERT, "uncommitted" until COMMIT
  lockedBy,
  leaseExpired,  \* lock_expires_at < NOW(); FALSE when lock_expires_at is NULL
  attemptCount,
  events,        \* stages in id order, each with the attempt that wrote it
  (* the execution slots *)
  pc, job,
  term,          \* the attempt_count of the row the slot claimed
  hb,            \* heartbeat task: off, on, lost (lease gone) or raised
  watch,         \* cancel watcher: off, on (subscribed), fired or raised
  (* Celery *)
  messages,      \* execute_planning_job messages waiting in the broker
  retryCount,    \* the task_retry: counter in Redis
  (* cancel requests in flight *)
  cancelRead,    \* a handler has read a cancellable status, not yet written
  toSignal,      \* "cancelling" committed, not yet published and scheduled
  deadlines,     \* enforce_cancel_deadline messages waiting
  (* bounds *)
  used

rowVars    == <<status, lockedBy, leaseExpired, attemptCount, events>>
slotVars   == <<pc, job, term, hb, watch>>
taskVars   == <<messages, retryCount>>
cancelVars == <<cancelRead, toSignal, deadlines>>
vars       == <<rowVars, slotVars, taskVars, cancelVars, used>>

Visible(j) == status[j] \notin {"absent", "uncommitted"}

\* Mutants of Claimable: no attempt limit, no expiry check, failed jobs rerun.
Claimable_unlimited(j) ==
  status[j] \in {"pending", "retrying"} \/ (status[j] = "running" /\ leaseExpired[j])

Claimable_unexpired(j) ==
  status[j] \in {"pending", "retrying", "running"} /\ attemptCount[j] < MaxAttempts

Claimable_failed(j) ==
  /\ status[j] \in {"pending", "retrying", "failed"} \/ (status[j] = "running" /\ leaseExpired[j])
  /\ attemptCount[j] < MaxAttempts

\* The WHERE clause shared by both acquire statements.
Claimable(j) ==
  /\ \/ status[j] \in {"pending", "retrying"}
     \/ status[j] = "running" /\ leaseExpired[j]
  /\ attemptCount[j] < MaxAttempts

\* The heartbeat and watcher tasks live from the start of _execute_job to its finally block.
Executing(w) ==
  pc[w] \in {"start", "run", "complete", "finish", "cancel", "cancelRelease"}

\* cancel_event: set by a heartbeat that lost the lease or by a cancel message.
CancelSet(w) == hb[w] = "lost" \/ watch[w] = "fired"

BackgroundRaised(w) == hb[w] = "raised" \/ watch[w] = "raised"

Spend(d) ==
  /\ used[d] < Budget[d]
  /\ used' = [used EXCEPT ![d] = @ + 1]

Fault == Spend("fault")

Init ==
  /\ status = [j \in Jobs |-> "absent"]
  /\ lockedBy = [j \in Jobs |-> NoWorker]
  /\ leaseExpired = [j \in Jobs |-> FALSE]
  /\ attemptCount = [j \in Jobs |-> 0]
  /\ events = [j \in Jobs |-> << >>]
  /\ pc = [w \in Workers |-> "idle"]
  /\ job = [w \in Workers |-> NoJob]
  /\ term = [w \in Workers |-> 0]
  /\ hb = [w \in Workers |-> "off"]
  /\ watch = [w \in Workers |-> "off"]
  /\ messages = [j \in Jobs |-> 0]
  /\ retryCount = [j \in Jobs |-> 0]
  /\ cancelRead = {}
  /\ toSignal = [j \in Jobs |-> 0]
  /\ deadlines = [j \in Jobs |-> 0]
  /\ used = [d \in Disturbances |-> 0]
-----------------------------------------------------------------------------
(* Statements of the repository, as updates of the row. *)

\* Mutant: the attempt is not counted.
Acquire_uncounted(j, w) ==
  /\ status' = [status EXCEPT ![j] = "running"]
  /\ lockedBy' = [lockedBy EXCEPT ![j] = w]
  /\ leaseExpired' = [leaseExpired EXCEPT ![j] = FALSE]
  /\ UNCHANGED <<attemptCount, events>>

Acquire(j, w) ==
  /\ status' = [status EXCEPT ![j] = "running"]
  /\ lockedBy' = [lockedBy EXCEPT ![j] = w]
  /\ leaseExpired' = [leaseExpired EXCEPT ![j] = FALSE]
  /\ attemptCount' = [attemptCount EXCEPT ![j] = @ + 1]
  /\ UNCHANGED events

Unlock(j, s) ==
  /\ status' = [status EXCEPT ![j] = s]
  /\ lockedBy' = [lockedBy EXCEPT ![j] = NoWorker]
  /\ leaseExpired' = [leaseExpired EXCEPT ![j] = FALSE]
  /\ UNCHANGED attemptCount

\* Mutant: release without the owner in its WHERE clause.
Release_unowned(j, w, s) == Unlock(j, s) /\ UNCHANGED events

\* UPDATE ... WHERE locked_by = worker: a slot that lost the lease changes nothing.
Release(j, w, s) ==
  \/ lockedBy[j] = w /\ Unlock(j, s) /\ UNCHANGED events
  \/ lockedBy[j] # w /\ UNCHANGED rowVars

AddEvent(j, s, attempt) ==
  events' = [events EXCEPT ![j] = Append(@, [stage |-> s, attempt |-> attempt])]

\* Mutant: update_stage called without a worker_id.
UpdateStage_unfenced(j, w, s) ==
  /\ status' = [status EXCEPT ![j] = s]
  /\ AddEvent(j, s, term[w])
  /\ UNCHANGED <<lockedBy, leaseExpired, attemptCount>>

\* update_stage and add_event in one transaction, rolled back without the lease.
\* The status written is the stage, whatever the status was.
UpdateStage(j, w, s) ==
  \/ /\ lockedBy[j] = w
     /\ status' = [status EXCEPT ![j] = s]
     /\ AddEvent(j, s, term[w])
     /\ UNCHANGED <<lockedBy, leaseExpired, attemptCount>>
  \/ lockedBy[j] # w /\ UNCHANGED rowVars

SetStatus(j, s) ==
  /\ status' = [status EXCEPT ![j] = s]
  /\ UNCHANGED <<lockedBy, leaseExpired, attemptCount, events>>

\* create_job flushes the row, and leaves the commit to its caller.
Insert(j) == SetStatus(j, "uncommitted")

\* heartbeat: only the owner's lease is renewed.
RenewLease(j, w) == lockedBy[j] = w /\ leaseExpired' = [leaseExpired EXCEPT ![j] = FALSE]

\* force_cancel: only a job that is being cancelled is.
ForceCancel(j) == status[j] = "cancelling" /\ Unlock(j, "force_cancelled")
-----------------------------------------------------------------------------
(* The slots. *)

Goto(w, label) == pc' = [pc EXCEPT ![w] = label]

StopBackground(w) ==
  /\ hb' = [hb EXCEPT ![w] = "off"]
  /\ watch' = [watch EXCEPT ![w] = "off"]

KeepBackground == UNCHANGED <<hb, watch>>

\* The slot forgets its job: the task returned, or its process died.
Leave(w, label) ==
  /\ Goto(w, label)
  /\ job' = [job EXCEPT ![w] = NoJob]
  /\ term' = [term EXCEPT ![w] = 0]
  /\ StopBackground(w)

\* _execute_job begins: both background tasks are created, neither has run.
Begin(j, w) ==
  /\ Acquire(j, w)
  /\ Goto(w, "start")
  /\ job' = [job EXCEPT ![w] = j]
  /\ term' = [term EXCEPT ![w] = attemptCount[j] + 1]
  /\ hb' = [hb EXCEPT ![w] = "on"]
  /\ watch' = [watch EXCEPT ![w] = "off"]

TakeMessage(w, j) ==
  /\ Executor = "celery"
  /\ pc[w] = "idle"
  /\ messages[j] > 0
  /\ messages' = [messages EXCEPT ![j] = @ - 1]
  /\ Goto(w, "claim")
  /\ job' = [job EXCEPT ![w] = j]
  /\ UNCHANGED <<rowVars, term, hb, watch, retryCount, cancelVars, used>>

\* execute_job_by_id: an unclaimable job ends the task, and nothing retries it.
Claim(w) ==
  /\ pc[w] = "claim"
  /\ \/ Claimable(job[w]) /\ Begin(job[w], w) /\ UNCHANGED used
     \/ ~Claimable(job[w]) /\ Leave(w, "idle") /\ UNCHANGED <<rowVars, used>>
     \/ Fault /\ Goto(w, "error") /\ UNCHANGED <<rowVars, job, term, hb, watch>>
  /\ UNCHANGED <<taskVars, cancelVars>>

\* One turn of PlanningWorker.run: the oldest claimable job is taken.  A row that
\* SKIP LOCKED passes over belongs to a transaction that may as well come first.
Poll(w) ==
  /\ Executor = "embedded"
  /\ pc[w] = "idle"
  /\ \E j \in Jobs :
       /\ Claimable(j)
       /\ \A k \in Jobs : Claimable(k) => j <= k
       /\ Begin(j, w)
  /\ UNCHANGED <<taskVars, cancelVars, used>>

\* acquire_job raises outside the try block: the loop ends for good.
PollRaises(w) ==
  /\ Executor = "embedded"
  /\ pc[w] = "idle"
  /\ Fault
  /\ Goto(w, "dead")
  /\ UNCHANGED <<rowVars, job, term, hb, watch, taskVars, cancelVars>>

\* record_stage ignores a lost lease, and raises when the database or, after
\* the commit, the Redis notification fails.
RecordStage(w, s, next) ==
  /\ \/ UpdateStage(job[w], w, s) /\ Goto(w, next) /\ KeepBackground /\ UNCHANGED used
     \/ /\ Fault
        /\ UpdateStage(job[w], w, s) \/ UNCHANGED rowVars
        /\ Goto(w, "failing") /\ StopBackground(w)
  /\ UNCHANGED <<job, term, taskVars, cancelVars>>

Start(w) == pc[w] = "start" /\ RecordStage(w, "running", "run")

\* The next graph event carries a stage; graph nodes also report "completed".
StageEvent(w) ==
  /\ pc[w] = "run"
  /\ ~CancelSet(w)
  /\ Len(events[job[w]]) < MaxEvents
  /\ \E s \in {"working", "completed"} : RecordStage(w, s, "run")

FinalEvent(w) ==
  /\ pc[w] = "run"
  /\ ~CancelSet(w)
  /\ Goto(w, "complete")
  /\ UNCHANGED <<rowVars, job, term, hb, watch, taskVars, cancelVars, used>>

ErrorEvent(w) ==
  /\ pc[w] = "run"
  /\ ~CancelSet(w)
  /\ Goto(w, "failing")
  /\ StopBackground(w)
  /\ UNCHANGED <<rowVars, job, term, taskVars, cancelVars, used>>

\* cancel_event is looked at only when a graph event arrives.
NoticeCancel(w) ==
  /\ pc[w] = "run"
  /\ CancelSet(w)
  /\ Goto(w, "cancel")
  /\ UNCHANGED <<rowVars, job, term, hb, watch, taskVars, cancelVars, used>>

RecordCancelled(w) == pc[w] = "cancel" /\ RecordStage(w, "cancelled", "cancelRelease")

\* Release, then the finally block, which re-raises what a background task raised.
ReleaseCancelled(w) ==
  /\ pc[w] = "cancelRelease"
  /\ \/ /\ Release(job[w], w, "cancelled")
        /\ Goto(w, IF BackgroundRaised(w) THEN "failing" ELSE "done")
        /\ UNCHANGED used
     \/ Fault /\ Goto(w, "failing") /\ UNCHANGED rowVars
  /\ StopBackground(w)
  /\ UNCHANGED <<job, term, taskVars, cancelVars>>

RecordCompleted(w) == pc[w] = "complete" /\ RecordStage(w, "completed", "finish")

\* The finally block, then release "completed".
Finish(w) ==
  /\ pc[w] = "finish"
  /\ \/ /\ ~BackgroundRaised(w)
        /\ Release(job[w], w, "completed")
        /\ Goto(w, "done")
        /\ UNCHANGED used
     \/ /\ BackgroundRaised(w)
        /\ Goto(w, "failing")
        /\ UNCHANGED <<rowVars, used>>
     \/ Fault /\ Goto(w, "failing") /\ UNCHANGED rowVars
  /\ StopBackground(w)
  /\ UNCHANGED <<job, term, taskVars, cancelVars>>

\* The except clause around _execute_job.  What it raises itself reaches the
\* Celery task, or ends the embedded loop.
ReleaseFailed(w) ==
  /\ pc[w] = "failing"
  /\ \/ /\ Release(job[w], w, "failed")
        /\ Goto(w, "done")
        /\ UNCHANGED <<job, term, hb, watch, used>>
     \/ /\ Fault
        /\ UNCHANGED rowVars
        /\ \/ Executor = "celery" /\ Goto(w, "error") /\ UNCHANGED <<job, term, hb, watch>>
           \/ Executor = "embedded" /\ Leave(w, "dead")
  /\ UNCHANGED <<taskVars, cancelVars>>

\* reset_retry and the acknowledgement; a job that was released as failed
\* also ends here, with execute_job_by_id returning True.
EndTask(w) ==
  /\ pc[w] = "done"
  /\ \/ /\ Leave(w, "idle")
        /\ retryCount' = IF Executor = "celery"
                           THEN [retryCount EXCEPT ![job[w]] = 0]
                           ELSE retryCount
        /\ UNCHANGED used
     \/ /\ Executor = "celery" /\ Fault
        /\ Goto(w, "error")
        /\ UNCHANGED <<job, term, hb, watch, retryCount>>
  /\ UNCHANGED <<rowVars, messages, cancelVars>>

Heartbeat(w) ==
  /\ Executing(w)
  /\ hb[w] = "on"
  /\ \/ RenewLease(job[w], w) /\ UNCHANGED <<hb, used>>
     \/ /\ lockedBy[job[w]] # w
        /\ hb' = [hb EXCEPT ![w] = "lost"]
        /\ UNCHANGED <<leaseExpired, used>>
     \/ /\ Fault
        /\ hb' = [hb EXCEPT ![w] = "raised"]
        /\ UNCHANGED leaseExpired
  /\ UNCHANGED <<status, lockedBy, attemptCount, events, pc, job, term, watch,
                 taskVars, cancelVars>>

\* _cancel_watcher subscribes some time after it was created.
Subscribe(w) ==
  /\ Executing(w)
  /\ watch[w] = "off"
  /\ \/ watch' = [watch EXCEPT ![w] = "on"] /\ UNCHANGED used
     \/ Fault /\ watch' = [watch EXCEPT ![w] = "raised"]
  /\ UNCHANGED <<rowVars, pc, job, term, hb, taskVars, cancelVars>>
-----------------------------------------------------------------------------
(* The Celery task's except clause. *)

\* _finalize_dead_letter: push_dead_letter is not a name of planning_tasks.py,
\* so the call raises NameError before the queue or the row is touched.
FinalizeDeadLetter(w) ==
  /\ Leave(w, "idle")
  /\ UNCHANGED <<rowVars, messages>>

\* Mutant: the lease is not dropped.
MarkRetrying_locked(w) ==
  /\ SetStatus(job[w], "retrying")
  /\ Goto(w, "resend")
  /\ UNCHANGED <<job, term, hb, watch, messages>>

\* mark_retrying names neither the owner nor the status.
MarkRetrying(w) ==
  /\ Unlock(job[w], "retrying")
  /\ UNCHANGED events
  /\ Goto(w, "resend")
  /\ UNCHANGED <<job, term, hb, watch, messages>>

HandleError(w) ==
  /\ pc[w] = "error"
  /\ \/ FinalizeDeadLetter(w) /\ UNCHANGED <<retryCount, used>>  \* not retryable
     \/ /\ retryCount' = [retryCount EXCEPT ![job[w]] = @ + 1]
        /\ \/ retryCount[job[w]] >= MaxRetries /\ FinalizeDeadLetter(w) /\ UNCHANGED used
           \/ /\ retryCount[job[w]] < MaxRetries
              /\ Visible(job[w])
              /\ MarkRetrying(w)
              /\ UNCHANGED used
           \/ /\ retryCount[job[w]] < MaxRetries
              /\ ~Visible(job[w])
              /\ Goto(w, "resend")
              /\ UNCHANGED <<rowVars, job, term, hb, watch, messages, used>>
           \/ /\ Fault  \* the counter's expiry or mark_retrying raises: the task fails
              /\ Leave(w, "idle")
              /\ UNCHANGED <<rowVars, messages>>
     \/ /\ Fault  \* the counter cannot be reached
        /\ Leave(w, "idle")
        /\ UNCHANGED <<rowVars, messages, retryCount>>
  /\ UNCHANGED cancelVars

\* self.retry: a new message, delivered after the countdown, unless the
\* broker refuses it: the task fails and the job stays retrying.
Resend(w) ==
  /\ pc[w] = "resend"
  /\ \/ messages' = [messages EXCEPT ![job[w]] = @ + 1] /\ UNCHANGED used
     \/ Fault /\ UNCHANGED messages
  /\ Leave(w, "idle")
  /\ UNCHANGED <<rowVars, retryCount, cancelVars>>

\* The process dies.  A late-acknowledged message is redelivered when the
\* broker misses the consumer and dropped when the pool reports the loss.
Crash(w) ==
  /\ pc[w] # "idle"
  /\ Spend("crash")
  /\ \/ UNCHANGED messages
     \/ /\ Executor = "celery"
        /\ messages' = [messages EXCEPT ![job[w]] = @ + 1]
  /\ Leave(w, "idle")
  /\ UNCHANGED <<rowVars, retryCount, cancelVars>>

\* A minute without a heartbeat: a dead process, a blocked event loop, or an
\* unreachable database.
LeaseExpires(j) ==
  /\ lockedBy[j] # NoWorker
  /\ ~leaseExpired[j]
  /\ leaseExpired' = [leaseExpired EXCEPT ![j] = TRUE]
  /\ UNCHANGED <<status, lockedBy, attemptCount, events, slotVars, taskVars,
                 cancelVars, used>>
-----------------------------------------------------------------------------
(* The API. *)

\* POST /planning-jobs: the row is flushed and the task sent before get_db
\* commits.  A broker error is swallowed.
CreateJob(j) ==
  /\ status[j] = "absent"
  /\ \A k \in Jobs : k < j => status[k] # "absent"
  /\ Insert(j)
  /\ \/ /\ Executor = "celery"
        /\ messages' = [messages EXCEPT ![j] = @ + 1]
        /\ UNCHANGED used
     \/ Executor = "celery" /\ Fault /\ UNCHANGED messages
     \/ Executor = "embedded" /\ UNCHANGED <<messages, used>>
  /\ UNCHANGED <<slotVars, retryCount, cancelVars>>

CommitJob(j) ==
  /\ status[j] = "uncommitted"
  /\ \/ SetStatus(j, "pending") /\ UNCHANGED used
     \/ Fault /\ SetStatus(j, "absent")
  /\ UNCHANGED <<slotVars, taskVars, cancelVars>>

\* POST /planning-jobs/{id}/cancel reads the status first.
RestCancel(j) ==
  /\ "rest" \in CancelSources
  /\ status[j] \in {"pending", "running", "cancelling"}
  /\ Spend("cancel")
  /\ cancelRead' = cancelRead \cup {j}
  /\ UNCHANGED <<rowVars, slotVars, taskVars, toSignal, deadlines>>

\* The websocket's cancel message reads nothing.
WsCancel(j) ==
  /\ "ws" \in CancelSources
  /\ Visible(j)
  /\ Spend("cancel")
  /\ SetStatus(j, "cancelling")
  /\ toSignal' = [toSignal EXCEPT ![j] = @ + 1]
  /\ UNCHANGED <<slotVars, taskVars, cancelRead, deadlines>>

\* Every subscribed watcher of the job hears the message; nobody else ever will.
Publish(j) ==
  watch' = [w \in Workers |->
              IF job[w] = j /\ watch[w] = "on" THEN "fired" ELSE watch[w]]

\* delayed_cancel, 30 s after a stream closed, whether or not it came back.
DisconnectCancel(j) ==
  /\ "disconnect" \in CancelSources
  /\ Visible(j)
  /\ Spend("cancel")
  /\ \/ /\ status[j] \in {"pending", "running"}
        /\ cancelRead' = cancelRead \cup {j}
        /\ UNCHANGED watch
     \/ /\ status[j] \notin {"pending", "running"}
        /\ Publish(j)
        /\ UNCHANGED cancelRead
  /\ UNCHANGED <<rowVars, pc, job, term, hb, taskVars, toSignal, deadlines>>

\* request_cancel's UPDATE has no condition on the status that was read.
WriteCancel(j) ==
  /\ j \in cancelRead
  /\ SetStatus(j, "cancelling")
  /\ cancelRead' = cancelRead \ {j}
  /\ toSignal' = [toSignal EXCEPT ![j] = @ + 1]
  /\ UNCHANGED <<slotVars, taskVars, deadlines, used>>

\* Mutant: no enforcement task is sent.
ScheduleDeadline_never(j) == UNCHANGED deadlines

ScheduleDeadline(j) == deadlines' = [deadlines EXCEPT ![j] = @ + 1]

\* After the commit: publish, and schedule enforce_cancel_deadline.  Either
\* may fail, and in the handlers a failed publish skips the schedule.
SignalCancel(j) ==
  /\ toSignal[j] > 0
  /\ toSignal' = [toSignal EXCEPT ![j] = @ - 1]
  /\ \/ Publish(j) /\ ScheduleDeadline(j) /\ UNCHANGED used
     \/ Fault /\ Publish(j) /\ UNCHANGED deadlines
     \/ Fault /\ ScheduleDeadline(j) /\ UNCHANGED watch
     \/ Fault /\ UNCHANGED <<watch, deadlines>>
  /\ UNCHANGED <<rowVars, pc, job, term, hb, taskVars, cancelRead>>

\* Mutant: force_cancel leaves locked_by.
EnforceDeadline_locked(j) ==
  /\ deadlines[j] > 0
  /\ deadlines' = [deadlines EXCEPT ![j] = @ - 1]
  /\ \/ /\ status[j] = "cancelling"
        /\ status' = [status EXCEPT ![j] = "force_cancelled"]
        /\ AddEvent(j, "force_cancelled", attemptCount[j])
        /\ UNCHANGED <<lockedBy, leaseExpired, attemptCount, used>>
     \/ status[j] # "cancelling" /\ UNCHANGED <<rowVars, used>>
     \/ Fault /\ UNCHANGED rowVars
  /\ UNCHANGED <<slotVars, taskVars, cancelRead, toSignal>>

EnforceDeadline(j) ==
  /\ deadlines[j] > 0
  /\ deadlines' = [deadlines EXCEPT ![j] = @ - 1]
  /\ \/ /\ ForceCancel(j)
        /\ AddEvent(j, "force_cancelled", attemptCount[j])
        /\ UNCHANGED used
     \/ status[j] # "cancelling" /\ UNCHANGED <<rowVars, used>>
     \/ Fault /\ UNCHANGED rowVars
  /\ UNCHANGED <<slotVars, taskVars, cancelRead, toSignal>>

\* PATCH /planning-jobs/{id}/status, for any status, in any status.
PatchStatus(j) ==
  /\ Visible(j)
  /\ Spend("patch")
  /\ \E s \in PatchStatuses : SetStatus(j, s)
  /\ UNCHANGED <<slotVars, taskVars, cancelVars>>

\* retry_dead_letter sends the task again, whether or not the entry was found.
RetryDeadLetter(j) ==
  /\ Executor = "celery"
  /\ Visible(j)
  /\ Spend("redispatch")
  /\ messages' = [messages EXCEPT ![j] = @ + 1]
  /\ UNCHANGED <<rowVars, slotVars, retryCount, cancelVars>>
-----------------------------------------------------------------------------
Pipeline(w) ==
  \/ Start(w) \/ StageEvent(w) \/ FinalEvent(w) \/ ErrorEvent(w)
  \/ NoticeCancel(w) \/ RecordCancelled(w) \/ ReleaseCancelled(w)
  \/ RecordCompleted(w) \/ Finish(w) \/ ReleaseFailed(w) \/ EndTask(w)

Task(w) ==
  \/ \E j \in Jobs : TakeMessage(w, j)
  \/ Claim(w) \/ HandleError(w) \/ Resend(w)

Slot(w) ==
  \/ Pipeline(w) \/ Task(w) \/ Poll(w) \/ PollRaises(w)
  \/ Heartbeat(w) \/ Subscribe(w) \/ Crash(w)

Api(j) ==
  \/ CreateJob(j) \/ CommitJob(j) \/ RestCancel(j) \/ WsCancel(j)
  \/ DisconnectCancel(j) \/ WriteCancel(j) \/ SignalCancel(j)
  \/ EnforceDeadline(j) \/ PatchStatus(j) \/ RetryDeadLetter(j)

Next ==
  \/ \E w \in Workers : Slot(w)
  \/ \E j \in Jobs : Api(j) \/ LeaseExpires(j)

Spec == Init /\ [][Next]_vars

\* Coroutines that can run do run, graph runs end, and committed cancel
\* requests are signalled and enforced.  Clients, faults, crashes and expiry
\* owe nothing.
Fairness ==
  /\ \A w \in Workers : WF_vars(Pipeline(w) \/ Task(w) \/ Poll(w))
  /\ \A j \in Jobs : WF_vars(CommitJob(j) \/ WriteCancel(j))
                     /\ WF_vars(SignalCancel(j)) /\ WF_vars(EnforceDeadline(j))

FairSpec == Spec /\ Fairness
-----------------------------------------------------------------------------
(* Properties *)

Slots == {"idle", "claim", "start", "run", "complete", "finish", "cancel",
          "cancelRelease", "failing", "done", "error", "resend", "dead"}

RowType ==
  /\ status \in [Jobs -> Statuses]
  /\ lockedBy \in [Jobs -> Workers \cup {NoWorker}]
  /\ leaseExpired \in [Jobs -> BOOLEAN]
  /\ attemptCount \in [Jobs -> 0 .. MaxAttempts]
  /\ events \in [Jobs -> Seq([stage : Stages, attempt : Nat])]

SlotType ==
  /\ pc \in [Workers -> Slots]
  /\ job \in [Workers -> Jobs \cup {NoJob}]
  /\ term \in [Workers -> Nat]
  /\ hb \in [Workers -> {"off", "on", "lost", "raised"}]
  /\ watch \in [Workers -> {"off", "on", "fired", "raised"}]
  /\ \A w \in Workers : pc[w] \notin {"idle", "dead"} => job[w] \in Jobs

TaskType ==
  /\ messages \in [Jobs -> Nat]
  /\ retryCount \in [Jobs -> Nat]

CancelType ==
  /\ cancelRead \subseteq Jobs
  /\ toSignal \in [Jobs -> Nat]
  /\ deadlines \in [Jobs -> Nat]

\* A slot that is neither idle nor dead works for a job; no row, counter or
\* log leaves its range, and attempt_count never exceeds max_attempts.
TypeOK ==
  RowType /\ SlotType /\ TaskType /\ CancelType /\ used \in [Disturbances -> Nat]

\* A row in status running carries a lease, so that the takeover clause of the
\* acquire statements (running and lock_expires_at < NOW()) can ever apply to
\* it: with a NULL lock_expires_at no worker would claim it again.
RunningHasLease == \A j \in Jobs : status[j] = "running" => lockedBy[j] # NoWorker

\* Two slots may run the same job at once, a slow one and the one that took
\* its lease over, but never for the same attempt.
OneExecutionPerAttempt ==
  \A v, w \in Workers :
    v # w /\ Executing(v) /\ Executing(w) /\ job[v] = job[w] => term[v] # term[w]

\* A slow execution never writes a stage behind one of its successor: whatever
\* leases expire, tasks are retried and messages duplicated, the attempts in
\* a job's event log only grow.
FencedLog ==
  \A j \in Jobs : \A i, k \in DOMAIN events[j] :
    i < k => events[j][i].attempt <= events[j][k].attempt

\* After enforce_cancel_deadline has logged force_cancelled the attempt it
\* stopped is silent, although its slot may still be running the graph.
ForceCancelEndsAttempt ==
  \A j \in Jobs : \A i, k \in DOMAIN events[j] :
    /\ i < k
    /\ events[j][i].stage = "force_cancelled"
    /\ events[j][k].stage # "force_cancelled"
    => events[j][i].attempt < events[j][k].attempt

\* push_job_status drains the log and then reports done when the status is
\* final: a reader that sees one of these statuses has the entry that says so.
OutcomeLogged ==
  \A j \in Jobs :
    status[j] \in {"completed", "cancelled", "force_cancelled"} =>
      /\ events[j] # << >>
      /\ events[j][Len(events[j])].stage = status[j]

\* A lease that has not expired never passes from one slot to another.
LeaseNotStolen ==
  [][\A j \in Jobs :
       lockedBy[j] # NoWorker /\ ~leaseExpired[j] =>
         lockedBy'[j] \in {lockedBy[j], NoWorker}]_vars

\* A finished, released job changes status only by a cancel request, a task
\* retry or a patch: no slot that still runs it can revive it by a stage, a
\* release or a claim.
FinishedNotRevived ==
  [][\A j \in Jobs :
       status[j] \in Finished /\ lockedBy[j] = NoWorker =>
         status'[j] \in {status[j], "cancelling", "retrying"} \cup PatchStatuses]_vars

Lease == INSTANCE FencedLease
  WITH LogStages <- Stages, holder <- lockedBy, expired <- leaseExpired,
       term <- attemptCount, log <- events

\* The rows implement the fenced lease.
RefinesLease == Lease!Spec

\* While the infrastructure holds up and no process dies, a job that was
\* committed reaches a final status and is released, however often its lease
\* expires, its graph fails or its user cancels.
JobsSettle ==
  \A j \in Jobs :
    status[j] = "pending" ~>
      \/ status[j] \in Finished /\ lockedBy[j] = NoWorker
      \/ used["fault"] > 0 \/ used["crash"] > 0

\* What models/planning_job.py says of the lease columns: a crashed worker
\* leaves no job stuck.  A job nobody runs, whose lease has run out and which
\* has attempts left, can be claimed again.
CrashLeavesNoOrphan ==
  \A j \in Jobs :
    /\ lockedBy[j] # NoWorker /\ leaseExpired[j]
    /\ attemptCount[j] < MaxAttempts
    /\ status[j] \notin Finished \cup {"cancelling"}
    /\ \A w \in Workers : job[w] # j
    => Claimable(j)
=============================================================================
