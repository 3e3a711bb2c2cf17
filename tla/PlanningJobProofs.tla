------------------------- MODULE PlanningJobProofs -------------------------
(***************************************************************************)
(* The types of PlanningJob and the safety of its lease, for every value   *)
(* of the constants.                                                       *)
(*                                                                         *)
(* The argument: every step is one of eight kinds of change to one row and *)
(* at most one slot (StepKinds), and each kind preserves the inductive     *)
(* invariant IInv, which ties the attempt a slot runs (term) to the row's  *)
(* attempt_count: an owner's term is current, all other terms are old.     *)
(***************************************************************************)
EXTENDS PlanningJob, TLAPS

(***************************************************************************)
(* Types.  Each group of variables has its own part of TypeOK, and each    *)
(* statement of the code a lemma that says it keeps the group it writes    *)
(* well typed.                                                             *)
(***************************************************************************)
\* used is a budget account for each kind of disturbance.
UsedType == used \in [Disturbances -> Nat]

LEMMA SpendType ==
  ASSUME NEW d \in Disturbances, UsedType, Spend(d) PROVE UsedType'
  BY DEF UsedType, Spend

LEMMA FaultType == UsedType /\ Fault => UsedType'
  BY SpendType DEF Fault, Disturbances

-----------------------------------------------------------------------------
(* Row updates. *)

LEMMA SameRow == RowType /\ UNCHANGED rowVars => RowType'
  BY DEF RowType, rowVars

LEMMA AcquireType ==
  ASSUME RowType, NEW j \in Jobs, NEW w \in Workers, Claimable(j), Acquire(j, w)
  PROVE  RowType'
<1>1. attemptCount' \in [Jobs -> 0 .. MaxAttempts]
  BY MaxAttemptsAssumption DEF RowType, Acquire, Claimable
<1>2. status' \in [Jobs -> Statuses]
  BY DEF RowType, Acquire, Statuses
<1>3. lockedBy' \in [Jobs -> Workers \cup {NoWorker}] /\ leaseExpired' \in [Jobs -> BOOLEAN]
  BY DEF RowType, Acquire
<1>4. events' \in [Jobs -> Seq([stage : Stages, attempt : Nat])]
  BY DEF RowType, Acquire
<1> QED
  BY <1>1, <1>2, <1>3, <1>4 DEF RowType

LEMMA AddEventType ==
  ASSUME RowType, NEW j \in Jobs, NEW s \in Stages, NEW n \in Nat, AddEvent(j, s, n)
  PROVE  events' \in [Jobs -> Seq([stage : Stages, attempt : Nat])]
<1> DEFINE Entry == [stage : Stages, attempt : Nat]
           entry == [stage |-> s, attempt |-> n]
<1>1. entry \in Entry
  OBVIOUS
<1>2. events \in [Jobs -> Seq(Entry)]
  BY DEF RowType
<1>3. events' = [events EXCEPT ![j] = Append(@, entry)]
  BY DEF AddEvent
<1> HIDE DEF Entry, entry
<1>4. Append(events[j], entry) \in Seq(Entry)
  BY <1>1, <1>2
<1>5. events' \in [Jobs -> Seq(Entry)]
  BY <1>2, <1>3, <1>4
<1> QED
  BY <1>5 DEF Entry

LEMMA UnlockType ==
  ASSUME RowType, NEW j \in Jobs, NEW s \in Statuses, Unlock(j, s),
         events' \in [Jobs -> Seq([stage : Stages, attempt : Nat])]
  PROVE  RowType'
  BY DEF RowType, Unlock

LEMMA ReleaseType ==
  ASSUME RowType, NEW j \in Jobs, NEW w \in Workers, NEW s \in Statuses,
         Release(j, w, s)
  PROVE  RowType'
<1>1. CASE lockedBy[j] = w /\ Unlock(j, s) /\ UNCHANGED events
  BY <1>1, UnlockType DEF RowType
<1>2. CASE UNCHANGED rowVars
  BY <1>2, SameRow
<1> QED
  BY <1>1, <1>2 DEF Release

LEMMA StageIsStatus == Stages \subseteq Statuses
  BY DEF Stages, Statuses, Finished

LEMMA UpdateStageType ==
  ASSUME RowType, NEW j \in Jobs, NEW w \in Workers, NEW s \in Stages,
         term[w] \in Nat, UpdateStage(j, w, s)
  PROVE  RowType'
<1>1. CASE UNCHANGED rowVars
  BY <1>1, SameRow
<1>2. CASE /\ status' = [status EXCEPT ![j] = s]
           /\ AddEvent(j, s, term[w])
           /\ UNCHANGED <<lockedBy, leaseExpired, attemptCount>>
  BY <1>2, AddEventType, StageIsStatus DEF RowType
<1> QED
  BY <1>1, <1>2 DEF UpdateStage

LEMMA SetStatusType ==
  ASSUME RowType, NEW j \in Jobs, NEW s \in Statuses, SetStatus(j, s)
  PROVE  RowType'
  BY DEF RowType, SetStatus

-----------------------------------------------------------------------------
(* Moves of a slot. *)

LEMMA SameSlots == SlotType /\ UNCHANGED slotVars => SlotType'
  BY DEF SlotType, slotVars

LEMMA BusyHasJob ==
  ASSUME SlotType, NEW w \in Workers, pc[w] \notin {"idle", "dead"}
  PROVE  job[w] \in Jobs
  BY DEF SlotType

\* A slot that keeps its job may move to any label.
LEMMA MoveType ==
  ASSUME SlotType, NEW w \in Workers, NEW l \in Slots, job[w] \in Jobs, Goto(w, l),
         UNCHANGED <<job, term>>,
         UNCHANGED <<hb, watch>> \/ KeepBackground \/ StopBackground(w)
  PROVE  SlotType'
<1>1. hb' \in [Workers -> {"off", "on", "lost", "raised"}]
      /\ watch' \in [Workers -> {"off", "on", "fired", "raised"}]
  BY DEF SlotType, KeepBackground, StopBackground
<1>2. pc' \in [Workers -> Slots]
  BY DEF SlotType, Goto
<1>3. \A v \in Workers : pc'[v] \notin {"idle", "dead"} => job'[v] \in Jobs
  BY DEF SlotType, Goto
<1> QED
  BY <1>1, <1>2, <1>3 DEF SlotType

LEMMA LeaveType ==
  ASSUME SlotType, NEW w \in Workers, NEW l \in {"idle", "dead"}, Leave(w, l)
  PROVE  SlotType'
<1>1. hb' \in [Workers -> {"off", "on", "lost", "raised"}]
      /\ watch' \in [Workers -> {"off", "on", "fired", "raised"}]
  BY DEF SlotType, Leave, StopBackground
<1>2. pc' \in [Workers -> Slots]
  BY DEF SlotType, Leave, Goto, Slots
<1>3. job' \in [Workers -> Jobs \cup {NoJob}] /\ term' \in [Workers -> Nat]
  BY DEF SlotType, Leave
<1>4. \A v \in Workers : pc'[v] \notin {"idle", "dead"} => job'[v] \in Jobs
  BY DEF SlotType, Leave, Goto
<1> QED
  BY <1>1, <1>2, <1>3, <1>4 DEF SlotType

LEMMA BeginType ==
  ASSUME RowType, SlotType, NEW j \in Jobs, NEW w \in Workers, Claimable(j),
         Begin(j, w)
  PROVE  RowType' /\ SlotType'
<1>1. RowType'
  BY AcquireType DEF Begin
<1>2. hb' \in [Workers -> {"off", "on", "lost", "raised"}]
      /\ watch' \in [Workers -> {"off", "on", "fired", "raised"}]
  BY DEF SlotType, Begin
<1>3. pc' \in [Workers -> Slots]
  BY DEF SlotType, Begin, Goto, Slots
<1>4. job' \in [Workers -> Jobs \cup {NoJob}] /\ term' \in [Workers -> Nat]
  BY DEF RowType, SlotType, Begin
<1>5. \A v \in Workers : pc'[v] \notin {"idle", "dead"} => job'[v] \in Jobs
  BY DEF SlotType, Begin, Goto
<1> QED
  BY <1>1, <1>2, <1>3, <1>4, <1>5 DEF SlotType

LEMMA PublishType ==
  ASSUME SlotType, NEW j \in Jobs, Publish(j), UNCHANGED <<pc, job, term, hb>>
  PROVE  SlotType'
<1>1. watch' \in [Workers -> {"off", "on", "fired", "raised"}]
  BY DEF SlotType, Publish
<1> QED
  BY <1>1 DEF SlotType

LEMMA UnchangedTypes ==
  /\ TaskType /\ UNCHANGED taskVars => TaskType'
  /\ CancelType /\ UNCHANGED cancelVars => CancelType'
  /\ UsedType /\ UNCHANGED used => UsedType'
  BY DEF TaskType, CancelType, UsedType, taskVars, cancelVars

\* A message, retry or cancel counter goes up, or down while it is positive.
LEMMA CounterType ==
  ASSUME NEW f \in [Jobs -> Nat], NEW j \in Jobs
  PROVE  /\ [f EXCEPT ![j] = @ + 1] \in [Jobs -> Nat]
         /\ [f EXCEPT ![j] = 0] \in [Jobs -> Nat]
         /\ f[j] > 0 => [f EXCEPT ![j] = @ - 1] \in [Jobs -> Nat]
  OBVIOUS

-----------------------------------------------------------------------------
(* One lemma for each group of actions. *)

LEMMA RecordStageType ==
  ASSUME TypeOK, NEW w \in Workers, NEW s \in Stages, NEW l \in Slots,
         job[w] \in Jobs, RecordStage(w, s, l)
  PROVE  TypeOK'
<1>1. TaskType' /\ CancelType'
  BY UnchangedTypes DEF TypeOK, RecordStage
<1>2. UsedType'
  BY FaultType, UnchangedTypes DEF TypeOK, UsedType, RecordStage
<1>3. RowType'
  <2>1. term[w] \in Nat
    BY DEF TypeOK, SlotType
  <2> QED
    BY <2>1, UpdateStageType, SameRow DEF TypeOK, RecordStage
<1>4. SlotType'
  BY MoveType DEF TypeOK, RecordStage, Slots
<1> QED
  BY <1>1, <1>2, <1>3, <1>4 DEF TypeOK, UsedType

LEMMA PipelineType ==
  ASSUME TypeOK, NEW w \in Workers, Pipeline(w)
  PROVE  TypeOK'
<1> USE DEF UsedType
<1>0. RowType /\ SlotType /\ TaskType /\ CancelType /\ UsedType
  BY DEF TypeOK
<1>1. job[w] \in Jobs
  BY <1>0, BusyHasJob
     DEF Pipeline, Start, StageEvent, FinalEvent, ErrorEvent, NoticeCancel,
         RecordCancelled, ReleaseCancelled, RecordCompleted, Finish, ReleaseFailed,
         EndTask
<1>2. {"done", "failing", "error", "run", "complete", "cancel", "finish",
       "cancelRelease"} \subseteq Slots
  BY DEF Slots
<1>3. {"cancelled", "completed", "failed"} \subseteq Statuses
  BY DEF Statuses, Finished
<1>4. {"running", "working", "completed", "cancelled"} \subseteq Stages
  BY DEF Stages
<1>5. CASE Start(w) \/ StageEvent(w) \/ RecordCancelled(w) \/ RecordCompleted(w)
  BY <1>1, <1>2, <1>4, <1>5, RecordStageType
     DEF Start, StageEvent, RecordCancelled, RecordCompleted
<1>6. CASE FinalEvent(w) \/ ErrorEvent(w) \/ NoticeCancel(w)
  <2>1. RowType' /\ TaskType' /\ CancelType' /\ UsedType'
    BY <1>0, <1>6, SameRow, UnchangedTypes DEF FinalEvent, ErrorEvent, NoticeCancel
  <2>2. SlotType'
    BY <1>0, <1>1, <1>2, <1>6, MoveType DEF FinalEvent, ErrorEvent, NoticeCancel
  <2> QED
    BY <2>1, <2>2 DEF TypeOK
<1>7. CASE ReleaseCancelled(w)
  <2>1. RowType'
    BY <1>0, <1>1, <1>3, <1>7, SameRow, ReleaseType DEF ReleaseCancelled
  <2>2. TaskType' /\ CancelType' /\ UsedType'
    BY <1>0, <1>7, UnchangedTypes, FaultType DEF ReleaseCancelled
  <2>3. SlotType'
    BY <1>0, <1>1, <1>2, <1>7, MoveType DEF ReleaseCancelled
  <2> QED
    BY <2>1, <2>2, <2>3 DEF TypeOK
<1>8. CASE Finish(w)
  <2>1. RowType'
    BY <1>0, <1>1, <1>3, <1>8, SameRow, ReleaseType DEF Finish
  <2>2. TaskType' /\ CancelType' /\ UsedType'
    BY <1>0, <1>8, UnchangedTypes, FaultType DEF Finish
  <2>3. SlotType'
    BY <1>0, <1>1, <1>2, <1>8, MoveType DEF Finish
  <2> QED
    BY <2>1, <2>2, <2>3 DEF TypeOK
<1>9. CASE ReleaseFailed(w)
  <2>1. RowType'
    BY <1>0, <1>1, <1>3, <1>9, SameRow, ReleaseType DEF ReleaseFailed
  <2>2. TaskType' /\ CancelType' /\ UsedType'
    BY <1>0, <1>9, UnchangedTypes, FaultType DEF ReleaseFailed
  <2>3. SlotType'
    BY <1>0, <1>1, <1>2, <1>9, MoveType, LeaveType DEF ReleaseFailed
  <2> QED
    BY <2>1, <2>2, <2>3 DEF TypeOK
<1>10. CASE EndTask(w)
  <2>1. RowType' /\ CancelType' /\ UsedType'
    BY <1>0, <1>10, SameRow, UnchangedTypes, FaultType DEF EndTask, cancelVars
  <2>2. TaskType'
    BY <1>0, <1>1, <1>10, CounterType DEF EndTask, TaskType
  <2>3. SlotType'
    BY <1>0, <1>1, <1>2, <1>10, MoveType, LeaveType DEF EndTask
  <2> QED
    BY <2>1, <2>2, <2>3 DEF TypeOK
<1> QED
  BY <1>5, <1>6, <1>7, <1>8, <1>9, <1>10 DEF Pipeline

LEMMA TaskActionType ==
  ASSUME TypeOK, NEW w \in Workers, Task(w)
  PROVE  TypeOK'
<1> USE DEF UsedType
<1>0. RowType /\ SlotType /\ TaskType /\ CancelType /\ UsedType
  BY DEF TypeOK
<1>1. {"claim", "error", "resend"} \subseteq Slots
  BY DEF Slots
<1>2. ASSUME NEW j \in Jobs, TakeMessage(w, j) PROVE TypeOK'
  <2>1. RowType' /\ CancelType' /\ UsedType'
    BY <1>0, <1>2, SameRow, UnchangedTypes DEF TakeMessage
  <2>2. TaskType'
    BY <1>0, <1>2, CounterType DEF TakeMessage, TaskType
  <2>3. SlotType'
    <3>1. \A v \in Workers : pc'[v] \notin {"idle", "dead"} => job'[v] \in Jobs
      BY <1>0, <1>2 DEF TakeMessage, SlotType, Goto
    <3> QED
      BY <1>0, <1>1, <1>2, <3>1 DEF TakeMessage, SlotType, Goto
  <2> QED
    BY <2>1, <2>2, <2>3 DEF TypeOK
<1>3. CASE Claim(w)
  <2>1. TaskType' /\ CancelType' /\ UsedType'
    BY <1>0, <1>3, UnchangedTypes, FaultType DEF Claim
  <2>2. job[w] \in Jobs
    BY <1>0, <1>3, BusyHasJob DEF Claim
  <2>3. RowType' /\ SlotType'
    BY <1>0, <1>1, <1>3, <2>2, BeginType, SameRow, LeaveType, MoveType DEF Claim
  <2> QED
    BY <2>1, <2>3 DEF TypeOK
<1>4. CASE HandleError(w)
  <2>1. job[w] \in Jobs
    BY <1>0, <1>4, BusyHasJob DEF HandleError
  <2>2. CancelType' /\ UsedType'
    BY <1>0, <1>4, UnchangedTypes, FaultType DEF HandleError
  <2>3. TaskType'
    <3>1. UNCHANGED messages
      BY <1>4 DEF HandleError, FinalizeDeadLetter, MarkRetrying
    <3>2. retryCount' \in {retryCount, [retryCount EXCEPT ![job[w]] = @ + 1]}
      BY <1>4 DEF HandleError
    <3> QED
      BY <1>0, <2>1, <3>1, <3>2, CounterType DEF TaskType
  <2>4. RowType'
    <3>1. "retrying" \in Statuses
      BY DEF Statuses
    <3>2. RowType' \/ MarkRetrying(w)
      BY <1>0, <1>4, SameRow DEF HandleError, FinalizeDeadLetter
    <3>3. MarkRetrying(w) => RowType'
      BY <1>0, <2>1, <3>1, UnlockType DEF MarkRetrying, RowType
    <3> QED
      BY <3>2, <3>3
  <2>5. SlotType'
    BY <1>0, <1>1, <1>4, <2>1, LeaveType, MoveType
       DEF HandleError, FinalizeDeadLetter, MarkRetrying
  <2> QED
    BY <2>2, <2>3, <2>4, <2>5 DEF TypeOK
<1>5. CASE Resend(w)
  <2>1. job[w] \in Jobs
    BY <1>0, <1>5, BusyHasJob DEF Resend
  <2>2. RowType' /\ CancelType'
    BY <1>0, <1>5, SameRow, UnchangedTypes DEF Resend
  <2>5. UsedType'
    BY <1>0, <1>5, FaultType, UnchangedTypes DEF Resend
  <2>3. TaskType'
    BY <1>0, <1>5, <2>1, CounterType DEF Resend, TaskType
  <2>4. SlotType'
    BY <1>0, <1>5, LeaveType DEF Resend
  <2> QED
    BY <2>2, <2>3, <2>4, <2>5 DEF TypeOK
<1> QED
  BY <1>2, <1>3, <1>4, <1>5 DEF Task

LEMMA BackgroundType ==
  ASSUME TypeOK, NEW w \in Workers,
         Poll(w) \/ PollRaises(w) \/ Heartbeat(w) \/ Subscribe(w) \/ Crash(w)
  PROVE  TypeOK'
<1> USE DEF UsedType
<1>0. RowType /\ SlotType /\ TaskType /\ CancelType /\ UsedType
  BY DEF TypeOK
<1>1. CASE Poll(w)
  <2>1. RowType' /\ SlotType'
    BY <1>0, <1>1, BeginType DEF Poll
  <2> QED
    BY <1>0, <1>1, <2>1, UnchangedTypes DEF Poll, TypeOK
<1>2. CASE PollRaises(w)
  <2>1. SlotType'
    BY <1>0, <1>2 DEF PollRaises, SlotType, Goto, Slots
  <2> QED
    BY <1>0, <1>2, <2>1, SameRow, UnchangedTypes, FaultType DEF PollRaises, TypeOK
<1>3. CASE Heartbeat(w)
  <2>1. job[w] \in Jobs
    BY <1>0, <1>3, BusyHasJob DEF Heartbeat, RenewLease, Executing
  <2>2. RowType'
    BY <1>0, <1>3, <2>1 DEF Heartbeat, RenewLease, RowType
  <2>3. SlotType'
    <3>1. hb' \in [Workers -> {"off", "on", "lost", "raised"}]
      BY <1>0, <1>3 DEF Heartbeat, RenewLease, SlotType
    <3> QED
      BY <1>0, <1>3, <3>1 DEF Heartbeat, RenewLease, SlotType
  <2> QED
    BY <1>0, <1>3, <2>2, <2>3, UnchangedTypes, FaultType DEF Heartbeat, RenewLease, TypeOK
<1>4. CASE Subscribe(w)
  <2>1. watch' \in [Workers -> {"off", "on", "fired", "raised"}]
    BY <1>0, <1>4 DEF Subscribe, SlotType
  <2>2. SlotType'
    BY <1>0, <1>4, <2>1 DEF Subscribe, SlotType
  <2> QED
    BY <1>0, <1>4, <2>2, SameRow, UnchangedTypes, FaultType DEF Subscribe, TypeOK
<1>5. CASE Crash(w)
  <2>1. RowType' /\ CancelType'
    BY <1>0, <1>5, SameRow, UnchangedTypes DEF Crash
  <2>2. UsedType'
    BY <1>0, <1>5, SpendType DEF Crash, Disturbances
  <2>3. TaskType'
    <3>1. messages' \in [Jobs -> Nat]
      BY <1>0, <1>5 DEF Crash, TaskType
    <3> QED
      BY <1>0, <1>5, <3>1 DEF Crash, TaskType
  <2>4. SlotType'
    BY <1>0, <1>5, LeaveType DEF Crash
  <2> QED
    BY <2>1, <2>2, <2>3, <2>4 DEF TypeOK
<1> QED
  BY <1>1, <1>2, <1>3, <1>4, <1>5

LEMMA ApiType ==
  ASSUME TypeOK, NEW j \in Jobs, Api(j) \/ LeaseExpires(j)
  PROVE  TypeOK'
<1> USE DEF UsedType
<1>0. RowType /\ SlotType /\ TaskType /\ CancelType /\ UsedType
  BY DEF TypeOK
<1>1. {"uncommitted", "pending", "absent", "cancelling", "force_cancelled", "working", "failed"}
        \subseteq Statuses
  BY DEF Statuses, Finished
<1>2. "force_cancelled" \in Stages /\ {"cancel", "patch", "redispatch"} \subseteq Disturbances
  BY DEF Stages, Disturbances
<1>3. CASE CreateJob(j)
  <2>1. RowType' /\ SlotType' /\ CancelType' /\ UsedType'
    BY <1>0, <1>1, <1>3, SetStatusType, SameSlots, UnchangedTypes, FaultType DEF CreateJob, Insert
  <2>2. TaskType'
    BY <1>0, <1>3, CounterType DEF CreateJob, Insert, TaskType
  <2> QED
    BY <2>1, <2>2 DEF TypeOK
<1>4. CASE CommitJob(j)
  BY <1>0, <1>1, <1>4, SetStatusType, SameSlots, UnchangedTypes, FaultType
     DEF CommitJob, TypeOK
<1>5. CASE RestCancel(j)
  <2>1. RowType' /\ SlotType' /\ TaskType' /\ UsedType'
    BY <1>0, <1>2, <1>5, SameRow, SameSlots, UnchangedTypes, SpendType DEF RestCancel
  <2>2. CancelType'
    BY <1>0, <1>5 DEF RestCancel, CancelType
  <2> QED
    BY <2>1, <2>2 DEF TypeOK
<1>6. CASE WsCancel(j)
  <2>1. RowType' /\ SlotType' /\ TaskType' /\ UsedType'
    BY <1>0, <1>1, <1>2, <1>6, SetStatusType, SameSlots, UnchangedTypes, SpendType
       DEF WsCancel
  <2>2. CancelType'
    BY <1>0, <1>6, CounterType DEF WsCancel, CancelType
  <2> QED
    BY <2>1, <2>2 DEF TypeOK
<1>7. CASE DisconnectCancel(j)
  <2>1. RowType' /\ TaskType' /\ UsedType'
    BY <1>0, <1>2, <1>7, SameRow, UnchangedTypes, SpendType DEF DisconnectCancel
  <2>2. SlotType'
    BY <1>0, <1>7, PublishType, SameSlots DEF DisconnectCancel, slotVars
  <2>3. CancelType'
    BY <1>0, <1>7 DEF DisconnectCancel, CancelType
  <2> QED
    BY <2>1, <2>2, <2>3 DEF TypeOK
<1>8. CASE WriteCancel(j)
  <2>1. RowType' /\ SlotType' /\ TaskType' /\ UsedType'
    BY <1>0, <1>1, <1>8, SetStatusType, SameSlots, UnchangedTypes DEF WriteCancel
  <2>2. CancelType'
    BY <1>0, <1>8, CounterType DEF WriteCancel, CancelType
  <2> QED
    BY <2>1, <2>2 DEF TypeOK
<1>9. CASE SignalCancel(j)
  <2>1. RowType' /\ TaskType' /\ UsedType'
    BY <1>0, <1>9, SameRow, UnchangedTypes, FaultType DEF SignalCancel
  <2>2. SlotType'
    BY <1>0, <1>9, PublishType, SameSlots DEF SignalCancel, slotVars
  <2>3. CancelType'
    BY <1>0, <1>9, CounterType DEF SignalCancel, ScheduleDeadline, CancelType
  <2> QED
    BY <2>1, <2>2, <2>3 DEF TypeOK
<1>10. CASE EnforceDeadline(j)
  <2>1. RowType'
    <3>1. attemptCount[j] \in Nat
      BY <1>0 DEF RowType
    <3> QED
      BY <1>0, <1>1, <1>2, <1>10, <3>1, SameRow, UnlockType, AddEventType
         DEF EnforceDeadline, ForceCancel
  <2>2. SlotType' /\ TaskType' /\ UsedType'
    BY <1>0, <1>10, SameSlots, UnchangedTypes, FaultType DEF EnforceDeadline, ForceCancel
  <2>3. CancelType'
    BY <1>0, <1>10, CounterType DEF EnforceDeadline, ForceCancel, CancelType
  <2> QED
    BY <2>1, <2>2, <2>3 DEF TypeOK
<1>11. CASE PatchStatus(j)
  <2>1. RowType'
    BY <1>0, <1>1, <1>11, PatchAssumption, SetStatusType DEF PatchStatus
  <2>2. SlotType' /\ TaskType' /\ CancelType' /\ UsedType'
    BY <1>0, <1>2, <1>11, SameSlots, UnchangedTypes, SpendType DEF PatchStatus
  <2> QED
    BY <2>1, <2>2 DEF TypeOK
<1>12. CASE RetryDeadLetter(j)
  <2>1. RowType' /\ SlotType' /\ CancelType' /\ UsedType'
    BY <1>0, <1>2, <1>12, SameRow, SameSlots, UnchangedTypes, SpendType
       DEF RetryDeadLetter
  <2>2. TaskType'
    BY <1>0, <1>12, CounterType DEF RetryDeadLetter, TaskType
  <2> QED
    BY <2>1, <2>2 DEF TypeOK
<1>13. CASE LeaseExpires(j)
  <2>1. RowType'
    BY <1>0, <1>13 DEF LeaseExpires, RowType
  <2> QED
    BY <1>0, <1>13, <2>1, SameSlots, UnchangedTypes DEF LeaseExpires, TypeOK
<1> QED
  BY <1>3, <1>4, <1>5, <1>6, <1>7, <1>8, <1>9, <1>10, <1>11, <1>12, <1>13 DEF Api

-----------------------------------------------------------------------------

LEMMA InitType == Init => TypeOK
  BY MaxAttemptsAssumption, BudgetAssumption
     DEF Init, TypeOK, RowType, SlotType, TaskType, CancelType, Statuses, Slots

LEMMA NextType == TypeOK /\ [Next]_vars => TypeOK'
<1>1. TypeOK /\ Next => TypeOK'
  BY PipelineType, TaskActionType, BackgroundType, ApiType DEF Next, Slot
<1>2. TypeOK /\ UNCHANGED vars => TypeOK'
  BY SameRow, SameSlots, UnchangedTypes DEF vars, TypeOK, UsedType
<1> QED
  BY <1>1, <1>2

\* In every reachable state the row, the slots, the broker's counters and the
\* pending cancel requests are in range; in particular acquire_job never takes
\* attempt_count past max_attempts, and a busy slot has a job.
THEOREM TypeCorrect == Spec => []TypeOK
  BY InitType, NextType, PTL DEF Spec

-----------------------------------------------------------------------------
(***************************************************************************)
(* The lease.                                                              *)
(***************************************************************************)

\* The slot is between acquiring its job and the last write it makes for it.
Running(w) == Executing(w) \/ pc[w] = "failing"

LastStage(j) == events[j][Len(events[j])].stage

\* No slot runs an attempt that was not granted, and the lease holder runs the latest one.
TermsFenced ==
  \A w \in Workers : Running(w) =>
    /\ term[w] <= attemptCount[job[w]]
    /\ lockedBy[job[w]] = w => term[w] = attemptCount[job[w]]

DistinctTerms ==
  \A v, w \in Workers :
    v # w /\ Running(v) /\ Running(w) /\ job[v] = job[w] => term[v] # term[w]

LogBounded ==
  \A j \in Jobs : \A i \in DOMAIN events[j] : events[j][i].attempt <= attemptCount[j]

\* An attempt that was force-cancelled no longer holds the lease.
CancelledIsOld ==
  \A j \in Jobs : \A i \in DOMAIN events[j] :
    events[j][i].stage = "force_cancelled" /\ lockedBy[j] # NoWorker =>
      events[j][i].attempt < attemptCount[j]

\* A row waiting for its first or next attempt has no owner, and only an owned
\* row has a lease to run out.
LeaseShape ==
  \A j \in Jobs :
    /\ status[j] \in {"absent", "uncommitted", "pending", "retrying"} => lockedBy[j] = NoWorker
    /\ leaseExpired[j] => lockedBy[j] # NoWorker

\* An owner that is about to release its job with an outcome has logged it.
OutcomeRecorded ==
  \A w \in Workers :
    /\ pc[w] = "finish" /\ lockedBy[job[w]] = w =>
         events[job[w]] # << >> /\ LastStage(job[w]) = "completed"
    /\ pc[w] = "cancelRelease" /\ lockedBy[job[w]] = w =>
         events[job[w]] # << >> /\ LastStage(job[w]) = "cancelled"

LogInv == LogBounded /\ CancelledIsOld /\ FencedLog /\ ForceCancelEndsAttempt

StatusInv == LeaseShape /\ RunningHasLease /\ OutcomeRecorded /\ OutcomeLogged

IInv == TypeOK /\ TermsFenced /\ DistinctTerms /\ LogInv /\ StatusInv
-----------------------------------------------------------------------------
(* The kinds of step. *)

SlotsKept == UNCHANGED <<pc, job, term>>

\* Only slot w moves, and if it is running afterwards it was running before.
Moves(w) ==
  /\ \A v \in Workers : v # w => pc'[v] = pc[v] /\ job'[v] = job[v] /\ term'[v] = term[v]
  /\ Running(w)' => Running(w) /\ job'[w] = job[w] /\ term'[w] = term[w]

Quiet == UNCHANGED rowVars /\ SlotsKept

Moved(w) ==
  /\ UNCHANGED rowVars
  /\ Moves(w)
  /\ pc'[w] \in {"finish", "cancelRelease"} => lockedBy[job[w]] # w

Claimed(j, w) ==
  /\ Claimable(j)
  /\ Acquire(j, w)
  /\ \A v \in Workers : v # w => pc'[v] = pc[v] /\ job'[v] = job[v] /\ term'[v] = term[v]
  /\ pc'[w] = "start" /\ job'[w] = j /\ term'[w] = attemptCount[j] + 1

Logged(w, s) ==
  /\ Running(w) /\ job[w] \in Jobs /\ lockedBy[job[w]] = w
  /\ status' = [status EXCEPT ![job[w]] = s]
  /\ AddEvent(job[w], s, term[w])
  /\ UNCHANGED <<lockedBy, leaseExpired, attemptCount>>
  /\ Moves(w)
  /\ pc'[w] = "finish" => s = "completed"
  /\ pc'[w] = "cancelRelease" => s = "cancelled"

Vacated(w, s) ==
  /\ job[w] \in Jobs
  /\ s # "retrying" => lockedBy[job[w]] = w
  /\ s = "completed" => pc[w] = "finish"
  /\ s = "cancelled" => pc[w] = "cancelRelease"
  /\ Unlock(job[w], s)
  /\ UNCHANGED events
  /\ Moves(w)
  /\ pc'[w] \notin {"finish", "cancelRelease"}

Revoked(j) ==
  /\ status[j] = "cancelling"
  /\ Unlock(j, "force_cancelled")
  /\ AddEvent(j, "force_cancelled", attemptCount[j])
  /\ SlotsKept

Restated(j, s) ==
  /\ SetStatus(j, s)
  /\ SlotsKept
  /\ \/ s \in {"cancelling"} \cup PatchStatuses
     \/ s \in {"absent", "uncommitted", "pending"} /\ status[j] \in {"absent", "uncommitted"}

Flagged(j, b) ==
  /\ lockedBy[j] # NoWorker
  /\ leaseExpired' = [leaseExpired EXCEPT ![j] = b]
  /\ UNCHANGED <<status, lockedBy, attemptCount, events>>
  /\ SlotsKept

WorkerStages == {"running", "working", "completed", "cancelled"}

Releases == {"completed", "cancelled", "failed", "retrying"}

ApiStatuses == {"absent", "uncommitted", "pending", "cancelling"} \cup PatchStatuses

SlotKind(w) ==
  \/ Quiet
  \/ Moved(w)
  \/ \E j \in Jobs : Claimed(j, w)
  \/ \E s \in WorkerStages : Logged(w, s)
  \/ \E s \in Releases : Vacated(w, s)
  \/ \E j \in Jobs : Flagged(j, FALSE)

ApiKind(j) ==
  \/ Quiet
  \/ Revoked(j)
  \/ \E s \in ApiStatuses : Restated(j, s)
  \/ Flagged(j, TRUE)

LEMMA RecordStageKind ==
  ASSUME TypeOK, NEW w \in Workers, Executing(w), NEW s \in WorkerStages,
         NEW l \in {"run", "finish", "cancelRelease"}, RecordStage(w, s, l),
         l = "finish" => s = "completed", l = "cancelRelease" => s = "cancelled"
  PROVE  SlotKind(w)
<1>1. job[w] \in Jobs
  BY DEF TypeOK, SlotType, Executing
<1>2. Running(w)
  BY DEF Running
<1>3. Moves(w) /\ pc'[w] \in {l, "failing"}
  BY <1>2 DEF Moves, TypeOK, SlotType, RecordStage, Goto
<1>4. UpdateStage(job[w], w, s) \/ UNCHANGED rowVars
  BY DEF RecordStage
<1>5. CASE lockedBy[job[w]] = w /\ ~UNCHANGED rowVars
  <2>1. Logged(w, s)
    BY <1>1, <1>2, <1>3, <1>4, <1>5 DEF Logged, UpdateStage
  <2> QED
    BY <2>1 DEF SlotKind
<1>6. CASE UNCHANGED rowVars /\ pc'[w] = "failing"
  BY <1>3, <1>6 DEF SlotKind, Moved
<1>7. CASE UNCHANGED rowVars /\ lockedBy[job[w]] # w
  BY <1>3, <1>7 DEF SlotKind, Moved
<1>8. CASE lockedBy[job[w]] = w /\ UNCHANGED rowVars /\ pc'[w] # "failing"
  <2>1. UpdateStage(job[w], w, s)
    BY <1>3, <1>8 DEF RecordStage, Goto, TypeOK, SlotType
  <2>2. Logged(w, s)
    BY <1>1, <1>2, <1>3, <1>8, <2>1 DEF Logged, UpdateStage
  <2> QED
    BY <2>2 DEF SlotKind
<1> QED
  BY <1>4, <1>5, <1>6, <1>7, <1>8 DEF UpdateStage

\* A slot that changes only its own label, and is not about to release.
LEMMA GotoKind ==
  ASSUME TypeOK, NEW w \in Workers, NEW l \in Slots, Goto(w, l), UNCHANGED <<job, term>>,
         l \in {"run", "complete", "cancel", "failing"} => Running(w),
         l \notin {"start", "finish", "cancelRelease"}
  PROVE  Moves(w) /\ pc'[w] = l
  BY DEF TypeOK, SlotType, Goto, Moves, Running, Executing

LEMMA LeaveKind ==
  ASSUME TypeOK, NEW w \in Workers, NEW l \in {"idle", "dead"}, Leave(w, l)
  PROVE  Moves(w) /\ pc'[w] = l
  BY DEF TypeOK, SlotType, Leave, Goto, Moves, Running, Executing

LEMMA ReleaseKind ==
  ASSUME TypeOK, NEW w \in Workers, NEW s \in {"completed", "cancelled", "failed"},
         Release(job[w], w, s), job[w] \in Jobs, Moves(w),
         s = "completed" => pc[w] = "finish", s = "cancelled" => pc[w] = "cancelRelease",
         pc'[w] \notin {"finish", "cancelRelease"}
  PROVE  SlotKind(w)
<1>1. CASE lockedBy[job[w]] = w /\ Unlock(job[w], s) /\ UNCHANGED events
  BY <1>1 DEF SlotKind, Vacated, Releases
<1>2. CASE UNCHANGED rowVars
  BY <1>2 DEF SlotKind, Moved
<1> QED
  BY <1>1, <1>2 DEF Release

LEMMA PipelineKind ==
  ASSUME TypeOK, NEW w \in Workers, Pipeline(w)
  PROVE  SlotKind(w)
<1>1. pc[w] \notin {"idle", "dead"}
  BY DEF Pipeline, Start, StageEvent, FinalEvent, ErrorEvent, NoticeCancel,
         RecordCancelled, ReleaseCancelled, RecordCompleted, Finish, ReleaseFailed,
         EndTask
<1>2. job[w] \in Jobs
  BY <1>1 DEF TypeOK, SlotType
<1>3. {"complete", "failing", "cancel", "done", "error"} \subseteq Slots
  BY DEF Slots
<1>4. CASE Start(w) \/ StageEvent(w) \/ RecordCancelled(w) \/ RecordCompleted(w)
  BY <1>4, RecordStageKind
     DEF Start, StageEvent, RecordCancelled, RecordCompleted, Executing, WorkerStages
<1>5. CASE FinalEvent(w) \/ ErrorEvent(w) \/ NoticeCancel(w)
  <2>1. Moves(w) /\ pc'[w] \in {"complete", "failing", "cancel"}
    BY <1>3, <1>5, GotoKind DEF FinalEvent, ErrorEvent, NoticeCancel, Running, Executing
  <2> QED
    BY <1>5, <2>1 DEF SlotKind, Moved, FinalEvent, ErrorEvent, NoticeCancel
<1>6. CASE ReleaseCancelled(w)
  <2>1. Moves(w) /\ pc'[w] \in {"failing", "done"}
    BY <1>3, <1>6, GotoKind DEF ReleaseCancelled, Running, Executing
  <2>2. CASE Release(job[w], w, "cancelled")
    BY <1>2, <1>6, <2>1, <2>2, ReleaseKind DEF ReleaseCancelled
  <2>3. CASE UNCHANGED rowVars
    BY <2>1, <2>3 DEF SlotKind, Moved
  <2> QED
    BY <1>6, <2>2, <2>3 DEF ReleaseCancelled
<1>7. CASE Finish(w)
  <2>1. Moves(w) /\ pc'[w] \in {"failing", "done"}
    BY <1>3, <1>7, GotoKind DEF Finish, Running, Executing
  <2>2. CASE Release(job[w], w, "completed")
    BY <1>2, <1>7, <2>1, <2>2, ReleaseKind DEF Finish
  <2>3. CASE UNCHANGED rowVars
    BY <2>1, <2>3 DEF SlotKind, Moved
  <2> QED
    BY <1>7, <2>2, <2>3 DEF Finish
<1>8. CASE ReleaseFailed(w)
  <2>1. Moves(w) /\ pc'[w] \in {"done", "error", "dead"}
    BY <1>3, <1>8, GotoKind, LeaveKind DEF ReleaseFailed
  <2>2. CASE Release(job[w], w, "failed")
    BY <1>2, <2>1, <2>2, ReleaseKind
  <2>3. CASE UNCHANGED rowVars
    BY <2>1, <2>3 DEF SlotKind, Moved
  <2> QED
    BY <1>8, <2>2, <2>3 DEF ReleaseFailed
<1>9. CASE EndTask(w)
  <2>1. Moves(w) /\ pc'[w] \in {"idle", "error"}
    BY <1>3, <1>9, GotoKind, LeaveKind DEF EndTask
  <2> QED
    BY <1>9, <2>1 DEF SlotKind, Moved, EndTask
<1> QED
  BY <1>4, <1>5, <1>6, <1>7, <1>8, <1>9 DEF Pipeline

LEMMA BeginKind ==
  ASSUME TypeOK, NEW w \in Workers, NEW j \in Jobs, Claimable(j), Begin(j, w)
  PROVE  SlotKind(w)
<1>1. Claimed(j, w)
  BY DEF Claimed, Begin, Goto, TypeOK, SlotType
<1> QED
  BY <1>1 DEF SlotKind

LEMMA OtherSlotKind ==
  ASSUME TypeOK, NEW w \in Workers,
         Task(w) \/ Poll(w) \/ PollRaises(w) \/ Heartbeat(w) \/ Subscribe(w) \/ Crash(w)
  PROVE  SlotKind(w)
<1>1. {"claim", "error", "resend", "dead"} \subseteq Slots
  BY DEF Slots
<1>2. ASSUME NEW j \in Jobs, TakeMessage(w, j) PROVE SlotKind(w)
  <2>1. Moves(w) /\ pc'[w] = "claim"
    BY <1>2 DEF TakeMessage, Goto, Moves, Running, Executing, TypeOK, SlotType
  <2> QED
    BY <1>2, <2>1 DEF SlotKind, Moved, TakeMessage
<1>3. CASE Claim(w)
  <2>1. job[w] \in Jobs
    BY <1>3 DEF Claim, TypeOK, SlotType
  <2>2. CASE Claimable(job[w]) /\ Begin(job[w], w) /\ UNCHANGED used
    BY <2>1, <2>2, BeginKind
  <2>3. CASE ~Claimable(job[w]) /\ Leave(w, "idle") /\ UNCHANGED <<rowVars, used>>
    <3>1. Moves(w) /\ pc'[w] = "idle"
      BY <2>3, LeaveKind
    <3> QED
      BY <2>3, <3>1 DEF SlotKind, Moved
  <2>4. CASE Fault /\ Goto(w, "error") /\ UNCHANGED <<rowVars, job, term, hb, watch>>
    <3>1. Moves(w) /\ pc'[w] = "error"
      BY <1>1, <2>4, GotoKind
    <3> QED
      BY <2>4, <3>1 DEF SlotKind, Moved
  <2> QED
    BY <1>3, <2>2, <2>3, <2>4, Zenon DEF Claim
<1>4. CASE HandleError(w)
  <2>1. job[w] \in Jobs
    BY <1>4 DEF HandleError, TypeOK, SlotType
  <2>2. CASE MarkRetrying(w)
    <3>1. Moves(w) /\ pc'[w] = "resend"
      BY <1>1, <2>2, GotoKind DEF MarkRetrying
    <3> QED
      BY <2>1, <2>2, <3>1 DEF SlotKind, Vacated, MarkRetrying, Releases
  <2>3. CASE ~MarkRetrying(w)
    <3>1. ASSUME FinalizeDeadLetter(w)
          PROVE  Leave(w, "idle") /\ UNCHANGED rowVars
      BY <3>1 DEF FinalizeDeadLetter
    <3>2. UNCHANGED rowVars
      BY <1>4, <2>3, <3>1 DEF HandleError
    <3>3. \/ FinalizeDeadLetter(w)
          \/ Leave(w, "idle")
          \/ /\ Goto(w, "resend")
             /\ UNCHANGED <<rowVars, job, term, hb, watch, messages, used>>
      BY <1>4, <2>3, Zenon DEF HandleError
    <3>4. CASE FinalizeDeadLetter(w) \/ Leave(w, "idle")
      BY <3>1, <3>2, <3>4, LeaveKind DEF SlotKind, Moved
    <3>5. CASE /\ Goto(w, "resend")
               /\ UNCHANGED <<rowVars, job, term, hb, watch, messages, used>>
      BY <1>1, <3>2, <3>5, GotoKind DEF SlotKind, Moved
    <3> QED
      BY <3>3, <3>4, <3>5, Zenon
  <2> QED
    BY <2>2, <2>3
<1>5. CASE Resend(w) \/ Crash(w)
  <2>1. Moves(w) /\ pc'[w] = "idle"
    BY <1>5, LeaveKind DEF Resend, Crash
  <2> QED
    BY <1>5, <2>1 DEF SlotKind, Moved, Resend, Crash
<1>6. CASE Poll(w)
  BY <1>6, BeginKind DEF Poll
<1>7. CASE PollRaises(w)
  <2>1. Moves(w) /\ pc'[w] = "dead"
    BY <1>1, <1>7, GotoKind DEF PollRaises
  <2> QED
    BY <1>7, <2>1 DEF SlotKind, Moved, PollRaises
<1>8. CASE Heartbeat(w)
  <2>1. job[w] \in Jobs
    BY <1>8 DEF Heartbeat, RenewLease, Executing, TypeOK, SlotType
  <2>2. CASE UNCHANGED leaseExpired
    BY <1>8, <2>2 DEF Heartbeat, RenewLease, SlotKind, Quiet, SlotsKept, rowVars
  <2>3. CASE lockedBy[job[w]] = w /\ leaseExpired' = [leaseExpired EXCEPT ![job[w]] = FALSE]
    <3>1. Flagged(job[w], FALSE)
      BY <1>8, <2>3, NoWorkerAssumption DEF Heartbeat, RenewLease, Flagged, SlotsKept
    <3> QED
      BY <2>1, <3>1 DEF SlotKind
  <2> QED
    BY <1>8, <2>2, <2>3 DEF Heartbeat, RenewLease
<1>9. CASE Subscribe(w)
  BY <1>9 DEF Subscribe, SlotKind, Quiet, SlotsKept
<1> QED
  BY <1>2, <1>3, <1>4, <1>5, <1>6, <1>7, <1>8, <1>9 DEF Task

LEMMA ApiStepKind ==
  ASSUME TypeOK, NEW j \in Jobs, Api(j) \/ LeaseExpires(j)
  PROVE  ApiKind(j)
<1> USE DEF SlotsKept, slotVars
<1>1. CASE CreateJob(j)
  <2>1. Restated(j, "uncommitted")
    BY <1>1 DEF CreateJob, Insert, Restated
  <2> QED
    BY <2>1 DEF ApiKind, ApiStatuses
<1>2. CASE CommitJob(j)
  <2>1. Restated(j, "pending") \/ Restated(j, "absent")
    BY <1>2 DEF CommitJob, Restated
  <2> QED
    BY <2>1 DEF ApiKind, ApiStatuses
<1>3. CASE WsCancel(j) \/ WriteCancel(j)
  <2>1. Restated(j, "cancelling")
    BY <1>3 DEF WsCancel, WriteCancel, Restated
  <2> QED
    BY <2>1 DEF ApiKind, ApiStatuses
<1>4. CASE PatchStatus(j)
  <2>1. PICK s \in PatchStatuses : SetStatus(j, s)
    BY <1>4 DEF PatchStatus
  <2>2. Restated(j, s)
    BY <1>4, <2>1 DEF PatchStatus, Restated
  <2> QED
    BY <2>2 DEF ApiKind, ApiStatuses
<1>5. CASE RestCancel(j) \/ DisconnectCancel(j) \/ SignalCancel(j) \/ RetryDeadLetter(j)
  BY <1>5 DEF RestCancel, DisconnectCancel, SignalCancel, RetryDeadLetter, ApiKind, Quiet
<1>6. CASE EnforceDeadline(j)
  BY <1>6 DEF EnforceDeadline, ForceCancel, ApiKind, Revoked, Quiet
<1>7. CASE LeaseExpires(j)
  BY <1>7 DEF LeaseExpires, ApiKind, Flagged
<1> QED
  BY <1>1, <1>2, <1>3, <1>4, <1>5, <1>6, <1>7 DEF Api

\* Every step of the system is of one of the kinds above.
LEMMA StepKinds ==
  ASSUME TypeOK, [Next]_vars
  PROVE  \/ \E w \in Workers : SlotKind(w)
         \/ \E j \in Jobs : ApiKind(j)
         \/ Quiet
<1>1. CASE UNCHANGED vars
  BY <1>1 DEF vars, slotVars, Quiet, SlotsKept
<1>2. CASE Next
  BY <1>2, PipelineKind, OtherSlotKind, ApiStepKind DEF Next, Slot
<1> QED
  BY <1>1, <1>2
-----------------------------------------------------------------------------
(* Terms: who may write, and for which attempt. *)

TermsInv == TermsFenced /\ DistinctTerms

LEMMA RunningJob ==
  ASSUME SlotType, NEW w \in Workers, Running(w)
  PROVE  job[w] \in Jobs
  BY DEF SlotType, Running, Executing

\* Steps that grant no lease only take terms away.
LEMMA TermsKept ==
  ASSUME TypeOK, TermsInv,
         \A v \in Workers :
           Running(v)' => Running(v) /\ job'[v] = job[v] /\ term'[v] = term[v],
         UNCHANGED attemptCount,
         \A j \in Jobs : lockedBy'[j] \in {lockedBy[j], NoWorker}
  PROVE  TermsInv'
<1>1. TermsFenced'
  BY RunningJob, NoWorkerAssumption DEF TermsInv, TermsFenced, TypeOK
<1>2. DistinctTerms'
  BY DEF TermsInv, DistinctTerms
<1> QED
  BY <1>1, <1>2 DEF TermsInv

LEMMA SlotsKeptRunning ==
  ASSUME SlotsKept, NEW v \in Workers, Running(v)'
  PROVE  Running(v) /\ job'[v] = job[v] /\ term'[v] = term[v]
  BY DEF SlotsKept, Running, Executing

LEMMA MovesRunning ==
  ASSUME NEW w \in Workers, Moves(w), NEW v \in Workers, Running(v)'
  PROVE  Running(v) /\ job'[v] = job[v] /\ term'[v] = term[v]
<1>1. CASE v = w
  BY <1>1 DEF Moves
<1>2. CASE v # w
  <2>1. pc'[v] = pc[v] /\ job'[v] = job[v] /\ term'[v] = term[v]
    BY <1>2 DEF Moves
  <2> QED
    BY <2>1 DEF Running, Executing
<1> QED
  BY <1>1, <1>2

\* A new lease holder starts a later attempt than any other slot is running.
LEMMA TermsClaimed ==
  ASSUME TypeOK, TermsInv, NEW j \in Jobs, NEW w \in Workers, Claimed(j, w)
  PROVE  TermsInv'
<1>1. attemptCount[j] \in Nat /\ attemptCount'[j] = attemptCount[j] + 1
      /\ lockedBy'[j] = w
      /\ \A k \in Jobs : k # j => attemptCount'[k] = attemptCount[k] /\ lockedBy'[k] = lockedBy[k]
  BY DEF Claimed, Acquire, TypeOK, RowType
<1>2. job'[w] = j /\ term'[w] = attemptCount[j] + 1
  BY DEF Claimed
<1>3. \A v \in Workers : v # w /\ Running(v)' =>
        Running(v) /\ job'[v] = job[v] /\ term'[v] = term[v]
  BY DEF Claimed, Running, Executing
<1>4. \A v \in Workers : term[v] \in Nat
  BY DEF TypeOK, SlotType
<1>5. \A v \in Workers : Running(v) => job[v] \in Jobs /\ attemptCount[job[v]] \in Nat
  BY RunningJob DEF TypeOK, RowType
<1>6. TermsFenced'
  <2> SUFFICES ASSUME NEW v \in Workers, Running(v)'
               PROVE  /\ term'[v] <= attemptCount'[job'[v]]
                      /\ lockedBy'[job'[v]] = v => term'[v] = attemptCount'[job'[v]]
    BY DEF TermsFenced
  <2>1. CASE v = w
    BY <1>1, <1>2, <2>1
  <2>2. CASE v # w
    BY <1>1, <1>3, <1>4, <1>5, <2>2 DEF TermsInv, TermsFenced
  <2> QED
    BY <2>1, <2>2
<1>7. \A v \in Workers : v # w /\ Running(v)' /\ job'[v] = j => term'[v] <= attemptCount[j]
  BY <1>3 DEF TermsInv, TermsFenced
<1>8. DistinctTerms'
  <2> SUFFICES ASSUME NEW u \in Workers, NEW v \in Workers, u # v,
                      Running(u)', Running(v)', job'[u] = job'[v]
               PROVE  term'[u] # term'[v]
    BY DEF DistinctTerms
  <2>1. CASE u = w
    BY <1>1, <1>2, <1>3, <1>4, <1>7, <2>1
  <2>2. CASE v = w
    BY <1>1, <1>2, <1>3, <1>4, <1>7, <2>2
  <2>3. CASE u # w /\ v # w
    BY <1>3, <2>3 DEF TermsInv, DistinctTerms
  <2> QED
    BY <2>1, <2>2, <2>3
<1> QED
  BY <1>6, <1>8 DEF TermsInv

LEMMA TermsStep ==
  ASSUME TypeOK, TermsInv, [Next]_vars
  PROVE  TermsInv'
<1>1. CASE Quiet
  BY <1>1, TermsKept, SlotsKeptRunning DEF Quiet, rowVars
<1>2. ASSUME NEW w \in Workers, Moved(w) PROVE TermsInv'
  BY <1>2, TermsKept, MovesRunning DEF Moved, rowVars
<1>3. ASSUME NEW w \in Workers, NEW j \in Jobs, Claimed(j, w) PROVE TermsInv'
  BY <1>3, TermsClaimed
<1>4. ASSUME NEW w \in Workers, NEW s \in WorkerStages, Logged(w, s) PROVE TermsInv'
  BY <1>4, TermsKept, MovesRunning DEF Logged
<1>5. ASSUME NEW w \in Workers, NEW s \in Releases, Vacated(w, s) PROVE TermsInv'
  BY <1>5, TermsKept, MovesRunning DEF Vacated, Unlock, TypeOK, RowType
<1>6. ASSUME NEW j \in Jobs, NEW b, Flagged(j, b) PROVE TermsInv'
  BY <1>6, TermsKept, SlotsKeptRunning DEF Flagged
<1>7. ASSUME NEW j \in Jobs, Revoked(j) PROVE TermsInv'
  BY <1>7, TermsKept, SlotsKeptRunning DEF Revoked, Unlock, TypeOK, RowType
<1>8. ASSUME NEW j \in Jobs, NEW s, Restated(j, s) PROVE TermsInv'
  BY <1>8, TermsKept, SlotsKeptRunning DEF Restated, SetStatus
<1> QED
  BY <1>1, <1>2, <1>3, <1>4, <1>5, <1>6, <1>7, <1>8, StepKinds DEF SlotKind, ApiKind
-----------------------------------------------------------------------------
(* The log: attempts only grow, and a force-cancelled attempt is over. *)

LEMMA EntryType ==
  ASSUME TypeOK, NEW j \in Jobs, NEW i \in DOMAIN events[j]
  PROVE  events[j][i].attempt \in Nat
<1> DEFINE Entry == [stage : Stages, attempt : Nat]
<1>1. events[j] \in Seq(Entry)
  BY DEF TypeOK, RowType
<1> HIDE DEF Entry
<1>2. events[j][i] \in Entry
  BY <1>1
<1> QED
  BY <1>2 DEF Entry

\* What an appended entry adds to a log, pointwise.
LEMMA Appended ==
  ASSUME TypeOK, NEW j \in Jobs, NEW s \in Stages, NEW n \in Nat, AddEvent(j, s, n)
  PROVE  /\ \A k \in Jobs : k # j => events'[k] = events[k]
         /\ DOMAIN events[j] = 1 .. Len(events[j])
         /\ DOMAIN events'[j] = 1 .. Len(events[j]) + 1
         /\ Len(events[j]) \in Nat
         /\ \A i \in 1 .. Len(events[j]) : events'[j][i] = events[j][i]
         /\ events'[j][Len(events[j]) + 1] = [stage |-> s, attempt |-> n]
         /\ \A i \in 1 .. Len(events[j]) : events[j][i].attempt \in Nat
         /\ events'[j] # << >>
         /\ events'[j][Len(events'[j])].stage = s
<1> DEFINE Entry == [stage : Stages, attempt : Nat]
           e == [stage |-> s, attempt |-> n]
<1>1. events \in [Jobs -> Seq(Entry)]
  BY DEF TypeOK, RowType
<1>2. events' = [events EXCEPT ![j] = Append(@, e)]
  BY DEF AddEvent
<1>4. events[j] \in Seq(Entry) /\ events'[j] = Append(events[j], e)
      /\ \A k \in Jobs : k # j => events'[k] = events[k]
  BY <1>1, <1>2
<1>5. e \in Entry
  OBVIOUS
<1> HIDE DEF Entry, e
<1>6. /\ DOMAIN events[j] = 1 .. Len(events[j])
      /\ DOMAIN events'[j] = 1 .. Len(events[j]) + 1
      /\ Len(events[j]) \in Nat
      /\ \A i \in 1 .. Len(events[j]) : events'[j][i] = events[j][i]
      /\ events'[j][Len(events[j]) + 1] = e
      /\ events'[j] # << >>
      /\ Len(events'[j]) = Len(events[j]) + 1
  BY <1>4, <1>5
<1>7. \A i \in 1 .. Len(events[j]) : events[j][i].attempt \in Nat
  BY <1>6, EntryType
<1>8. events'[j][Len(events'[j])].stage = s
  BY <1>6 DEF e
<1> QED
  BY <1>4, <1>6, <1>7, <1>8 DEF e

\* Steps that append nothing and do not grant the lease.
LEMMA LogKept ==
  ASSUME TypeOK, LogInv, UNCHANGED <<events, attemptCount>>,
         \A j \in Jobs : lockedBy'[j] \in {lockedBy[j], NoWorker}
  PROVE  LogInv'
  BY DEF LogInv, LogBounded, CancelledIsOld, FencedLog, ForceCancelEndsAttempt

LEMMA LogClaimed ==
  ASSUME TypeOK, LogInv, NEW j \in Jobs, NEW w \in Workers, Claimed(j, w)
  PROVE  LogInv'
<1>1. \A k \in Jobs : attemptCount[k] \in Nat
  BY DEF TypeOK, RowType
<1>2. /\ UNCHANGED events
      /\ attemptCount'[j] = attemptCount[j] + 1
      /\ \A k \in Jobs : k # j => attemptCount'[k] = attemptCount[k] /\ lockedBy'[k] = lockedBy[k]
  BY DEF Claimed, Acquire, TypeOK, RowType
<1>3. \A k \in Jobs : \A i \in DOMAIN events[k] : events[k][i].attempt \in Nat
  BY EntryType
<1>4. LogBounded'
  BY <1>1, <1>2, <1>3 DEF LogInv, LogBounded
<1>5. CancelledIsOld'
  BY <1>1, <1>2, <1>3 DEF LogInv, LogBounded, CancelledIsOld
<1>6. FencedLog' /\ ForceCancelEndsAttempt'
  BY <1>2 DEF LogInv, FencedLog, ForceCancelEndsAttempt
<1> QED
  BY <1>4, <1>5, <1>6 DEF LogInv

\* An entry of the current attempt keeps the log fenced; after an entry that
\* is not force_cancelled the job has an owner, after one that is it has none.
LEMMA LogAppended ==
  ASSUME TypeOK, LogInv, NEW j \in Jobs, NEW s \in Stages,
         AddEvent(j, s, attemptCount[j]),
         UNCHANGED attemptCount,
         \A k \in Jobs : lockedBy'[k] \in {lockedBy[k], NoWorker},
         s # "force_cancelled" => lockedBy[j] # NoWorker,
         s = "force_cancelled" => lockedBy'[j] = NoWorker
  PROVE  LogInv'
<1> DEFINE n == Len(events[j])
<1>1. attemptCount[j] \in Nat
  BY DEF TypeOK, RowType
<1>2. /\ \A k \in Jobs : k # j => events'[k] = events[k]
      /\ DOMAIN events[j] = 1 .. n
      /\ DOMAIN events'[j] = 1 .. n + 1
      /\ n \in Nat
      /\ \A i \in 1 .. n : events'[j][i] = events[j][i]
      /\ events'[j][n + 1] = [stage |-> s, attempt |-> attemptCount[j]]
      /\ \A i \in 1 .. n : events[j][i].attempt \in Nat
  BY <1>1, Appended
<1> HIDE DEF n
<1>3. /\ events'[j][n + 1].stage = s
      /\ events'[j][n + 1].attempt = attemptCount[j]
  BY <1>2
<1>4. \A i \in 1 .. n + 1 : i \in 1 .. n \/ i = n + 1
  BY <1>2
<1>5. LogBounded'
  BY <1>1, <1>2, <1>3, <1>4 DEF LogInv, LogBounded
<1>6. CancelledIsOld'
  BY <1>1, <1>2, <1>3, <1>4 DEF LogInv, CancelledIsOld
<1>7. FencedLog'
  <2> SUFFICES ASSUME NEW k \in Jobs, NEW a \in DOMAIN events'[k], NEW b \in DOMAIN events'[k], a < b
               PROVE  events'[k][a].attempt <= events'[k][b].attempt
    BY DEF FencedLog
  <2>1. CASE k # j \/ b \in 1 .. n
    BY <1>2, <1>4, <2>1 DEF LogInv, FencedLog
  <2>2. CASE k = j /\ b = n + 1
    <3>1. a \in 1 .. n
      BY <1>2, <2>2
    <3> QED
      BY <1>1, <1>2, <1>3, <2>2, <3>1 DEF LogInv, LogBounded
  <2> QED
    BY <1>2, <1>4, <2>1, <2>2
<1>8. ForceCancelEndsAttempt'
  <2> SUFFICES ASSUME NEW k \in Jobs, NEW a \in DOMAIN events'[k], NEW b \in DOMAIN events'[k], a < b,
                      events'[k][a].stage = "force_cancelled",
                      events'[k][b].stage # "force_cancelled"
               PROVE  events'[k][a].attempt < events'[k][b].attempt
    BY DEF ForceCancelEndsAttempt
  <2>1. CASE k # j \/ b \in 1 .. n
    BY <1>2, <1>4, <2>1 DEF LogInv, ForceCancelEndsAttempt
  <2>2. CASE k = j /\ b = n + 1
    <3>1. a \in 1 .. n
      BY <1>2, <2>2
    <3>2. events[j][a].stage = "force_cancelled" /\ lockedBy[j] # NoWorker
      BY <1>2, <1>3, <2>2, <3>1
    <3> QED
      BY <1>2, <1>3, <2>2, <3>1, <3>2 DEF LogInv, CancelledIsOld
  <2> QED
    BY <1>2, <1>4, <2>1, <2>2
<1> QED
  BY <1>5, <1>6, <1>7, <1>8 DEF LogInv

LEMMA LogStep ==
  ASSUME TypeOK, TermsInv, LogInv, [Next]_vars
  PROVE  LogInv'
<1>1. CASE Quiet
  BY <1>1, LogKept DEF Quiet, rowVars
<1>2. ASSUME NEW w \in Workers, Moved(w) PROVE LogInv'
  BY <1>2, LogKept DEF Moved, rowVars
<1>3. ASSUME NEW w \in Workers, NEW j \in Jobs, Claimed(j, w) PROVE LogInv'
  BY <1>3, LogClaimed
<1>4. ASSUME NEW w \in Workers, NEW s \in WorkerStages, Logged(w, s) PROVE LogInv'
  <2>1. term[w] = attemptCount[job[w]]
    BY <1>4 DEF Logged, TermsInv, TermsFenced
  <2>2. s \in Stages /\ s # "force_cancelled"
    BY DEF WorkerStages, Stages
  <2> QED
    BY <1>4, <2>1, <2>2, LogAppended, NoWorkerAssumption DEF Logged
<1>5. ASSUME NEW w \in Workers, NEW s \in Releases, Vacated(w, s) PROVE LogInv'
  BY <1>5, LogKept DEF Vacated, Unlock, TypeOK, RowType
<1>6. ASSUME NEW j \in Jobs, NEW b, Flagged(j, b) PROVE LogInv'
  BY <1>6, LogKept DEF Flagged
<1>7. ASSUME NEW j \in Jobs, Revoked(j) PROVE LogInv'
  BY <1>7, LogAppended DEF Revoked, Unlock, Stages, TypeOK, RowType
<1>8. ASSUME NEW j \in Jobs, NEW s, Restated(j, s) PROVE LogInv'
  BY <1>8, LogKept DEF Restated, SetStatus
<1> QED
  BY <1>1, <1>2, <1>3, <1>4, <1>5, <1>6, <1>7, <1>8, StepKinds DEF SlotKind, ApiKind
-----------------------------------------------------------------------------
(* Statuses: which of them have an owner, and which outcomes are logged. *)

OutcomeLabels == {"finish", "cancelRelease"}

\* A slot about to release has a job, so a write to another job's row or by
\* another owner does not concern it.
LEMMA OutcomeKept ==
  ASSUME TypeOK, OutcomeRecorded,
         \A v \in Workers : pc'[v] \in OutcomeLabels =>
           \/ lockedBy'[job'[v]] # v
           \/ /\ pc'[v] = pc[v] /\ job'[v] = job[v]
              /\ lockedBy'[job[v]] = lockedBy[job[v]]
              /\ events'[job[v]] = events[job[v]]
  PROVE  OutcomeRecorded'
  BY DEF OutcomeRecorded, OutcomeLabels, LastStage

LEMMA OutcomeJob ==
  ASSUME TypeOK, NEW v \in Workers, pc[v] \in OutcomeLabels
  PROVE  job[v] \in Jobs
  BY DEF TypeOK, SlotType, OutcomeLabels

LEMMA StatusKept ==
  ASSUME TypeOK, StatusInv, UNCHANGED rowVars,
         SlotsKept \/ \E w \in Workers : Moved(w)
  PROVE  StatusInv'
<1>1. LeaseShape' /\ RunningHasLease' /\ OutcomeLogged'
  BY DEF StatusInv, LeaseShape, RunningHasLease, OutcomeLogged, rowVars
<1>2. CASE SlotsKept
  BY <1>1, <1>2, OutcomeKept DEF StatusInv, SlotsKept, rowVars
<1>3. ASSUME NEW w \in Workers, Moved(w) PROVE OutcomeRecorded'
  <2>1. pc'[w] \in OutcomeLabels => lockedBy'[job'[w]] # w
    BY <1>3 DEF Moved, Moves, rowVars, OutcomeLabels, Running, Executing
  <2>2. \A v \in Workers : v # w => pc'[v] = pc[v] /\ job'[v] = job[v]
    BY <1>3 DEF Moved, Moves
  <2> QED
    BY <2>1, <2>2, OutcomeKept DEF StatusInv, rowVars
<1> QED
  BY <1>1, <1>2, <1>3 DEF StatusInv

LEMMA StatusClaimed ==
  ASSUME TypeOK, StatusInv, NEW j \in Jobs, NEW w \in Workers, Claimed(j, w)
  PROVE  StatusInv'
<1>1. /\ status'[j] = "running" /\ lockedBy'[j] = w /\ leaseExpired'[j] = FALSE
      /\ UNCHANGED events
      /\ \A k \in Jobs : k # j => /\ status'[k] = status[k] /\ lockedBy'[k] = lockedBy[k]
                                  /\ leaseExpired'[k] = leaseExpired[k]
  BY DEF Claimed, Acquire, TypeOK, RowType
<1>2. LeaseShape' /\ RunningHasLease'
  BY <1>1, NoWorkerAssumption DEF StatusInv, LeaseShape, RunningHasLease
<1>3. OutcomeLogged'
  BY <1>1 DEF StatusInv, OutcomeLogged
<1>4. OutcomeRecorded'
  <2>1. pc'[w] \notin OutcomeLabels
    BY DEF Claimed, OutcomeLabels
  <2>2. \A v \in Workers : v # w => pc'[v] = pc[v] /\ job'[v] = job[v]
    BY DEF Claimed
  <2> QED
    BY <1>1, <2>1, <2>2, OutcomeJob, OutcomeKept DEF StatusInv
<1> QED
  BY <1>2, <1>3, <1>4 DEF StatusInv

LEMMA StatusLogged ==
  ASSUME TypeOK, StatusInv, NEW w \in Workers, NEW s \in WorkerStages, Logged(w, s)
  PROVE  StatusInv'
<1> DEFINE j == job[w]
<1>1. j \in Jobs /\ lockedBy[j] = w /\ AddEvent(j, s, term[w]) /\ s \in Stages /\ term[w] \in Nat
  BY DEF Logged, WorkerStages, Stages, TypeOK, SlotType
<1>2. /\ UNCHANGED <<lockedBy, leaseExpired>>
      /\ status'[j] = s
      /\ \A k \in Jobs : k # j => status'[k] = status[k]
  BY <1>1 DEF Logged, TypeOK, RowType
<1>3. /\ \A k \in Jobs : k # j => events'[k] = events[k]
      /\ events'[j] # << >>
      /\ events'[j][Len(events'[j])].stage = s
  BY <1>1, Appended
<1> HIDE DEF j
<1>4. LeaseShape' /\ RunningHasLease'
  BY <1>1, <1>2, NoWorkerAssumption DEF StatusInv, LeaseShape, RunningHasLease, WorkerStages
<1>5. OutcomeLogged'
  BY <1>1, <1>2, <1>3 DEF StatusInv, OutcomeLogged
<1>6. OutcomeRecorded'
  <2> SUFFICES ASSUME NEW v \in Workers, pc'[v] \in OutcomeLabels, lockedBy'[job'[v]] = v
               PROVE  /\ events'[job'[v]] # << >>
                      /\ pc'[v] = "finish" =>
                           events'[job'[v]][Len(events'[job'[v]])].stage = "completed"
                      /\ pc'[v] = "cancelRelease" =>
                           events'[job'[v]][Len(events'[job'[v]])].stage = "cancelled"
    BY DEF OutcomeRecorded, OutcomeLabels, LastStage
  <2>1. CASE v = w
    <3>1. job'[w] = j
      BY <2>1 DEF Logged, Moves, Running, Executing, OutcomeLabels, j
    <3> QED
      BY <1>3, <2>1, <3>1 DEF Logged, LastStage
  <2>2. CASE v # w
    <3>1. pc'[v] = pc[v] /\ job'[v] = job[v]
      BY <2>2 DEF Logged, Moves
    <3>2. job[v] \in Jobs /\ job[v] # j
      BY <1>1, <1>2, <2>2, <3>1, OutcomeJob
    <3> QED
      BY <1>2, <1>3, <3>1, <3>2 DEF StatusInv, OutcomeRecorded, LastStage, OutcomeLabels
  <2> QED
    BY <2>1, <2>2
<1> QED
  BY <1>4, <1>5, <1>6 DEF StatusInv

LEMMA StatusVacated ==
  ASSUME TypeOK, StatusInv, NEW w \in Workers, NEW s \in Releases, Vacated(w, s)
  PROVE  StatusInv'
<1> DEFINE j == job[w]
<1>1. /\ j \in Jobs /\ UNCHANGED events
      /\ status'[j] = s /\ lockedBy'[j] = NoWorker /\ leaseExpired'[j] = FALSE
      /\ \A k \in Jobs : k # j => /\ status'[k] = status[k] /\ lockedBy'[k] = lockedBy[k]
                                  /\ leaseExpired'[k] = leaseExpired[k]
  BY DEF Vacated, Unlock, TypeOK, RowType
<1>2. s \in {"completed", "cancelled"} => events[j] # << >> /\ LastStage(j) = s
  BY DEF Vacated, StatusInv, OutcomeRecorded
<1> HIDE DEF j
<1>3. LeaseShape' /\ RunningHasLease'
  BY <1>1 DEF StatusInv, LeaseShape, RunningHasLease, Releases
<1>4. OutcomeLogged'
  BY <1>1, <1>2 DEF StatusInv, OutcomeLogged, LastStage, Releases
<1>5. OutcomeRecorded'
  <2>1. pc'[w] \notin OutcomeLabels
    BY DEF Vacated, OutcomeLabels
  <2>2. \A v \in Workers : v # w => pc'[v] = pc[v] /\ job'[v] = job[v]
    BY DEF Vacated, Moves
  <2> QED
    BY <1>1, <2>1, <2>2, OutcomeJob, OutcomeKept, NoWorkerAssumption DEF StatusInv
<1> QED
  BY <1>3, <1>4, <1>5 DEF StatusInv

LEMMA StatusApi ==
  ASSUME TypeOK, StatusInv, NEW j \in Jobs,
         Revoked(j) \/ (\E s \in ApiStatuses : Restated(j, s)) \/ (\E b \in BOOLEAN : Flagged(j, b))
  PROVE  StatusInv'
<1> USE DEF SlotsKept
<1>1. CASE Revoked(j)
  <2>1. attemptCount[j] \in Nat /\ "force_cancelled" \in Stages
    BY DEF TypeOK, RowType, Stages
  <2>2. /\ \A k \in Jobs : k # j => events'[k] = events[k]
        /\ events'[j] # << >>
        /\ events'[j][Len(events'[j])].stage = "force_cancelled"
    BY <1>1, <2>1, Appended DEF Revoked
  <2>3. /\ status'[j] = "force_cancelled" /\ lockedBy'[j] = NoWorker /\ leaseExpired'[j] = FALSE
        /\ \A k \in Jobs : k # j => /\ status'[k] = status[k] /\ lockedBy'[k] = lockedBy[k]
                                    /\ leaseExpired'[k] = leaseExpired[k]
    BY <1>1 DEF Revoked, Unlock, TypeOK, RowType
  <2>4. LeaseShape' /\ RunningHasLease'
    BY <2>3 DEF StatusInv, LeaseShape, RunningHasLease
  <2>5. OutcomeLogged'
    BY <2>2, <2>3 DEF StatusInv, OutcomeLogged
  <2>6. OutcomeRecorded'
    BY <1>1, <2>2, <2>3, OutcomeJob, OutcomeKept, NoWorkerAssumption DEF StatusInv, Revoked
  <2> QED
    BY <2>4, <2>5, <2>6 DEF StatusInv
<1>2. ASSUME NEW s \in ApiStatuses, Restated(j, s) PROVE StatusInv'
  <2>1. /\ UNCHANGED <<lockedBy, leaseExpired, events>>
        /\ status'[j] = s
        /\ \A k \in Jobs : k # j => status'[k] = status[k]
    BY <1>2 DEF Restated, SetStatus, TypeOK, RowType
  <2>2. s \in {"absent", "uncommitted", "pending", "cancelling", "working", "failed"}
    BY PatchAssumption DEF ApiStatuses
  <2>3. s \in {"absent", "uncommitted", "pending"} => lockedBy[j] = NoWorker
    BY <1>2, PatchAssumption DEF Restated, StatusInv, LeaseShape
  <2>4. LeaseShape' /\ RunningHasLease'
    BY <2>1, <2>2, <2>3 DEF StatusInv, LeaseShape, RunningHasLease
  <2>5. OutcomeLogged'
    BY <2>1, <2>2 DEF StatusInv, OutcomeLogged
  <2>6. OutcomeRecorded'
    BY <1>2, <2>1, OutcomeKept DEF StatusInv, Restated
  <2> QED
    BY <2>4, <2>5, <2>6 DEF StatusInv
<1>3. ASSUME NEW b \in BOOLEAN, Flagged(j, b) PROVE StatusInv'
  <2>1. LeaseShape' /\ RunningHasLease' /\ OutcomeLogged'
    BY <1>3 DEF Flagged, StatusInv, LeaseShape, RunningHasLease, OutcomeLogged, TypeOK, RowType
  <2>2. OutcomeRecorded'
    BY <1>3, OutcomeKept DEF StatusInv, Flagged
  <2> QED
    BY <2>1, <2>2 DEF StatusInv
<1> QED
  BY <1>1, <1>2, <1>3

LEMMA StatusStep ==
  ASSUME TypeOK, StatusInv, [Next]_vars
  PROVE  StatusInv'
<1>1. CASE Quiet
  BY <1>1, StatusKept DEF Quiet
<1>2. ASSUME NEW w \in Workers, Moved(w) PROVE StatusInv'
  BY <1>2, StatusKept DEF Moved
<1> QED
  BY <1>1, <1>2, StatusClaimed, StatusLogged, StatusVacated, StatusApi, StepKinds
     DEF SlotKind, ApiKind

-----------------------------------------------------------------------------

LEMMA InitInv == Init => IInv
  BY InitType DEF Init, IInv, TermsFenced, DistinctTerms, Running, Executing, LogInv,
       LogBounded, CancelledIsOld, FencedLog, ForceCancelEndsAttempt, StatusInv,
       LeaseShape, RunningHasLease, OutcomeRecorded, OutcomeLogged

LEMMA NextInv == IInv /\ [Next]_vars => IInv'
  BY NextType, TermsStep, LogStep, StatusStep DEF IInv, TermsInv

\* The strengthening that carries the theorems below holds in every reachable state.
THEOREM Inductive == Spec => []IInv
  BY InitInv, NextInv, PTL DEF Spec

\* acquire_job's takeover clause can apply to every running row: update_stage,
\* release and force_cancel never leave one without an owner.
THEOREM RunningRowsAreLeased == Spec => []RunningHasLease
<1>1. IInv => RunningHasLease
  BY DEF IInv, StatusInv
<1> QED
  BY <1>1, Inductive, PTL

\* Slots that run the same job at once run different attempts of it.
THEOREM AttemptsAreExclusive == Spec => []OneExecutionPerAttempt
<1>1. IInv => OneExecutionPerAttempt
  BY DEF IInv, DistinctTerms, OneExecutionPerAttempt, Running
<1> QED
  BY <1>1, Inductive, PTL

\* No slot writes a stage behind a later attempt's, whoever is slow.
THEOREM LogIsFenced == Spec => []FencedLog
<1>1. IInv => FencedLog
  BY DEF IInv, LogInv
<1> QED
  BY <1>1, Inductive, PTL

\* The attempt that enforce_cancel_deadline stopped writes nothing more.
THEOREM ForceCancelIsFinal == Spec => []ForceCancelEndsAttempt
<1>1. IInv => ForceCancelEndsAttempt
  BY DEF IInv, LogInv
<1> QED
  BY <1>1, Inductive, PTL

\* A status that ends the client's stream is also the last entry of the log.
THEOREM OutcomesAreLogged == Spec => []OutcomeLogged
<1>1. IInv => OutcomeLogged
  BY DEF IInv, StatusInv
<1> QED
  BY <1>1, Inductive, PTL

-----------------------------------------------------------------------------
(* Action properties, kind by kind. *)

LEMMA OwnersStep ==
  ASSUME IInv, [Next]_vars, NEW j \in Jobs, lockedBy[j] # NoWorker, ~leaseExpired[j]
  PROVE  lockedBy'[j] \in {lockedBy[j], NoWorker}
<1> USE DEF IInv, TypeOK, RowType
<1>1. CASE UNCHANGED lockedBy
  BY <1>1
<1>2. ASSUME NEW k \in Jobs, NEW w \in Workers, Claimed(k, w)
      PROVE  lockedBy'[j] = lockedBy[j]
  <2>1. k # j
    BY <1>2 DEF Claimed, Claimable, StatusInv, LeaseShape
  <2> QED
    BY <1>2, <2>1 DEF Claimed, Acquire
<1>3. ASSUME NEW w \in Workers, NEW s \in Releases, Vacated(w, s)
      PROVE  lockedBy'[j] \in {lockedBy[j], NoWorker}
  BY <1>3 DEF Vacated, Unlock
<1>4. ASSUME NEW k \in Jobs, Revoked(k)
      PROVE  lockedBy'[j] \in {lockedBy[j], NoWorker}
  BY <1>4 DEF Revoked, Unlock
<1> HIDE DEF RowType
<1> QED
  BY <1>1, <1>2, <1>3, <1>4, StepKinds
     DEF SlotKind, ApiKind, Quiet, Moved, Logged, Restated, SetStatus, Flagged, rowVars

\* Two workers never fight over a live lease: acquire_job and
\* acquire_job_by_id take a job over only after its lease ran out.
THEOREM LeasesAreNotStolen == Spec => LeaseNotStolen
<1>1. IInv /\ [Next]_vars =>
        [\A j \in Jobs :
           lockedBy[j] # NoWorker /\ ~leaseExpired[j] =>
             lockedBy'[j] \in {lockedBy[j], NoWorker}]_vars
  BY OwnersStep
<1> QED
  BY <1>1, Inductive, PTL DEF Spec, LeaseNotStolen

LEMMA FinishedStep ==
  ASSUME IInv, [Next]_vars, NEW j \in Jobs, status[j] \in Finished, lockedBy[j] = NoWorker
  PROVE  status'[j] \in {status[j], "cancelling", "retrying"} \cup PatchStatuses
<1> USE DEF IInv, TypeOK, RowType
<1>1. CASE UNCHANGED status
  BY <1>1
<1>2. ASSUME NEW k \in Jobs, NEW w \in Workers, Claimed(k, w)
      PROVE  status'[j] = status[j]
  <2>1. k # j
    BY <1>2 DEF Claimed, Claimable, Finished
  <2> QED
    BY <1>2, <2>1 DEF Claimed, Acquire
<1>3. ASSUME NEW w \in Workers, NEW s \in WorkerStages, Logged(w, s)
      PROVE  status'[j] = status[j]
  <2>1. job[w] # j
    BY <1>3, NoWorkerAssumption DEF Logged
  <2> QED
    BY <1>3, <2>1 DEF Logged
<1>4. ASSUME NEW w \in Workers, NEW s \in Releases, Vacated(w, s)
      PROVE  status'[j] \in {status[j], "retrying"}
  BY <1>4, NoWorkerAssumption DEF Vacated, Unlock
<1>5. ASSUME NEW k \in Jobs, Revoked(k)
      PROVE  status'[j] = status[j]
  <2>1. k # j
    BY <1>5 DEF Revoked, Finished
  <2> QED
    BY <1>5, <2>1 DEF Revoked, Unlock
<1>6. ASSUME NEW k \in Jobs, NEW s \in ApiStatuses, Restated(k, s)
      PROVE  status'[j] \in {status[j], "cancelling"} \cup PatchStatuses
  <2>1. CASE k # j
    BY <1>6, <2>1 DEF Restated, SetStatus
  <2>2. CASE k = j
    <3>1. status[j] \notin {"absent", "uncommitted"}
      BY DEF Finished
    <3> QED
      BY <1>6, <2>2, <3>1 DEF Restated, SetStatus
  <2> QED
    BY <2>1, <2>2
<1> HIDE DEF RowType
<1> QED
  BY <1>1, <1>2, <1>3, <1>4, <1>5, <1>6, StepKinds
     DEF SlotKind, ApiKind, Quiet, Moved, Flagged, rowVars

\* A slow slot cannot revive a job that finished without it.
THEOREM FinishedStaysFinished == Spec => FinishedNotRevived
<1>1. IInv /\ [Next]_vars =>
        [\A j \in Jobs :
           status[j] \in Finished /\ lockedBy[j] = NoWorker =>
             status'[j] \in {status[j], "cancelling", "retrying"} \cup PatchStatuses]_vars
  BY FinishedStep
<1> QED
  BY <1>1, Inductive, PTL DEF Spec, FinishedNotRevived

-----------------------------------------------------------------------------
(* The rows implement FencedLease, kind by kind. *)

LEMMA LeaseInit == Init => Lease!Init
  BY DEF Init, Lease!Init

LEMMA LeaseStep ==
  ASSUME IInv, [Next]_vars
  PROVE  [Lease!Next]_(Lease!leaseVars)
<1> DEFINE Abstract == Lease!Next \/ UNCHANGED <<lockedBy, leaseExpired, attemptCount, events>>
<1>1. ASSUME NEW w \in Workers, NEW j \in Jobs, Claimed(j, w) PROVE Abstract
  <2>1. lockedBy[j] = NoWorker \/ leaseExpired[j]
    BY <1>1 DEF Claimed, Claimable, IInv, StatusInv, LeaseShape
  <2>2. Lease!Grant(j, w)
    BY <1>1, <2>1 DEF Claimed, Acquire, Lease!Grant
  <2> QED
    BY <2>2 DEF Lease!Next
<1>2. ASSUME NEW w \in Workers, NEW s \in WorkerStages, Logged(w, s) PROVE Abstract
  <2>1. term[w] = attemptCount[job[w]] /\ lockedBy[job[w]] # NoWorker /\ job[w] \in Jobs
    BY <1>2, NoWorkerAssumption DEF Logged, IInv, TermsFenced
  <2>2. Lease!Record(job[w], s)
    BY <1>2, <2>1 DEF Logged, AddEvent, Lease!Record
  <2>3. s \in Stages
    BY DEF WorkerStages, Stages
  <2> QED
    BY <2>1, <2>2, <2>3 DEF Lease!Next
<1>3. ASSUME NEW w \in Workers, NEW s \in Releases, Vacated(w, s) PROVE Abstract
  <2>1. Lease!Vacate(job[w]) /\ job[w] \in Jobs
    BY <1>3 DEF Vacated, Unlock, Lease!Vacate
  <2> QED
    BY <2>1 DEF Lease!Next
<1>4. ASSUME NEW j \in Jobs, Revoked(j) PROVE Abstract
  <2>1. Lease!Revoke(j, "force_cancelled") /\ "force_cancelled" \in Stages
    BY <1>4 DEF Revoked, Unlock, AddEvent, Stages, Lease!Revoke
  <2> QED
    BY <2>1 DEF Lease!Next
<1>5. ASSUME NEW j \in Jobs, NEW b \in BOOLEAN, Flagged(j, b) PROVE Abstract
  <2>1. CASE b = FALSE
    <3>1. Lease!Renew(j)
      BY <1>5, <2>1 DEF Flagged, Lease!Renew
    <3> QED
      BY <3>1 DEF Lease!Next
  <2>2. CASE b = TRUE
    <3>1. Lease!Expire(j)
      BY <1>5, <2>2 DEF Flagged, Lease!Expire
    <3> QED
      BY <3>1 DEF Lease!Next
  <2> QED
    BY <2>1, <2>2
<1>6. ASSUME Quiet PROVE Abstract
  BY <1>6 DEF Quiet, rowVars
<1>7. ASSUME NEW w \in Workers, Moved(w) PROVE Abstract
  BY <1>7 DEF Moved, rowVars
<1>8. ASSUME NEW j \in Jobs, NEW s \in ApiStatuses, Restated(j, s) PROVE Abstract
  BY <1>8 DEF Restated, SetStatus
<1> HIDE DEF Abstract
<1>9. Abstract
  BY <1>1, <1>2, <1>3, <1>4, <1>5, <1>6, <1>7, <1>8, StepKinds DEF IInv, SlotKind, ApiKind
<1> QED
  BY <1>9 DEF Abstract, Lease!leaseVars

\* The planning_jobs rows and their event log implement a fenced lease: it is
\* granted only while vacant or expired, every grant opens a new term, and only
\* the current term appends to the log.
THEOREM RowsImplementLease == Spec => RefinesLease
  BY LeaseInit, LeaseStep, Inductive, PTL DEF Spec, RefinesLease, Lease!Spec
=============================================================================
