------------------------- MODULE SqlExecutionQueue -------------------------
(***************************************************************************)
(* The bounded SQL execution queue of the agent:                           *)
(* lib/application/queue/sql_execution_queue.dart and the parts under      *)
(* lib/application/queue/sql_execution/.                                   *)
(*                                                                         *)
(* The program runs on one Dart isolate.  Code between two awaits runs to  *)
(* completion, so an action is the code between two awaits.  The two       *)
(* synchronous loops, _processQueue and the flush in dispose, take one     *)
(* action for each iteration; the variable loop is not "idle" while one of *)
(* them runs and nothing else can run then.                                *)
(*                                                                         *)
(* Timers fire only when no microtask is pending.  A future that has been  *)
(* completed therefore disarms the timeout of the await on it, which is    *)
(* why the timeout actions require their completer to be pending.          *)
(***************************************************************************)
EXTENDS SqlQueueLanes, DartQueue

CONSTANTS
  MaxQueueSize,        \* maxQueueSize
  MaxWorkers,          \* maxConcurrentWorkers
  Tokens,              \* the cooperative cancellation tokens of the callers
  NoToken,             \* a request submitted without a token
  Token,               \* the token of each request
  Releasable,          \* the requests of submitWithReleasableWorker
  Waiters,             \* the callers of waitForActiveWorkers
  Operations,          \* the maintenance operations
  NoOperation          \* _maintenanceOperation == null

ASSUME QueueConstants ==
  /\ MaxQueueSize \in Nat \ {0}
  /\ MaxWorkers \in Nat \ {0}
  /\ NoToken \notin Tokens
  /\ Token \in [Requests -> Tokens \cup {NoToken}]
  /\ Releasable \subseteq Requests
  /\ NoOperation \notin Operations

VARIABLES
  \* SqlExecutionLaneRegistry
  queues,              \* the queue of each lane
  queuedCount,
  lastServed,          \* lastServedLaneIndex
  \* SqlExecutionLaneCapacity
  activeWorkers,
  laneActive,          \* activeBatchWorkers, activeLongQueryWorkers, ...
  \* SqlExecutionQueuedRequest, one function for each field
  hasStarted,
  isCancelled,
  workerSlotReleased,
  startedCompleter,    \* startedCompleter.isCompleted
  completer,           \* "pending" or what completer was completed with
  \* the callers of submit and the tasks they submitted
  caller,              \* "new", "waiting" or what submit returned
  task,                \* "idle", "running" or "settled"
  abortRequested,      \* abortInFlightExecution was called for these requests
  cancelled,           \* the tokens that are cancelled
  cancelEvents,        \* cancellation events on their way to a subscription
  \* SqlExecutionQueue
  disposed,
  maintenance,         \* _maintenanceOperation
  drained,             \* _drainedCompleter
  shutdown,            \* the caller of disposeGracefully
  idleWaiter,          \* the callers of waitForActiveWorkers
  saturated,           \* reportedSaturation70, reportedSaturation90
  loop                 \* the synchronous loop that is running

laneVars == <<queues, queuedCount, lastServed>>
capacityVars == <<activeWorkers, laneActive>>
requestVars == <<hasStarted, isCancelled, workerSlotReleased, startedCompleter, completer>>
tokenVars == <<cancelled, cancelEvents>>
shutdownVars == <<disposed, drained, shutdown>>

vars == <<laneVars, capacityVars, requestVars, caller, task, abortRequested, tokenVars,
          shutdownVars, maintenance, idleWaiter, saturated, loop>>

-----------------------------------------------------------------------------

Rejections == {"maintenance", "disposedRejected", "full", "invalidWeight", "cancelledRejected"}

Outcomes == {"result", "unexpectedError", "cancelledBeforeStart", "disposedWhileQueued"}

Thresholds == {70, 90}

TypeOK ==
  /\ queues \in [LaneKinds -> Seq(Requests)]
  /\ queuedCount \in Nat
  /\ lastServed \in LaneIndexes \cup {-1}
  /\ activeWorkers \in Nat
  /\ laneActive \in [CappedLanes -> Nat]
  /\ hasStarted \in [Requests -> BOOLEAN]
  /\ isCancelled \in [Requests -> BOOLEAN]
  /\ workerSlotReleased \in [Requests -> BOOLEAN]
  /\ startedCompleter \in [Requests -> BOOLEAN]
  /\ completer \in [Requests -> Outcomes \cup {"pending"}]
  /\ caller \in [Requests -> {"new", "waiting", "timeout"} \cup Rejections \cup Outcomes]
  /\ task \in [Requests -> {"idle", "running", "settled"}]
  /\ abortRequested \subseteq Requests
  /\ cancelled \subseteq Tokens
  /\ cancelEvents \subseteq Requests
  /\ disposed \in BOOLEAN
  /\ maintenance \in Operations \cup {NoOperation}
  /\ drained \in {"absent", "pending", "complete"}
  /\ shutdown \in {"none", "waiting", "success", "timeout"}
  /\ idleWaiter \in [Waiters -> {"none", "waiting", "released", "success", "timeout"}]
  /\ saturated \subseteq Thresholds
  /\ loop \in {"idle", "process", "flush"}

Init ==
  /\ queues = [k \in LaneKinds |-> <<>>]
  /\ queuedCount = 0
  /\ lastServed = -1
  /\ activeWorkers = 0
  /\ laneActive = [k \in CappedLanes |-> 0]
  /\ hasStarted = [r \in Requests |-> FALSE]
  /\ isCancelled = [r \in Requests |-> FALSE]
  /\ workerSlotReleased = [r \in Requests |-> FALSE]
  /\ startedCompleter = [r \in Requests |-> FALSE]
  /\ completer = [r \in Requests |-> "pending"]
  /\ caller = [r \in Requests |-> "new"]
  /\ task = [r \in Requests |-> "idle"]
  /\ abortRequested = {}
  /\ cancelled = {}
  /\ cancelEvents = {}
  /\ disposed = FALSE
  /\ maintenance = NoOperation
  /\ drained = "absent"
  /\ shutdown = "none"
  /\ idleWaiter = [w \in Waiters |-> "none"]
  /\ saturated = {}
  /\ loop = "idle"

-----------------------------------------------------------------------------

\* The requests waiting in a lane.
Queued == UNION {Range(queues[k]) : k \in LaneKinds}

\* The requests that hold a worker slot.
Holders == {r \in Requests : hasStarted[r] /\ ~workerSlotReleased[r]}

IsTokenCancelled(r) == Token[r] \in cancelled

\* SqlExecutionQueueSaturationTracker.recordIfNeeded for n queued requests.
RecordSaturation(n) ==
  saturated' = {t \in Thresholds : n * 100 >= t * MaxQueueSize}

\* _completeDrainedIfIdle
CompleteDrainedIfIdle(active, queued) ==
  drained' = IF drained = "pending" /\ active = 0 /\ queued = 0 THEN "complete" ELSE drained

\* _completeActiveWorkerIdleWaitersIfNeeded
CompleteIdleWaitersIfNeeded(active) ==
  idleWaiter' = [w \in Waiters |->
                   IF active = 0 /\ idleWaiter[w] = "waiting" THEN "released" ELSE idleWaiter[w]]

\* completeFailure, and every other completion of completer: the first one wins.
Complete(r, outcome) ==
  completer' = [completer EXCEPT ![r] = IF @ = "pending" THEN outcome ELSE @]

\* SqlExecutionLaneRegistry.remove
RemoveQueued(r) ==
  /\ queues' = [queues EXCEPT ![Kind[r]] = Remove(@, r)]
  /\ queuedCount' = IF r \in Range(queues[Kind[r]]) THEN queuedCount - 1 ELSE queuedCount
  /\ UNCHANGED lastServed

\* Faulty removal: the rotation does not advance.
TakeHeadInPlace(i) ==
  LET k == LaneOrder[i + 1]
  IN  /\ queues' = [queues EXCEPT ![k] = Tail(@)]
      /\ queuedCount' = queuedCount - 1
      /\ UNCHANGED lastServed
      /\ RecordSaturation(queuedCount - 1)

\* The removal of the head of lane i, as takeNextEligible and takeNextQueued do it.
TakeHead(i) ==
  LET k == LaneOrder[i + 1]
  IN  /\ queues' = [queues EXCEPT ![k] = Tail(@)]
      /\ queuedCount' = queuedCount - 1
      /\ lastServed' = i
      /\ RecordSaturation(queuedCount - 1)

HeadOf(i) == Head(queues[LaneOrder[i + 1]])

NonEmptyLanes == {i \in LaneIndexes : queues[LaneOrder[i + 1]] # <<>>}

EligibleLanes == {i \in NonEmptyLanes : CanStart(HeadOf(i), laneActive)}

\* CancellationToken.cancel: the requests whose subscription to t is sent an
\* event, which arrives later.  A subscription ends when its wait does.
CancelEventsOf(t) ==
  IF t \in cancelled \cup {NoToken} THEN {}
  ELSE {r \in Requests : Token[r] = t /\ caller[r] = "waiting" /\ ~startedCompleter[r]}

\* What _releaseWorkerSlot does after its guard, but for the last call.
FreeSlot(r, active) ==
  /\ workerSlotReleased' = [workerSlotReleased EXCEPT ![r] = TRUE]
  /\ activeWorkers' = active
  /\ laneActive' = ReturnSlots(r, laneActive)
  /\ CompleteIdleWaitersIfNeeded(active)

\* Faulty _releaseWorkerSlot: the queue is not looked at again.
ReleaseWorkerSlotQuietly(r) ==
  IF workerSlotReleased[r]
    THEN UNCHANGED <<workerSlotReleased, capacityVars, drained, idleWaiter, loop>>
    ELSE /\ FreeSlot(r, activeWorkers - 1)
         /\ CompleteDrainedIfIdle(activeWorkers - 1, queuedCount)
         /\ UNCHANGED loop

\* Faulty _releaseWorkerSlot: shutdown is not told that the last worker left.
ReleaseWorkerSlotUndrained(r) ==
  IF workerSlotReleased[r]
    THEN UNCHANGED <<workerSlotReleased, capacityVars, drained, idleWaiter, loop>>
    ELSE /\ FreeSlot(r, activeWorkers - 1)
         /\ UNCHANGED drained
         /\ loop' = "process"

\* _releaseWorkerSlot: a second call does nothing.
ReleaseWorkerSlot(r) ==
  IF workerSlotReleased[r]
    THEN UNCHANGED <<workerSlotReleased, capacityVars, drained, idleWaiter, loop>>
    ELSE /\ FreeSlot(r, activeWorkers - 1)
         /\ CompleteDrainedIfIdle(activeWorkers - 1, queuedCount)
         /\ loop' = "process"

-----------------------------------------------------------------------------

\* The failure _admitSubmission or _runSubmittedRequest returns at once, or
\* "accepted"; internal is allowsInternalWork of the caller's zone.
Admission(r, internal) ==
  IF maintenance # NoOperation /\ ~internal THEN "maintenance"
  ELSE IF disposed THEN "disposedRejected"
  ELSE IF queuedCount >= MaxQueueSize THEN "full"
  ELSE IF ~ValidWeight(r) THEN "invalidWeight"
  ELSE IF IsTokenCancelled(r) THEN "cancelledRejected"
  ELSE "accepted"

\* submit and submitWithReleasableWorker, when the request is refused.
RejectSubmission(r, internal) ==
  /\ loop = "idle"
  /\ caller[r] = "new"
  /\ Admission(r, internal) # "accepted"
  /\ caller' = [caller EXCEPT ![r] = Admission(r, internal)]
  /\ UNCHANGED <<laneVars, capacityVars, requestVars, task, abortRequested, tokenVars,
                 shutdownVars, maintenance, idleWaiter, saturated, loop>>

\* submit and submitWithReleasableWorker, up to the await of startedCompleter:
\* the request joins its lane and _processQueue runs.
AcceptSubmission(r, internal) ==
  /\ loop = "idle"
  /\ caller[r] = "new"
  /\ Admission(r, internal) = "accepted"
  /\ caller' = [caller EXCEPT ![r] = "waiting"]
  /\ queues' = [queues EXCEPT ![Kind[r]] = Append(@, r)]
  /\ queuedCount' = queuedCount + 1
  /\ RecordSaturation(queuedCount + 1)
  /\ loop' = "process"
  /\ UNCHANGED <<lastServed, capacityVars, requestVars, task, abortRequested, tokenVars,
                 shutdownVars, maintenance, idleWaiter>>

\* Faulty cancellation: the caller is woken but its completer stays pending.
CancelBeforeStartUnanswered(r) ==
  /\ startedCompleter' = [startedCompleter EXCEPT ![r] = TRUE]
  /\ workerSlotReleased' = [workerSlotReleased EXCEPT ![r] = TRUE]
  /\ CompleteDrainedIfIdle(activeWorkers, queuedCount - 1)
  /\ CompleteIdleWaitersIfNeeded(activeWorkers)
  /\ UNCHANGED <<capacityVars, hasStarted, task, completer>>

\* _executeTask when the token was cancelled meanwhile: the reserved slot is
\* released again at once, so the counters end where they were.
CancelBeforeStart(r) ==
  /\ startedCompleter' = [startedCompleter EXCEPT ![r] = TRUE]
  /\ Complete(r, "cancelledBeforeStart")
  /\ workerSlotReleased' = [workerSlotReleased EXCEPT ![r] = TRUE]
  /\ CompleteDrainedIfIdle(activeWorkers, queuedCount - 1)
  /\ CompleteIdleWaitersIfNeeded(activeWorkers)
  /\ UNCHANGED <<capacityVars, hasStarted, task>>

\* Faulty start: the start is not signalled before the task is invoked.
StartTaskUnsignalled(r) ==
  /\ activeWorkers' = activeWorkers + 1
  /\ laneActive' = TakeSlots(r, laneActive)
  /\ hasStarted' = [hasStarted EXCEPT ![r] = TRUE]
  /\ task' = [task EXCEPT ![r] = "running"]
  /\ UNCHANGED <<startedCompleter, workerSlotReleased, completer, drained, idleWaiter>>

\* _executeTask up to the call of the task: the start is signalled before the
\* task is invoked.
StartTask(r) ==
  /\ activeWorkers' = activeWorkers + 1
  /\ laneActive' = TakeSlots(r, laneActive)
  /\ hasStarted' = [hasStarted EXCEPT ![r] = TRUE]
  /\ startedCompleter' = [startedCompleter EXCEPT ![r] = TRUE]
  /\ task' = [task EXCEPT ![r] = "running"]
  /\ UNCHANGED <<workerSlotReleased, completer, drained, idleWaiter>>

\* One iteration of _processQueue that takes a request.
ProcessQueueStep ==
  /\ loop = "process"
  /\ activeWorkers < MaxWorkers
  /\ queuedCount > 0
  /\ EligibleLanes # {}
  /\ LET i == NextLane(EligibleLanes, lastServed)
         r == HeadOf(i)
     IN  /\ TakeHead(i)
         /\ IF isCancelled[r] \/ completer[r] # "pending"
              THEN UNCHANGED <<capacityVars, hasStarted, startedCompleter, completer,
                               workerSlotReleased, task, drained, idleWaiter>>
              ELSE IF IsTokenCancelled(r) THEN CancelBeforeStart(r) ELSE StartTask(r)
  /\ UNCHANGED <<isCancelled, caller, abortRequested, tokenVars, disposed, shutdown,
                 maintenance, loop>>

\* The end of _processQueue: no free worker, nothing queued or no lane head
\* that may start.
ProcessQueueExit ==
  /\ loop = "process"
  /\ \/ activeWorkers >= MaxWorkers
     \/ queuedCount = 0
     \/ EligibleLanes = {}
  /\ loop' = "idle"
  /\ UNCHANGED <<laneVars, capacityVars, requestVars, caller, task, abortRequested,
                 tokenVars, shutdownVars, maintenance, idleWaiter, saturated>>

-----------------------------------------------------------------------------

\* A streaming task gives its worker slot back and goes on running.
TaskReleasesWorker(r) ==
  /\ loop = "idle"
  /\ r \in Releasable
  /\ task[r] = "running"
  /\ ~workerSlotReleased[r]
  /\ ReleaseWorkerSlot(r)
  /\ UNCHANGED <<laneVars, hasStarted, isCancelled, startedCompleter, completer, caller, task,
                 abortRequested, tokenVars, disposed, shutdown, maintenance, saturated>>

\* _executeTask after the await of the task: the task returned a result (a
\* failure included) or threw.
TaskSettles(r, outcome) ==
  /\ loop = "idle"
  /\ task[r] = "running"
  /\ task' = [task EXCEPT ![r] = "settled"]
  /\ IF outcome = "result" /\ isCancelled[r]
       THEN UNCHANGED completer
       ELSE Complete(r, outcome)
  /\ ReleaseWorkerSlot(r)
  /\ UNCHANGED <<laneVars, hasStarted, isCancelled, startedCompleter, caller, abortRequested,
                 tokenVars, disposed, shutdown, maintenance, saturated>>

\* _runSubmittedRequest after its awaits: the caller gets the completer's value
\* and its subscription to the token is gone.
SubmitReturns(r) ==
  /\ loop = "idle"
  /\ caller[r] = "waiting"
  /\ startedCompleter[r]
  /\ completer[r] # "pending"
  /\ caller' = [caller EXCEPT ![r] = completer[r]]
  /\ cancelEvents' = cancelEvents \ {r}
  /\ UNCHANGED <<laneVars, capacityVars, requestVars, task, abortRequested, cancelled,
                 shutdownVars, maintenance, idleWaiter, saturated, loop>>

\* The queue-wait timer fires: completeQueueWaitTimeout.  The freed place in
\* the lane is not offered to _processQueue here.
QueueWaitTimeout(r) ==
  /\ loop = "idle"
  /\ caller[r] = "waiting"
  /\ ~startedCompleter[r]
  /\ isCancelled' = [isCancelled EXCEPT ![r] = TRUE]
  /\ cancelled' = cancelled \cup ({Token[r]} \ {NoToken})
  /\ cancelEvents' = (cancelEvents \cup CancelEventsOf(Token[r])) \ {r}
  /\ IF ~hasStarted[r]
       THEN /\ RemoveQueued(r)
            /\ RecordSaturation(queuedCount')
            /\ UNCHANGED abortRequested
       ELSE /\ abortRequested' = abortRequested \cup {r}
            /\ UNCHANGED <<laneVars, saturated>>
  /\ caller' = [caller EXCEPT ![r] = "timeout"]
  /\ UNCHANGED <<capacityVars, hasStarted, workerSlotReleased, startedCompleter, completer,
                 task, shutdownVars, maintenance, idleWaiter, loop>>

\* The owner of a token cancels it.
CancelToken(t) ==
  /\ loop = "idle"
  /\ t \notin cancelled
  /\ cancelled' = cancelled \cup {t}
  /\ cancelEvents' = cancelEvents \cup CancelEventsOf(t)
  /\ UNCHANGED <<laneVars, capacityVars, requestVars, caller, task, abortRequested,
                 shutdownVars, maintenance, idleWaiter, saturated, loop>>

\* A cancellation event reaches its subscription: _cancelWaitingRequest.
DeliverCancel(r) ==
  /\ loop = "idle"
  /\ r \in cancelEvents
  /\ cancelEvents' = cancelEvents \ {r}
  /\ IF hasStarted[r] \/ completer[r] # "pending" \/ r \notin Range(queues[Kind[r]])
       THEN UNCHANGED <<laneVars, requestVars, drained, saturated, loop>>
       ELSE /\ RemoveQueued(r)
            /\ isCancelled' = [isCancelled EXCEPT ![r] = TRUE]
            /\ startedCompleter' = [startedCompleter EXCEPT ![r] = TRUE]
            /\ Complete(r, "cancelledBeforeStart")
            /\ RecordSaturation(queuedCount - 1)
            /\ CompleteDrainedIfIdle(activeWorkers, queuedCount - 1)
            /\ loop' = "process"
            /\ UNCHANGED <<hasStarted, workerSlotReleased>>
  /\ UNCHANGED <<capacityVars, caller, task, abortRequested, cancelled, disposed, shutdown,
                 maintenance, idleWaiter>>

-----------------------------------------------------------------------------

\* dispose, called on its own; a second call finds nothing to do.
Dispose ==
  /\ loop = "idle"
  /\ ~disposed
  /\ disposed' = TRUE
  /\ loop' = "flush"
  /\ UNCHANGED <<laneVars, capacityVars, requestVars, caller, task, abortRequested, tokenVars,
                 drained, shutdown, maintenance, idleWaiter, saturated>>

\* disposeGracefully up to its await, for one caller.
DisposeGracefully ==
  /\ loop = "idle"
  /\ shutdown = "none"
  /\ shutdown' = "waiting"
  /\ drained' = "pending"
  /\ disposed' = TRUE
  /\ loop' = "flush"
  /\ UNCHANGED <<laneVars, capacityVars, requestVars, caller, task, abortRequested, tokenVars,
                 maintenance, idleWaiter, saturated>>

\* One iteration of the loop in dispose: _completeWithDisposalFailure.
FlushStep ==
  /\ loop = "flush"
  /\ queuedCount > 0
  /\ NonEmptyLanes # {}
  /\ LET i == NextLane(NonEmptyLanes, lastServed)
         r == HeadOf(i)
     IN  /\ TakeHead(i)
         /\ Complete(r, "disposedWhileQueued")
         /\ startedCompleter' =
              [startedCompleter EXCEPT ![r] = @ \/ (completer[r] = "pending" /\ ~hasStarted[r])]
  /\ UNCHANGED <<capacityVars, hasStarted, isCancelled, workerSlotReleased, caller, task,
                 abortRequested, tokenVars, shutdownVars, maintenance, idleWaiter, loop>>

\* The end of dispose.
FlushExit ==
  /\ loop = "flush"
  /\ queuedCount = 0 \/ NonEmptyLanes = {}
  /\ CompleteDrainedIfIdle(activeWorkers, queuedCount)
  /\ loop' = "idle"
  /\ UNCHANGED <<laneVars, capacityVars, requestVars, caller, task, abortRequested, tokenVars,
                 disposed, shutdown, maintenance, idleWaiter, saturated>>

\* disposeGracefully returns: drained, or its timer fired first.
ShutdownReturns ==
  /\ loop = "idle"
  /\ shutdown = "waiting"
  /\ shutdown' = IF drained = "complete" THEN "success" ELSE "timeout"
  /\ UNCHANGED <<laneVars, capacityVars, requestVars, caller, task, abortRequested, tokenVars,
                 disposed, drained, maintenance, idleWaiter, saturated, loop>>

\* waitForActiveWorkers up to its await.
WaitForActiveWorkers(w) ==
  /\ loop = "idle"
  /\ idleWaiter[w] = "none"
  /\ idleWaiter' = [idleWaiter EXCEPT ![w] = IF activeWorkers = 0 THEN "success" ELSE "waiting"]
  /\ UNCHANGED <<laneVars, capacityVars, requestVars, caller, task, abortRequested, tokenVars,
                 shutdownVars, maintenance, saturated, loop>>

\* waitForActiveWorkers after its await: its completer was completed, or the
\* timer fired before that.
IdleWaitReturns(w) ==
  /\ loop = "idle"
  /\ idleWaiter[w] \in {"waiting", "released"}
  /\ idleWaiter' = [idleWaiter EXCEPT ![w] = IF @ = "released" THEN "success" ELSE "timeout"]
  /\ UNCHANGED <<laneVars, capacityVars, requestVars, caller, task, abortRequested, tokenVars,
                 shutdownVars, maintenance, saturated, loop>>

\* pauseAdmissionForMaintenance; another operation's pause is refused.
PauseAdmission(op) ==
  /\ loop = "idle"
  /\ maintenance = NoOperation
  /\ maintenance' = op
  /\ UNCHANGED <<laneVars, capacityVars, requestVars, caller, task, abortRequested, tokenVars,
                 shutdownVars, idleWaiter, saturated, loop>>

\* resumeAdmissionAfterMaintenance, by the operation that paused.
ResumeAdmission(op) ==
  /\ loop = "idle"
  /\ maintenance = op
  /\ maintenance' = NoOperation
  /\ UNCHANGED <<laneVars, capacityVars, requestVars, caller, task, abortRequested, tokenVars,
                 shutdownVars, idleWaiter, saturated, loop>>

RequestStep(r) ==
  \/ \E internal \in BOOLEAN : RejectSubmission(r, internal) \/ AcceptSubmission(r, internal)
  \/ TaskReleasesWorker(r)
  \/ \E outcome \in {"result", "unexpectedError"} : TaskSettles(r, outcome)
  \/ SubmitReturns(r)
  \/ QueueWaitTimeout(r)
  \/ DeliverCancel(r)

LoopStep == ProcessQueueStep \/ ProcessQueueExit \/ FlushStep \/ FlushExit

LifecycleStep == Dispose \/ DisposeGracefully \/ ShutdownReturns

Next ==
  \/ \E r \in Requests : RequestStep(r)
  \/ \E t \in Tokens : CancelToken(t)
  \/ LoopStep
  \/ LifecycleStep
  \/ \E w \in Waiters : WaitForActiveWorkers(w) \/ IdleWaitReturns(w)
  \/ \E op \in Operations : PauseAdmission(op) \/ ResumeAdmission(op)

Spec == Init /\ [][Next]_vars

\* The event loop goes on: a synchronous loop runs to its end, timers fire,
\* microtasks run, and a task that was started settles.
Fairness ==
  /\ WF_vars(LoopStep)
  /\ \A r \in Requests :
       /\ WF_vars(SubmitReturns(r))
       /\ WF_vars(QueueWaitTimeout(r))
       /\ WF_vars(DeliverCancel(r))
       /\ WF_vars(\E outcome \in {"result", "unexpectedError"} : TaskSettles(r, outcome))
  /\ WF_vars(ShutdownReturns)
  /\ \A w \in Waiters : WF_vars(IdleWaitReturns(w))

FairSpec == Spec /\ Fairness

-----------------------------------------------------------------------------

\* The slots of lane k that the requests in H take, as pairs to be counted.
SlotSet(H, k) ==
  {s \in H \X (1 .. LaneCap[k]) : Kind[s[1]] = k /\ s[2] <= SlotsOf(s[1])}

(* The worker counters say exactly who holds a worker, and no cap is ever      *)
(* exceeded: neither by the queue's own reservations, nor after an early       *)
(* release of a streaming worker followed by the release at its end, nor after *)
(* a cancellation between reservation and start (sql_execution_lane_capacity). *)
CapacityExact ==
  /\ activeWorkers = Cardinality(Holders)
  /\ activeWorkers <= MaxWorkers
  /\ \A k \in CappedLanes :
       /\ laneActive[k] = Cardinality(SlotSet(Holders, k))
       /\ laneActive[k] <= LaneCap[k]

(* queuedCount, which admission and the loops rely on, counts exactly the      *)
(* requests in the lanes, stays within maxQueueSize, and every queued request  *)
(* still waits for an answer: a timed-out, cancelled or started request is in  *)
(* no lane (sql_execution_lane_registry, and the early returns of              *)
(* _cancelWaitingRequest and _processQueue).                                   *)
QueueExact ==
  /\ queuedCount = Cardinality(Queued)
  /\ queuedCount <= MaxQueueSize
  /\ \A k \in LaneKinds : Len(queues[k]) = Cardinality(Range(queues[k]))
  /\ \A r \in Queued :
       /\ caller[r] = "waiting"
       /\ completer[r] = "pending"
       /\ ~hasStarted[r] /\ ~isCancelled[r] /\ ~startedCompleter[r]

NotStarted ==
  Rejections \cup {"timeout", "cancelledBeforeStart", "disposedWhileQueued"}

(* A caller that was told its SQL did not start, by a timeout in the queue, a  *)
(* cancellation or a shutdown, can rely on it: the task was not invoked and    *)
(* never will be, so the abort of a ghost query is never needed                *)
(* (completeQueueWaitTimeout against the start signal in _executeTask).        *)
NoGhostQuery ==
  /\ abortRequested = {}
  /\ \A r \in Requests : caller[r] \in NotStarted => task[r] = "idle" /\ r \notin Queued

(* No lost wakeup: when no code runs and requests wait, a worker is active     *)
(* whose release will run _processQueue again, whatever mix of timeouts,       *)
(* cancellations, weighted batches and early releases came before.             *)
NoLostWakeup == loop = "idle" /\ queuedCount > 0 => activeWorkers > 0

(* Once the drained signal of disposeGracefully is complete no worker is       *)
(* active and nothing is queued, then or later.                                *)
DrainedMeansIdle == drained = "complete" => activeWorkers = 0 /\ queuedCount = 0

(* Whenever no loop runs, the saturation flags agree with the queue's length:  *)
(* no path that changes a lane forgets to report it.                           *)
SaturationFresh == saturated = {t \in Thresholds : queuedCount * 100 >= t * MaxQueueSize}

(* Round robin without starvation: each time _takeNext serves another lane, an *)
(* eligible lane it passes over moves closer to the front of the rotation, so  *)
(* it is passed over at most five times in a row.                              *)
PassedOverLaneAdvances ==
  [][\A j \in EligibleLanes :
       ProcessQueueStep /\ lastServed' # j => Offset(j, lastServed') < Offset(j, lastServed)]_vars

(* Every submission is answered, whatever timers, cancellations and shutdown   *)
(* do (no path leaves the completers of a request pending).  A request is      *)
(* submitted once, so that nobody waits in the end says it of each of them.    *)
EveryCallerReturns == []<>(\A r \in Requests : caller[r] # "waiting")

(* A graceful shutdown completes its drained signal once the running tasks     *)
(* have settled; no release and no flush forgets to look                       *)
(* (_completeDrainedIfIdle).                                                   *)
DrainCompletes == drained = "pending" ~> drained = "complete"

(* A success of waitForActiveWorkers means that no worker is active when it    *)
(* returns ("Waits until active workers reach zero without disposing the       *)
(* queue. Use before ODBC pool invalidation", lines 472-474).                  *)
IdleWaitIsCurrent ==
  [][\A w \in Waiters :
       idleWaiter[w] # "success" /\ idleWaiter'[w] = "success" => activeWorkers = 0]_vars

=============================================================================
