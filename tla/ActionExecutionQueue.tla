------------------------ MODULE ActionExecutionQueue ------------------------
(***************************************************************************)
(* lib/application/actions/action_execution_queue.dart: the executions of  *)
(* the agent's actions.  Each action has its own running count and its own *)
(* queue; a request brings the policy of its action, so requests of one    *)
(* action may carry different policies once the action has been edited.    *)
(*                                                                         *)
(* A step is what the event loop runs between two awaits.  A task that was *)
(* started from the queue completes its completer in one step and gives    *)
(* its slot back in a later one, when the whenComplete callback runs; a    *)
(* task that ran at once does both in one step, in _runNow's finally.      *)
(***************************************************************************)
EXTENDS DartQueue

CONSTANTS
  Requests, Actions, Waiters, Operations,
  Keys,             \* the idempotency keys
  ActionOf,         \* [Requests -> Actions]
  Key,              \* [Requests -> Keys \cup {NoKey}]
  Policy,           \* policies.queue of each request
  NoKey, NoRequest, NoOperation

Behaviors == {"enqueue", "reject", "ignore", "allowParallel"}

ASSUME ActionRequestAssumption ==
  /\ ActionOf \in [Requests -> Actions]
  /\ Key \in [Requests -> Keys \cup {NoKey}]
  /\ Policy \in [Requests -> [behavior : Behaviors, maxConcurrent : Nat \ {0}, maxQueued : Nat]]
  \* _idempotencyKeyFor prefixes the key with the action
  /\ \A r, s \in Requests : Key[r] = Key[s] /\ Key[r] # NoKey => ActionOf[r] = ActionOf[s]
  /\ NoKey \notin Keys /\ NoRequest \notin Requests /\ NoOperation \notin Operations

VARIABLES
  running,        \* _runningByActionId
  runningIds,     \* _runningExecutionIdsByActionId
  unconfirmed,    \* _unconfirmedCleanup
  pending,        \* _pendingByActionId
  idempotent,     \* _idempotentResults: the request whose future is stored
  future,         \* what enqueue returned: "new", "pending", "replaying" or its value
  replayOf,       \* the request whose future a replaying request awaits
  task,           \* where the task of a request is
  disposed, maintenance, drained, shutdown, idleWaiter

slotVars == <<running, runningIds>>
shutdownVars == <<disposed, drained, shutdown>>

vars == <<slotVars, unconfirmed, pending, idempotent, future, replayOf, task,
          shutdownVars, maintenance, idleWaiter>>

Rejections == {"unconfirmedCleanup", "maintenance", "disposed", "rejected", "ignored", "full"}

Outcomes == Rejections \cup {"result", "unexpectedError", "timeout", "cancelled", "failDisposed"}

TypeOK ==
  /\ running \in [Actions -> Nat]
  /\ runningIds \in [Actions -> SUBSET Requests]
  /\ unconfirmed \subseteq Requests
  /\ pending \in [Actions -> Seq(Requests)]
  /\ idempotent \in [Keys -> Requests \cup {NoRequest}]
  /\ future \in [Requests -> {"new", "pending", "replaying"} \cup Outcomes]
  /\ replayOf \in [Requests -> Requests \cup {NoRequest}]
  /\ task \in [Requests -> {"idle", "direct", "queued", "completed", "done"}]
  /\ disposed \in BOOLEAN
  /\ maintenance \in Operations \cup {NoOperation}
  /\ drained \in {"absent", "pending", "complete"}
  /\ shutdown \in {"none", "waiting", "success", "timeout"}
  /\ idleWaiter \in [Waiters -> {"none", "waiting", "released", "success", "timeout"}]

Init ==
  /\ running = [a \in Actions |-> 0]
  /\ runningIds = [a \in Actions |-> {}]
  /\ unconfirmed = {}
  /\ pending = [a \in Actions |-> <<>>]
  /\ idempotent = [k \in Keys |-> NoRequest]
  /\ future = [r \in Requests |-> "new"]
  /\ replayOf = [r \in Requests |-> NoRequest]
  /\ task = [r \in Requests |-> "idle"]
  /\ disposed = FALSE
  /\ maintenance = NoOperation
  /\ drained = "absent"
  /\ shutdown = "none"
  /\ idleWaiter = [w \in Waiters |-> "none"]

-----------------------------------------------------------------------------

HasUnconfirmedCleanup(a) == runningIds[a] \cap unconfirmed # {}

CanRunNow(a, policy) == ~HasUnconfirmedCleanup(a) /\ running[a] < policy.maxConcurrent

\* _disposedFailure: why enqueue turns a request away ("none" when it does not);
\* internal: the caller runs in the zone of the maintenance operation.
DisposedFailure(a, internal) ==
  IF HasUnconfirmedCleanup(a) THEN "unconfirmedCleanup"
  ELSE IF maintenance # NoOperation /\ ~internal THEN "maintenance"
  ELSE IF disposed THEN "disposed"
  ELSE "none"

\* What a full action answers under the two policies that never queue.
Turned == [reject |-> "rejected", ignore |-> "ignored"]

\* Faulty: leaves out _validateEnqueueHeadroom.
ValidateWithoutHeadroom(r, internal) ==
  IF DisposedFailure(ActionOf[r], internal) # "none" THEN DisposedFailure(ActionOf[r], internal)
  ELSE IF Policy[r].behavior \notin DOMAIN Turned \/ CanRunNow(ActionOf[r], Policy[r]) THEN "none"
  ELSE Turned[Policy[r].behavior]

\* validateRemoteAdmission, which does not queue the request: "none" when it succeeds.
ValidateRemoteAdmission(r, internal) ==
  LET a == ActionOf[r]
      headroom == IF Len(pending[a]) >= Policy[r].maxQueued THEN "full" ELSE "none"
  IN  IF DisposedFailure(a, internal) # "none" THEN DisposedFailure(a, internal)
      ELSE IF Policy[r].behavior = "allowParallel" \/ CanRunNow(a, Policy[r]) THEN "none"
      ELSE IF Policy[r].behavior = "enqueue" THEN headroom
      ELSE Turned[Policy[r].behavior]

Idle(counts) == \A a \in Actions : counts[a] = 0

NothingPending(queues) == \A a \in Actions : queues[a] = <<>>

\* _completeIdleWaitersIfNeeded
CompleteIdleWaiters(counts) ==
  idleWaiter' = [w \in Waiters |->
                   IF Idle(counts) /\ idleWaiter[w] = "waiting" THEN "released" ELSE idleWaiter[w]]

\* Faulty: forgets the running executions.
CompleteDrainedWhenNothingPending(completer, counts, queues) ==
  IF completer = "pending" /\ NothingPending(queues) THEN "complete" ELSE completer

\* _completeDrainedIfIdle
CompleteDrainedIfIdle(completer, counts, queues) ==
  IF completer = "pending" /\ Idle(counts) /\ NothingPending(queues) THEN "complete" ELSE completer

\* Faulty: tests the count before the loop in every iteration, as if _beginRunning
\* did not come before start().
StartableOnStaleCount(a, q, n, ids) ==
  CHOOSE k \in 0 .. Len(q) :
    /\ k > 0 => ids \cap unconfirmed = {}
    /\ \A j \in 1 .. k : n < Policy[q[j]].maxConcurrent
    /\ k < Len(q) => ids \cap unconfirmed # {} \/ n >= Policy[q[k + 1]].maxConcurrent

\* The loop of _drain: how many requests it takes from the front of queue q of action
\* a when n executions run, those in ids.  (It would skip a completed one; a request
\* leaves the queue in the step that completes it, so none is: see QueueExact.)
Startable(a, q, n, ids) ==
  CHOOSE k \in 0 .. Len(q) :
    /\ k > 0 => ids \cap unconfirmed = {}
    /\ \A j \in 1 .. k : n + j - 1 < Policy[q[j]].maxConcurrent
    /\ k < Len(q) => ids \cap unconfirmed # {} \/ n + k >= Policy[q[k + 1]].maxConcurrent

\* _drain: the first k of queue q begin running beside the n in ids; tasks is the
\* task function without them.
Begin(a, q, k, n, ids, tasks) ==
  LET started == {q[j] : j \in 1 .. k}
  IN  /\ running' = [running EXCEPT ![a] = n + k]
      /\ runningIds' = [runningIds EXCEPT ![a] = ids \cup started]
      /\ pending' = [pending EXCEPT ![a] = SubSeq(q, k + 1, Len(q))]
      /\ task' = [s \in Requests |-> IF s \in started THEN "queued" ELSE tasks[s]]

-----------------------------------------------------------------------------

\* enqueue stores the future of a request with a key, whatever it will be.
Store(r) ==
  idempotent' = IF Key[r] = NoKey THEN idempotent ELSE [idempotent EXCEPT ![Key[r]] = r]

Existing(r) == IF Key[r] = NoKey THEN NoRequest ELSE idempotent[Key[r]]

Refuse(r, reason) ==
  /\ future' = [future EXCEPT ![r] = reason]
  /\ UNCHANGED <<slotVars, pending, task>>

\* _runNow up to the await of the task.
RunNow(r) ==
  /\ Begin(ActionOf[r], pending[ActionOf[r]], 0, running[ActionOf[r]] + 1,
           runningIds[ActionOf[r]] \cup {r}, [task EXCEPT ![r] = "direct"])
  /\ future' = [future EXCEPT ![r] = "pending"]

\* _enqueuePending when the queue is not full.
EnqueuePending(r) ==
  LET a == ActionOf[r]
      q == Append(pending[a], r)
  IN  /\ Len(pending[a]) < Policy[r].maxQueued
      /\ Begin(a, q, Startable(a, q, running[a], runningIds[a]), running[a], runningIds[a], task)
      /\ future' = [future EXCEPT ![r] = "pending"]

\* _schedule
Schedule(r) ==
  LET a == ActionOf[r]
      behavior == Policy[r].behavior
      now == behavior = "allowParallel" \/ CanRunNow(a, Policy[r])
  IN  \/ now /\ RunNow(r)
      \/ ~now /\ behavior \in DOMAIN Turned /\ Refuse(r, Turned[behavior])
      \/ ~now /\ behavior = "enqueue" /\ EnqueuePending(r)
      \/ ~now /\ behavior = "enqueue" /\ Len(pending[a]) >= Policy[r].maxQueued /\ Refuse(r, "full")

Unscheduled == UNCHANGED <<unconfirmed, replayOf, shutdownVars, maintenance, idleWaiter>>

\* enqueue of a request that may not be replayed.
EnqueueNew(r, internal) ==
  /\ future[r] = "new"
  /\ DisposedFailure(ActionOf[r], internal) = "none"
  /\ Existing(r) = NoRequest
  /\ Schedule(r)
  /\ Store(r)
  /\ Unscheduled

\* Faulty: does not look for a stored future.
EnqueueReplayNever(r, internal) ==
  /\ future[r] = "new"
  /\ DisposedFailure(ActionOf[r], internal) = "none"
  /\ Existing(r) # NoRequest
  /\ Schedule(r)
  /\ UNCHANGED idempotent
  /\ Unscheduled

\* enqueue of a request whose key has a future: the same result is returned.
EnqueueReplay(r, internal) ==
  /\ future[r] = "new"
  /\ DisposedFailure(ActionOf[r], internal) = "none"
  /\ Existing(r) # NoRequest
  /\ future' = [future EXCEPT ![r] = "replaying"]
  /\ replayOf' = [replayOf EXCEPT ![r] = Existing(r)]
  /\ UNCHANGED <<slotVars, unconfirmed, pending, idempotent, task, shutdownVars, maintenance, idleWaiter>>

\* enqueue of a request that is turned away at the door.
EnqueueRefused(r, internal) ==
  /\ future[r] = "new"
  /\ DisposedFailure(ActionOf[r], internal) # "none"
  /\ Refuse(r, DisposedFailure(ActionOf[r], internal))
  /\ UNCHANGED idempotent
  /\ Unscheduled

ReplayReturns(r) ==
  /\ future[r] = "replaying"
  /\ future[replayOf[r]] \in Outcomes
  /\ future' = [future EXCEPT ![r] = future[replayOf[r]]]
  /\ UNCHANGED <<slotVars, unconfirmed, pending, idempotent, replayOf, task, shutdownVars, maintenance, idleWaiter>>

\* The eviction that enqueue registers on the stored future.
Evict(k) ==
  /\ idempotent[k] # NoRequest
  /\ future[idempotent[k]] \in Outcomes
  /\ idempotent' = [idempotent EXCEPT ![k] = NoRequest]
  /\ UNCHANGED <<slotVars, unconfirmed, pending, future, replayOf, task, shutdownVars, maintenance, idleWaiter>>

-----------------------------------------------------------------------------

\* Faulty: gives the slot back although the cleanup is unconfirmed.
EndRunningAlways(r) ==
  [count |-> IF running[ActionOf[r]] > 1 THEN running[ActionOf[r]] - 1 ELSE 0,
   ids   |-> runningIds[ActionOf[r]] \ {r}]

\* _endRunning
EndRunning(r) ==
  LET a == ActionOf[r]
  IN  IF r \in unconfirmed
        THEN [count |-> running[a], ids |-> runningIds[a]]
        ELSE [count |-> IF running[a] > 1 THEN running[a] - 1 ELSE 0,
              ids   |-> runningIds[a] \ {r}]

\* Faulty: the next request is not started.
ReleaseSlotWithoutDrain(r) ==
  LET a == ActionOf[r]
      left == EndRunning(r)
      counts == [running EXCEPT ![a] = left.count]
  IN  /\ Begin(a, pending[a], 0, left.count, left.ids, [task EXCEPT ![r] = "done"])
      /\ CompleteIdleWaiters(counts)
      /\ drained' = CompleteDrainedIfIdle(drained, counts, pending)

\* What _runNow's finally and _drain's whenComplete do: the slot, the waiters, then
\* the queue of the action.
ReleaseSlot(r) ==
  LET a == ActionOf[r]
      left == EndRunning(r)
      counts == [running EXCEPT ![a] = left.count]
      k == IF disposed THEN 0 ELSE Startable(a, pending[a], left.count, left.ids)
  IN  /\ Begin(a, pending[a], k, left.count, left.ids, [task EXCEPT ![r] = "done"])
      /\ CompleteIdleWaiters(counts)
      /\ drained' = CompleteDrainedIfIdle(drained, counts, pending)

\* The task returns or throws.
Settle(r) ==
  \E o \in {"result", "unexpectedError"} : future' = [future EXCEPT ![r] = o]

DirectTaskSettles(r) ==
  /\ task[r] = "direct"
  /\ Settle(r)
  /\ ReleaseSlot(r)
  /\ UNCHANGED <<unconfirmed, idempotent, replayOf, disposed, shutdown, maintenance>>

\* _PendingActionTask._run completes the completer.
QueuedTaskSettles(r) ==
  /\ task[r] = "queued"
  /\ Settle(r)
  /\ task' = [task EXCEPT ![r] = "completed"]
  /\ UNCHANGED <<slotVars, unconfirmed, pending, idempotent, replayOf, shutdownVars, maintenance, idleWaiter>>

\* The whenComplete callback that _drain registered.
QueuedTaskReleases(r) ==
  /\ task[r] = "completed"
  /\ ReleaseSlot(r)
  /\ UNCHANGED <<unconfirmed, idempotent, future, replayOf, disposed, shutdown, maintenance>>

\* A task whose native cleanup failed keeps its slot for good.
RetainUnconfirmedExecution(r) ==
  /\ task[r] \in {"direct", "queued"}
  /\ r \in runningIds[ActionOf[r]]
  /\ unconfirmed' = unconfirmed \cup {r}
  /\ UNCHANGED <<slotVars, pending, idempotent, future, replayOf, task, shutdownVars, maintenance, idleWaiter>>

-----------------------------------------------------------------------------

IsPending(r) == r \in Range(pending[ActionOf[r]])

LeaveQueue(r, outcome) ==
  /\ pending' = [pending EXCEPT ![ActionOf[r]] = Remove(@, r)]
  /\ future' = [future EXCEPT ![r] = outcome]
  /\ UNCHANGED <<slotVars, unconfirmed, idempotent, replayOf, task, shutdownVars, maintenance, idleWaiter>>

\* Faulty: completes the request and leaves it in the queue.
QueueTimeoutStays(r) ==
  /\ IsPending(r)
  /\ future' = [future EXCEPT ![r] = "timeout"]
  /\ UNCHANGED <<slotVars, unconfirmed, pending, idempotent, replayOf, task, shutdownVars, maintenance, idleWaiter>>

\* The timer of a queued request; start() has not cancelled it.
QueueTimeout(r) ==
  /\ IsPending(r)
  /\ LeaveQueue(r, "timeout")

\* Faulty: the request leaves the queue and its completer is forgotten.
CancelQueuedSilently(r) ==
  /\ ~disposed
  /\ IsPending(r)
  /\ LeaveQueue(r, "pending")

CancelQueued(r) ==
  /\ ~disposed
  /\ IsPending(r)
  /\ LeaveQueue(r, "cancelled")

-----------------------------------------------------------------------------

\* dispose, with completer the _drainedCompleter it finds.
DoDispose(completer) ==
  /\ disposed' = TRUE
  /\ pending' = [a \in Actions |-> IF disposed THEN pending[a] ELSE <<>>]
  /\ future' = [r \in Requests |-> IF ~disposed /\ IsPending(r) THEN "failDisposed" ELSE future[r]]
  /\ IF disposed THEN UNCHANGED idleWaiter ELSE CompleteIdleWaiters(running)
  /\ drained' = CompleteDrainedIfIdle(completer, running, pending')

Dispose ==
  /\ DoDispose(drained)
  /\ UNCHANGED <<slotVars, unconfirmed, idempotent, replayOf, task, shutdown, maintenance>>

DisposeGracefully ==
  /\ shutdown = "none"
  /\ DoDispose(IF drained = "absent" THEN "pending" ELSE drained)
  /\ shutdown' = IF drained' = "complete" THEN "success" ELSE "waiting"
  /\ UNCHANGED <<slotVars, unconfirmed, idempotent, replayOf, task, maintenance>>

DisposeReturns ==
  /\ shutdown = "waiting"
  /\ shutdown' \in (IF drained = "complete" THEN {"success"} ELSE {"timeout"})
  /\ UNCHANGED <<slotVars, unconfirmed, pending, idempotent, future, replayOf, task, disposed, drained, maintenance, idleWaiter>>

\* waitForActiveWorkers
WaitForActiveWorkers(w) ==
  /\ idleWaiter[w] = "none"
  /\ idleWaiter' = [idleWaiter EXCEPT ![w] = IF Idle(running) THEN "success" ELSE "waiting"]
  /\ UNCHANGED <<slotVars, unconfirmed, pending, idempotent, future, replayOf, task, shutdownVars, maintenance>>

IdleWaitReturns(w) ==
  /\ \/ idleWaiter[w] = "released" /\ idleWaiter' = [idleWaiter EXCEPT ![w] = "success"]
     \/ idleWaiter[w] = "waiting" /\ idleWaiter' = [idleWaiter EXCEPT ![w] = "timeout"]
  /\ UNCHANGED <<slotVars, unconfirmed, pending, idempotent, future, replayOf, task, shutdownVars, maintenance>>

PauseAdmission(o) ==
  /\ maintenance \in {NoOperation, o}
  /\ maintenance' = o
  /\ UNCHANGED <<slotVars, unconfirmed, pending, idempotent, future, replayOf, task, shutdownVars, idleWaiter>>

ResumeAdmission(o) ==
  /\ maintenance' = IF maintenance = o THEN NoOperation ELSE maintenance
  /\ UNCHANGED <<slotVars, unconfirmed, pending, idempotent, future, replayOf, task, shutdownVars, idleWaiter>>

Next ==
  \/ \E r \in Requests :
       \/ \E internal \in BOOLEAN :
            EnqueueNew(r, internal) \/ EnqueueReplay(r, internal) \/ EnqueueRefused(r, internal)
       \/ ReplayReturns(r)
       \/ DirectTaskSettles(r)
       \/ QueuedTaskSettles(r)
       \/ QueuedTaskReleases(r)
       \/ RetainUnconfirmedExecution(r)
       \/ QueueTimeout(r)
       \/ CancelQueued(r)
  \/ \E k \in Keys : Evict(k)
  \/ Dispose
  \/ DisposeGracefully
  \/ DisposeReturns
  \/ \E w \in Waiters : WaitForActiveWorkers(w) \/ IdleWaitReturns(w)
  \/ \E o \in Operations : PauseAdmission(o) \/ ResumeAdmission(o)

Spec == Init /\ [][Next]_vars

\* The event loop runs due timers and callbacks, and a task ends: the orchestrator
\* bounds every execution by maxRuntime.
FairSpec ==
  /\ Spec
  /\ \A r \in Requests :
       /\ WF_vars(DirectTaskSettles(r))
       /\ WF_vars(QueuedTaskSettles(r))
       /\ WF_vars(QueuedTaskReleases(r))
       /\ WF_vars(QueueTimeout(r))
       /\ WF_vars(ReplayReturns(r))

-----------------------------------------------------------------------------

\* The requests of action a that own a slot: their task is not over, or its cleanup
\* was never confirmed.
Owners(a) ==
  {r \in Requests :
     ActionOf[r] = a /\ (task[r] \in {"direct", "queued", "completed"} \/ r \in unconfirmed)}

(* The running count and the running ids of an action, which _beginRunning and       *)
(* _endRunning keep separately, both say exactly who owns a slot: no execution       *)
(* releases twice, none leaks its slot, and one with unconfirmed cleanup keeps it.   *)
SlotsExact ==
  /\ TypeOK
  /\ \A a \in Actions : runningIds[a] = Owners(a) /\ running[a] = Cardinality(Owners(a))

(* A request is in the queue of its action exactly while its future is open and its  *)
(* task has not begun, and only once: a timeout, a cancellation and a dispose take   *)
(* it out in the step that completes it, so _drain never meets a completed one and   *)
(* never starts one twice; and no queue outgrows the limit of its newest request.    *)
QueueExact ==
  /\ \A r \in Requests : IsPending(r) <=> future[r] = "pending" /\ task[r] = "idle"
  /\ \A a \in Actions :
       /\ \A i, j \in DOMAIN pending[a] : pending[a][i] = pending[a][j] => i = j
       /\ pending[a] # <<>> => Len(pending[a]) <= Policy[pending[a][Len(pending[a])]].maxQueued

(* Every execution that starts finds fewer executions of its action than its own     *)
(* policy allows, counting those the same _drain started before it, and none whose   *)
(* native cleanup is unconfirmed: nothing runs over a process that may still live.   *)
StartsAdmitted ==
  [][\A r \in Requests :
       task[r] = "idle" /\ task'[r] \in {"direct", "queued"} =>
         LET a == ActionOf[r]
             behind == {pending[a][j] : j \in {j \in DOMAIN pending[a] :
                          \E i \in 1 .. j - 1 : pending[a][i] = r}}
         IN  /\ ~HasUnconfirmedCleanup(a)
             /\ \/ Policy[r].behavior = "allowParallel"
                \/ Cardinality(runningIds'[a] \ behind) <= Policy[r].maxConcurrent]_vars

(* Two requests with one idempotency key are never both queued or running.           *)
SingleFlight ==
  \A r, s \in Requests :
    r # s /\ Key[r] = Key[s] /\ Key[r] # NoKey => ~(future[r] = "pending" /\ future[s] = "pending")

\* The requests of action a that may have to wait.
Queuing(a) == {r \in Requests : ActionOf[r] = a /\ Policy[r].behavior = "enqueue"}

(* No execution waits although it could run: when those that queue for an action     *)
(* agree on its limit, _canRunNow turns down the first of its queue in every state.  *)
(* (A timeout or a cancellation does not run _drain, which is why they must agree.)  *)
NoLostWakeup ==
  \A a \in Actions :
    /\ pending[a] # <<>>
    /\ \A r, s \in Queuing(a) : Policy[r].maxConcurrent = Policy[s].maxConcurrent
    => ~CanRunNow(a, Policy[Head(pending[a])])

(* validateRun answers what a real enqueue would: "the same concurrency and depth    *)
(* limits as a real enqueue call" (validateRemoteAdmission's comment).               *)
ValidationAgrees ==
  [][\A r \in Requests : future[r] = "new" /\ future'[r] \notin {"new", "replaying"} =>
       \E internal \in BOOLEAN :
         ValidateRemoteAdmission(r, internal) =
           IF future'[r] \in Rejections THEN future'[r] ELSE "none"]_vars

(* Once disposeGracefully's completer is complete, nothing runs or waits any more.   *)
DrainedMeansIdle ==
  drained = "complete" => disposed /\ Idle(running) /\ NothingPending(pending)

(* Every call of enqueue returns.                                                    *)
EveryCallerReturns ==
  \A r \in Requests : (future[r] # "new") ~> (future[r] \in Outcomes)

=============================================================================
