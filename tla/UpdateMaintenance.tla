------------------------- MODULE UpdateMaintenance -------------------------
(***************************************************************************)
(* The freeze of the agent before an update replaces it: the coordinator   *)
(* (lib/application/services/update_maintenance_coordinator.dart), the     *)
(* admission gate (update_maintenance_admission.dart), the part of the     *)
(* session supervisor and of the queues that maintenance pauses, and       *)
(* lib/bootstrap/bootstrap_update_maintenance.dart, which ties them.       *)
(*                                                                         *)
(* SQL and action queues are paused and resumed by the same lines in the   *)
(* same way, so one variable stands for both.  Work is what isSafelyIdle   *)
(* waits for: an execution of a queue, an operation that passes the        *)
(* admission gate, or an action session.  The clock is two bits: the       *)
(* sixty-second deadline of the current preparation, and retryAfter.       *)
(***************************************************************************)
EXTENDS Integers, FiniteSets

CONSTANTS
  Operations,      \* the updates that are prepared; each has one caller at a time
  NoOperation,
  Work,
  Kind,            \* [Work -> {"queue", "gated", "session"}]
  LedgerLimit      \* the 64 attempts that _exitPolicies holds

ASSUME MaintenanceAssumption ==
  /\ NoOperation \notin Operations
  /\ Kind \in [Work -> {"queue", "gated", "session"}]
  /\ LedgerLimit \in Nat \ {0}

VARIABLES
  \* UpdateMaintenanceCoordinator
  pc,              \* where _preparation is: "none" when it is null
  operationId, retryPending, sealed, cancelRequested, frozen, effectsStarted,
  exitPolicies,    \* _exitPolicies
  expired,         \* the deadline of _prepare has passed
  result,          \* what _prepare returned
  \* BootstrapUpdateMaintenance
  bootOperation, closureStarted, prepared,
  answer,          \* "waiting", or what prepare last returned to each caller
  reconciled,      \* history: markRecoveryRequired was called (no action reads it)
  \* UpdateMaintenanceAdmission
  phase, admissionOperation,
  \* the queues and ActionIoSessionSupervisor
  queueOperation, supervisorOperation, accepting, cleanupFailed,
  running          \* the work in progress

coordinatorVars == <<pc, operationId, retryPending, sealed, cancelRequested, frozen,
                     effectsStarted, exitPolicies, expired, result>>
bootVars == <<bootOperation, closureStarted, prepared, answer, reconciled>>
gateVars == <<phase, admissionOperation, queueOperation, supervisorOperation>>
workVars == <<accepting, cleanupFailed, running>>

vars == <<coordinatorVars, bootVars, gateVars, workVars>>

Phases == {"operational", "draining", "resourcesClosed", "dispatchUnknown", "recoveryRequired"}

Results == {"deferred", "failed", "ready"}

MaybeOperation == Operations \cup {NoOperation}

TypeOK ==
  /\ pc \in {"none", "polling", "policies", "snapshot", "closing", "finished"}
  /\ operationId \in MaybeOperation
  /\ retryPending \in BOOLEAN /\ sealed \in BOOLEAN /\ cancelRequested \in BOOLEAN
  /\ frozen \in BOOLEAN /\ effectsStarted \in BOOLEAN /\ expired \in BOOLEAN
  /\ exitPolicies \in [Operations -> {"absent", "running", "success", "failure"}]
  /\ result \in Results \cup {"none"}
  /\ bootOperation \in MaybeOperation
  /\ closureStarted \in BOOLEAN /\ prepared \in BOOLEAN /\ reconciled \in BOOLEAN
  /\ answer \in [Operations -> {"none", "waiting", "busy", "closed", "threw"} \cup Results]
  /\ phase \in Phases
  /\ admissionOperation \in MaybeOperation /\ queueOperation \in MaybeOperation
  /\ supervisorOperation \in MaybeOperation
  /\ accepting \in BOOLEAN /\ cleanupFailed \in BOOLEAN
  /\ running \subseteq Work

Init ==
  /\ pc = "none" /\ operationId = NoOperation /\ result = "none"
  /\ retryPending = FALSE /\ sealed = FALSE /\ cancelRequested = FALSE
  /\ frozen = FALSE /\ effectsStarted = FALSE /\ expired = FALSE
  /\ exitPolicies = [o \in Operations |-> "absent"]
  /\ bootOperation = NoOperation /\ closureStarted = FALSE /\ prepared = FALSE
  /\ reconciled = FALSE
  /\ answer = [o \in Operations |-> "none"]
  /\ phase = "operational" /\ admissionOperation = NoOperation
  /\ queueOperation = NoOperation /\ supervisorOperation = NoOperation
  /\ accepting = TRUE /\ cleanupFailed = FALSE
  /\ running = {}

-----------------------------------------------------------------------------

Free(holder, o) == holder \in {NoOperation, o}

Blocked == phase # "operational"

IsSafelyIdle == running = {} /\ ~cleanupFailed

\* Whether UpdateMaintenanceAdmission.transition accepts a step of o to next.
MayTransition(o, next) ==
  /\ Free(admissionOperation, o)
  /\ next = "operational" => phase \in {"draining", "operational"}

Transition(o, next) ==
  /\ phase' = next
  /\ admissionOperation' = IF next = "operational" THEN NoOperation ELSE o

\* The tests of freezeAdmission, in the order of its calls; the first that fails
\* throws and leaves the effects of the calls before it.
SupervisorPauses(o) == accepting /\ Free(supervisorOperation, o)
AdmissionFreezes(o) == SupervisorPauses(o) /\ MayTransition(o, "draining")
QueuesPause(o) == AdmissionFreezes(o) /\ Free(queueOperation, o)

FreezeAdmission(o) ==
  /\ supervisorOperation' = IF SupervisorPauses(o) THEN o ELSE supervisorOperation
  /\ IF AdmissionFreezes(o) THEN Transition(o, "draining") ELSE UNCHANGED <<phase, admissionOperation>>
  /\ queueOperation' = IF QueuesPause(o) THEN o ELSE queueOperation

\* The same for restoreAdmission, which names the operation bootOperation.
SupervisorResumes == accepting /\ supervisorOperation = bootOperation /\ ~cleanupFailed
AdmissionReopens == SupervisorResumes /\ MayTransition(bootOperation, "operational")

\* Faulty: reopens the gate before it asks the supervisor.
RestoreAdmissionGateFirst ==
  /\ IF MayTransition(bootOperation, "operational")
       THEN Transition(bootOperation, "operational") ELSE UNCHANGED <<phase, admissionOperation>>
  /\ supervisorOperation' = IF AdmissionReopens THEN NoOperation ELSE supervisorOperation
  /\ queueOperation' = IF AdmissionReopens /\ queueOperation = bootOperation
                         THEN NoOperation ELSE queueOperation

RestoreAdmission ==
  /\ supervisorOperation' = IF SupervisorResumes THEN NoOperation ELSE supervisorOperation
  /\ queueOperation' = IF SupervisorResumes /\ queueOperation = bootOperation
                         THEN NoOperation ELSE queueOperation
  /\ IF AdmissionReopens THEN Transition(bootOperation, "operational")
                         ELSE UNCHANGED <<phase, admissionOperation>>

-----------------------------------------------------------------------------

\* _prepare returns.
Finish(r) ==
  /\ pc' = "finished"
  /\ result' = r

\* _restore and return r.  When restoreAdmission throws, the catch of _prepare turns the
\* answer into a failure; its own _restore finds _frozen already cleared.
RestoreAndReturn(r) ==
  /\ frozen' = FALSE
  /\ RestoreAdmission
  /\ sealed' = (sealed \/ (effectsStarted /\ ~AdmissionReopens))
  /\ Finish(IF AdmissionReopens THEN r ELSE "failed")
  /\ UNCHANGED <<operationId, cancelRequested, effectsStarted, exitPolicies, expired>>

\* The three places that defer for fifteen minutes.
Defer == retryPending' = TRUE /\ RestoreAndReturn("deferred")

\* Admission stays blocked and the preparation is over.
SealAndReturn(r) ==
  /\ sealed' = TRUE
  /\ Finish(r)
  /\ UNCHANGED <<operationId, retryPending, cancelRequested, frozen, effectsStarted, exitPolicies,
                 expired, gateVars, closureStarted, accepting>>

\* putIfAbsent of applyExitPolicies, which admission.internal refuses unless o drains;
\* freezing: this step itself makes o drain.
ApplyExitPolicies(o, freezing) ==
  exitPolicies' = [exitPolicies EXCEPT ![o] =
    IF @ # "absent" THEN @ ELSE IF freezing \/ (phase = "draining" /\ admissionOperation = o)
                                  THEN "running" ELSE "failure"]

LedgerFull(o) ==
  /\ exitPolicies[o] = "absent"
  /\ Cardinality({p \in Operations : exitPolicies[p] # "absent"}) >= LedgerLimit

\* UpdateMaintenanceCoordinator.prepare of an operation when there is no _preparation,
\* up to the first await of _prepare.
StartPreparation(o) ==
  /\ operationId' = o
  /\ cancelRequested' = FALSE
  /\ expired' = FALSE
  /\ FreezeAdmission(o)
  /\ \/ /\ ~QueuesPause(o)
        /\ Finish("failed")
        /\ effectsStarted' = FALSE
        /\ UNCHANGED <<frozen, exitPolicies>>
     \/ /\ QueuesPause(o) /\ ~IsSafelyIdle
        /\ frozen' = TRUE
        /\ pc' = "polling"
        /\ effectsStarted' = FALSE
        /\ UNCHANGED <<exitPolicies, result>>
     \/ /\ QueuesPause(o) /\ IsSafelyIdle /\ ~LedgerFull(o)
        /\ frozen' = TRUE
        /\ pc' = "policies"
        /\ effectsStarted' = TRUE
        /\ ApplyExitPolicies(o, TRUE)
        /\ UNCHANGED result

\* The same when the ledger is full: frozen and restored in one step.
StartAndRefuse(o) ==
  /\ QueuesPause(o) /\ IsSafelyIdle /\ LedgerFull(o)
  /\ operationId' = o
  /\ cancelRequested' = FALSE
  /\ expired' = FALSE
  /\ effectsStarted' = FALSE
  /\ Finish("failed")
  /\ Transition(o, "operational")
  /\ queueOperation' = NoOperation /\ supervisorOperation' = NoOperation
  /\ UNCHANGED <<frozen, exitPolicies>>

\* BootstrapUpdateMaintenance.prepare up to its await.  (The coordinator also refuses
\* another operation's preparation; the bootstrap has refused it before: see
\* CallbacksActForTheirOperation.)
Prepare(o) ==
  /\ answer[o] # "waiting"
  /\ Free(bootOperation, o)
  /\ bootOperation' = o
  /\ answer' = [answer EXCEPT ![o] = "waiting"]
  /\ \/ /\ pc # "none" /\ operationId = o
        /\ UNCHANGED <<coordinatorVars, gateVars>>
     \/ /\ pc = "none" /\ ~retryPending
        /\ StartPreparation(o) \/ StartAndRefuse(o)
        /\ UNCHANGED <<retryPending, sealed>>
  /\ UNCHANGED <<closureStarted, prepared, reconciled, workVars>>

\* The calls that the bootstrap or the coordinator answers without a preparation.
PrepareRefused(o) ==
  /\ answer[o] # "waiting"
  /\ ~Free(bootOperation, o)
  /\ answer' = [answer EXCEPT ![o] = "busy"]
  /\ UNCHANGED <<coordinatorVars, bootOperation, closureStarted, prepared, reconciled, gateVars,
                 workVars>>

PrepareTooSoon(o) ==
  /\ answer[o] # "waiting"
  /\ Free(bootOperation, o)
  /\ pc = "none" /\ retryPending
  /\ bootOperation' = NoOperation
  /\ answer' = [answer EXCEPT ![o] = "deferred"]
  /\ UNCHANGED <<coordinatorVars, closureStarted, prepared, reconciled, gateVars, workVars>>

-----------------------------------------------------------------------------

\* Faulty: waits for idleness without a deadline.
PollForever ==
  /\ pc = "polling"
  /\ IsSafelyIdle \/ cancelRequested
  /\ Defer
  /\ UNCHANGED <<bootVars, workVars>>

\* An iteration of the loop that ends it with the work still there, and the two tests
\* after the loop that defer or cancel.
PollGivesUp ==
  /\ pc = "polling"
  /\ \/ (~IsSafelyIdle /\ (cancelRequested \/ expired)) /\ Defer
     \/ IsSafelyIdle /\ ~cancelRequested /\ ~LedgerFull(operationId) /\ expired /\ Defer
     \/ IsSafelyIdle /\ cancelRequested /\ RestoreAndReturn("deferred") /\ UNCHANGED retryPending
     \/ /\ IsSafelyIdle /\ ~cancelRequested /\ LedgerFull(operationId)
        /\ RestoreAndReturn("failed")
        /\ UNCHANGED retryPending
  /\ UNCHANGED <<bootVars, workVars>>

PollFindsIdle ==
  /\ pc = "polling"
  /\ IsSafelyIdle /\ ~cancelRequested /\ ~LedgerFull(operationId) /\ ~expired
  /\ effectsStarted' = TRUE
  /\ ApplyExitPolicies(operationId, FALSE)
  /\ pc' = "policies"
  /\ UNCHANGED <<operationId, retryPending, sealed, cancelRequested, frozen, expired, result,
                 bootVars, gateVars, workVars>>

\* The exit policies run in their own time, in the zone of their operation.
ExitPoliciesSettle(o) ==
  /\ exitPolicies[o] = "running"
  /\ \E r \in {"success", "failure"} : exitPolicies' = [exitPolicies EXCEPT ![o] = r]
  /\ UNCHANGED <<pc, operationId, retryPending, sealed, cancelRequested, frozen, effectsStarted,
                 expired, result, bootVars, gateVars, workVars>>

\* Faulty: the timeout is treated as a refusal, and admission reopens.
ExitPoliciesTimeOutReopening ==
  /\ pc = "policies"
  /\ exitPolicies[operationId] = "running" /\ expired
  /\ Defer
  /\ UNCHANGED <<bootVars, workVars>>

ExitPoliciesTimeOut ==
  /\ pc = "policies"
  /\ exitPolicies[operationId] = "running" /\ expired
  /\ SealAndReturn("failed")
  /\ UNCHANGED <<bootVars, workVars>>

\* (A failure of unknown outcome seals as well; the applyExitPolicies of the bootstrap
\* returns none.)
ExitPoliciesFail ==
  /\ pc = "policies"
  /\ exitPolicies[operationId] = "failure"
  /\ \/ ~IsSafelyIdle /\ SealAndReturn("failed")
     \/ IsSafelyIdle /\ RestoreAndReturn("failed") /\ UNCHANGED retryPending
  /\ UNCHANGED <<bootVars, workVars>>

\* What stops a preparation after the exit policies and after the snapshot.
MustDefer == cancelRequested \/ ~IsSafelyIdle \/ expired

ExitPoliciesSucceed ==
  /\ pc = "policies"
  /\ exitPolicies[operationId] = "success"
  /\ \/ MustDefer /\ Defer
     \/ /\ ~MustDefer
        /\ pc' = "snapshot"
        /\ UNCHANGED <<operationId, retryPending, sealed, cancelRequested, frozen, effectsStarted,
                       exitPolicies, expired, result, gateVars>>
  /\ UNCHANGED <<bootVars, workVars>>

\* beforeClose fails, with or without an unknown outcome, or exceeds the deadline.
SnapshotFails ==
  /\ pc = "snapshot"
  /\ \/ SealAndReturn("failed")
     \/ RestoreAndReturn("failed") /\ UNCHANGED retryPending
  /\ UNCHANGED <<bootVars, workVars>>

SnapshotTooLate ==
  /\ pc = "snapshot"
  /\ MustDefer
  /\ Defer
  /\ UNCHANGED <<bootVars, workVars>>

\* Faulty: relies on the idleness seen before the snapshot.
SnapshotTakenUnchecked ==
  /\ pc = "snapshot"
  /\ ~cancelRequested /\ ~expired
  /\ sealed' = TRUE
  /\ closureStarted' = TRUE
  /\ Transition(bootOperation, "resourcesClosed")
  /\ accepting' = FALSE
  /\ pc' = "closing"
  /\ UNCHANGED <<operationId, retryPending, cancelRequested, frozen, effectsStarted, exitPolicies,
                 expired, result, bootOperation, prepared, answer, reconciled, queueOperation,
                 supervisorOperation, cleanupFailed, running>>

\* The snapshot is taken and everything is still idle: flushAndCloseLocalData up to its
\* first await.  (Its transition cannot throw: see CallbacksActForTheirOperation.)
SnapshotTaken ==
  /\ pc = "snapshot"
  /\ ~MustDefer
  /\ sealed' = TRUE
  /\ closureStarted' = TRUE
  /\ Transition(bootOperation, "resourcesClosed")
  /\ accepting' = FALSE
  /\ pc' = "closing"
  /\ UNCHANGED <<operationId, retryPending, cancelRequested, frozen, effectsStarted, exitPolicies,
                 expired, result, bootOperation, prepared, answer, reconciled, queueOperation,
                 supervisorOperation, cleanupFailed, running>>

\* The rest of flushAndCloseLocalData, one of whose steps may fail or take too long.
ClosingReturns ==
  /\ pc = "closing"
  /\ \E r \in {"ready", "failed"} : SealAndReturn(r)
  /\ UNCHANGED <<bootOperation, prepared, answer, reconciled, cleanupFailed, running>>

-----------------------------------------------------------------------------

\* BootstrapUpdateMaintenance.prepare after a failed preparation: markRecoveryRequired
\* when admission did not reopen; it throws when admission is another operation's.
AfterFailure(o) ==
  \/ /\ Blocked /\ MayTransition(bootOperation, "recoveryRequired")
     /\ Transition(bootOperation, "recoveryRequired")
     /\ answer' = [answer EXCEPT ![o] = "failed"]
     /\ UNCHANGED bootOperation
  \/ /\ Blocked /\ ~MayTransition(bootOperation, "recoveryRequired")
     /\ answer' = [answer EXCEPT ![o] = "threw"]
     /\ UNCHANGED <<bootOperation, phase, admissionOperation>>
  \/ /\ ~Blocked
     /\ bootOperation' = NoOperation
     /\ answer' = [answer EXCEPT ![o] = "failed"]
     /\ UNCHANGED <<phase, admissionOperation>>

\* The whenComplete of the coordinator's prepare.
WhenComplete ==
  IF sealed THEN UNCHANGED <<pc, operationId>> ELSE pc' = "none" /\ operationId' = NoOperation

\* That callback and the rest of the bootstrap's prepare.
Return(o) ==
  /\ answer[o] = "waiting" /\ pc = "finished"
  /\ WhenComplete
  /\ \/ /\ result = "failed" /\ closureStarted
        /\ answer' = [answer EXCEPT ![o] = "closed"]
        /\ UNCHANGED <<bootOperation, prepared, phase, admissionOperation>>
     \/ result = "failed" /\ ~closureStarted /\ AfterFailure(o) /\ UNCHANGED prepared
     \/ /\ result = "deferred"
        /\ bootOperation' = NoOperation
        /\ answer' = [answer EXCEPT ![o] = "deferred"]
        /\ UNCHANGED <<prepared, phase, admissionOperation>>
     \/ /\ result = "ready"
        /\ prepared' = TRUE
        /\ answer' = [answer EXCEPT ![o] = "ready"]
        /\ UNCHANGED <<bootOperation, phase, admissionOperation>>
  /\ UNCHANGED <<retryPending, sealed, cancelRequested, frozen, effectsStarted, exitPolicies, expired,
                 result, closureStarted, reconciled, queueOperation, supervisorOperation, workVars>>

\* cancel: the running preparation restores admission itself.
Cancel ==
  /\ ~sealed
  /\ cancelRequested' = TRUE
  /\ IF pc = "none" /\ frozen
       THEN frozen' = FALSE /\ RestoreAdmission
       ELSE UNCHANGED <<frozen, gateVars>>
  /\ UNCHANGED <<pc, operationId, retryPending, sealed, effectsStarted, exitPolicies, expired, result,
                 bootVars, workVars>>

\* markRecoveryRequired, called by the updater after its own resources were closed or, at
\* any moment, while it reconciles the dispatch of an earlier process.  It names no
\* operation.
MarkRecoveryRequired ==
  /\ pc # "finished" \/ sealed      \* the microtasks of Return run first
  /\ bootOperation # NoOperation
  /\ \E next \in {"dispatchUnknown", "recoveryRequired"} :
       MayTransition(bootOperation, next) /\ Transition(bootOperation, next)
  /\ reconciled' = TRUE
  /\ UNCHANGED <<coordinatorVars, bootOperation, closureStarted, prepared, answer,
                 queueOperation, supervisorOperation, workVars>>

DeadlinePasses ==
  /\ pc \in {"polling", "policies", "snapshot"} /\ ~expired
  /\ expired' = TRUE
  /\ UNCHANGED <<pc, operationId, retryPending, sealed, cancelRequested, frozen, effectsStarted,
                 exitPolicies, result, bootVars, gateVars, workVars>>

RetryAfterPasses ==
  /\ retryPending
  /\ retryPending' = FALSE
  /\ UNCHANGED <<pc, operationId, sealed, cancelRequested, frozen, effectsStarted, exitPolicies,
                 expired, result, bootVars, gateVars, workVars>>

\* allowsInternalWork: code that the exit policies of the draining operation started.
AllowsInternalWork ==
  /\ phase = "draining"
  /\ admissionOperation # NoOperation
  /\ exitPolicies[admissionOperation] # "absent"

\* A queue, the admission gate or the supervisor lets work in.
BeginWork(w) ==
  /\ w \notin running
  /\ CASE Kind[w] = "queue"   -> queueOperation = NoOperation \/ AllowsInternalWork
       [] Kind[w] = "gated"   -> ~Blocked \/ AllowsInternalWork
       [] Kind[w] = "session" -> accepting /\ supervisorOperation = NoOperation /\ ~cleanupFailed
  /\ running' = running \cup {w}
  /\ UNCHANGED <<coordinatorVars, bootVars, gateVars, accepting, cleanupFailed>>

\* Work ends; of a session, creation, run, stop or cleanup may have failed.
EndWork(w) ==
  /\ w \in running
  /\ running' = running \ {w}
  /\ \/ UNCHANGED cleanupFailed
     \/ Kind[w] = "session" /\ cleanupFailed' = TRUE
  /\ UNCHANGED <<coordinatorVars, bootVars, gateVars, accepting>>

Next ==
  \/ \E o \in Operations :
       Prepare(o) \/ PrepareRefused(o) \/ PrepareTooSoon(o) \/ ExitPoliciesSettle(o) \/ Return(o)
  \/ PollGivesUp \/ PollFindsIdle
  \/ ExitPoliciesTimeOut \/ ExitPoliciesFail \/ ExitPoliciesSucceed
  \/ SnapshotFails \/ SnapshotTooLate \/ SnapshotTaken
  \/ ClosingReturns
  \/ Cancel \/ MarkRecoveryRequired \/ DeadlinePasses \/ RetryAfterPasses
  \/ \E w \in Work : BeginWork(w) \/ EndWork(w)

Spec == Init /\ [][Next]_vars

\* Timers fire and continuations run.  Nothing is assumed of the work, of the exit
\* policies or of the resources: what they may delay is bounded by the deadline.
FairSpec ==
  /\ Spec
  /\ WF_vars(DeadlinePasses)
  /\ WF_vars(PollGivesUp \/ PollFindsIdle)
  /\ WF_vars(ExitPoliciesTimeOut \/ ExitPoliciesFail \/ ExitPoliciesSucceed)
  /\ WF_vars(SnapshotFails \/ SnapshotTooLate \/ SnapshotTaken)
  /\ WF_vars(ClosingReturns)
  /\ \A o \in Operations : WF_vars(Return(o))

-----------------------------------------------------------------------------

(* Once the local data and the connections are being closed, nothing runs that needs *)
(* them, whatever the exit policies started and whoever marked a recovery meanwhile. *)
ClosedMeansIdle == closureStarted => running = {}

(* The callbacks of the coordinator read BootstrapUpdateMaintenance._operation when  *)
(* they run: while a preparation is under way that is the operation it is for, and   *)
(* the one that the gate, the queues and the supervisor are paused for.              *)
CallbacksActForTheirOperation ==
  /\ pc # "none" => bootOperation = operationId
  /\ pc \in {"polling", "policies", "snapshot", "closing"} =>
       /\ admissionOperation = operationId
       /\ queueOperation = operationId
       /\ supervisorOperation = operationId

(* Admission does not reopen while exit policies run: a timeout does not stop them   *)
(* ("it may still be mutating local/external state, so admission cannot reopen").    *)
NoReopeningUnderExitPolicies ==
  \A o \in Operations :
    exitPolicies[o] = "running" => Blocked /\ queueOperation = o /\ supervisorOperation = o

(* Exit policies run at most once for an operation, over any number of retries: the  *)
(* ledger forgets no attempt and starts none twice.                                  *)
ExitPoliciesOnce ==
  [][\A o \in Operations :
       /\ exitPolicies[o] # "absent" => exitPolicies'[o] # "absent"
       /\ exitPolicies[o] \in {"success", "failure"} => exitPolicies'[o] = exitPolicies[o]]_vars

(* A sealed agent never becomes operational again in this process.                   *)
SealedForGood == [][sealed => sealed' /\ phase' # "operational"]_vars

(* "Reversible admission freeze": when a preparation is over and nothing was sealed, *)
(* the gate, the queues and the supervisor are all open again.  The exceptions are a *)
(* failed cleanup, after which all three are still closed for one operation, and a   *)
(* reconciliation in between, after which the gate may be closed alone.  In both the *)
(* gate says that a recovery is required: it is never left draining, and never open  *)
(* over queues or sessions that are still paused.                                    *)
FreezeIsReversed ==
  pc = "none" =>
    \/ ~Blocked /\ queueOperation = NoOperation /\ supervisorOperation = NoOperation
    \/ /\ phase \in {"recoveryRequired", "dispatchUnknown"}
       /\ admissionOperation # NoOperation
       /\ \/ reconciled
          \/ /\ cleanupFailed
             /\ queueOperation = admissionOperation
             /\ supervisorOperation = admissionOperation

(* Every caller of prepare gets an answer, and admission does not drain for ever,    *)
(* even when the work never ends and the exit policies never return.                 *)
PreparationEnds ==
  /\ \A o \in Operations : answer[o] = "waiting" ~> answer[o] # "waiting"
  /\ phase = "draining" ~> phase # "draining"

=============================================================================
