# Formal models of Plug Agente

Plug Agente is a Windows agent that runs SQL and local actions for a remote hub,
and a set of tools that build, publish, update and validate it. This directory
holds TLA+ models of the parts where order matters: queues, limits, retries,
processes that die, files that several programs write. TLC checks each model on
a small instance; TLAPS proves the most important properties for every value of
the constants.

`PROJECT.json` is the index: the parts of the system and what is modelled of
each, the runs, the source lines of every definition, a mutation that breaks each
property, the hazards of the code, the findings and the theorems.

To repeat a check, in this directory:

    tlc -workers 2 -config SqlExecutionQueue.cfg MCSqlExecutionQueue
    tlapm SqlExecutionQueueProofs.tla

## 1. The system and its models

### The agent (Dart)

The agent runs on one isolate. Code between two awaits runs to completion, so in
these models **an action is the code between two awaits**; everything that such a
stretch of code changes, it changes in one step. Callbacks, timers and resumed
futures interleave in every order the event loop allows. One rule of the runtime
matters often: a future that is already complete disarms the timeout of the await
on it, so a timeout action requires a pending completer.

| Part | Source | Modules |
|---|---|---|
| SQL execution queue | `lib/application/queue/` | `SqlQueueLanes`, `SqlExecutionQueue`, `QueueLemmas`, `SqlExecutionQueueProofs` |
| Circuit breakers and their cache | `lib/infrastructure/circuit_breaker/` | `ConnectionCircuitBreaker`, `ConnectionGuardsProofs` |
| Connection limiter and semaphore | `lib/infrastructure/pool/`, `lib/core/utils/pool_semaphore.dart` | `PoolSemaphore`, `DirectOdbcConnectionLimiter`, `ConnectionGuardsProofs` |
| Action execution queue | `lib/application/actions/action_execution_queue.dart` | `ActionExecutionQueue`, `ActionExecutionQueueProofs` |
| Update maintenance | `update_maintenance_coordinator.dart`, `bootstrap_update_maintenance.dart` | `UpdateMaintenance`, `MaintenanceProofs` |

* **SQL execution queue.** `submit` admits a request to the lane of its kind or
  rejects it; `_processQueue` starts lane heads round robin while the workers and
  the caps of the lanes allow it; a batch weighs several slots. A request can
  time out in the queue, be cancelled through a shared token, release its worker
  before it ends, or be caught by maintenance, `dispose` or `disposeGracefully`.
  The two synchronous loops (`_processQueue`, the flush of `dispose`) take one
  action per iteration and nothing else runs meanwhile (variable `loop`).
* **Circuit breakers.** `execute` decides synchronously, awaits the database and
  records the outcome when the answer comes, possibly in another circuit state or
  after the breaker left the LRU cache; an operation that throws records nothing.
  The clock is one bit per breaker.
* **Connection limiter.** An operation takes the permit of its class, then the
  global one, under one budget. The limits can change while permits are out. The
  window between a timer that fired and its continuation is modelled wider than
  the runtime allows it to be, which can only add behaviours.
* **Action execution queue.** Per action a count and a queue; each request brings
  its own policy (the action may have been edited), and an idempotency key may
  join it to one that runs. A cleanup that is never confirmed keeps its slot.
* **Update maintenance.** `prepare` freezes admission, waits for the work to end,
  runs the exit policies, takes the snapshot, closes the resources and seals; it
  gives up at its deadline, and can be cancelled, retried, or overtaken by
  `markRecoveryRequired` at any moment. The maintenance side of the queues and of
  the session supervisor, whose cleanups may fail, is composed in.

### The release pipeline (Python, PowerShell and workflows)

    ReleaseSource -> InstallerBuild -> PublishRelease -> AppcastFeed
                                            |                ^
                                            v          AppcastItems
                                     ReleaseContract

* `ReleaseSource`: what the tools read and decide without changing anything, that
  is version files, changelog, persona gate, preflight, settings of a build.
* `InstallerBuild`: `update_version.py`, the preflight as a step, the native
  library cache, `build_installer.py` with its checks and the key evidence.
* `PublishRelease`: manifest, tag, atomic push, draft, uploads, verification,
  publication; origin and the GitHub releases survive a job, its checkout does not.
* `AppcastItems` and `AppcastFeed`: what `appcast_manager.py` does to a feed and
  accepts of one; the feed job with push, deployment to Pages and smoke test.
* `ReleaseContract` is the abstract specification: a version gets one source
  commit, then a draft, then once an installer and manifest that belong to it.
  `KeepsTheContract` (`INSTANCE ReleaseContract WITH ...` in `AppcastFeed`) is the
  refinement.
* `ReleaseProofs` has the proofs about all of these.

Jobs run one at a time, as the concurrency groups of the workflows make them
(`plug-main-mutation`, `publish-windows-release-VERSION`, `plug-appcast-publish`);
developers push to main at any moment, and any step may fail or be cut off.

### The isolated Windows lifecycle (Python)

`IsolatedFixture` builds a private runtime, an application of one commit and a
fixture around them, each stage verifying what the stage before recorded. Content
is modelled by what is foreign to it, so a digest comparison is an equality of
contents. `LifecycleHandoff` is the exchange of files between the administrator's
and the standard user's phase. `IsolatedLifecycle` is both phases, step by step,
with retries, attempts that overlap (nothing keeps a second administrator out
until the first has left something behind) and processes that die anywhere.
`IsolatedLifecycleProofs` has the proofs.

### The validation tools (Python)

`ValidationTools` composes four tools that share nothing: a behaviour is one of
them, chosen in the initial state.

* `NativeBenchmark`, `OdbcGates` (proofs in `OdbcGatesProofs`): the ODBC release
  gate and the operational validation, overlapping on one checkout whose benchmark
  logs have fixed paths.
* `ExistingInstallation`: preparation and repair of an installation in use, killed
  and tried again while the host changes.
* `DisposableInstallation`: install, upgrade, repair and remove on a disposable
  machine, with installers that may leave anything behind.
* `BenchmarkBaseline`: a controlled comparison, a run of the suites, the comparison
  with the committed baseline and its promotion, while sources, harness and machine
  change.

The proofs about the last three are in `MaintenanceProofs`.

## 2. How the models abstract

Control is kept: every guard, early return, error path and the order of the
writes. Data is reduced to what a property tells apart.

* A clock is a bit ("the deadline has passed"); metrics and logs are left out.
* Files, digests and signatures are values: two digests differ exactly when the
  contents do, a signature is the key and what was signed.
* A process that is killed stops between two of its steps, and leaves a file it
  was writing torn where the code writes in place.
* External programs (installer, git, GitHub, the ODBC driver) do what the code
  asks, refuse, or, where the code checks for it, do something else.
* Counters that could grow for ever are bounded by a named constant in a guard:
  `MaxFaults`, `MaxPushes`, `MaxChanges`, `MaxDeaths`, `MaxHostChanges`,
  `MaxRepairs`, `MaxTampering`, `MaxAttempts`, `MaxSummaries`, `MaxConditions`,
  `MaxFailures`, `Attempts`. `BeforeAnyRelease` is a bound too: dry runs, developer
  builds and runs with an untrusted key take place before the first push or tag,
  since nothing of theirs reaches a later job.

Some fields are histories that no action reads, kept to state a property:
`threw` of a breaker, `reconciled` of maintenance, `beside` of the lifecycle.

What is narrower in a model than in its code:

* `ExistingInstallation` runs one process at a time on an evidence directory.
  `validate_existing_windows_installation.py:193-209` has no lock, so two
  preparations or two repairs at once are left out.
* `BenchmarkBaseline.Promotable` leaves out that dependencies, machine and metric
  metadata are not empty (`promote_benchmark_baseline.py:23-24` and part of `:31`).
  `run_benchmark_suite.py:777` writes metadata for every metric, and a comparison
  that ends with 0 found the machine record of a baseline that was promoted.
* `InstallerBuild.BundleTouched` rewrites a file that has keys in it (`KEY_PAYLOADS`
  of `installer_key_evidence.py`, compared at `:29-34`). Only these are inspected again, so of the
  other files of the bundle `InstallerIsAsRecorded` says nothing between build and
  compilation.
* `NativeBenchmark` leaves out the refusal of an invalid
  `BENCHMARK_ODBC_FALLBACKS_MAX` (`odbc_benchmark_gate.py:158-162`), which only fails.
* `UpdateMaintenance.ExitPoliciesFail` leaves out the code `outcome_unknown`
  (`update_maintenance_coordinator.dart:120`), which the callback of the bootstrap
  never returns.

Definitions named `...Unchecked`, `...Forgetful`, `Faulty: ...` and the like are
plausible bugs. No action uses them; they show that the properties notice.

## 3. The runs

| Run | Asks |
|---|---|
| `queue` | Do the slot counters stay exact, is no wakeup lost, does nothing run that was reported as not started, does every caller and the shutdown get an answer, is no lane starved? |
| `queue_idle_wait` | Is the queue idle when `waitForActiveWorkers` says so? It is not (finding). |
| `breaker` | Does anything but an operation that throws leave the probe flag behind, and does a breaker close once the database answers? |
| `breaker_stuck_probe` | Is it enough to wait when a breaker rejects calls with the database up? It is not (finding). |
| `breaker_single_probe` | Does exactly one probe run in half-open? It does not (finding). |
| `limiter` | Has every permit one owner when timeouts race releases, is nobody stranded when the limit moves and nobody served over it, can waiting in two lines deadlock? |
| `actions` | Are slots and queues exact under policies that change between requests, and does `validateRun` answer what `enqueue` would? |
| `actions_live` | Is no runnable request left waiting, and does every caller return, with maintenance and both disposals at any moment? |
| `maintenance` | With failed cleanups and reconciliations at any moment: do resources close only over an idle agent, does nothing reopen while exit policies run, is the agent open again after a preparation that ends unsealed or does its gate say why not, and does every preparation end? |
| `release` | Does the pipeline keep its contract, is the feed about public releases and does it verify, are interrupted releases finished? |
| `lifecycle` | With attempts that overlap: is there one standard phase, is a handoff never replaced and a result only by an attempt that ran beside it, does a verdict mean what it says, does every attempt end with a result? |
| `validation` | Does a verdict of success mean that everything it stands for was measured, compared or observed? |

A property that is proved for every instance need not be repeated in the runs.
Proved only, and not part of a run, are the types of the queue, the breaker
and the maintenance models, `QueueExact`, `DrainedMeansIdle` and `SaturationFresh`
of the SQL queue, `ClosedBelowThreshold`, `CacheIsBounded`,
`CallbacksActForTheirOperation`, `ExitPoliciesOnce`, `SealedForGood` and
`PassedIsFinal`. In the other models the type invariant is a
conjunct of the first safety invariant (`PermitsExact`, `SlotsExact`,
`FeedIsAboutReleases`, `OneStandardPhase`, and those of the validation tools).

### Bounds, and why they are enough

* `queue`: on two workers with two places to wait, a batch that comes first, two
  more batches that share a token and a streaming request. With weights 2, 2 and 1
  in a lane of three slots, the batch of weight 2 that waits holds back the one of
  weight 1 behind it although that would fit (head of line), the two of them fill
  the queue, and when both workers were busy the batch and the streaming request
  are eligible together and one is passed over (round robin). The first batch does
  not throw, and a pause of the admission meets neither a wait for the workers nor
  a shutdown (`Scenario` in `MCSqlExecutionQueue`); the proofs have no such limits.
* `breaker`: two callers and a threshold of two, so a call begun closed can end in
  half-open; two breaker objects over a cache of one, so that one is always
  dropped while held. There is one key, because with more keys than cache places
  fairness could evict a breaker before it ever closes and the liveness property
  would say nothing. `breaker_single_probe` has a third caller.
* `limiter`: four operations of three classes and limits 1, 2 and 4: the cap of a
  class reaches both its floor of one and values above it.
* `actions`: the four policies that differ in behaviour, queue limit and
  parallelism; two requests share a key. `actions_live` drops one request and adds
  a waiter.
* `maintenance`: two updates, one piece of work of each kind, a ledger of one (so
  that entries are evicted).
* `release`: two versions, one of them also on the beta channel; trees whose files
  disagree; a feed with items from before channels and signatures; `MaxItems` of
  two, so that the limit cuts; one fault anywhere. Notes that end in white space
  and a key the application does not trust count as faults.
* `lifecycle`: two attempts, which may overlap; with them either two invocations of
  the standard phase and one death, or one invocation and one change by something
  else (`OneMishap` in `MCIsolatedLifecycle`). The proofs are about any number of
  each.
* `validation`: two ODBC runs (symmetric) with reports at, above and below the
  thresholds; a repair tried twice with two changes of the host; a machine used
  twice; two summaries, which is a baseline and a run compared with it, one change
  of source, harness or machine, and p95 values on both sides of the 5% limit.

`CHECK_DEADLOCK FALSE` stands where the system really stops: after the shutdown of
the SQL queue, and when tools and attempts that are started a bounded number of
times are through.

### Fairness, and what in the code justifies it

* `queue`, `actions_live`: the event loop runs every ready continuation and every
  armed timer fires (weak fairness of continuations, of the queue-wait timeout and
  of cancellation delivery). Tasks settle: the ODBC layer has its own timeouts.
  Nothing forces a submission, a cancellation, maintenance or a disposal.
* `breaker`: callers keep calling (strong fairness: a rejected call is tried
  again), operations end, the reset timeout elapses. The property's premise is
  that the database answers from some point on.
* `limiter`: continuations run and leases are returned. No timer is forced to
  fire: the property holds without timeouts.
* `maintenance`: the deadline passes and `prepare` resumes after each
  await. Work and exit policies may run for ever.
* `release`: a job goes on (weak fairness); maintainers start a feed job and retry
  a release again and again (strong fairness), which is what the release guide
  tells them to do. Faults are finite.
* `lifecycle`: while an administrator's process runs, some administrator's process
  goes on (`Progress`); the standard user's phase is never forced to start, since
  the wait for it is bounded.
* `validation` claims no liveness: the tools wait for child processes without a
  timeout.

## 4. The proofs

Each module `...Proofs` extends the modules it is about. The constants are
arbitrary within the named assumptions, which TLC evaluates in the runs. Every
safety invariant, every action property and the refinement that a run checks is
proved here, except the statements the violation runs refute. A property is
seldom inductive as it stands; what each argument adds to it is said below.

### The agent

* **`SqlExecutionQueueProofs`** (with `QueueLemmas`; assumptions `LaneConstants`,
  `QueueConstants`): `TypeOK`, `CapacityExact`, `QueueExact`, `NoGhostQuery`,
  `NoLostWakeup`, `DrainedMeansIdle`, `SaturationFresh`,
  `PassedOverLaneAdvances`. A release is exact only if the request was counted
  once, and a start only if the queued request still waits. `IndInv` therefore adds
  the shape of the lanes, what a queued request is (`QueuedOK`), the count of the
  queue, the states of a request, what shutdown implies, and that no abort is ever
  requested.
* **`ConnectionGuardsProofs`**, two components that share no state.
  The breakers (`ThresholdAssumption`, `CacheAssumption`, `BoundAssumption`):
  `BreakerTypeOK`, `ProbeFlagIsHeld`, `ClosedBelowThreshold`, `CacheIsBounded`. The
  strengthening is `HoldsWhileCalling`: who calls holds the breaker, so a flag that
  no throw left behind has a probe that will clear it.
  The limiter (`LimiterAssumption`: finitely many operations, positive limits):
  `PermitsExact`, `NoStrandedWaiter`, `OpensWithinLimits`. A release that wakes a
  waiter is exact only if whoever is in the line owns nothing yet, and nobody is in
  it twice. `Books` says this of a stage of the acquisition (who passes it, where
  they wait, where the wait has expired, where they own the permit); the global
  semaphore and that of each class are two instances of it. That nobody is given a
  permit over the limit follows: a step that makes an owner leaves `active` within
  `max`, also when the permit comes from another owner in the same step.
* **`ActionExecutionQueueProofs`** (with `QueueLemmas`; `ActionRequestAssumption`):
  `SlotsExact`, `QueueExact`, `SingleFlight`, `NoLostWakeup`, `DrainedMeansIdle`,
  `StartsAdmitted`, `ValidationAgrees`. The counts are books on what the requests
  are doing, so `Inv` says what is booked for every request by where it stands
  (`Booked`; `Rested` has the types of the rest), which request a key leads to
  (`Keyed`), what closing implies (`Closing`), and that the head of a queue whose
  requests agree on their limit has a reason to wait (`Waking`). Each thing
  that can happen to a request has one lemma; a handler is a sequence of them. The
  drain of the pending queue starts several requests in one step, and the lemmas
  about it speak of the set it starts.
* **`MaintenanceProofs`**, part on `UpdateMaintenance` (`MaintenanceAssumption`):
  `TypeOK`, `ClosedMeansIdle`, `CallbacksActForTheirOperation`,
  `NoReopeningUnderExitPolicies`, `SealedForGood`, `ExitPoliciesOnce`. `IndInv` says
  of each step of a preparation what is frozen, who owns `_operation`, and which
  ledger entries exist. `FreezeIsReversed` holds for every behaviour, failed cleanups
  and reconciliations included; `ReversibleInv` says by whom the gate, the queues and
  the supervisor are held at each step, and which of the two is to blame where the
  three do not agree.

### The release pipeline

**`ReleaseProofs`** (`TreesAssumption`, `SettingsAssumption`, `ReleasesAssumption`,
`FeedAssumption`): `InstallerIsAsRecorded`, `KeepsTheContract`,
`FeedIsAboutReleases`, `PushKeepsWhatIsListed`. The assumptions give the constants
their types; that of the feed also says that the one the pipeline starts with is
within `max_items`, names a release once, and has no item with a build number for a
version that is still to be released. Three invariants build on each other:

* `BuildInv`: what is in the working copy, the bundle, the installer and its key
  evidence at each step of a job.
* `PublishInv`: tags are on main and never move, the checkout is of a commit of
  main or one on top of it, and what the job is about to show belongs to its tag.
  The refinement follows: every step of the pipeline, faults included, is a step of
  `ReleaseContract` or leaves its variables alone.
* `FeedInv`: the feed job knows a public release of its channel, its draft is the
  update of the feed on main, and every item of the feed is right. `CountsOK`
  bounds what is counted.

The feed is a sequence from which an update takes some items out and cuts the end
off. `AppcastItems` says which items are kept by their positions, in order (`Order`,
`ItemsAt`). That every set of positions has such an order (`PlacesHaveAnOrder`) is
proved with a least counterexample, since induction over data is out of the prover's
reach. `UpdateIsExact` follows, on `update_appcast_tree` for a feed of any length:
within `max_items`, the release's item first, and no item of another release or
channel lost unless it is older than all that stay.

### The isolated lifecycle

**`IsolatedLifecycleProofs`** (`ChangesAssumption`, `ProcessAssumption`,
`DeathsAssumption`): `OneStandardPhase`, `PassedMeansComplete`, `OneAttempt`, for any
number of invocations of both phases, deaths and changes. The invariant has three
layers: what the stages of the fixture recorded of one another (`FixtureInv`), what
each user's invocation claimed, checked and wrote (`UserInv`), what an
administrator's invocation brought about by the place it has reached (`AdminInv`).
Attempts may overlap, so the third layer is in two parts. At most one attempt gets
past the private database, whose table can be created once (`AheadInv`): for that
one the handoff, the claim and what the standard user left hold whoever runs beside
it. What it says of the machine and the registrations holds where nobody does
(`Sole`); `BesideInv` says that two attempts at work know of one another.
Manifests that are written over one another are ordered (`Earlier`), so a manifest
read twice and found equal did not change in between.

### The validation tools

* **`OdbcGatesProofs`** (`OptionsAssumption`): `PassIsEarned`, for any number of
  runs over the same logs. The verdict comes at the end, so `OdbcInv` says that a
  code of 0 was earned when it was given, that the codes are those of the steps
  before the present one, and that a run that waits for a report knows all its log
  holds, whichever run printed it (`Known`).
* **`MaintenanceProofs`**, part on the validators of an installation and the
  baseline:
  * `RepairPassedMeansPreserved`, `InstallerRunsOverASnapshot`. `RepairInv` says
    what `--prepare` has copied and hashed so far; contents only grow, so a match
    with the snapshot means that nothing in between touched the thing.
  * `PassedMeansWholeLifecycle`, `PassedIsFinal` (`VersionsAssumption`), for any
    number of attempts. What a passed result says was gathered step by step
    (`Progress`); what keeps the next attempt out is the user data left on the
    machine (`Retained`).
  * `ApprovedMeansMeasured`, `PassedComparisonIsConclusive`
    (`ConditionsAssumption`, `SummariesAssumption`, `SelectionsAssumption`). Sources
    only move forward, so everything a comparison measured lies between the source
    it identified and the present one (`Between`); finding the first one again at the
    end makes the interval a point. `ConclusiveInv` adds the shape of a summary, so
    that an exit code of 0 tells all that a promotion asks for.

### Only model-checked

Liveness, which needs fairness and `ENABLED` and is out of the prover's reach:
`EveryCallerReturns` of both queues, `DrainCompletes`, `RecoversWithTheDatabase`,
`WaitersAreServed`, `PreparationEnds`, `InterruptedReleaseResumes`,
`PublicReleaseIsDeployed`, `AttemptIsRecorded`. The three violation runs are
counterexamples and have nothing to prove.

## 5. What the models showed

Three statements of the repository do not hold of the code; each has a run that
TLC refutes and a finding in `PROJECT.json`.

* `waitForActiveWorkers` of the SQL queue can return success with a worker active:
  the release that completes the waiter starts the next request in the same turn
  (`sql_execution_queue.dart:468`). `OdbcWorkerRuntimeRecoveryService` relies on it
  before it closes the pools. The action queue has the same order of calls
  (`action_execution_queue.dart:359`, `:362`).
* Two probes can run in half-open: any call that completes clears the flag, also
  one begun while the circuit was closed (`connection_circuit_breaker.dart:170`).
* A breaker that rejects calls with the database up need not recover by waiting, as
  `docs/architecture/QUICKSTART.md:121-125` says: `execute` awaits the operation
  without `try` (`connection_circuit_breaker.dart:166`), and a probe that throws
  leaves the flag set. `ProbeFlagIsHeld` shows that nothing else does, and
  `RecoversWithTheDatabase` that a breaker not left so closes.

Observations that are no contradiction but worth knowing:

* *Agent.* The abort of a "ghost query" is unreachable (`NoGhostQuery`, proved),
  although `sql_queue_constants.dart:123-125` and
  `docs/testing/sql_queue_concurrency_tests.md:56-57` prepare for it. A queue-wait
  timeout does not run `_processQueue`; the wakeup is not lost because the place it
  frees is not a worker. A late success while the circuit is open resets the
  failure count. An action whose cleanup is never confirmed is
  blocked until a restart.
* *Maintenance.* A failed cleanup makes a deferral end in `recoveryRequired` with
  the queues and the gate closed, against "Reversible admission freeze.".
  `markRecoveryRequired` names no operation: while another preparation drains, its
  restoration resumes the queues and then throws at the gate
  (`bootstrap_update_maintenance.dart:36`, `:74-76`). `FreezeIsReversed` names both
  as the only exceptions; in both the gate says that a recovery is required.
* *Release.* A pushed tag whose release is not public cannot be published once main
  moved on. A local tag left by a failed push blocks retries from that checkout. A
  native cache manifest that was cut off makes later builds refuse. Notes whose
  2000 character cut ends in white space never pass `validate-file`
  (`appcast_manager.py:97-100` against `:389`). The channel `internal` can never
  verify. `max_items` is shared by the channels. The preflight's
  `tag_available=` log line is inverted. `validate_release.py`, which
  `docs/install/release_guide.md:236-252` tells to run on the published feed, names
  no manifest (`:116-136`), and `validate_item` (`appcast_manager.py:423-424`) then
  rejects every published item.
* *Lifecycle.* A claim can be made after the administrator gave up, although
  `lifecycle_handoff.py:72` says "never resume the standard-user phase"; its result
  is never accepted. Nothing is reserved by the administrator's first look
  (`validate_isolated_windows_lifecycle.py:255-259`): two that are started at once
  both install (`:288`), and the one that ends last replaces
  `lifecycle-result.json` (`:361`), possibly a passed one by a failed one. Only the
  private database and the handoff, which are created exclusively, tell them apart.
  The release bundle
  between build and capture, and the installer before its hash, are not protected.
* *Validation.* `run_odbc_release_gate.py:122-127` passes `--output-directory` to a
  tool whose parser has `--output-path` (`:163-164`), so the gate with
  `--run-operational-validation` cannot pass. A log without a JSON object crashes
  `run_odbc_suite` (`:506-507`). When two runs share a log, validity is judged on
  its last report and the gates on the first of the mode. A repair attempt that is
  killed leaves the result of the one before. A disposable machine is usable once,
  since retained data blocks later attempts (`PassedIsFinal`).
* *Baseline.* The source a summary names is looked up after its suites were
  measured (`run_benchmark_suite.py:790`), so an edit in between is named without
  having been measured by them; only the attached comparison is checked at both
  ends, and editing the sources and putting them back during it is not noticed. A
  suite that is skipped in both summaries has no identity, so a comparison of two
  runs with the default selection is always inconclusive. The baseline is written
  in place; a torn one ends the comparison with the exit code of a regression.
  Promotion does not compare with the baseline it replaces.

## 6. Not modelled

Every part of the system is listed in `PROJECT.json` with its status and reason.

* Open, within reach of this approach: the in-flight registry and aborts, ODBC
  recovery, pools and streaming; durable SQL operations; RPC idempotency,
  streaming and delivery; socket and hub connection; action orchestration, trigger
  scheduler, elevated bridge, I/O journal; the session supervisor beyond its
  maintenance interface; silent update.
* Data transformations with no shared state: codecs, SQL classification, schedule
  arithmetic, parsing of benchmark text, conversion of old logs.
* External behaviour: Windows processes, services, the native ODBC driver.
* Input and output, user interface, metrics, one-off tools, wrappers that only
  call a modelled gate.
* Liveness of the validation tools: the children they wait for have no timeout
  (`script_utils.py:158`).
* Concurrent release jobs: the concurrency groups serialise them, and deployments
  and smoke tests of different jobs commute.
* Of the disposable and the existing installation: choice of operating system and
  elevation. Of the lifecycle: its inspect phase, which changes nothing.
