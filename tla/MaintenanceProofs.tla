----------------------- MODULE MaintenanceProofs -----------------------
(***************************************************************************)
(* Proofs about what keeps an installation sound: the validators of an     *)
(* installation, the performance baseline, and the maintenance freeze of   *)
(* the agent, for any versions, suites, conditions, attempts, updates and  *)
(* work.                                                                   *)
(*                                                                         *)
(* A validator promises something of a result that is written at the end   *)
(* of a long run, so no promise is inductive: each invariant says what the *)
(* run has in hand at every step before.                                   *)
(*                                                                         *)
(*   RepairInv       what --prepare copied and hashed so far, and that     *)
(*                   contents only grow, so a match with the snapshot      *)
(*                   means nothing in between touched the thing;           *)
(*   DisposableInv   what the attempt has in hand (Progress), and that the *)
(*                   user data on the machine keeps the next attempt from  *)
(*                   starting (Retained);                                  *)
(*   BaselineInv     everything a comparison measured lies between the     *)
(*                   source it identified and the present one (Between):   *)
(*                   when it finds the first one again at the end, the     *)
(*                   interval is a single source;                          *)
(*   ConclusiveInv   the shape of what a summary was made from, so that an *)
(*                   exit code of 0 tells all that a promotion asks for;   *)
(*   IndInv,         who holds the gate, the queues and the supervisor of  *)
(*   ReversibleInv   the agent at every step of a preparation, and what a  *)
(*                   preparation that gives up has reopened, or why not.   *)
(***************************************************************************)
EXTENDS ExistingInstallation, DisposableInstallation, BenchmarkBaseline, UpdateMaintenance,
        TLAPS

\* A leaf that names no prover is one for Zenon.
USE ZenonT(30)

-----------------------------------------------------------------------------
(* The lifecycle on a disposable machine: validate_windows_installation.py. *)

Steps == {"none", "installation", "probe installation", "upgrade",
          "probe upgrade", "repair", "cleanup"}
LifecyclePhases == {"installation", "upgrade", "optional_repair", "uninstall"}

AttemptOK ==
    attempt \in [at : Steps, installed : Nat, upgraded : Nat,
                 phases : SUBSET LifecyclePhases, status : {"passed", "failed"}]

\* What was achieved by an attempt that stands at this step.
Progress ==
    /\ attempt.at = "installation" => attempt.phases = {}
    /\ attempt.at \in {"probe installation", "upgrade"} => attempt.phases = {"installation"}
    /\ attempt.at \in {"probe upgrade", "repair"} =>
          /\ attempt.phases = {"installation", "upgrade"}
          /\ attempt.upgraded > attempt.installed
    /\ attempt.at = "cleanup" /\ attempt.status = "passed" =>
          /\ attempt.phases = {"installation", "upgrade", "optional_repair"}
          /\ attempt.upgraded > attempt.installed

\* A passed result was written over a machine that still has the user data.
Retained ==
    outcome.status = "passed" => attempt.at = "none" /\ machine.data = "kept"

DisposableInv == AttemptOK /\ Progress /\ Retained /\ PassedMeansWholeLifecycle

\* The invariant holds in the beginning.
LEMMA DisposableInitOK == DisposableInit => DisposableInv
  BY SMT DEF DisposableInit, DisposableInv, AttemptOK, Progress, Retained,
         PassedMeansWholeLifecycle, CleanMachine, NoAttempt, NoOutcome, Steps, LifecyclePhases

\* A step of an attempt that is under way and writes no result: there is no
\* passed result, so only the attempt matters.
LEMMA NoResultWritten ==
  ASSUME DisposableInv, attempt.at # "none", UNCHANGED outcome,
         AttemptOK', Progress'
  PROVE  DisposableInv'
  BY DEF DisposableInv, Retained, PassedMeansWholeLifecycle

\* An attempt that failed goes to the cleanup with what it has.
LEMMA CleanupOK ==
  ASSUME AttemptOK, NEW phases \in SUBSET LifecyclePhases, NEW status \in {"passed", "failed"},
         attempt' = Cleanup(phases, status),
         status = "passed" => /\ phases = {"installation", "upgrade", "optional_repair"}
                              /\ attempt.upgraded > attempt.installed
  PROVE  AttemptOK' /\ Progress'
  BY DEF AttemptOK, Progress, Cleanup, Steps

\* StartValidation keeps the invariant.
LEMMA StartValidationOK == DisposableInv /\ StartValidation => DisposableInv'
<1> SUFFICES ASSUME DisposableInv, StartValidation PROVE DisposableInv'
  OBVIOUS
<1>1. AttemptOK' /\ Progress' /\ attempt'.at = "installation"
  BY DEF StartValidation, NoAttempt, AttemptOK, Progress, Steps, LifecyclePhases
<1>2. outcome.status # "passed"
  BY DEF DisposableInv, Retained, StartValidation, assert_clean_machine
<1> QED
  BY <1>1, <1>2 DEF DisposableInv, Retained, PassedMeansWholeLifecycle, StartValidation

\* InstallFirst keeps the invariant.
LEMMA InstallFirstOK == DisposableInv /\ InstallFirst => DisposableInv'
<1> SUFFICES ASSUME DisposableInv, InstallFirst PROVE DisposableInv'
  OBVIOUS
<1>1. AttemptOK /\ attempt.at = "installation" /\ attempt.phases = {} /\ UNCHANGED outcome
  BY DEF DisposableInv, Progress, InstallFirst
<1>2. AttemptOK' /\ Progress'
  <2>1. CASE \E phases \in {{}, {"installation"}} : attempt' = Cleanup(phases, "failed")
    BY <1>1, <2>1, CleanupOK DEF LifecyclePhases
  <2>2. CASE \E version \in Versions :
                attempt' = [attempt EXCEPT !.at = "probe installation", !.installed = version,
                                           !.phases = @ \cup {"installation"}]
    <3> PICK version \in Versions :
                attempt' = [attempt EXCEPT !.at = "probe installation", !.installed = version,
                                           !.phases = @ \cup {"installation"}]
      BY <2>2
    <3>1. version \in Nat
      BY VersionsAssumption
    <3> QED
      BY <1>1, <3>1 DEF AttemptOK, Progress, Steps, LifecyclePhases
  <2> QED
    BY <2>1, <2>2 DEF InstallFirst
<1> QED
  BY <1>1, <1>2, NoResultWritten

\* Upgrade keeps the invariant.
LEMMA UpgradeOK == DisposableInv /\ Upgrade => DisposableInv'
<1> SUFFICES ASSUME DisposableInv, Upgrade PROVE DisposableInv'
  OBVIOUS
<1>1. AttemptOK /\ attempt.at = "upgrade" /\ attempt.phases = {"installation"} /\ UNCHANGED outcome
  BY DEF DisposableInv, Progress, Upgrade
<1>2. AttemptOK' /\ Progress'
  <2>1. CASE \E phases \in {{}, {"upgrade"}} :
                attempt' = Cleanup(attempt.phases \cup phases, "failed")
    BY <1>1, <2>1, CleanupOK DEF LifecyclePhases
  <2>2. CASE \E version \in Versions :
                /\ NewerVersion(version)
                /\ attempt' = [attempt EXCEPT !.at = "probe upgrade",
                                  !.phases = attempt.phases \cup {"upgrade"}, !.upgraded = version]
    <3> PICK version \in Versions :
                /\ NewerVersion(version)
                /\ attempt' = [attempt EXCEPT !.at = "probe upgrade",
                                  !.phases = attempt.phases \cup {"upgrade"}, !.upgraded = version]
      BY <2>2
    <3>1. version \in Nat
      BY VersionsAssumption
    <3> QED
      BY <1>1, <3>1 DEF AttemptOK, Progress, NewerVersion, Steps, LifecyclePhases
  <2> QED
    BY <2>1, <2>2 DEF Upgrade
<1> QED
  BY <1>1, <1>2, NoResultWritten

\* Probe keeps the invariant.
LEMMA ProbeOK == DisposableInv /\ Probe => DisposableInv'
<1> SUFFICES ASSUME DisposableInv, Probe PROVE DisposableInv'
  OBVIOUS
<1>1. AttemptOK /\ attempt.at # "none" /\ attempt.phases \in SUBSET LifecyclePhases /\ UNCHANGED outcome
  BY DEF DisposableInv, AttemptOK, Probe
<1>2. AttemptOK' /\ Progress'
  <2>1. CASE attempt' = Cleanup(attempt.phases, "failed")
    BY <1>1, <2>1, CleanupOK
  <2>2. CASE attempt' = [attempt EXCEPT !.at = IF @ = "probe upgrade" THEN "repair" ELSE "upgrade"]
    BY <1>1, <2>2 DEF DisposableInv, AttemptOK, Progress, Probe, Steps
  <2> QED
    BY <2>1, <2>2 DEF Probe
<1> QED
  BY <1>1, <1>2, NoResultWritten

\* OptionalRepair keeps the invariant.
LEMMA OptionalRepairOK == DisposableInv /\ OptionalRepair => DisposableInv'
<1> SUFFICES ASSUME DisposableInv, OptionalRepair PROVE DisposableInv'
  OBVIOUS
<1>1. /\ AttemptOK /\ attempt.at # "none" /\ attempt.phases = {"installation", "upgrade"}
      /\ attempt.upgraded > attempt.installed /\ UNCHANGED outcome
  BY DEF DisposableInv, Progress, OptionalRepair
<1>2. \/ attempt' = Cleanup({"installation", "upgrade", "optional_repair"}, "passed")
      \/ attempt' = Cleanup({"installation", "upgrade"}, "failed")
  <2>1. {"installation", "upgrade"} \cup {"optional_repair"}
           = {"installation", "upgrade", "optional_repair"}
    OBVIOUS
  <2> QED
    BY <1>1, <2>1 DEF OptionalRepair
<1>3. AttemptOK' /\ Progress'
  BY <1>1, <1>2, CleanupOK DEF LifecyclePhases
<1> QED
  BY <1>1, <1>3, NoResultWritten

\* CleanupAndReport keeps the invariant.
LEMMA CleanupAndReportOK == DisposableInv /\ CleanupAndReport => DisposableInv'
<1> SUFFICES ASSUME DisposableInv, CleanupAndReport PROVE DisposableInv'
  OBVIOUS
<1>1. AttemptOK' /\ Progress' /\ attempt'.at = "none"
  BY DEF CleanupAndReport, NoAttempt, AttemptOK, Progress, Steps, LifecyclePhases
<1>2. ASSUME outcome'.status = "passed"
      PROVE  /\ attempt.status = "passed"
             /\ UninstallAccepted(machine')
             /\ outcome' = Result("passed", attempt.phases \cup {"uninstall"})
  BY SMT, <1>2 DEF CleanupAndReport, Result
<1>3. ASSUME outcome'.status = "passed"
      PROVE  /\ attempt.phases = {"installation", "upgrade", "optional_repair"}
             /\ attempt.upgraded > attempt.installed
             /\ machine'.version = 0 /\ machine'.data = "kept"
  BY <1>2, <1>3 DEF DisposableInv, Progress, CleanupAndReport, UninstallAccepted
<1>4. Retained'
  BY <1>1, <1>3 DEF Retained
<1>5. PassedMeansWholeLifecycle'
  BY SMT, <1>2, <1>3 DEF PassedMeansWholeLifecycle, Result
<1> QED
  BY <1>1, <1>4, <1>5 DEF DisposableInv

\* ValidatorKilled keeps the invariant.
LEMMA ValidatorKilledOK == DisposableInv /\ ValidatorKilled => DisposableInv'
<1> SUFFICES ASSUME DisposableInv, ValidatorKilled PROVE DisposableInv'
  OBVIOUS
<1>1. AttemptOK' /\ Progress' /\ attempt'.at = "none"
  BY DEF ValidatorKilled, NoAttempt, AttemptOK, Progress, Steps, LifecyclePhases
<1> QED
  BY <1>1 DEF DisposableInv, Retained, PassedMeansWholeLifecycle, ValidatorKilled

\* Every step keeps the invariant.
LEMMA DisposableNextOK == DisposableInv /\ [DisposableNext]_disposableVars => DisposableInv'
<1> SUFFICES ASSUME DisposableInv, [DisposableNext]_disposableVars PROVE DisposableInv'
  OBVIOUS
<1>1. CASE UNCHANGED disposableVars
  BY <1>1 DEF DisposableInv, AttemptOK, Progress, Retained, PassedMeansWholeLifecycle, disposableVars
<1> QED
  BY <1>1, StartValidationOK, InstallFirstOK, UpgradeOK, ProbeOK, OptionalRepairOK,
     CleanupAndReportOK, ValidatorKilledOK DEF DisposableNext

\* The invariant holds in every behaviour.
LEMMA DisposableInvariance == DisposableSpec => []DisposableInv
  BY DisposableInitOK, DisposableNextOK, PTL DEF DisposableSpec

\* Whatever the installers do and report, and wherever attempts are killed,
\* a passed result.json stands for a whole lifecycle of one attempt.
THEOREM PassedWholeLifecycle == DisposableSpec => []PassedMeansWholeLifecycle
<1>1. DisposableInv => PassedMeansWholeLifecycle
  BY DEF DisposableInv
<1> QED
  BY <1>1, DisposableInvariance, PTL

\* No later attempt starts on a machine with a passed result, or rewrites it.
THEOREM PassedNeverOverwritten == DisposableSpec => PassedIsFinal
<1>1. DisposableInv /\ DisposableInv' /\ [DisposableNext]_disposableVars =>
         [outcome.status = "passed" => attempt'.at = "none" /\ outcome' = outcome]_disposableVars
  <2> SUFFICES ASSUME DisposableInv, DisposableNext, outcome.status = "passed"
               PROVE  attempt'.at = "none" /\ outcome' = outcome
    OBVIOUS
  <2>1. attempt.at = "none" /\ machine.data = "kept"
    BY DEF DisposableInv, Retained
  <2>2. ValidatorKilled
    BY <2>1 DEF DisposableNext, StartValidation, assert_clean_machine, InstallFirst, Upgrade,
                Probe, OptionalRepair, CleanupAndReport
  <2> QED
    BY <2>2 DEF ValidatorKilled, NoAttempt
<1> QED
  BY <1>1, DisposableInvariance, PTL DEF DisposableSpec, PassedIsFinal

-----------------------------------------------------------------------------
(* The repair of an existing installation:                                 *)
(* validate_existing_windows_installation.py.                              *)

\* What was read or copied of some of the things.
Partial == UNION {[S -> Nat] : S \in SUBSET Things}

\* What the steps before step k of --prepare have copied or hashed.
Done(op, k) == {PrepareSteps[i][2] : i \in {j \in 1..(k - 1) : PrepareSteps[j][1] = op}}

RepairTypes ==
    /\ host \in [Things -> Nat]
    /\ evidence \in [made : BOOLEAN, protected : BOOLEAN, backup : Partial, state : Partial,
                     result : [status : {"none", "passed", "failed"}, tampered : SUBSET Compared]]
    /\ tool \in [which : {"none", "prepare", "repair"}, at : Nat, read : Partial, commands : BOOLEAN]
    /\ tampered \in SUBSET Compared
    /\ repairs \in Nat

\* state.json appears when everything is copied and hashed, and not before.
Prepared ==
    /\ evidence.state # NoState =>
          /\ evidence.made /\ evidence.protected
          /\ DOMAIN evidence.state = Things /\ DOMAIN evidence.backup = Copied
    /\ ~evidence.made => evidence.backup = <<>> /\ evidence.state = NoState
    /\ tool.which = "prepare" =>
          /\ tool.at \in 1..13
          /\ evidence.state = NoState
          /\ tool.at = 1 => ~evidence.made
          /\ tool.at > 1 => evidence.made
          /\ tool.at > 2 => evidence.protected
          /\ DOMAIN evidence.backup = Done("copy", tool.at)
          /\ DOMAIN tool.read = Done("hash", tool.at)

\* Contents only grow, so what the installer changed since the snapshot was
\* taken has a newer content than the snapshot.
Newer ==
    /\ tool.which = "prepare" => \A t \in DOMAIN tool.read : tool.read[t] <= host[t]
    /\ \A t \in DOMAIN evidence.state : evidence.state[t] <= host[t]
    /\ evidence.state = NoState => tampered = {}
    /\ evidence.state # NoState => \A t \in tampered : evidence.state[t] < host[t]

\* What a repair that stands at this step has established.
Compares ==
    /\ tool.which = "repair" => tool.at \in 1..14
    /\ tool.which = "repair" /\ tool.at > 1 =>
          evidence.state # NoState /\ tool.read = evidence.state
    /\ tool.which = "repair" /\ tool.at > 2 =>
          evidence.backup["installer"] = evidence.state["installer"]
    /\ tool.which = "repair" /\ tool.at > 7 =>
          \A i \in 9..13 : tool.at > i => RepairSteps[i][2] \notin tampered

RepairInv ==
    /\ RepairTypes /\ Prepared /\ Newer /\ Compares
    /\ evidence.result.status = "passed" => evidence.result.tampered = {}

\* What was read is of things, and is their content.
LEMMA PartialFacts ==
  ASSUME NEW f \in Partial
  PROVE  DOMAIN f \subseteq Things /\ \A t \in DOMAIN f : f[t] \in Nat
  BY DEF Partial

\* Nothing was read to begin with.
LEMMA EmptyPartial == <<>> \in Partial /\ DOMAIN <<>> = {}
<1>1. DOMAIN <<>> = {}
  BY SMT
<1>2. <<>> \in [{} -> Nat]
  BY SMT
<1> QED
  BY <1>1, <1>2 DEF Partial

\* g is f with value as its entry for t.
Grown(g, f, t, value) ==
  /\ g \in Partial
  /\ DOMAIN g = DOMAIN f \cup {t}
  /\ g[t] = value
  /\ \A x \in DOMAIN f : x # t => g[x] = f[x]

\* Reading one more thing adds it and keeps the others.
LEMMA WithPartial ==
  ASSUME NEW f \in Partial, NEW t \in Things, NEW value \in Nat
  PROVE  Grown(With(f, t, value), f, t, value)
<1>1. DOMAIN f \subseteq Things /\ \A x \in DOMAIN f : f[x] \in Nat
  BY PartialFacts
<1>2. With(f, t, value) \in [DOMAIN f \cup {t} -> Nat]
  BY <1>1 DEF With
<1>3. DOMAIN f \cup {t} \in SUBSET Things
  BY <1>1
<1>4. With(f, t, value) \in Partial
  BY <1>2, <1>3 DEF Partial
<1> QED
  BY <1>4 DEF With, Grown

\* The steps of --prepare.
LEMMA PrepareTable ==
  /\ Len(PrepareSteps) = 13
  /\ PrepareSteps[1] = <<"mkdir", "-">> /\ PrepareSteps[2] = <<"protect", "-">>
  /\ PrepareSteps[3] = <<"copy", "executables">> /\ PrepareSteps[4] = <<"copy", "profile">>
  /\ PrepareSteps[5] = <<"copy", "vault">> /\ PrepareSteps[6] = <<"copy", "installer">>
  /\ PrepareSteps[7] = <<"hash", "installer">> /\ PrepareSteps[8] = <<"hash", "profile">>
  /\ PrepareSteps[9] = <<"hash", "vault">> /\ PrepareSteps[10] = <<"hash", "registry">>
  /\ PrepareSteps[11] = <<"hash", "updater">> /\ PrepareSteps[12] = <<"hash", "executables">>
  /\ PrepareSteps[13] = <<"write", "-">>
  BY DEF PrepareSteps

\* The steps of --repair.
LEMMA RepairTable ==
  /\ Len(RepairSteps) = 14
  /\ RepairSteps[1] = <<"load", "-">> /\ RepairSteps[2] = <<"verify", "installer">>
  /\ RepairSteps[3] = <<"match", "profile">> /\ RepairSteps[4] = <<"match", "vault">>
  /\ RepairSteps[5] = <<"match", "updater">> /\ RepairSteps[6] = <<"match", "registry">>
  /\ RepairSteps[7] = <<"install", "-">> /\ RepairSteps[8] = <<"log", "-">>
  /\ RepairSteps[9] = <<"match", "updater">> /\ RepairSteps[10] = <<"match", "executables">>
  /\ RepairSteps[11] = <<"match", "profile">> /\ RepairSteps[12] = <<"match", "vault">>
  /\ RepairSteps[13] = <<"match", "registry">> /\ RepairSteps[14] = <<"probe", "-">>
  BY DEF RepairSteps

\* What a step of --prepare adds to what was done.
LEMMA DoneStep ==
  ASSUME NEW op, NEW k \in 1..13
  PROVE  Done(op, k + 1) = IF PrepareSteps[k][1] = op THEN Done(op, k) \cup {PrepareSteps[k][2]}
                           ELSE Done(op, k)
<1>1. \A j : j \in 1..((k + 1) - 1) <=> j \in 1..(k - 1) \/ j = k
  BY SMT
<1> QED
  BY <1>1 DEF Done

\* Before the first step nothing is copied or hashed.
LEMMA NothingDone == ASSUME NEW op PROVE Done(op, 1) = {}
  BY SMT DEF Done

\* Before the last step everything is copied and hashed.
LEMMA AllDone == Done("copy", 13) = Copied /\ Done("hash", 13) = Things
<1>1. \A j : j \in 1..(13 - 1) <=> j \in {1, 2, 3, 4, 5, 6, 7, 8, 9, 10, 11, 12}
  BY SMT
<1>2. {j \in 1..(13 - 1) : PrepareSteps[j][1] = "copy"} = {3, 4, 5, 6}
  BY SMT, <1>1, PrepareTable
<1>3. {j \in 1..(13 - 1) : PrepareSteps[j][1] = "hash"} = {7, 8, 9, 10, 11, 12}
  BY SMT, <1>1, PrepareTable
<1> QED
  BY SMT, <1>2, <1>3, PrepareTable DEF Done, Copied, Things, Compared

\* The invariant holds in the beginning.
LEMMA RepairInitOK == RepairInit => RepairInv
<1> SUFFICES ASSUME RepairInit PROVE RepairInv
  OBVIOUS
<1>1. RepairTypes
  BY EmptyPartial DEF RepairInit, RepairTypes, NoTool, NoState, NoResult
<1>2. Prepared
  BY DEF RepairInit, Prepared, NoTool, NoState
<1>3. Newer
  BY EmptyPartial DEF RepairInit, Newer, NoTool, NoState
<1>4. Compares
  BY DEF RepairInit, Compares, NoTool
<1> QED
  BY <1>1, <1>2, <1>3, <1>4 DEF RepairInv, RepairInit, NoResult

\* A process that ends, and writes nothing but a result.
LEMMA ToolEnds ==
  ASSUME RepairInv, tool' = NoTool, UNCHANGED <<host, tampered, repairs>>,
         NEW written \in [status : {"none", "passed", "failed"}, tampered : SUBSET Compared],
         written.status = "passed" => written.tampered = {},
         evidence' = [evidence EXCEPT !.result = written]
  PROVE  RepairInv'
<1>1. /\ evidence'.made = evidence.made /\ evidence'.protected = evidence.protected
      /\ evidence'.backup = evidence.backup /\ evidence'.state = evidence.state
      /\ evidence'.result = written
  BY DEF RepairInv, RepairTypes
<1>2. RepairTypes'
  BY EmptyPartial DEF RepairInv, RepairTypes, NoTool
<1>3. Prepared'
  BY <1>1 DEF RepairInv, Prepared, NoTool
<1>4. Newer'
  BY <1>1 DEF RepairInv, Newer, NoTool
<1>5. Compares'
  BY DEF Compares, NoTool
<1> QED
  BY <1>1, <1>2, <1>3, <1>4, <1>5 DEF RepairInv

\* StartPrepare keeps the invariant.
LEMMA StartPrepareOK == ASSUME RepairInv, StartPrepare PROVE RepairInv'
<1>1. /\ tool' = [which |-> "prepare", at |-> 1, read |-> <<>>, commands |-> FALSE]
      /\ ~evidence.made /\ UNCHANGED <<host, evidence, tampered, repairs>>
  BY DEF StartPrepare, NoTool
<1>2. RepairTypes'
  BY <1>1, EmptyPartial DEF RepairInv, RepairTypes
<1>3. Prepared'
  <2>1. DOMAIN evidence.backup = {} /\ evidence.state = NoState
    BY <1>1, EmptyPartial DEF RepairInv, Prepared
  <2> QED
    BY SMT, <1>1, <2>1, EmptyPartial, NothingDone DEF RepairInv, Prepared
<1>4. Newer'
  BY <1>1, EmptyPartial DEF RepairInv, Newer
<1>5. Compares'
  BY <1>1 DEF Compares
<1> QED
  BY <1>1, <1>2, <1>3, <1>4, <1>5 DEF RepairInv

\* StartRepair keeps the invariant.
LEMMA StartRepairOK == ASSUME RepairInv, StartRepair PROVE RepairInv'
<1>1. /\ tool' = [which |-> "repair", at |-> 1, read |-> <<>>, commands |-> FALSE]
      /\ UNCHANGED <<host, evidence, tampered, repairs>>
  BY DEF StartRepair, NoTool
<1>2. RepairTypes'
  BY <1>1, EmptyPartial DEF RepairInv, RepairTypes
<1>3. Prepared'
  BY <1>1 DEF RepairInv, Prepared
<1>4. Newer'
  BY <1>1 DEF RepairInv, Newer
<1>5. Compares'
  BY SMT, <1>1 DEF Compares
<1> QED
  BY <1>1, <1>2, <1>3, <1>4, <1>5 DEF RepairInv

\* The host changes somewhere: contents only grow.
LEMMA HostChangesOK ==
  ASSUME RepairInv, NEW t \in Things, HostChanges(t)
  PROVE  RepairInv'
<1>1. UNCHANGED <<evidence, tool, tampered, repairs>> /\ host' \in [Things -> Nat]
      /\ \A x \in Things : host[x] \in Nat /\ host[x] <= host'[x]
  BY SMT DEF RepairInv, RepairTypes, HostChanges
<1>2. RepairTypes'
  BY <1>1 DEF RepairInv, RepairTypes
<1>3. Prepared' /\ Compares'
  BY <1>1 DEF RepairInv, Prepared, Compares
<1>4. Newer'
  <2>1. tampered \subseteq Things
    BY DEF RepairInv, RepairTypes, Things
  <2>2. /\ tool.read \in Partial /\ evidence.state \in Partial
    BY DEF RepairInv, RepairTypes
  <2>3. evidence.state # NoState => DOMAIN evidence.state = Things
    BY DEF RepairInv, Prepared
  <2>4. /\ \A x \in DOMAIN tool.read : x \in Things /\ tool.read[x] \in Nat
        /\ \A x \in DOMAIN evidence.state : x \in Things /\ evidence.state[x] \in Nat
    BY <2>2, PartialFacts
  <2> QED
    BY SMT, <1>1, <2>1, <2>3, <2>4 DEF RepairInv, Newer
<1> QED
  BY <1>1, <1>2, <1>3, <1>4 DEF RepairInv

\* What a tool reads of a thing is its content.
LEMMA ReadingIsContent == ASSUME NEW t \in Things PROVE Reading(t) = host[t]
  BY DEF Reading, configured_profile_digest, registry_snapshot, updater_snapshot, sha256

\* A step of --prepare before the last: what it copies and hashes is recorded.
LEMMA PrepareWorks ==
  ASSUME RepairInv, PrepareStep, tool.at # 13
  PROVE  RepairInv'
<1> DEFINE op == PrepareSteps[tool.at][1]
           thing == PrepareSteps[tool.at][2]
           k == tool.at
<1>1. k \in 1..13 /\ tool.which = "prepare" /\ k \in 1..12
  BY SMT DEF RepairInv, Prepared, PrepareStep
<1>2. /\ op \in {"mkdir", "protect", "copy", "hash"}
      /\ op \in {"copy", "hash"} => thing \in Things
      /\ op = "mkdir" <=> k = 1
      /\ op = "protect" <=> k = 2
      /\ Len(PrepareSteps) = 13
  <2>1. k \in {1, 2, 3, 4, 5, 6, 7, 8, 9, 10, 11, 12}
    BY SMT, <1>1
  <2> QED
    BY SMT, <2>1, PrepareTable DEF Things, Compared
<1>3. /\ Done("copy", k + 1) = IF op = "copy" THEN Done("copy", k) \cup {thing} ELSE Done("copy", k)
      /\ Done("hash", k + 1) = IF op = "hash" THEN Done("hash", k) \cup {thing} ELSE Done("hash", k)
  BY <1>1, DoneStep
<1>4. /\ evidence' = CASE op = "mkdir" -> [evidence EXCEPT !.made = TRUE]
                       [] op = "protect" -> protect_backup(evidence)
                       [] op = "copy" -> [evidence EXCEPT !.backup = With(@, thing, host[thing])]
                       [] op = "hash" -> evidence
                       [] op = "write" -> [evidence EXCEPT !.state = tool.read]
      /\ tool' = [tool EXCEPT !.at = @ + 1,
                     !.read = IF op = "hash" THEN With(@, thing, Reading(thing)) ELSE @]
      /\ UNCHANGED <<host, tampered, repairs>>
  BY <1>1, <1>2 DEF PrepareStep
<1> HIDE DEF op, thing
<1>5. /\ evidence.made \/ op = "mkdir" => evidence'.made
      /\ evidence.protected \/ op = "protect" => evidence'.protected
      /\ evidence'.backup = IF op = "copy" THEN With(evidence.backup, thing, host[thing])
                            ELSE evidence.backup
      /\ evidence'.state = evidence.state /\ evidence'.result = evidence.result
  BY <1>2, <1>4 DEF RepairInv, RepairTypes, protect_backup
<1>6. /\ tool'.which = "prepare" /\ tool'.at = k + 1 /\ tool'.commands = tool.commands
      /\ tool'.read = IF op = "hash" THEN With(tool.read, thing, Reading(thing)) ELSE tool.read
      /\ DOMAIN tool' = DOMAIN tool
  BY <1>1, <1>4 DEF RepairInv, RepairTypes
<1>7. evidence.backup \in Partial /\ tool.read \in Partial /\ host \in [Things -> Nat]
  BY DEF RepairInv, RepairTypes
<1>8. ASSUME op = "copy"
      PROVE  /\ evidence'.backup \in Partial
             /\ DOMAIN evidence'.backup = DOMAIN evidence.backup \cup {thing}
  <2>1. thing \in Things
    BY <1>2, <1>8
  <2>2. host[thing] \in Nat
    BY <1>7, <2>1
  <2>a. evidence.backup \in Partial
    BY <1>7
  <2>3. Grown(With(evidence.backup, thing, host[thing]), evidence.backup, thing, host[thing])
    BY <2>a, <2>1, <2>2, WithPartial
  <2> QED
    BY <1>5, <1>8, <2>3 DEF Grown
<1>9. ASSUME op = "hash"
      PROVE  /\ tool'.read \in Partial
             /\ DOMAIN tool'.read = DOMAIN tool.read \cup {thing}
             /\ tool'.read[thing] = host[thing]
             /\ \A x \in DOMAIN tool.read : x # thing => tool'.read[x] = tool.read[x]
  <2>1. thing \in Things
    BY <1>2, <1>9
  <2>2. host[thing] \in Nat /\ Reading(thing) = host[thing]
    BY <1>7, <2>1, ReadingIsContent
  <2>3. Grown(With(tool.read, thing, host[thing]), tool.read, thing, host[thing])
    BY <1>7, <2>1, <2>2, WithPartial
  <2>4. tool'.read = With(tool.read, thing, host[thing])
    BY <1>6, <1>9, <2>2
  <2> QED
    BY <2>3, <2>4 DEF Grown
<1>10. RepairTypes'
  <2>1. evidence'.backup \in Partial /\ tool'.read \in Partial
    BY <1>5, <1>6, <1>7, <1>8, <1>9
  <2>2. evidence' \in [made : BOOLEAN, protected : BOOLEAN, backup : Partial, state : Partial,
                     result : [status : {"none", "passed", "failed"}, tampered : SUBSET Compared]]
    BY <1>2, <1>4, <1>7, <2>1, <1>5 DEF RepairInv, RepairTypes, protect_backup
  <2>3. tool' \in [which : {"none", "prepare", "repair"}, at : Nat, read : Partial, commands : BOOLEAN]
    <3>1. tool' = [which |-> tool.which, at |-> k + 1, read |-> tool'.read, commands |-> tool.commands]
      BY <1>4 DEF RepairInv, RepairTypes
    <3>2. tool.which \in {"none", "prepare", "repair"} /\ tool.commands \in BOOLEAN /\ k + 1 \in Nat
      BY SMT, <1>1 DEF RepairInv, RepairTypes
    <3> QED
      BY SMT, <2>1, <3>1, <3>2
  <2> QED
    BY <1>4, <2>2, <2>3 DEF RepairInv, RepairTypes
<1>11. Prepared'
  <2>1. /\ evidence.state = NoState /\ (k > 1 => evidence.made) /\ (k > 2 => evidence.protected)
        /\ DOMAIN evidence.backup = Done("copy", k) /\ DOMAIN tool.read = Done("hash", k)
    BY <1>1 DEF RepairInv, Prepared
  <2>2. evidence'.made /\ (k + 1 > 2 => evidence'.protected)
    BY SMT, <1>1, <1>2, <1>5, <2>1
  <2>3. DOMAIN evidence'.backup = Done("copy", k + 1) /\ DOMAIN tool'.read = Done("hash", k + 1)
    BY <1>3, <1>5, <1>6, <1>8, <1>9, <2>1
  <2> QED
    BY SMT, <1>1, <1>5, <1>6, <2>1, <2>2, <2>3 DEF Prepared
<1>12. Newer'
  <2>1. \A x \in DOMAIN tool'.read : tool'.read[x] <= host'[x]
    <3>1. \A x \in DOMAIN tool.read : tool.read[x] <= host[x]
      BY <1>1 DEF RepairInv, Newer
    <3>2. CASE op = "hash"
      BY SMTT(20), <1>2, <1>4, <1>7, <1>9, <3>1, <3>2
    <3>3. CASE op # "hash"
      BY <1>4, <1>6, <3>1, <3>3
    <3> QED
      BY <3>2, <3>3
  <2> QED
    BY <1>4, <1>5, <2>1 DEF RepairInv, Newer
<1>13. Compares'
  BY <1>6 DEF Compares
<1> QED
  BY <1>5, <1>10, <1>11, <1>12, <1>13 DEF RepairInv

\* The last step of --prepare: the snapshot is complete, and is of contents
\* that the host had or has.
LEMMA PrepareEnds ==
  ASSUME RepairInv, PrepareStep, tool.at = 13
  PROVE  RepairInv'
<1>1. /\ tool.which = "prepare" /\ UNCHANGED <<host, tampered, repairs>>
      /\ evidence' = [evidence EXCEPT !.state = tool.read] /\ tool' = NoTool
  BY SMT, PrepareTable DEF PrepareStep
<1>2. /\ evidence'.made = evidence.made /\ evidence'.protected = evidence.protected
      /\ evidence'.backup = evidence.backup /\ evidence'.state = tool.read
      /\ evidence'.result = evidence.result
  BY <1>1 DEF RepairInv, RepairTypes
<1>3. /\ evidence.made /\ evidence.protected /\ evidence.state = NoState
      /\ DOMAIN evidence.backup = Copied /\ DOMAIN tool.read = Things
  BY SMT, <1>1, AllDone DEF RepairInv, Prepared
<1>4. RepairTypes'
  BY <1>1, EmptyPartial DEF RepairInv, RepairTypes, NoTool
<1>5. Prepared'
  BY <1>1, <1>2, <1>3 DEF Prepared, NoTool
<1>6. Newer'
  BY <1>1, <1>2, <1>3 DEF RepairInv, Newer, NoTool
<1>7. Compares'
  BY <1>1 DEF Compares, NoTool
<1> QED
  BY <1>2, <1>4, <1>5, <1>6, <1>7 DEF RepairInv

\* A check of the repair that holds, and is not the last.
LEMMA CheckHolds ==
  ASSUME RepairInv, tool.which = "repair", tool.at # 7, tool.at # 14,
         Holds(RepairSteps[tool.at][1], RepairSteps[tool.at][2]),
         tool' = [tool EXCEPT !.at = @ + 1,
                     !.read = IF RepairSteps[tool.at][1] = "load" THEN evidence.state ELSE @],
         UNCHANGED <<host, evidence, tampered, repairs>>
  PROVE  RepairInv'
<1> DEFINE k == tool.at
           thing == RepairSteps[k][2]
<1>1. k \in 1..14 /\ k \in {1, 2, 3, 4, 5, 6, 8, 9, 10, 11, 12, 13}
  BY SMT DEF RepairInv, Compares
<1>2. tool' = [which |-> "repair", at |-> k + 1, commands |-> tool.commands,
               read |-> IF k = 1 THEN evidence.state ELSE tool.read]
  <2>1. tool \in [which : {"none", "prepare", "repair"}, at : Nat, read : Partial, commands : BOOLEAN]
    BY DEF RepairInv, RepairTypes
  <2>2. RepairSteps[k][1] = "load" <=> k = 1
    BY SMT, <1>1, RepairTable
  <2>3. tool' = [tool EXCEPT !.at = k + 1, !.read = IF k = 1 THEN evidence.state ELSE tool.read]
    BY <2>2
  <2> HIDE DEF k
  <2> QED
    BY <2>1, <2>3
<1>3. RepairTypes'
  <2>1. k + 1 \in Nat /\ tool.commands \in BOOLEAN /\ tool.read \in Partial /\ evidence.state \in Partial
    BY SMT, <1>1 DEF RepairInv, RepairTypes
  <2> QED
    BY <1>2, <2>1 DEF RepairInv, RepairTypes
<1>4. Prepared' /\ Newer'
  BY <1>2 DEF RepairInv, Prepared, Newer
<1>5. evidence.state # NoState /\ tool'.read = evidence.state
  <2>1. CASE k = 1
    BY SMT, <1>2, <2>1, RepairTable DEF Holds
  <2>2. CASE k # 1
    BY SMT, <1>1, <1>2, <2>2 DEF RepairInv, Compares
  <2> QED
    BY <2>1, <2>2
<1>6. k > 1 => evidence.backup["installer"] = evidence.state["installer"]
  <2>1. CASE k = 2
    BY SMT, <1>2, <1>5, <2>1, RepairTable DEF Holds
  <2>2. CASE k > 2
    BY <2>2 DEF RepairInv, Compares
  <2> QED
    BY SMT, <1>1, <2>1, <2>2
<1>7. ASSUME k \in 9..13 PROVE thing \notin tampered
  <2>1. RepairSteps[k][1] = "match" /\ thing \in Things
    <3>1. k \in {9, 10, 11, 12, 13}
      BY SMT, <1>7
    <3> QED
      BY SMT, <3>1, RepairTable DEF Things, Compared
  <2>2. host[thing] = evidence.state[thing]
    <3>1. Reading(thing) = tool.read[thing]
      BY <2>1 DEF Holds
    <3> QED
      BY <1>2, <1>5, <1>7, <2>1, <3>1, ReadingIsContent
  <2>3. thing \in tampered => evidence.state[thing] < host[thing]
    BY <1>5 DEF RepairInv, Newer
  <2>4. host[thing] \in Nat
    BY <2>1 DEF RepairInv, RepairTypes
  <2> HIDE DEF thing
  <2> QED
    BY SMT, <2>2, <2>3, <2>4
<1>8. ASSUME NEW i \in 9..13, k + 1 > i PROVE RepairSteps[i][2] \notin tampered
  <2>1. CASE i = k
    BY <1>7, <2>1
  <2>2. CASE i # k
    <3>1. k > i /\ k > 7
      BY SMT, <1>1, <1>8, <2>2
    <3> QED
      BY <3>1 DEF RepairInv, Compares
  <2> QED
    BY <2>1, <2>2
<1> HIDE DEF k
<1>9. /\ tool'.which = "repair" /\ tool'.at = k + 1 /\ k + 1 \in 1..14 /\ evidence' = evidence
      /\ tampered' = tampered /\ (k + 1 > 2 => k > 1)
  <2>1. k + 1 \in 1..14 /\ (k + 1 > 2 => k > 1)
    BY SMT, <1>1
  <2>2. tool'.which = "repair" /\ tool'.at = k + 1
    BY ONLY <1>2
  <2> QED
    BY <2>1, <2>2
<1>10. Compares'
  BY <1>5, <1>6, <1>8, <1>9 DEF Compares
<1> QED
  BY <1>3, <1>4, <1>9, <1>10 DEF RepairInv

\* At the last step of the repair every compared thing was found unchanged.
LEMMA PassedUntampered ==
  ASSUME RepairInv, tool.which = "repair", tool.at = 14
  PROVE  tampered = {}
<1>1. \A i \in 9..13 : RepairSteps[i][2] \notin tampered
  BY SMT DEF RepairInv, Compares
<1>2. /\ "updater" \notin tampered /\ "executables" \notin tampered /\ "profile" \notin tampered
      /\ "vault" \notin tampered /\ "registry" \notin tampered
  BY SMT, <1>1, RepairTable
<1>3. tampered \in SUBSET Compared
  BY DEF RepairInv, RepairTypes
<1> QED
  BY <1>2, <1>3 DEF Compared

\* CheckStep keeps the invariant.
LEMMA CheckStepOK == ASSUME RepairInv, CheckStep PROVE RepairInv'
<1> DEFINE op == RepairSteps[tool.at][1]
           thing == RepairSteps[tool.at][2]
<1>1. /\ tool.which = "repair" /\ op # "install" /\ tool.at # 7
      /\ UNCHANGED <<host, tampered, repairs>>
  BY SMT, RepairTable DEF CheckStep
<1>2. tampered \in SUBSET Compared
  BY DEF RepairInv, RepairTypes
<1>3. CASE WriteResult("failed")
  <2>1. /\ evidence' = [evidence EXCEPT !.result = [status |-> "failed", tampered |-> tampered]]
        /\ tool' = NoTool
    BY <1>1, <1>3 DEF WriteResult
  <2> QED
    BY <1>1, <1>2, <2>1, ToolEnds
<1>4. CASE tool.at = 14 /\ WriteResult("passed")
  <2>1. tampered = {}
    BY <1>1, <1>4, PassedUntampered
  <2>2. /\ evidence' = [evidence EXCEPT !.result = [status |-> "passed", tampered |-> {}]]
        /\ tool' = NoTool
    BY <1>1, <1>4, <2>1 DEF WriteResult
  <2> QED
    BY <1>1, <2>2, ToolEnds
<1>5. CASE /\ Holds(op, thing) /\ tool.at # 14 /\ UNCHANGED evidence
           /\ tool' = [tool EXCEPT !.at = @ + 1, !.read = IF op = "load" THEN evidence.state ELSE @]
  BY <1>1, <1>5, CheckHolds
<1> QED
  BY <1>3, <1>4, <1>5, RepairTable DEF CheckStep

\* The installer runs over a complete snapshot and the recorded installer.
LEMMA InstallsOverSnapshot ==
  ASSUME RepairInv, Install
  PROVE  /\ tool.which = "repair" /\ tool.at = 7 /\ evidence.state # NoState
         /\ evidence.protected /\ DOMAIN evidence.backup = Copied
         /\ evidence.backup["installer"] = evidence.state["installer"]
<1>1. tool.which = "repair" /\ RepairSteps[tool.at][1] = "install"
  BY DEF Install
<1>2. tool.at \in {1, 2, 3, 4, 5, 6, 7, 8, 9, 10, 11, 12, 13, 14}
  BY SMT, <1>1 DEF RepairInv, Compares
<1>3. tool.at = 7
  BY SMT, <1>1, <1>2, RepairTable
<1> QED
  BY SMT, <1>1, <1>3 DEF RepairInv, Compares, Prepared

\* Install keeps the invariant.
LEMMA InstallOK == ASSUME RepairInv, Install PROVE RepairInv'
<1>1. /\ tool.which = "repair" /\ tool.at = 7 /\ evidence.state # NoState
      /\ DOMAIN evidence.state = Things /\ tool.read = evidence.state
  BY SMT, InstallsOverSnapshot DEF RepairInv, Prepared, Compares
<1>2. PICK changes \in SUBSET Compared, commands \in BOOLEAN, succeeds \in BOOLEAN :
          /\ host' = [t \in Things |-> IF t \in changes THEN host[t] + 1 ELSE host[t]]
          /\ tampered' = tampered \cup changes
          /\ IF succeeds
             THEN /\ tool' = [tool EXCEPT !.at = @ + 1, !.commands = commands]
                  /\ UNCHANGED evidence
             ELSE WriteResult("failed")
  BY DEF Install
<1>3. repairs' = repairs + 1
  BY DEF Install
<1>4. /\ host' \in [Things -> Nat] /\ tampered' \in SUBSET Compared /\ repairs' \in Nat
      /\ \A t \in Things : host[t] \in Nat /\ host'[t] \in Nat /\ host[t] <= host'[t]
                           /\ (t \in changes => host[t] < host'[t])
  BY SMT, <1>2, <1>3 DEF RepairInv, RepairTypes
<1>5. \A t \in Things : evidence.state[t] \in Nat /\ evidence.state[t] <= host'[t]
                        /\ (t \in tampered' => evidence.state[t] < host'[t])
  <2> SUFFICES ASSUME NEW t \in Things
               PROVE  evidence.state[t] \in Nat /\ evidence.state[t] <= host'[t]
                        /\ (t \in tampered' => evidence.state[t] < host'[t])
    OBVIOUS
  <2>1. evidence.state \in Partial
    BY DEF RepairInv, RepairTypes
  <2>2. evidence.state[t] \in Nat
    BY <1>1, <2>1, PartialFacts
  <2>3. evidence.state[t] <= host[t] /\ (t \in tampered => evidence.state[t] < host[t])
    BY <1>1 DEF RepairInv, Newer
  <2> QED
    BY SMT, <1>2, <1>4, <2>2, <2>3
<1>6. tampered' \subseteq Things
  BY <1>4 DEF Things
<1>7. CASE succeeds
  <2>1. /\ tool' = [which |-> "repair", at |-> 8, read |-> tool.read, commands |-> commands]
        /\ evidence' = evidence
    <3>1. tool' = [tool EXCEPT !.at = 8, !.commands = commands] /\ evidence' = evidence
      BY SMT, <1>1, <1>2, <1>7
    <3>2. tool \in [which : {"none", "prepare", "repair"}, at : Nat, read : Partial, commands : BOOLEAN]
      BY DEF RepairInv, RepairTypes
    <3> QED
      BY <1>1, <3>1, <3>2
  <2>2. RepairTypes'
    BY <1>4, <2>1 DEF RepairInv, RepairTypes
  <2>3. Prepared'
    BY <2>1 DEF RepairInv, Prepared
  <2>4. Newer'
    BY <1>1, <1>5, <1>6, <2>1 DEF Newer
  <2>5. Compares'
    BY SMT, <1>1, <2>1 DEF RepairInv, Compares
  <2> QED
    BY <2>1, <2>2, <2>3, <2>4, <2>5 DEF RepairInv
<1>8. CASE ~succeeds
  <2>1. /\ evidence' = [evidence EXCEPT !.result = [status |-> "failed", tampered |-> tampered']]
        /\ tool' = NoTool
    BY <1>2, <1>8 DEF WriteResult
  <2>2. /\ evidence'.made = evidence.made /\ evidence'.protected = evidence.protected
        /\ evidence'.backup = evidence.backup /\ evidence'.state = evidence.state
        /\ evidence'.result.status = "failed"
    BY <2>1 DEF RepairInv, RepairTypes
  <2>3. RepairTypes'
    BY <1>4, <2>1, EmptyPartial DEF RepairInv, RepairTypes, NoTool
  <2>4. Prepared'
    BY <2>1, <2>2 DEF RepairInv, Prepared, NoTool
  <2>5. Newer'
    BY <1>1, <1>5, <1>6, <2>1, <2>2 DEF Newer, NoTool
  <2>6. Compares'
    BY <2>1 DEF Compares, NoTool
  <2> QED
    BY <2>2, <2>3, <2>4, <2>5, <2>6 DEF RepairInv
<1> QED
  BY <1>7, <1>8

\* ToolStops keeps the invariant.
LEMMA ToolStopsOK == ASSUME RepairInv, ToolStops PROVE RepairInv'
<1>1. tool' = NoTool /\ UNCHANGED <<host, evidence, tampered, repairs>>
  BY DEF ToolStops
<1>2. evidence' = [evidence EXCEPT !.result = evidence.result]
  BY <1>1 DEF RepairInv, RepairTypes
<1>3. /\ evidence.result \in [status : {"none", "passed", "failed"}, tampered : SUBSET Compared]
      /\ evidence.result.status = "passed" => evidence.result.tampered = {}
  BY DEF RepairInv, RepairTypes
<1> QED
  BY <1>1, <1>2, <1>3, ToolEnds

\* Every step keeps the invariant.
LEMMA RepairNextOK == RepairInv /\ [RepairNext]_repairVars => RepairInv'
<1> SUFFICES ASSUME RepairInv, [RepairNext]_repairVars PROVE RepairInv'
  OBVIOUS
<1>1. CASE UNCHANGED repairVars
  BY <1>1 DEF repairVars, RepairInv, RepairTypes, Prepared, Newer, Compares
<1> QED
  BY <1>1, StartPrepareOK, PrepareWorks, PrepareEnds, StartRepairOK, CheckStepOK, InstallOK,
     ToolStopsOK, HostChangesOK DEF RepairNext

\* A passed repair result means that no repair tried over this snapshot
\* changed anything it compares.
THEOREM RepairPreserved == RepairSpec => []RepairPassedMeansPreserved
<1>1. RepairInv => RepairPassedMeansPreserved
  <2> SUFFICES ASSUME RepairInv PROVE RepairPassedMeansPreserved
    OBVIOUS
  <2>1. /\ DOMAIN host = Things /\ tool.which \in {"none", "prepare", "repair"}
        /\ evidence.result.status \in {"none", "passed", "failed"}
    BY DEF RepairInv, RepairTypes
  <2>2. DOMAIN PrepareSteps = 1..13 /\ DOMAIN RepairSteps = 1..14
    BY SMT DEF PrepareSteps, RepairSteps
  <2>3. RepairTypeOK
    BY <2>1, <2>2 DEF RepairTypeOK, RepairInv, Prepared, Compares
  <2> QED
    BY <2>3 DEF RepairInv, RepairPassedMeansPreserved
<1> QED
  BY <1>1, RepairInitOK, RepairNextOK, PTL DEF RepairSpec

\* The installer is launched only over a protected, complete backup, and is
\* the one whose hash the snapshot recorded.
THEOREM InstallerOverSnapshot == RepairSpec => InstallerRunsOverASnapshot
<1>1. RepairInv /\ [RepairNext]_repairVars =>
         [repairs' > repairs =>
             /\ evidence.protected
             /\ DOMAIN evidence.backup = Copied
             /\ evidence.backup["installer"] = evidence.state["installer"]]_repairVars
  <2> SUFFICES ASSUME RepairInv, RepairNext, repairs' > repairs
               PROVE  /\ evidence.protected
                      /\ DOMAIN evidence.backup = Copied
                      /\ evidence.backup["installer"] = evidence.state["installer"]
    OBVIOUS
  <2>1. repairs' # repairs
    BY SMT DEF RepairInv, RepairTypes
  <2>2. Install
    BY <2>1 DEF RepairNext, StartPrepare, PrepareStep, StartRepair, CheckStep, ToolStops, HostChanges
  <2> QED
    BY <2>2, InstallsOverSnapshot
<1> QED
  BY <1>1, RepairInitOK, RepairNextOK, PTL DEF RepairSpec, InstallerRunsOverASnapshot

-----------------------------------------------------------------------------
(* The performance baseline.                                               *)

ConditionsOK == conditions \in [{"source", "harness", "machine"} -> Nat]

TransportOK ==
    transport \in [step : {"idle", "identify", "forward", "reverse", "diagnostics", "report"},
                   candidate : Nat, harness : Nat, measured : SUBSET Nat]

Between ==
    /\ transport.step \in {"idle", "identify", "forward"} => transport.measured = {}
    /\ transport.step \in {"reverse", "diagnostics", "report"} => transport.measured # {}
    /\ transport.step \notin {"idle", "identify"} => transport.candidate <= conditions.source
    /\ \A m \in transport.measured : transport.candidate <= m /\ m <= conditions.source

\* The source a comparison names is the one, and the only one, it measured.
MeasuredAsNamed(r) == approved_controlled_comparison(r) => r.measured = {r.candidate}

\* The summaries are a sequence, of whatever the suites gave.
SummariesOK == \E S : summaries \in Seq(S)

SummaryOK(s) ==
    approved_controlled_comparison(s.comparison) =>
        s.comparison.candidate = s.source /\ s.comparison.measured = {s.source}

SummariesApproved == \A i \in 1..Len(summaries) : SummaryOK(summaries[i])

BaselineApproved == \A i \in 1..Len(baseline) : SummaryOK(baseline[i])

BaselineInv ==
    /\ ConditionsOK /\ TransportOK /\ Between /\ MeasuredAsNamed(report)
    /\ SummariesOK /\ SummariesApproved /\ BaselineApproved

\* An inconclusive comparison is not an approved one.
LEMMA InconclusiveNotApproved == ~approved_controlled_comparison(Inconclusive)
  BY DEF approved_controlled_comparison, Inconclusive

\* Between comparisons there is nothing to say of the one under way.
LEMMA NoTransportOK ==
  ASSUME transport = NoTransport PROVE TransportOK /\ Between
  BY SMT, ConditionsAssumption DEF TransportOK, Between, NoTransport, NoSource

\* The invariant holds in the beginning.
LEMMA BaselineInitOK == BaselineInit => BaselineInv
<1> SUFFICES ASSUME BaselineInit PROVE BaselineInv
  OBVIOUS
<1>1. ConditionsOK
  BY SMT DEF BaselineInit, ConditionsOK
<1>2. TransportOK /\ Between
  BY NoTransportOK DEF BaselineInit
<1>3. MeasuredAsNamed(report)
  BY InconclusiveNotApproved DEF BaselineInit, MeasuredAsNamed
<1>4. SummariesOK
  <2>1. summaries \in Seq({})
    BY SMT DEF BaselineInit
  <2> QED
    BY <2>1 DEF SummariesOK
<1>5. SummariesApproved
  BY SMT DEF BaselineInit, SummariesApproved
<1>6. BaselineApproved
  <2>1. Legacy.comparison = Inconclusive
    BY DEF Legacy
  <2>2. SummaryOK(Legacy)
    BY <2>1, InconclusiveNotApproved DEF SummaryOK
  <2>3. Len(baseline) = 1 /\ baseline[1] = Legacy
    BY DEF BaselineInit
  <2> QED
    BY SMT, <2>2, <2>3 DEF BaselineApproved
<1> QED
  BY <1>1, <1>2, <1>3, <1>4, <1>5, <1>6 DEF BaselineInv

\* ChangeConditions keeps the invariant.
LEMMA ChangeConditionsOK ==
  ASSUME BaselineInv, NEW what \in {"source", "harness", "machine"}, ChangeConditions(what)
  PROVE  BaselineInv'
<1>1. ConditionsOK' /\ conditions.source \in Nat /\ conditions'.source \in Nat
      /\ conditions.source <= conditions'.source
  BY SMT DEF BaselineInv, ConditionsOK, ChangeConditions
<1>2. TransportOK'
  BY DEF BaselineInv, TransportOK, ChangeConditions
<1>3. Between'
  BY SMT, <1>1 DEF BaselineInv, Between, TransportOK, ChangeConditions
<1>4. UNCHANGED <<report, summaries, baseline>>
  BY DEF ChangeConditions
<1> QED
  BY <1>1, <1>2, <1>3, <1>4 DEF BaselineInv, MeasuredAsNamed, SummariesOK, SummariesApproved,
     BaselineApproved

\* A step of the comparison: only it and its report matter.
LEMMA ComparisonStep ==
  ASSUME BaselineInv, UNCHANGED <<conditions, summaries, baseline>>,
         TransportOK', Between', MeasuredAsNamed(report)'
  PROVE  BaselineInv'
  BY DEF BaselineInv, ConditionsOK, SummariesOK, SummariesApproved, BaselineApproved

\* StartComparison keeps the invariant.
LEMMA StartComparisonOK == ASSUME BaselineInv, StartComparison PROVE BaselineInv'
<1>1. conditions.harness \in Nat
  BY DEF BaselineInv, ConditionsOK
<1>2. TransportOK' /\ Between'
  <2>1. transport' = [step |-> "identify", candidate |-> MaxConditions + 1,
                      harness |-> conditions.harness, measured |-> {}]
    BY DEF StartComparison, NoTransport, NoSource
  <2>2. MaxConditions + 1 \in Nat
    BY SMT, ConditionsAssumption
  <2>3. TransportOK'
    BY <1>1, <2>1, <2>2 DEF TransportOK
  <2> QED
    BY <2>1, <2>3 DEF Between
<1>3. MeasuredAsNamed(report)'
  BY InconclusiveNotApproved DEF StartComparison, MeasuredAsNamed
<1> QED
  BY <1>2, <1>3, ComparisonStep DEF StartComparison

\* IdentifyCandidate keeps the invariant.
LEMMA IdentifyCandidateOK == ASSUME BaselineInv, IdentifyCandidate PROVE BaselineInv'
<1>1. conditions.source \in Nat /\ conditions'.source = conditions.source
  BY DEF BaselineInv, ConditionsOK, IdentifyCandidate
<1>2. TransportOK'
  BY <1>1 DEF BaselineInv, TransportOK, IdentifyCandidate, collect_source_identity
<1>3. Between'
  BY SMT, <1>1 DEF BaselineInv, TransportOK, Between, IdentifyCandidate, collect_source_identity
<1>4. MeasuredAsNamed(report)'
  BY DEF BaselineInv, IdentifyCandidate, MeasuredAsNamed
<1> QED
  BY <1>2, <1>3, <1>4, ComparisonStep DEF IdentifyCandidate

\* run_measurement keeps the invariant.
LEMMA run_measurementOK == ASSUME BaselineInv, run_measurement PROVE BaselineInv'
<1>1. conditions.source \in Nat /\ conditions'.source = conditions.source
  BY DEF BaselineInv, ConditionsOK, run_measurement
<1>2. /\ transport'.step \in {"reverse", "diagnostics", "report"}
      /\ transport'.candidate = transport.candidate /\ transport'.harness = transport.harness
      /\ transport'.measured = transport.measured \cup {conditions.source}
      /\ transport' \in [step : {"idle", "identify", "forward", "reverse", "diagnostics", "report"},
                         candidate : Nat, harness : Nat, measured : SUBSET Nat]
  BY <1>1 DEF BaselineInv, TransportOK, run_measurement
<1>3. TransportOK'
  BY <1>2 DEF TransportOK
<1>4. transport.candidate <= conditions.source
  BY DEF BaselineInv, Between, run_measurement
<1>5. Between'
  BY SMT, <1>1, <1>2, <1>4 DEF BaselineInv, Between
<1>6. MeasuredAsNamed(report)'
  BY DEF BaselineInv, run_measurement, MeasuredAsNamed
<1> QED
  BY <1>3, <1>5, <1>6, ComparisonStep DEF run_measurement

\* WriteComparison keeps the invariant.
LEMMA WriteComparisonOK ==
  ASSUME BaselineInv, NEW sections \in Sections, WriteComparison(sections)
  PROVE  BaselineInv'
<1>1. TransportOK' /\ Between'
  <2>1. transport' = NoTransport
    BY DEF WriteComparison
  <2> QED
    BY SMT, <2>1, ConditionsAssumption DEF TransportOK, Between, NoTransport, NoSource
<1>2. MeasuredAsNamed(report)'
  <2> SUFFICES ASSUME approved_controlled_comparison(report')
               PROVE  report'.measured = {report'.candidate}
    BY DEF MeasuredAsNamed, approved_controlled_comparison
  <2>1. /\ transport.step = "report"
        /\ report'.candidate = transport.candidate /\ report'.measured = transport.measured
    BY DEF WriteComparison
  <2>2. report'.status = "pass"
    BY DEF approved_controlled_comparison
  <2>3. transport.candidate = conditions.source
    BY <2>2 DEF WriteComparison, collect_source_identity
  <2>4. /\ transport.measured # {} /\ transport.measured \subseteq Nat
        /\ \A m \in transport.measured : transport.candidate <= m /\ m <= conditions.source
        /\ transport.candidate \in Nat
    BY <2>1 DEF BaselineInv, Between, TransportOK
  <2>5. transport.measured = {transport.candidate}
    BY SMT, <2>3, <2>4
  <2> QED
    BY <2>1, <2>5
<1> QED
  BY <1>1, <1>2, ComparisonStep DEF WriteComparison

\* ComparisonFails keeps the invariant.
LEMMA ComparisonFailsOK == ASSUME BaselineInv, ComparisonFails PROVE BaselineInv'
<1>1. TransportOK' /\ Between'
  BY SMT, ConditionsAssumption DEF ComparisonFails, TransportOK, Between, NoTransport, NoSource
<1>2. MeasuredAsNamed(report)'
  BY InconclusiveNotApproved DEF ComparisonFails, MeasuredAsNamed
<1> QED
  BY <1>1, <1>2, ComparisonStep DEF ComparisonFails

\* Steps that touch nothing the invariant is about.
LEMMA OtherStep ==
  ASSUME BaselineInv, UNCHANGED <<conditions, transport, report, summaries, baseline>>
  PROVE  BaselineInv'
  BY DEF BaselineInv, ConditionsOK, TransportOK, Between, MeasuredAsNamed, SummariesOK,
         SummariesApproved, BaselineApproved

\* WriteSummary keeps the invariant.
LEMMA WriteSummaryOK ==
  ASSUME BaselineInv, NEW attach \in BOOLEAN, WriteSummary(attach)
  PROVE  BaselineInv'
<1> DEFINE suites == [id \in DOMAIN suite.results |-> Summarised(id, suite.results[id])]
           new == [schema |-> 2, source |-> collect_git_metadata,
                   machine |-> collect_machine_metadata,
                   suites |-> suites, qualification |-> Qualification(suites),
                   comparison |-> IF attach THEN AttachedComparison(collect_git_metadata)
                                  ELSE Inconclusive]
<1>1. summaries' = Append(summaries, new) /\ UNCHANGED <<conditions, transport, report, baseline>>
  BY DEF WriteSummary
<1>2. SummaryOK(new)
  <2>1. new.source = collect_git_metadata
    OBVIOUS
  <2>2. \/ new.comparison = Inconclusive
        \/ new.comparison = report /\ report.candidate = collect_git_metadata
    BY DEF AttachedComparison
  <2> HIDE DEF new
  <2> QED
    BY <2>1, <2>2, InconclusiveNotApproved DEF SummaryOK, BaselineInv, MeasuredAsNamed
<1> HIDE DEF new
<1>3. PICK S : summaries \in Seq(S)
  BY DEF BaselineInv, SummariesOK
<1>4. summaries \in Seq(S \cup {new})
  BY SMT, <1>3
<1>5. SummariesOK'
  <2>1. summaries' \in Seq(S \cup {new})
    BY SMT, <1>1, <1>4
  <2> QED
    BY <2>1 DEF SummariesOK
<1>6. SummariesApproved'
  <2>1. /\ Len(summaries') = Len(summaries) + 1 /\ Len(summaries) \in Nat
        /\ summaries'[Len(summaries) + 1] = new
        /\ \A i \in 1..Len(summaries) : summaries'[i] = summaries[i]
    BY SMT, <1>1, <1>4
  <2> SUFFICES ASSUME NEW i \in 1..Len(summaries') PROVE SummaryOK(summaries'[i])
    BY DEF SummariesApproved, SummaryOK, approved_controlled_comparison
  <2>2. i \in 1..Len(summaries) \/ i = Len(summaries) + 1
    BY SMT, <2>1
  <2> QED
    BY <1>2, <2>1, <2>2 DEF BaselineInv, SummariesApproved
<1> QED
  BY <1>1, <1>5, <1>6 DEF BaselineInv, ConditionsOK, TransportOK, Between, MeasuredAsNamed,
     BaselineApproved

\* promote_summary keeps the invariant.
LEMMA promote_summaryOK ==
  ASSUME BaselineInv, NEW i \in 1..Len(summaries), NEW survives \in BOOLEAN,
         promote_summary(i, survives)
  PROVE  BaselineInv'
<1>1. UNCHANGED <<conditions, transport, report, summaries>>
  BY DEF promote_summary
<1>2. baseline' = <<summaries[i]>> \/ baseline' = <<>>
  BY DEF promote_summary, write_json, Torn
<1>3. SummaryOK(summaries[i])
  BY DEF BaselineInv, SummariesApproved
<1>4. ASSUME NEW j \in 1..Len(baseline') PROVE baseline'[j] = summaries[i]
  BY SMT, <1>2
<1>5. BaselineApproved'
  BY <1>3, <1>4 DEF BaselineApproved, SummaryOK, approved_controlled_comparison
<1> QED
  BY <1>1, <1>5 DEF BaselineInv, ConditionsOK, TransportOK, Between, MeasuredAsNamed,
     SummariesOK, SummariesApproved

\* Every step keeps the invariant.
LEMMA BaselineNextOK == BaselineInv /\ [BaselineNext]_baselineVars => BaselineInv'
<1> SUFFICES ASSUME BaselineInv, [BaselineNext]_baselineVars PROVE BaselineInv'
  OBVIOUS
<1>1. CASE UNCHANGED baselineVars
  BY <1>1, OtherStep DEF baselineVars
<1>2. CASE \E selection \in Selections : StartSuiteRun(selection)
  BY <1>2, OtherStep DEF StartSuiteRun
<1>3. CASE MeasureSuite \/ SuiteRunStops
  BY <1>3, OtherStep DEF MeasureSuite, SuiteRunStops
<1>4. CASE \E i \in 1..Len(summaries) : CompareSummary(i)
  BY <1>4, OtherStep DEF CompareSummary, CompareWith
<1> QED
  BY <1>1, <1>2, <1>3, <1>4, ChangeConditionsOK, StartComparisonOK, IdentifyCandidateOK,
     run_measurementOK, WriteComparisonOK, ComparisonFailsOK, WriteSummaryOK, promote_summaryOK
     DEF BaselineNext

\* Whatever is edited, and whenever: no summary and no baseline carries an
\* approved comparison that measured another source than the one it names.
THEOREM ApprovedWasMeasured == BaselineSpec => []ApprovedMeansMeasured
<1>1. BaselineInv => ApprovedMeansMeasured
  BY SMT DEF BaselineInv, SummariesApproved, BaselineApproved, SummaryOK, ApprovedMeansMeasured, Summaries
<1> QED
  BY <1>1, BaselineInitOK, BaselineNextOK, PTL DEF BaselineSpec

-----------------------------------------------------------------------------
(* A comparison with the baseline that ends with 0 is conclusive, and its   *)
(* run may be promoted.  compare_benchmark_summary.py does not look at what *)
(* promote_benchmark_baseline.py asks for: that the metrics are complete    *)
(* and the suites identified.  That every summary is written so (Shaped) is *)
(* what makes up for it.                                                    *)

Planned == [id : DOMAIN Required, enabled : BOOLEAN]

Bounded ==
    /\ conditions.source + conditions.harness + conditions.machine <= MaxConditions
    /\ transport.candidate <= NoSource
    /\ transport.measured \subseteq 0..MaxConditions
    /\ report.status \in {"pass", "fail", "inconclusive"}
    /\ report.candidate \in 0..NoSource

Underway ==
    /\ suite = [step |-> suite.step, plan |-> suite.plan, results |-> suite.results]
    /\ suite.step \in {"idle", "measuring"}
    /\ suite.plan \in Seq(Planned)
    /\ DOMAIN suite.results \subseteq DOMAIN Required
    /\ Len(summaries) <= MaxSummaries
    /\ suite.step = "measuring" => Len(summaries) < MaxSummaries

\* What every summary of the second schema is like.
Shaped(s) ==
    /\ s.schema = 2
    /\ \A id \in DOMAIN s.suites :
          /\ s.suites[id].status = "pass" => complete_suite_metrics(id, s.suites[id].metrics)
          /\ s.suites[id].status # "skipped" => s.suites[id].identity # <<>>
SummariesShaped == \A i \in 1..Len(summaries) : Shaped(summaries[i])

Conclusive(b, c) ==
    /\ Promotable(c)
    /\ b.machine = c.machine
    /\ \A id \in DOMAIN c.suites \cap DOMAIN b.suites : b.suites[id].identity = c.suites[id].identity
    /\ DOMAIN flatten_suite_metrics(b, {}) = DOMAIN flatten_suite_metrics(c, {})

Judged ==
    /\ Len(baseline) <= 1
    /\ verdict.code \in 0..2 /\ verdict.current \in 0..Len(summaries)
    /\ verdict.code = 0 =>
          verdict.current # 0 /\ Conclusive(verdict.against[1], summaries[verdict.current])

ConclusiveInv == BaselineInv /\ Bounded /\ Underway /\ SummariesShaped /\ Judged

\* The metrics that are compared are of suites of the summary that passed.
LEMMA FlattenedSuites ==
  ASSUME NEW s, NEW excluded, NEW m \in DOMAIN flatten_suite_metrics(s, excluded)
  PROVE  m[1] \in DOMAIN s.suites /\ s.suites[m[1]].status = "pass"
  BY SMT DEF flatten_suite_metrics

\* An exit code of 0 of the comparison tells all that the promotion asks.
LEMMA ZeroIsConclusive ==
  ASSUME NEW b, NEW c, Shaped(c), CompareExit(b, c, Qualified(c)) = 0
  PROVE  Conclusive(b, c)
<1> DEFINE excluded == incompatible_benchmark_suite_reasons(b, c)
           before == flatten_suite_metrics(b, excluded)
           after == flatten_suite_metrics(c, excluded)
<1>1. /\ DOMAIN before \cap DOMAIN after # {} /\ excluded = {} /\ DOMAIN before = DOMAIN after
      /\ \A id \in DOMAIN c.suites : c.suites[id].status \in {"pass", "skipped"}
      /\ Qualified(c)
  <2> HIDE DEF before, after, excluded
  <2>1. (IF \/ DOMAIN before \cap DOMAIN after = {}
            \/ excluded # {}
            \/ DOMAIN before # DOMAIN after
            \/ \E id \in DOMAIN c.suites : c.suites[id].status \notin {"pass", "skipped"}
            \/ ~Qualified(c)
         THEN 2
         ELSE IF Regressions(before, after) # {} THEN 1 ELSE 0) = 0
    BY DEF CompareExit, before, after, excluded
  <2> QED
    BY SMT, <2>1
<1>2. DOMAIN flatten_suite_metrics(b, {}) = DOMAIN flatten_suite_metrics(c, {})
  BY <1>1
<1>3. PICK m : m \in DOMAIN before /\ m \in DOMAIN after
  BY <1>1
<1>4. /\ m[1] \in DOMAIN b.suites /\ m[1] \in DOMAIN c.suites /\ c.suites[m[1]].status = "pass"
  BY <1>3, FlattenedSuites
<1>5. \A id \in DOMAIN b.suites \cap DOMAIN c.suites :
          b.suites[id].identity = c.suites[id].identity /\ b.machine = c.machine
  BY <1>1 DEF incompatible_benchmark_suite_reasons
<1>6. DOMAIN flatten_suite_metrics(c, {}) # {}
  BY <1>1, <1>3
<1> HIDE DEF before, after, excluded
<1>7. Promotable(c)
  <2>1. \A id \in DOMAIN c.suites : c.suites[id].status # "skipped" => c.suites[id].status = "pass"
    BY <1>1
  <2>2. {id \in DOMAIN c.suites : c.suites[id].status # "skipped"} # {}
    BY <1>4
  <2> QED
    BY <1>1, <1>6, <2>1, <2>2 DEF Promotable, Shaped
<1> QED
  BY <1>2, <1>4, <1>5, <1>7 DEF Conclusive

\* Nothing is measured, summarised or judged in the beginning.
LEMMA ConclusiveInitOK == BaselineInit => ConclusiveInv
<1> SUFFICES ASSUME BaselineInit PROVE ConclusiveInv
  OBVIOUS
<1>1. Bounded
  BY SMT, ConditionsAssumption DEF BaselineInit, Bounded, NoTransport, Inconclusive, NoSource
<1>2. Underway
  <2>1. <<>> \in Seq(Planned) /\ DOMAIN <<>> = {} /\ Len(<<>>) = 0
    BY SMTT(20)
  <2> QED
    BY SMT, <2>1, SummariesAssumption DEF BaselineInit, Underway, NoSuite
<1>3. SummariesShaped
  BY SMT DEF BaselineInit, SummariesShaped
<1>4. Judged
  <2>1. Len(baseline) = 1 /\ Len(summaries) = 0
    BY DEF BaselineInit
  <2> QED
    BY SMT, <2>1 DEF BaselineInit, Judged, NoVerdict
<1> QED
  BY <1>1, <1>2, <1>3, <1>4, BaselineInitOK DEF ConclusiveInv

\* A step that leaves the comparison alone keeps its bounds,
LEMMA BoundedKept ==
  ASSUME ConclusiveInv, UNCHANGED <<conditions, transport, report>>
  PROVE  Bounded'
  BY DEF ConclusiveInv, Bounded

\* one that leaves the suites and the summaries alone keeps their shape,
LEMMA RunsKept ==
  ASSUME ConclusiveInv, UNCHANGED <<suite, summaries>>
  PROVE  Underway' /\ SummariesShaped'
  BY DEF ConclusiveInv, Underway, SummariesShaped

\* and one that leaves the baseline and the verdict alone keeps what they say.
LEMMA JudgedKept ==
  ASSUME ConclusiveInv, UNCHANGED <<baseline, summaries, verdict>>
  PROVE  Judged'
  BY DEF ConclusiveInv, Judged

\* Conditions change only up to their bound.
LEMMA ConditionsBounded ==
  ASSUME ConclusiveInv
  PROVE  /\ conditions.source \in 0..MaxConditions /\ conditions.harness \in 0..MaxConditions
         /\ conditions.machine \in 0..MaxConditions
<1>1. conditions.source \in Nat /\ conditions.harness \in Nat /\ conditions.machine \in Nat
  BY DEF ConclusiveInv, BaselineInv, ConditionsOK
<1>2. conditions.source + conditions.harness + conditions.machine <= MaxConditions
  BY DEF ConclusiveInv, Bounded
<1> QED
  BY SMT, <1>1, <1>2, ConditionsAssumption

\* Conditions that change stay within the bounds.
LEMMA ChangeConditionsBounded ==
  ASSUME ConclusiveInv, NEW what \in {"source", "harness", "machine"}, ChangeConditions(what)
  PROVE  Bounded'
<1>1. conditions \in [{"source", "harness", "machine"} -> Nat]
  BY DEF ConclusiveInv, BaselineInv, ConditionsOK
<1>2. conditions.source + conditions.harness + conditions.machine < MaxConditions
  BY DEF ChangeConditions
<1>3. conditions' = [conditions EXCEPT ![what] = @ + 1]
  BY DEF ChangeConditions
<1>4. conditions'.source + conditions'.harness + conditions'.machine
        = conditions.source + conditions.harness + conditions.machine + 1
  <2>1. CASE what = "source"
    BY SMT, <1>1, <1>3, <2>1
  <2>2. CASE what = "harness"
    BY SMTT(20), <1>1, <1>3, <2>2
  <2>3. CASE what = "machine"
    BY SMT, <1>1, <1>3, <2>3
  <2> QED
    BY <2>1, <2>2, <2>3
<1>5. conditions'.source + conditions'.harness + conditions'.machine <= MaxConditions
  BY SMT, <1>1, <1>2, <1>4, ConditionsAssumption
<1> QED
  BY <1>5 DEF ConclusiveInv, Bounded, ChangeConditions

\* A step of a comparison stays within the bounds,
LEMMA ComparisonBounded ==
  ASSUME ConclusiveInv,
         \/ StartComparison \/ IdentifyCandidate \/ run_measurement \/ ComparisonFails
         \/ \E sections \in Sections : WriteComparison(sections)
  PROVE  Bounded'
<1>1. /\ conditions.source + conditions.harness + conditions.machine <= MaxConditions
      /\ transport.candidate <= NoSource /\ transport.measured \subseteq 0..MaxConditions
      /\ report.status \in {"pass", "fail", "inconclusive"} /\ report.candidate \in 0..NoSource
      /\ conditions.source \in 0..MaxConditions /\ TransportOK
  BY ConditionsBounded DEF ConclusiveInv, Bounded, BaselineInv
<1>2. /\ NoSource \in Nat /\ MaxConditions \in Nat /\ MaxConditions <= NoSource
      /\ Inconclusive.status = "inconclusive" /\ Inconclusive.candidate = NoSource
      /\ NoTransport.candidate = NoSource /\ NoTransport.measured = {}
  BY SMT, ConditionsAssumption DEF NoSource, Inconclusive, NoTransport
<1>3. CASE StartComparison
  <2>1. transport'.candidate = NoSource /\ transport'.measured = {}
    BY <1>3 DEF StartComparison, NoTransport
  <2> QED
    BY SMT, <1>1, <1>2, <1>3, <2>1 DEF StartComparison, Bounded
<1>4. CASE IdentifyCandidate
  <2>1. transport'.candidate = conditions.source /\ transport'.measured = transport.measured
    BY <1>1, <1>4 DEF IdentifyCandidate, collect_source_identity, TransportOK
  <2> QED
    BY SMT, <1>1, <1>2, <1>4, <2>1 DEF IdentifyCandidate, Bounded
<1>5. CASE run_measurement
  <2>1. transport'.candidate = transport.candidate
        /\ transport'.measured = transport.measured \cup {conditions.source}
    BY <1>1, <1>5 DEF run_measurement, TransportOK
  <2> QED
    BY <1>1, <1>2, <1>5, <2>1 DEF run_measurement, Bounded
<1>6. CASE ComparisonFails
  BY SMTT(20), <1>1, <1>2, <1>6 DEF ComparisonFails, Bounded
<1>7. CASE \E sections \in Sections : WriteComparison(sections)
  <2> PICK sections \in Sections : WriteComparison(sections)
    BY <1>7
  <2>1. report'.status \in {"pass", "fail", "inconclusive"}
    BY DEF WriteComparison, qualify
  <2>2. report'.candidate = transport.candidate /\ transport.candidate \in Nat
    BY <1>1 DEF WriteComparison, TransportOK
  <2>3. UNCHANGED conditions /\ transport' = NoTransport
    BY DEF WriteComparison
  <2> QED
    BY SMT, <1>1, <1>2, <2>1, <2>2, <2>3 DEF Bounded
<1> QED
  BY <1>3, <1>4, <1>5, <1>6, <1>7

\* and touches neither suites nor summaries nor the baseline.
LEMMA ComparisonFrame ==
  ASSUME \/ StartComparison \/ IdentifyCandidate \/ run_measurement \/ ComparisonFails
         \/ \E sections \in Sections : WriteComparison(sections)
  PROVE  UNCHANGED <<suite, summaries, baseline, verdict>>
  BY DEF StartComparison, IdentifyCandidate, run_measurement, ComparisonFails, WriteComparison

\* The plan of a run shrinks to nothing, and its results are of known suites.
LEMMA RunUnderway ==
  ASSUME ConclusiveInv,
         (\E selection \in Selections : StartSuiteRun(selection)) \/ MeasureSuite \/ SuiteRunStops
  PROVE  Underway'
<1>0. UNCHANGED summaries
  BY DEF StartSuiteRun, MeasureSuite, SuiteRunStops
<1>1. CASE \E selection \in Selections : StartSuiteRun(selection)
  <2> PICK selection \in Selections : StartSuiteRun(selection)
    BY <1>1
  <2>1. selection \in Seq(Planned)
    BY SelectionsAssumption DEF Planned
  <2>2. suite' = [step |-> "measuring", plan |-> selection, results |-> <<>>]
    BY DEF StartSuiteRun, NoSuite
  <2>3. Len(summaries) < MaxSummaries
    BY DEF StartSuiteRun
  <2>4. DOMAIN <<>> = {}
    BY SMT
  <2> QED
    BY <1>0, <2>1, <2>2, <2>3, <2>4 DEF ConclusiveInv, Underway
<1>2. CASE SuiteRunStops
  <2>1. suite' = [step |-> "idle", plan |-> <<>>, results |-> <<>>]
    BY <1>2 DEF SuiteRunStops, NoSuite
  <2>2. DOMAIN <<>> = {} /\ <<>> \in Seq(Planned)
    BY SMT
  <2> QED
    BY <1>0, <2>1, <2>2 DEF ConclusiveInv, Underway
<1>3. CASE MeasureSuite
  <2> DEFINE next == Head(suite.plan)
             Recorded(reading) ==
               [id \in DOMAIN suite.results \cup {next.id} |->
                   IF id = next.id THEN reading ELSE suite.results[id]]
  <2>1. PICK reading :
           suite' = [suite EXCEPT !.plan = Tail(@), !.results = Recorded(reading)]
    BY <1>3 DEF MeasureSuite
  <2>2. suite.step = "measuring" /\ suite.plan # <<>> /\ suite.plan \in Seq(Planned)
    BY <1>3 DEF MeasureSuite, ConclusiveInv, Underway
  <2>3. next \in Planned /\ Tail(suite.plan) \in Seq(Planned)
    BY SMT, <2>2
  <2>4. next.id \in DOMAIN Required
    BY <2>3 DEF Planned
  <2> HIDE DEF next
  <2>5. DOMAIN Recorded(reading) = DOMAIN suite.results \cup {next.id}
    OBVIOUS
  <2> HIDE DEF Recorded
  <2>6. suite' = [step |-> suite.step, plan |-> Tail(suite.plan), results |-> Recorded(reading)]
    <3>1. suite = [step |-> suite.step, plan |-> suite.plan, results |-> suite.results]
      BY DEF ConclusiveInv, Underway
    <3> QED
      BY <2>1, <3>1
  <2>7. DOMAIN suite.results \subseteq DOMAIN Required /\ Len(summaries) < MaxSummaries
    BY <2>2 DEF ConclusiveInv, Underway
  <2> QED
    BY <1>0, <2>2, <2>3, <2>4, <2>5, <2>6, <2>7 DEF ConclusiveInv, Underway
<1> QED
  BY <1>1, <1>2, <1>3

\* A summary is written with the identities of the suites that were measured
\* and calls a suite passed only if its metrics are complete.
LEMMA SummaryShaped ==
  ASSUME NEW suites, NEW results,
         suites = [id \in DOMAIN results |-> Summarised(id, results[id])]
  PROVE  \A id \in DOMAIN suites :
            /\ suites[id].status = "pass" => complete_suite_metrics(id, suites[id].metrics)
            /\ suites[id].status # "skipped" => suites[id].identity # <<>>
<1> SUFFICES ASSUME NEW id \in DOMAIN results
             PROVE  LET s == Summarised(id, results[id])
                    IN  /\ s.status = "pass" => complete_suite_metrics(id, s.metrics)
                        /\ s.status # "skipped" => s.identity # <<>>
  OBVIOUS
<1>1. <<conditions.harness>> # <<>>
  OBVIOUS
<1> QED
  BY <1>1 DEF Summarised

\* A summary that is written has the shape of one, and judges nothing.
LEMMA WriteSummaryConclusive ==
  ASSUME ConclusiveInv, NEW attach \in BOOLEAN, WriteSummary(attach)
  PROVE  Underway' /\ SummariesShaped' /\ Judged'
<1> DEFINE suites == [id \in DOMAIN suite.results |-> Summarised(id, suite.results[id])]
           new == [schema |-> 2, source |-> collect_git_metadata,
                   machine |-> collect_machine_metadata,
                   suites |-> suites, qualification |-> Qualification(suites),
                   comparison |-> IF attach THEN AttachedComparison(collect_git_metadata)
                                  ELSE Inconclusive]
<1>1. summaries' = Append(summaries, new) /\ suite' = NoSuite /\ UNCHANGED <<baseline, verdict>>
  BY DEF WriteSummary
<1>2. new.schema = 2 /\ new.suites = suites
  OBVIOUS
<1>3. Shaped(new)
  <2>1. \A id \in DOMAIN suites :
            /\ suites[id].status = "pass" => complete_suite_metrics(id, suites[id].metrics)
            /\ suites[id].status # "skipped" => suites[id].identity # <<>>
    BY SummaryShaped
  <2> HIDE DEF new, suites
  <2> QED
    BY <1>2, <2>1 DEF Shaped
<1> HIDE DEF new, suites
<1>4. PICK S : summaries \in Seq(S)
  BY DEF ConclusiveInv, BaselineInv, SummariesOK
<1>5. summaries \in Seq(S \cup {new})
  BY SMT, <1>4
<1>6. /\ Len(summaries') = Len(summaries) + 1 /\ Len(summaries) \in Nat
      /\ summaries'[Len(summaries) + 1] = new
      /\ \A i \in 1..Len(summaries) : summaries'[i] = summaries[i]
  BY SMT, <1>1, <1>5
<1>7. Underway'
  <2>1. Len(summaries) < MaxSummaries
    BY DEF WriteSummary, ConclusiveInv, Underway
  <2>2. suite' = [step |-> "idle", plan |-> <<>>, results |-> <<>>]
    BY <1>1 DEF NoSuite
  <2>3. DOMAIN <<>> = {} /\ <<>> \in Seq(Planned)
    BY SMT
  <2>4. Len(summaries') <= MaxSummaries
    BY SMT, <1>6, <2>1, SummariesAssumption
  <2> QED
    BY <2>2, <2>3, <2>4 DEF Underway
<1>8. SummariesShaped'
  <2> SUFFICES ASSUME NEW i \in 1..Len(summaries') PROVE Shaped(summaries'[i])
    BY DEF SummariesShaped, Shaped, complete_suite_metrics
  <2>1. i \in 1..Len(summaries) \/ i = Len(summaries) + 1
    BY SMT, <1>6
  <2> QED
    BY <1>3, <1>6, <2>1 DEF ConclusiveInv, SummariesShaped
<1>9. Judged'
  <2>1. /\ Len(baseline) <= 1 /\ verdict.code \in 0..2 /\ verdict.current \in 0..Len(summaries)
        /\ verdict.code = 0 =>
              verdict.current # 0 /\ Conclusive(verdict.against[1], summaries[verdict.current])
    BY DEF ConclusiveInv, Judged
  <2>2. verdict.current # 0 => summaries'[verdict.current] = summaries[verdict.current]
    BY SMTT(20), <1>6, <2>1
  <2>3. verdict'.current \in 0..Len(summaries')
    BY SMT, <1>1, <1>6, <2>1
  <2>4. verdict'.code = 0 =>
           verdict'.current # 0 /\ Conclusive(verdict'.against[1], summaries'[verdict'.current])
    BY <1>1, <2>1, <2>2
  <2>5. Len(baseline') <= 1 /\ verdict'.code \in 0..2
    BY <1>1, <2>1
  <2> QED
    BY <2>3, <2>4, <2>5 DEF Judged, Conclusive, Promotable, Qualified, approved_controlled_comparison,
       complete_suite_metrics, flatten_suite_metrics
<1> QED
  BY <1>7, <1>8, <1>9

\* A comparison that passes is conclusive,
LEMMA CompareSummaryJudged ==
  ASSUME ConclusiveInv, NEW i \in 1..Len(summaries), CompareSummary(i)
  PROVE  Judged'
<1> DEFINE code == IF load_summary(baseline)
                   THEN CompareExit(baseline[1], summaries[i], Qualified(summaries[i])) ELSE 1
<1>1. verdict' = [code |-> code, current |-> i, against |-> baseline]
      /\ UNCHANGED <<summaries, baseline>>
  BY DEF CompareSummary, CompareWith
<1>2. code \in 0..2
  BY SMT DEF CompareExit
<1>3. code = 0 => CompareExit(baseline[1], summaries[i], Qualified(summaries[i])) = 0
  BY SMT
<1>4. Shaped(summaries[i])
  BY DEF ConclusiveInv, SummariesShaped
<1>5. code = 0 => Conclusive(baseline[1], summaries[i])
  BY <1>3, <1>4, ZeroIsConclusive
<1> HIDE DEF code
<1>6. verdict'.code = code /\ verdict'.current = i /\ verdict'.against = baseline
  BY <1>1
<1>7. i \in 0..Len(summaries) /\ i # 0
  <2>1. PICK S : summaries \in Seq(S)
    BY DEF ConclusiveInv, BaselineInv, SummariesOK
  <2>2. Len(summaries) \in Nat
    BY SMT, <2>1
  <2> QED
    BY SMT, <2>2
<1>8. Len(baseline) <= 1
  BY DEF ConclusiveInv, Judged
<1>9. summaries' = summaries /\ baseline' = baseline
  BY <1>1
<1>10. /\ Len(baseline') <= 1
       /\ verdict'.code \in 0..2 /\ verdict'.current \in 0..Len(summaries')
       /\ verdict'.code = 0 =>
             verdict'.current # 0 /\ Conclusive(verdict'.against[1], summaries'[verdict'.current])
  BY <1>2, <1>5, <1>6, <1>7, <1>8, <1>9
<1> QED
  BY <1>10 DEF Judged, Conclusive, Promotable, Qualified, approved_controlled_comparison,
     complete_suite_metrics, flatten_suite_metrics

\* and so is a promotion over a baseline.
LEMMA promote_summaryJudged ==
  ASSUME ConclusiveInv, NEW i \in 1..Len(summaries), NEW survives \in BOOLEAN,
         promote_summary(i, survives)
  PROVE  Judged'
<1>1. UNCHANGED <<summaries, verdict>>
  BY DEF promote_summary
<1>2. baseline' = <<summaries[i]>> \/ baseline' = <<>>
  BY DEF promote_summary, write_json, Torn
<1>3. Len(baseline') <= 1
  <2>1. Len(<<summaries[i]>>) = 1 /\ Len(<<>>) = 0
    OBVIOUS
  <2>2. Len(baseline') = 1 \/ Len(baseline') = 0
    BY <1>2, <2>1
  <2>3. 0 <= 1 /\ 1 <= 1
    BY SMT
  <2> QED
    BY <2>2, <2>3
<1>4. /\ verdict'.code \in 0..2 /\ verdict'.current \in 0..Len(summaries')
      /\ verdict'.code = 0 =>
            verdict'.current # 0 /\ Conclusive(verdict'.against[1], summaries'[verdict'.current])
  <2>1. /\ verdict.code \in 0..2 /\ verdict.current \in 0..Len(summaries)
        /\ verdict.code = 0 =>
              verdict.current # 0 /\ Conclusive(verdict.against[1], summaries[verdict.current])
    BY DEF ConclusiveInv, Judged
  <2> QED
    BY <1>1, <2>1
<1> QED
  BY <1>3, <1>4 DEF Judged, Conclusive, Promotable, Qualified, approved_controlled_comparison,
     complete_suite_metrics, flatten_suite_metrics

\* Every step keeps the conclusive invariant.
LEMMA ConclusiveNextOK == ConclusiveInv /\ [BaselineNext]_baselineVars => ConclusiveInv'
<1> SUFFICES ASSUME ConclusiveInv, [BaselineNext]_baselineVars PROVE ConclusiveInv'
  OBVIOUS
<1>1. BaselineInv'
  BY BaselineNextOK DEF ConclusiveInv
<1>2. CASE UNCHANGED baselineVars
  BY <1>1, <1>2, BoundedKept, RunsKept, JudgedKept DEF baselineVars, ConclusiveInv
<1>3. ASSUME NEW what \in {"source", "harness", "machine"}, ChangeConditions(what)
      PROVE  ConclusiveInv'
  <2>1. UNCHANGED <<suite, summaries, baseline, verdict>>
    BY <1>3 DEF ChangeConditions
  <2> QED
    BY <1>1, <1>3, <2>1, ChangeConditionsBounded, RunsKept, JudgedKept DEF ConclusiveInv
<1>4. CASE \/ StartComparison \/ IdentifyCandidate \/ run_measurement \/ ComparisonFails
           \/ \E sections \in Sections : WriteComparison(sections)
  BY <1>1, <1>4, ComparisonBounded, ComparisonFrame, RunsKept, JudgedKept DEF ConclusiveInv
<1>5. CASE (\E selection \in Selections : StartSuiteRun(selection)) \/ MeasureSuite \/ SuiteRunStops
  <2>1. UNCHANGED <<conditions, transport, report, summaries, baseline, verdict>>
    BY <1>5 DEF StartSuiteRun, MeasureSuite, SuiteRunStops
  <2>2. SummariesShaped'
    BY <2>1 DEF ConclusiveInv, SummariesShaped
  <2> QED
    BY <1>1, <1>5, <2>1, <2>2, RunUnderway, BoundedKept, JudgedKept DEF ConclusiveInv
<1>6. ASSUME NEW attach \in BOOLEAN, WriteSummary(attach) PROVE ConclusiveInv'
  <2>1. UNCHANGED <<conditions, transport, report>>
    BY <1>6 DEF WriteSummary
  <2> QED
    BY <1>1, <1>6, <2>1, WriteSummaryConclusive, BoundedKept DEF ConclusiveInv
<1>7. ASSUME NEW i \in 1..Len(summaries), CompareSummary(i) PROVE ConclusiveInv'
  <2>1. UNCHANGED <<conditions, transport, report, suite, summaries>>
    BY <1>7 DEF CompareSummary, CompareWith
  <2> QED
    BY <1>1, <1>7, <2>1, CompareSummaryJudged, BoundedKept, RunsKept DEF ConclusiveInv
<1>8. ASSUME NEW i \in 1..Len(summaries), NEW survives \in BOOLEAN, promote_summary(i, survives)
      PROVE  ConclusiveInv'
  <2>1. UNCHANGED <<conditions, transport, report, suite, summaries>>
    BY <1>8 DEF promote_summary
  <2> QED
    BY <1>1, <1>8, <2>1, promote_summaryJudged, BoundedKept, RunsKept DEF ConclusiveInv
<1> QED
  BY <1>2, <1>3, <1>4, <1>5, <1>6, <1>7, <1>8 DEF BaselineNext

\* A comparison that ends with 0 compared like with like and every metric of
\* both, and the promotion would accept its run.
THEOREM PassedIsConclusive == BaselineSpec => []PassedComparisonIsConclusive
<1>1. ConclusiveInv => PassedComparisonIsConclusive
  <2> SUFFICES ASSUME ConclusiveInv PROVE PassedComparisonIsConclusive
    OBVIOUS
  <2>1. BaselineTypeOK
    <3>1. conditions \in [{"source", "harness", "machine"} -> 0..MaxConditions]
      BY ConditionsBounded DEF ConclusiveInv, BaselineInv, ConditionsOK
    <3>2. transport.step \in {"idle", "identify", "forward", "reverse", "diagnostics", "report"}
      BY DEF ConclusiveInv, BaselineInv, TransportOK
    <3> QED
      BY <3>1, <3>2 DEF BaselineTypeOK, ConclusiveInv, Bounded, Underway, Judged
  <2> QED
    BY <2>1 DEF ConclusiveInv, Judged, Conclusive, PassedComparisonIsConclusive
<1> QED
  BY <1>1, ConclusiveInitOK, ConclusiveNextOK, PTL DEF BaselineSpec

-----------------------------------------------------------------------------
(* The maintenance freeze: UpdateMaintenance.                                *)

\* The states of a preparation that has not sealed the agent and has not returned.
UnderWay == {"polling", "policies", "snapshot"}

\* The gate is closed from the freeze to the restoration, and nothing is sealed.
UnderWayOK == pc \in UnderWay => Blocked /\ ~sealed /\ operationId \in Operations

\* A sealed agent has a preparation that never goes away, which is why no call starts
\* another one, and its gate is closed.
SealedOK == sealed => Blocked /\ pc \in {"closing", "finished"}

\* Exit policies run for the operation of the preparation that awaits them, or that
\* gave up on them and sealed the agent.
PoliciesOK ==
  \A o \in Operations : exitPolicies[o] = "running" =>
    /\ operationId = o /\ queueOperation = o /\ supervisorOperation = o
    /\ Blocked
    /\ pc = "policies" \/ (pc = "finished" /\ sealed)

\* Closing: each of the three ways in is shut, and not by something that reopens.
ClosureOK ==
  closureStarted =>
    /\ sealed /\ running = {} /\ ~accepting
    /\ phase \notin {"operational", "draining"}
    /\ queueOperation # NoOperation

\* A preparation that was deferred is not sealed; one that is closing is.
ResultOK ==
  /\ pc = "finished" => operationId \in Operations /\ (result = "deferred" => ~sealed)
  /\ pc = "closing" => closureStarted /\ sealed /\ operationId \in Operations

IndInv ==
  /\ TypeOK /\ CallbacksActForTheirOperation
  /\ UnderWayOK /\ SealedOK /\ PoliciesOK /\ ClosureOK /\ ResultOK

\* TypeOK in three parts, for the leaves: what needs no theory, what needs sets, and what
\* needs functions.
FlagsOK ==
  /\ retryPending \in BOOLEAN /\ sealed \in BOOLEAN /\ cancelRequested \in BOOLEAN
  /\ frozen \in BOOLEAN /\ effectsStarted \in BOOLEAN /\ expired \in BOOLEAN
  /\ closureStarted \in BOOLEAN /\ prepared \in BOOLEAN /\ reconciled \in BOOLEAN
  /\ accepting \in BOOLEAN /\ cleanupFailed \in BOOLEAN

HoldersOK ==
  /\ pc \in {"none", "polling", "policies", "snapshot", "closing", "finished"}
  /\ operationId \in MaybeOperation /\ bootOperation \in MaybeOperation
  /\ result \in Results \cup {"none"}
  /\ phase \in Phases
  /\ admissionOperation \in MaybeOperation /\ queueOperation \in MaybeOperation
  /\ supervisorOperation \in MaybeOperation
  /\ running \subseteq Work

LedgersOK ==
  /\ exitPolicies \in [Operations -> {"absent", "running", "success", "failure"}]
  /\ answer \in [Operations -> {"none", "waiting", "busy", "closed", "threw"} \cup Results]

(* The three parts make up the type of the next state. *)
LEMMA TypeInParts == FlagsOK' /\ HoldersOK' /\ LedgersOK' => TypeOK'
  BY DEF FlagsOK, HoldersOK, LedgersOK, TypeOK

(* A call of prepare while another update is being prepared only gets an answer. *)
LEMMA PrepareRefusedStep ==
  ASSUME IndInv, NEW o \in Operations, PrepareRefused(o)
  PROVE  IndInv'
<1> USE DEF PrepareRefused, coordinatorVars, bootVars, gateVars, workVars
<1>1. TypeOK'
  BY SMT, MaintenanceAssumption DEF IndInv, TypeOK, MaybeOperation, Phases, Results
<1>2. CallbacksActForTheirOperation'
  BY MaintenanceAssumption DEF IndInv, CallbacksActForTheirOperation
<1>3. UnderWayOK'
  BY DEF IndInv, UnderWayOK, UnderWay, Blocked
<1>4. SealedOK'
  BY DEF IndInv, SealedOK, Blocked
<1>5. PoliciesOK'
  BY MaintenanceAssumption DEF IndInv, PoliciesOK, Blocked
<1>6. ClosureOK'
  BY MaintenanceAssumption DEF IndInv, ClosureOK
<1>7. ResultOK'
  BY DEF IndInv, ResultOK
<1> QED
  BY <1>1, <1>2, <1>3, <1>4, <1>5, <1>6, <1>7 DEF IndInv

(* A call of prepare before retryAfter is deferred at once. *)
LEMMA PrepareTooSoonStep ==
  ASSUME IndInv, NEW o \in Operations, PrepareTooSoon(o)
  PROVE  IndInv'
<1> USE DEF PrepareTooSoon, coordinatorVars, bootVars, gateVars, workVars
<1>1. TypeOK'
  BY SMT, MaintenanceAssumption DEF IndInv, TypeOK, MaybeOperation, Phases, Results
<1>2. CallbacksActForTheirOperation'
  BY MaintenanceAssumption DEF IndInv, CallbacksActForTheirOperation
<1>3. UnderWayOK'
  BY DEF IndInv, UnderWayOK, UnderWay, Blocked
<1>4. SealedOK'
  BY DEF IndInv, SealedOK, Blocked
<1>5. PoliciesOK'
  BY MaintenanceAssumption DEF IndInv, PoliciesOK, Blocked
<1>6. ClosureOK'
  BY MaintenanceAssumption DEF IndInv, ClosureOK
<1>7. ResultOK'
  BY DEF IndInv, ResultOK
<1> QED
  BY <1>1, <1>2, <1>3, <1>4, <1>5, <1>6, <1>7 DEF IndInv

(* prepare joins the preparation of its operation, or freezes admission and starts one. *)
LEMMA PreparationStep ==
  ASSUME IndInv, NEW o \in Operations, Prepare(o)
  PROVE  IndInv'
<1> USE DEF Prepare, StartPreparation, StartAndRefuse, FreezeAdmission, QueuesPause,
            AdmissionFreezes, SupervisorPauses, MayTransition, Transition, Free, Finish,
            ApplyExitPolicies, coordinatorVars, bootVars, gateVars, workVars
<1>1. TypeOK'
  <2>1. FlagsOK'
    BY DEF IndInv, TypeOK, FlagsOK
  <2>2. HoldersOK'
    BY DEF IndInv, TypeOK, HoldersOK, MaybeOperation, Phases, Results
  <2>3. LedgersOK'
    BY DEF IndInv, TypeOK, LedgersOK, Results
  <2> QED
    BY <2>1, <2>2, <2>3, TypeInParts
<1>2. CallbacksActForTheirOperation'
  BY MaintenanceAssumption DEF IndInv, CallbacksActForTheirOperation
<1>3. UnderWayOK'
  BY DEF IndInv, UnderWayOK, UnderWay, Blocked, SealedOK
<1>4. SealedOK'
  BY DEF IndInv, SealedOK, Blocked
<1>5. PoliciesOK'
  BY SMT, MaintenanceAssumption DEF IndInv, TypeOK, MaybeOperation, PoliciesOK, Blocked
<1>6. ClosureOK'
  <2>1. CASE closureStarted
    <3>1. pc # "none"
      BY <2>1 DEF IndInv, ClosureOK, SealedOK
    <3>2. UNCHANGED <<coordinatorVars, gateVars, closureStarted, workVars>>
      BY <3>1
    <3>3. ClosureOK
      BY DEF IndInv
    <3> QED
      BY SMTT(20), <3>2, <3>3 DEF ClosureOK
  <2>2. CASE ~closureStarted
    BY <2>2 DEF ClosureOK
  <2> QED
    BY <2>1, <2>2
<1>7. ResultOK'
  BY SMT DEF IndInv, ResultOK
<1> QED
  BY <1>1, <1>2, <1>3, <1>4, <1>5, <1>6, <1>7 DEF IndInv

(* The exit policies of an operation end, whether or not somebody still awaits them. *)
LEMMA ExitPoliciesSettleStep ==
  ASSUME IndInv, NEW o \in Operations, ExitPoliciesSettle(o)
  PROVE  IndInv'
<1> USE DEF ExitPoliciesSettle, coordinatorVars, bootVars, gateVars, workVars
<1>1. TypeOK'
  BY SMT, MaintenanceAssumption DEF IndInv, TypeOK, MaybeOperation, Phases, Results
<1>2. CallbacksActForTheirOperation'
  BY MaintenanceAssumption DEF IndInv, CallbacksActForTheirOperation
<1>3. UnderWayOK'
  BY DEF IndInv, UnderWayOK, UnderWay, Blocked
<1>4. SealedOK'
  BY DEF IndInv, SealedOK, Blocked
<1>5. PoliciesOK'
  BY SMT, MaintenanceAssumption DEF IndInv, PoliciesOK, Blocked
<1>6. ClosureOK'
  BY MaintenanceAssumption DEF IndInv, ClosureOK
<1>7. ResultOK'
  BY DEF IndInv, ResultOK
<1> QED
  BY <1>1, <1>2, <1>3, <1>4, <1>5, <1>6, <1>7 DEF IndInv

(* The bootstrap's prepare returns: only an unsealed preparation is forgotten. *)
LEMMA ReturnStep ==
  ASSUME IndInv, NEW o \in Operations, Return(o)
  PROVE  IndInv'
<1> USE DEF Return, WhenComplete, AfterFailure, Transition, MayTransition, Free,
            coordinatorVars, bootVars, gateVars, workVars
<1>1. TypeOK'
  <2>1. FlagsOK'
    BY DEF IndInv, TypeOK, FlagsOK
  <2>2. HoldersOK'
    BY DEF IndInv, TypeOK, HoldersOK, MaybeOperation, Phases, Results
  <2>3. LedgersOK'
    BY DEF IndInv, TypeOK, LedgersOK, Results
  <2> QED
    BY <2>1, <2>2, <2>3, TypeInParts
<1>2. CallbacksActForTheirOperation'
  BY MaintenanceAssumption DEF IndInv, CallbacksActForTheirOperation, SealedOK, Blocked,
        ResultOK, TypeOK, MaybeOperation
<1>3. UnderWayOK'
  BY DEF IndInv, UnderWayOK, UnderWay, Blocked
<1>4. SealedOK'
  BY DEF IndInv, SealedOK, Blocked
<1>5. PoliciesOK'
  BY MaintenanceAssumption DEF IndInv, PoliciesOK, Blocked
<1>6. ClosureOK'
  BY MaintenanceAssumption DEF IndInv, ClosureOK
<1>7. ResultOK'
  BY DEF IndInv, ResultOK
<1> QED
  BY <1>1, <1>2, <1>3, <1>4, <1>5, <1>6, <1>7 DEF IndInv

(* The polling loop of _prepare ends with a restoration. *)
LEMMA PollGivesUpStep ==
  ASSUME IndInv, PollGivesUp
  PROVE  IndInv'
<1> USE DEF PollGivesUp, Defer, RestoreAndReturn, RestoreAdmission, Finish, Transition,
            AdmissionReopens, SupervisorResumes, MayTransition, Free, coordinatorVars,
            bootVars, gateVars, workVars
<1>1. TypeOK'
  <2>1. FlagsOK'
    BY DEF IndInv, TypeOK, FlagsOK
  <2>2. HoldersOK'
    BY DEF IndInv, TypeOK, HoldersOK, MaybeOperation, Phases, Results
  <2>3. LedgersOK'
    BY DEF IndInv, TypeOK, LedgersOK, Results
  <2> QED
    BY <2>1, <2>2, <2>3, TypeInParts
<1>2. CallbacksActForTheirOperation'
  BY MaintenanceAssumption DEF IndInv, CallbacksActForTheirOperation
<1>3. UnderWayOK'
  BY DEF IndInv, UnderWayOK, UnderWay, Blocked
<1>4. SealedOK'
  BY DEF IndInv, SealedOK, Blocked, UnderWayOK, UnderWay
<1>5. PoliciesOK'
  BY MaintenanceAssumption DEF IndInv, PoliciesOK, Blocked
<1>6. ClosureOK'
  BY MaintenanceAssumption DEF IndInv, ClosureOK
<1>7. ResultOK'
  BY DEF IndInv, ResultOK, UnderWayOK, UnderWay, Blocked, SealedOK
<1> QED
  BY <1>1, <1>2, <1>3, <1>4, <1>5, <1>6, <1>7 DEF IndInv

(* The polling loop finds the agent idle: the exit policies begin. *)
LEMMA PollFindsIdleStep ==
  ASSUME IndInv, PollFindsIdle
  PROVE  IndInv'
<1> USE DEF PollFindsIdle, ApplyExitPolicies, coordinatorVars, bootVars, gateVars, workVars
<1>1. TypeOK'
  <2>1. FlagsOK'
    BY DEF IndInv, TypeOK, FlagsOK
  <2>2. HoldersOK'
    BY DEF IndInv, TypeOK, HoldersOK, MaybeOperation, Phases, Results
  <2>3. LedgersOK'
    BY DEF IndInv, TypeOK, LedgersOK, Results
  <2> QED
    BY <2>1, <2>2, <2>3, TypeInParts
<1>2. CallbacksActForTheirOperation'
  BY MaintenanceAssumption DEF IndInv, CallbacksActForTheirOperation
<1>3. UnderWayOK'
  BY DEF IndInv, UnderWayOK, UnderWay, Blocked
<1>4. SealedOK'
  BY DEF IndInv, SealedOK, Blocked
<1>5. PoliciesOK'
  BY MaintenanceAssumption DEF IndInv, PoliciesOK, Blocked, CallbacksActForTheirOperation,
        TypeOK, MaybeOperation
<1>6. ClosureOK'
  BY MaintenanceAssumption DEF IndInv, ClosureOK
<1>7. ResultOK'
  BY DEF IndInv, ResultOK
<1> QED
  BY <1>1, <1>2, <1>3, <1>4, <1>5, <1>6, <1>7 DEF IndInv

(* The deadline passes while the exit policies run: _prepare seals the agent. *)
LEMMA ExitPoliciesTimeOutStep ==
  ASSUME IndInv, ExitPoliciesTimeOut
  PROVE  IndInv'
<1> USE DEF ExitPoliciesTimeOut, SealAndReturn, Finish, coordinatorVars, bootVars, gateVars,
            workVars
<1>1. TypeOK'
  BY SMT, MaintenanceAssumption DEF IndInv, TypeOK, MaybeOperation, Phases, Results
<1>2. CallbacksActForTheirOperation'
  BY MaintenanceAssumption DEF IndInv, CallbacksActForTheirOperation
<1>3. UnderWayOK'
  BY DEF IndInv, UnderWayOK, UnderWay, Blocked
<1>4. SealedOK'
  BY DEF IndInv, SealedOK, Blocked, UnderWayOK, UnderWay
<1>5. PoliciesOK'
  BY MaintenanceAssumption DEF IndInv, PoliciesOK, Blocked
<1>6. ClosureOK'
  BY SMT, MaintenanceAssumption DEF IndInv, ClosureOK
<1>7. ResultOK'
  BY DEF IndInv, ResultOK, UnderWayOK, UnderWay, Blocked, SealedOK
<1> QED
  BY <1>1, <1>2, <1>3, <1>4, <1>5, <1>6, <1>7 DEF IndInv

(* The exit policies failed: _prepare seals or restores. *)
LEMMA ExitPoliciesFailStep ==
  ASSUME IndInv, ExitPoliciesFail
  PROVE  IndInv'
<1> USE DEF ExitPoliciesFail, SealAndReturn, RestoreAndReturn, RestoreAdmission, Finish,
            Transition, AdmissionReopens, SupervisorResumes, MayTransition, Free,
            coordinatorVars, bootVars, gateVars, workVars
<1>1. TypeOK'
  <2>1. FlagsOK'
    <3>1. FlagsOK
      BY DEF IndInv, TypeOK, FlagsOK
    <3>2. UNCHANGED <<cancelRequested, effectsStarted, expired, closureStarted, prepared,
                      reconciled, accepting, cleanupFailed>>
      OBVIOUS
    <3>3. retryPending' \in BOOLEAN
      BY <3>1 DEF FlagsOK
    <3>4. sealed' \in BOOLEAN
      BY <3>1 DEF FlagsOK
    <3>5. frozen' \in BOOLEAN
      BY <3>1 DEF FlagsOK
    <3> QED
      BY <3>1, <3>2, <3>3, <3>4, <3>5 DEF FlagsOK
  <2>2. HoldersOK'
    BY DEF IndInv, TypeOK, HoldersOK, MaybeOperation, Phases, Results
  <2>3. LedgersOK'
    BY DEF IndInv, TypeOK, LedgersOK, Results
  <2> QED
    BY <2>1, <2>2, <2>3, TypeInParts
<1>2. CallbacksActForTheirOperation'
  BY MaintenanceAssumption DEF IndInv, CallbacksActForTheirOperation
<1>3. UnderWayOK'
  BY DEF IndInv, UnderWayOK, UnderWay, Blocked
<1>4. SealedOK'
  BY DEF IndInv, SealedOK, Blocked, UnderWayOK, UnderWay
<1>5. PoliciesOK'
  BY MaintenanceAssumption DEF IndInv, PoliciesOK, Blocked
<1>6. ClosureOK'
  BY MaintenanceAssumption DEF IndInv, ClosureOK
<1>7. ResultOK'
  BY DEF IndInv, ResultOK, UnderWayOK, UnderWay, Blocked, SealedOK
<1> QED
  BY <1>1, <1>2, <1>3, <1>4, <1>5, <1>6, <1>7 DEF IndInv

(* The exit policies succeeded: _prepare defers or takes the snapshot. *)
LEMMA ExitPoliciesSucceedStep ==
  ASSUME IndInv, ExitPoliciesSucceed
  PROVE  IndInv'
<1> USE DEF ExitPoliciesSucceed, Defer, RestoreAndReturn, RestoreAdmission, Finish,
            Transition, AdmissionReopens, SupervisorResumes, MayTransition, Free,
            coordinatorVars, bootVars, gateVars, workVars
<1>1. TypeOK'
  <2>1. FlagsOK'
    <3>1. FlagsOK
      BY DEF IndInv, TypeOK, FlagsOK
    <3>2. UNCHANGED <<cancelRequested, effectsStarted, expired, closureStarted, prepared,
                      reconciled, accepting, cleanupFailed>>
      OBVIOUS
    <3>3. retryPending' \in BOOLEAN
      BY <3>1 DEF FlagsOK
    <3>4. sealed' \in BOOLEAN
      BY <3>1 DEF FlagsOK
    <3>5. frozen' \in BOOLEAN
      BY <3>1 DEF FlagsOK
    <3> QED
      BY <3>1, <3>2, <3>3, <3>4, <3>5 DEF FlagsOK
  <2>2. HoldersOK'
    BY DEF IndInv, TypeOK, HoldersOK, MaybeOperation, Phases, Results
  <2>3. LedgersOK'
    BY DEF IndInv, TypeOK, LedgersOK, Results
  <2> QED
    BY <2>1, <2>2, <2>3, TypeInParts
<1>2. CallbacksActForTheirOperation'
  BY MaintenanceAssumption DEF IndInv, CallbacksActForTheirOperation
<1>3. UnderWayOK'
  BY DEF IndInv, UnderWayOK, UnderWay, Blocked
<1>4. SealedOK'
  BY DEF IndInv, SealedOK, Blocked, UnderWayOK, UnderWay
<1>5. PoliciesOK'
  BY MaintenanceAssumption DEF IndInv, PoliciesOK, Blocked
<1>6. ClosureOK'
  BY MaintenanceAssumption DEF IndInv, ClosureOK
<1>7. ResultOK'
  BY DEF IndInv, ResultOK, UnderWayOK, UnderWay, Blocked, SealedOK
<1> QED
  BY <1>1, <1>2, <1>3, <1>4, <1>5, <1>6, <1>7 DEF IndInv

(* beforeClose failed: _prepare seals or restores. *)
LEMMA SnapshotFailsStep ==
  ASSUME IndInv, SnapshotFails
  PROVE  IndInv'
<1> USE DEF SnapshotFails, SealAndReturn, RestoreAndReturn, RestoreAdmission, Finish,
            Transition, AdmissionReopens, SupervisorResumes, MayTransition, Free,
            coordinatorVars, bootVars, gateVars, workVars
<1>1. TypeOK'
  <2>1. FlagsOK'
    BY DEF IndInv, TypeOK, FlagsOK
  <2>2. HoldersOK'
    BY DEF IndInv, TypeOK, HoldersOK, MaybeOperation, Phases, Results
  <2>3. LedgersOK'
    BY DEF IndInv, TypeOK, LedgersOK, Results
  <2> QED
    BY <2>1, <2>2, <2>3, TypeInParts
<1>2. CallbacksActForTheirOperation'
  BY MaintenanceAssumption DEF IndInv, CallbacksActForTheirOperation
<1>3. UnderWayOK'
  BY DEF IndInv, UnderWayOK, UnderWay, Blocked
<1>4. SealedOK'
  BY DEF IndInv, SealedOK, Blocked, UnderWayOK, UnderWay
<1>5. PoliciesOK'
  BY MaintenanceAssumption DEF IndInv, PoliciesOK, Blocked
<1>6. ClosureOK'
  BY MaintenanceAssumption DEF IndInv, ClosureOK
<1>7. ResultOK'
  BY DEF IndInv, ResultOK, UnderWayOK, UnderWay, Blocked, SealedOK
<1> QED
  BY <1>1, <1>2, <1>3, <1>4, <1>5, <1>6, <1>7 DEF IndInv

(* After the snapshot the agent is not idle, cancelled or late: _prepare defers. *)
LEMMA SnapshotTooLateStep ==
  ASSUME IndInv, SnapshotTooLate
  PROVE  IndInv'
<1> USE DEF SnapshotTooLate, Defer, RestoreAndReturn, RestoreAdmission, Finish, Transition,
            AdmissionReopens, SupervisorResumes, MayTransition, Free, coordinatorVars,
            bootVars, gateVars, workVars
<1>1. TypeOK'
  <2>1. FlagsOK'
    BY DEF IndInv, TypeOK, FlagsOK
  <2>2. HoldersOK'
    BY DEF IndInv, TypeOK, HoldersOK, MaybeOperation, Phases, Results
  <2>3. LedgersOK'
    BY DEF IndInv, TypeOK, LedgersOK, Results
  <2> QED
    BY <2>1, <2>2, <2>3, TypeInParts
<1>2. CallbacksActForTheirOperation'
  BY MaintenanceAssumption DEF IndInv, CallbacksActForTheirOperation
<1>3. UnderWayOK'
  BY DEF IndInv, UnderWayOK, UnderWay, Blocked
<1>4. SealedOK'
  BY DEF IndInv, SealedOK, Blocked, UnderWayOK, UnderWay
<1>5. PoliciesOK'
  BY MaintenanceAssumption DEF IndInv, PoliciesOK, Blocked
<1>6. ClosureOK'
  BY MaintenanceAssumption DEF IndInv, ClosureOK
<1>7. ResultOK'
  BY DEF IndInv, ResultOK, UnderWayOK, UnderWay, Blocked, SealedOK
<1> QED
  BY <1>1, <1>2, <1>3, <1>4, <1>5, <1>6, <1>7 DEF IndInv

(* The local data and the connections begin to close, over an idle agent. *)
LEMMA SnapshotTakenStep ==
  ASSUME IndInv, SnapshotTaken
  PROVE  IndInv'
<1> USE DEF SnapshotTaken, MustDefer, IsSafelyIdle, Transition, coordinatorVars, bootVars,
            gateVars, workVars
<1>1. TypeOK'
  <2>1. FlagsOK'
    BY DEF IndInv, TypeOK, FlagsOK
  <2>2. HoldersOK'
    BY DEF IndInv, TypeOK, HoldersOK, MaybeOperation, Phases, Results
  <2>3. LedgersOK'
    BY DEF IndInv, TypeOK, LedgersOK, Results
  <2> QED
    BY <2>1, <2>2, <2>3, TypeInParts
<1>2. CallbacksActForTheirOperation'
  BY MaintenanceAssumption DEF IndInv, CallbacksActForTheirOperation
<1>3. UnderWayOK'
  BY DEF IndInv, UnderWayOK, UnderWay, Blocked
<1>4. SealedOK'
  BY DEF IndInv, SealedOK, Blocked
<1>5. PoliciesOK'
  BY MaintenanceAssumption DEF IndInv, PoliciesOK, Blocked
<1>6. ClosureOK'
  BY MaintenanceAssumption DEF IndInv, ClosureOK, UnderWayOK, UnderWay, Blocked, TypeOK,
        MaybeOperation, CallbacksActForTheirOperation
<1>7. ResultOK'
  BY DEF IndInv, ResultOK, UnderWayOK, UnderWay, Blocked, SealedOK
<1> QED
  BY <1>1, <1>2, <1>3, <1>4, <1>5, <1>6, <1>7 DEF IndInv

(* flushAndCloseLocalData returns, fails or is given up. *)
LEMMA ClosingReturnsStep ==
  ASSUME IndInv, ClosingReturns
  PROVE  IndInv'
<1> USE DEF ClosingReturns, SealAndReturn, Finish, coordinatorVars, bootVars, gateVars,
            workVars
<1>1. TypeOK'
  BY SMT, MaintenanceAssumption DEF IndInv, TypeOK, MaybeOperation, Phases, Results
<1>2. CallbacksActForTheirOperation'
  BY MaintenanceAssumption DEF IndInv, CallbacksActForTheirOperation
<1>3. UnderWayOK'
  BY DEF IndInv, UnderWayOK, UnderWay, Blocked
<1>4. SealedOK'
  BY DEF IndInv, SealedOK, Blocked, CallbacksActForTheirOperation, ResultOK, TypeOK,
        MaybeOperation
<1>5. PoliciesOK'
  BY MaintenanceAssumption DEF IndInv, PoliciesOK, Blocked
<1>6. ClosureOK'
  BY SMT, MaintenanceAssumption DEF IndInv, ClosureOK
<1>7. ResultOK'
  BY DEF IndInv, ResultOK
<1> QED
  BY <1>1, <1>2, <1>3, <1>4, <1>5, <1>6, <1>7 DEF IndInv

(* cancel restores nothing while a preparation runs. *)
LEMMA CancelStep ==
  ASSUME IndInv, Cancel
  PROVE  IndInv'
<1> USE DEF Cancel, RestoreAdmission, Transition, coordinatorVars, bootVars, gateVars, workVars
<1>1. TypeOK'
  <2>1. FlagsOK'
    BY DEF IndInv, TypeOK, FlagsOK
  <2>2. HoldersOK'
    BY DEF IndInv, TypeOK, HoldersOK, MaybeOperation, Phases, Results
  <2>3. LedgersOK'
    BY DEF IndInv, TypeOK, LedgersOK, Results
  <2> QED
    BY <2>1, <2>2, <2>3, TypeInParts
<1>2. CallbacksActForTheirOperation'
  BY MaintenanceAssumption DEF IndInv, CallbacksActForTheirOperation
<1>3. UnderWayOK'
  BY DEF IndInv, UnderWayOK, UnderWay, Blocked
<1>4. SealedOK'
  BY DEF IndInv, SealedOK, Blocked
<1>5. PoliciesOK'
  BY MaintenanceAssumption DEF IndInv, PoliciesOK, Blocked
<1>6. ClosureOK'
  BY MaintenanceAssumption DEF IndInv, ClosureOK
<1>7. ResultOK'
  BY DEF IndInv, ResultOK
<1> QED
  BY <1>1, <1>2, <1>3, <1>4, <1>5, <1>6, <1>7 DEF IndInv

(* markRecoveryRequired never opens the gate. *)
LEMMA MarkRecoveryRequiredStep ==
  ASSUME IndInv, MarkRecoveryRequired
  PROVE  IndInv'
<1> USE DEF MarkRecoveryRequired, Transition, MayTransition, Free, coordinatorVars, bootVars,
            gateVars, workVars
<1>1. TypeOK'
  BY SMT, MaintenanceAssumption DEF IndInv, TypeOK, MaybeOperation, Phases, Results
<1>2. CallbacksActForTheirOperation'
  BY MaintenanceAssumption DEF IndInv, CallbacksActForTheirOperation
<1>3. UnderWayOK'
  BY DEF IndInv, UnderWayOK, UnderWay, Blocked
<1>4. SealedOK'
  BY DEF IndInv, SealedOK, Blocked
<1>5. PoliciesOK'
  BY MaintenanceAssumption DEF IndInv, PoliciesOK, Blocked
<1>6. ClosureOK'
  BY MaintenanceAssumption DEF IndInv, ClosureOK
<1>7. ResultOK'
  BY DEF IndInv, ResultOK
<1> QED
  BY <1>1, <1>2, <1>3, <1>4, <1>5, <1>6, <1>7 DEF IndInv

(* The deadline of _prepare passes. *)
LEMMA DeadlinePassesStep ==
  ASSUME IndInv, DeadlinePasses
  PROVE  IndInv'
<1> USE DEF DeadlinePasses, coordinatorVars, bootVars, gateVars, workVars
<1>1. TypeOK'
  BY SMT, MaintenanceAssumption DEF IndInv, TypeOK, MaybeOperation, Phases, Results
<1>2. CallbacksActForTheirOperation'
  BY MaintenanceAssumption DEF IndInv, CallbacksActForTheirOperation
<1>3. UnderWayOK'
  BY DEF IndInv, UnderWayOK, UnderWay, Blocked
<1>4. SealedOK'
  BY DEF IndInv, SealedOK, Blocked
<1>5. PoliciesOK'
  BY MaintenanceAssumption DEF IndInv, PoliciesOK, Blocked
<1>6. ClosureOK'
  BY MaintenanceAssumption DEF IndInv, ClosureOK
<1>7. ResultOK'
  BY DEF IndInv, ResultOK
<1> QED
  BY <1>1, <1>2, <1>3, <1>4, <1>5, <1>6, <1>7 DEF IndInv

(* The fifteen minutes of retryAfter pass. *)
LEMMA RetryAfterPassesStep ==
  ASSUME IndInv, RetryAfterPasses
  PROVE  IndInv'
<1> USE DEF RetryAfterPasses, coordinatorVars, bootVars, gateVars, workVars
<1>1. TypeOK'
  <2>1. FlagsOK'
    BY DEF IndInv, TypeOK, FlagsOK
  <2>2. HoldersOK'
    <3>1. HoldersOK
      BY DEF IndInv, TypeOK, HoldersOK
    <3>2. UNCHANGED <<pc, operationId, bootOperation, result, phase, admissionOperation,
                      queueOperation, supervisorOperation, running>>
      OBVIOUS
    <3> QED
      BY <3>1, <3>2 DEF HoldersOK, MaybeOperation, Phases, Results
  <2>3. LedgersOK'
    BY DEF IndInv, TypeOK, LedgersOK, Results
  <2> QED
    BY <2>1, <2>2, <2>3, TypeInParts
<1>2. CallbacksActForTheirOperation'
  BY MaintenanceAssumption DEF IndInv, CallbacksActForTheirOperation
<1>3. UnderWayOK'
  BY DEF IndInv, UnderWayOK, UnderWay, Blocked
<1>4. SealedOK'
  BY DEF IndInv, SealedOK, Blocked
<1>5. PoliciesOK'
  BY MaintenanceAssumption DEF IndInv, PoliciesOK, Blocked
<1>6. ClosureOK'
  BY MaintenanceAssumption DEF IndInv, ClosureOK
<1>7. ResultOK'
  BY DEF IndInv, ResultOK
<1> QED
  BY <1>1, <1>2, <1>3, <1>4, <1>5, <1>6, <1>7 DEF IndInv

(* Work begins; once closing has started no gate lets it. *)
LEMMA BeginWorkStep ==
  ASSUME IndInv, NEW w \in Work, BeginWork(w)
  PROVE  IndInv'
<1> USE DEF BeginWork, AllowsInternalWork, coordinatorVars, bootVars, gateVars, workVars
<1>1. TypeOK'
  BY SMT, MaintenanceAssumption DEF IndInv, TypeOK, MaybeOperation, Phases, Results
<1>2. CallbacksActForTheirOperation'
  BY MaintenanceAssumption DEF IndInv, CallbacksActForTheirOperation
<1>3. UnderWayOK'
  BY DEF IndInv, UnderWayOK, UnderWay, Blocked
<1>4. SealedOK'
  BY DEF IndInv, SealedOK, Blocked
<1>5. PoliciesOK'
  BY MaintenanceAssumption DEF IndInv, PoliciesOK, Blocked
<1>6. ClosureOK'
  BY MaintenanceAssumption DEF IndInv, ClosureOK, SealedOK, Blocked
<1>7. ResultOK'
  BY DEF IndInv, ResultOK
<1> QED
  BY <1>1, <1>2, <1>3, <1>4, <1>5, <1>6, <1>7 DEF IndInv

(* Work ends. *)
LEMMA EndWorkStep ==
  ASSUME IndInv, NEW w \in Work, EndWork(w)
  PROVE  IndInv'
<1> USE DEF EndWork, coordinatorVars, bootVars, gateVars, workVars
<1>1. TypeOK'
  <2>1. FlagsOK'
    BY DEF IndInv, TypeOK, FlagsOK
  <2>2. HoldersOK'
    <3>1. HoldersOK
      BY DEF IndInv, TypeOK, HoldersOK
    <3>2. UNCHANGED <<pc, operationId, bootOperation, result, phase, admissionOperation,
                      queueOperation, supervisorOperation>>
      OBVIOUS
    <3>3. running' \subseteq Work
      BY <3>1 DEF HoldersOK
    <3> QED
      BY <3>1, <3>2, <3>3 DEF HoldersOK, MaybeOperation, Phases, Results
  <2>3. LedgersOK'
    BY DEF IndInv, TypeOK, LedgersOK, Results
  <2> QED
    BY <2>1, <2>2, <2>3, TypeInParts
<1>2. CallbacksActForTheirOperation'
  BY MaintenanceAssumption DEF IndInv, CallbacksActForTheirOperation
<1>3. UnderWayOK'
  BY DEF IndInv, UnderWayOK, UnderWay, Blocked
<1>4. SealedOK'
  BY DEF IndInv, SealedOK, Blocked
<1>5. PoliciesOK'
  BY MaintenanceAssumption DEF IndInv, PoliciesOK, Blocked
<1>6. ClosureOK'
  BY MaintenanceAssumption DEF IndInv, ClosureOK
<1>7. ResultOK'
  BY DEF IndInv, ResultOK
<1> QED
  BY <1>1, <1>2, <1>3, <1>4, <1>5, <1>6, <1>7 DEF IndInv

(* A new agent: nothing is paused and no preparation exists. *)
LEMMA InitIsInductive == Init => IndInv
  BY DEF Init, IndInv, TypeOK, CallbacksActForTheirOperation, UnderWayOK, UnderWay, SealedOK,
           PoliciesOK, ClosureOK, ResultOK, MaybeOperation, Phases

(* Every step of the coordinator, the bootstrap, the gates and the work preserves the *)
(* inductive invariant.                                                               *)
LEMMA NextStep ==
  ASSUME IndInv, [Next]_vars
  PROVE  IndInv'
<1>1. ASSUME NEW o \in Operations, PrepareRefused(o) PROVE IndInv'
  BY <1>1, PrepareRefusedStep
<1>2. ASSUME NEW o \in Operations, PrepareTooSoon(o) PROVE IndInv'
  BY <1>2, PrepareTooSoonStep
<1>3. ASSUME NEW o \in Operations, Prepare(o) PROVE IndInv'
  BY <1>3, PreparationStep
<1>4. ASSUME NEW o \in Operations, ExitPoliciesSettle(o) PROVE IndInv'
  BY <1>4, ExitPoliciesSettleStep
<1>5. ASSUME NEW o \in Operations, Return(o) PROVE IndInv'
  BY <1>5, ReturnStep
<1>6. CASE PollGivesUp
  BY <1>6, PollGivesUpStep
<1>7. CASE PollFindsIdle
  BY <1>7, PollFindsIdleStep
<1>8. CASE ExitPoliciesTimeOut
  BY <1>8, ExitPoliciesTimeOutStep
<1>9. CASE ExitPoliciesFail
  BY <1>9, ExitPoliciesFailStep
<1>10. CASE ExitPoliciesSucceed
  BY <1>10, ExitPoliciesSucceedStep
<1>11. CASE SnapshotFails
  BY <1>11, SnapshotFailsStep
<1>12. CASE SnapshotTooLate
  BY <1>12, SnapshotTooLateStep
<1>13. CASE SnapshotTaken
  BY <1>13, SnapshotTakenStep
<1>14. CASE ClosingReturns
  BY <1>14, ClosingReturnsStep
<1>15. CASE Cancel
  BY <1>15, CancelStep
<1>16. CASE MarkRecoveryRequired
  BY <1>16, MarkRecoveryRequiredStep
<1>17. CASE DeadlinePasses
  BY <1>17, DeadlinePassesStep
<1>18. CASE RetryAfterPasses
  BY <1>18, RetryAfterPassesStep
<1>19. ASSUME NEW w \in Work, BeginWork(w) PROVE IndInv'
  BY <1>19, BeginWorkStep
<1>20. ASSUME NEW w \in Work, EndWork(w) PROVE IndInv'
  BY <1>20, EndWorkStep
<1>21. CASE UNCHANGED vars
  BY SMTT(20), <1>21 DEF vars, coordinatorVars, bootVars, gateVars, workVars, IndInv, TypeOK,
     CallbacksActForTheirOperation, UnderWayOK, UnderWay, SealedOK, PoliciesOK, ClosureOK, ResultOK,
     Blocked, MaybeOperation, Phases, Results
<1> QED
  BY <1>1, <1>2, <1>3, <1>4, <1>5, <1>6, <1>7, <1>8, <1>9, <1>10, <1>11, <1>12,
     <1>13, <1>14, <1>15, <1>16, <1>17, <1>18, <1>19, <1>20, <1>21 DEF Next

(* The inductive invariant holds for ever. *)
THEOREM Invariance == Spec => []IndInv
<1>1. Init => IndInv
  BY InitIsInductive
<1>2. IndInv /\ [Next]_vars => IndInv'
  BY NextStep
<1> QED
  BY <1>1, <1>2, PTL DEF Spec

(* The state of the coordinator, the bootstrap and the gates keeps its type. *)
THEOREM TypeCorrect == Spec => []TypeOK
<1>1. IndInv => TypeOK
  BY DEF IndInv
<1> QED
  BY <1>1, Invariance, PTL

(* Nothing runs on local data or connections that flushAndCloseLocalData is closing. *)
THEOREM ClosedWhenIdle == Spec => []ClosedMeansIdle
<1>1. IndInv => ClosedMeansIdle
  BY DEF IndInv, ClosureOK, ClosedMeansIdle
<1> QED
  BY <1>1, Invariance, PTL

(* The callbacks of a preparation freeze, restore and close for its own operation. *)
THEOREM CallbacksKeepTheirOperation == Spec => []CallbacksActForTheirOperation
<1>1. IndInv => CallbacksActForTheirOperation
  BY DEF IndInv
<1> QED
  BY <1>1, Invariance, PTL

(* Admission, the queues and the supervisor stay closed under running exit policies, *)
(* also after the deadline gave up on them.                                          *)
THEOREM ClosedUnderExitPolicies == Spec => []NoReopeningUnderExitPolicies
<1>1. IndInv => NoReopeningUnderExitPolicies
  BY DEF IndInv, PoliciesOK, NoReopeningUnderExitPolicies
<1> QED
  BY <1>1, Invariance, PTL

(* Each step preserves the seal and the closed gate of a sealed agent: its preparation *)
(* stays in the coordinator, so neither prepare nor cancel reaches a restoration.      *)
LEMMA SealStep ==
  ASSUME IndInv, [Next]_vars, sealed
  PROVE  sealed' /\ phase' # "operational"
<1>1. sealed'
  <2>1. pc # "none" /\ pc \notin UnderWay
    BY DEF IndInv, SealedOK, UnderWayOK, UnderWay
  <2> QED
    BY <2>1 DEF Next, vars, coordinatorVars, Prepare, PrepareRefused, PrepareTooSoon,
       ExitPoliciesSettle, Return, PollGivesUp, PollFindsIdle, ExitPoliciesTimeOut, ExitPoliciesFail,
       ExitPoliciesSucceed, SnapshotFails, SnapshotTooLate, SnapshotTaken, ClosingReturns,
       SealAndReturn, Cancel, MarkRecoveryRequired, DeadlinePasses, RetryAfterPasses, BeginWork,
       EndWork, UnderWay
<1>2. IndInv'
  BY NextStep
<1> QED
  BY <1>1, <1>2 DEF IndInv, SealedOK, Blocked

(* A sealed agent never becomes operational again in this process. *)
THEOREM SealIsFinal == Spec => SealedForGood
<1>1. IndInv /\ [Next]_vars => [sealed => sealed' /\ phase' # "operational"]_vars
  BY SealStep
<1> QED
  BY <1>1, Invariance, PTL DEF Spec, SealedForGood

(* What a step does to an attempt that the ledger of exit policies holds. *)
LEMMA LedgerStep ==
  ASSUME IndInv, [Next]_vars, NEW o \in Operations
  PROVE  /\ exitPolicies[o] # "absent" => exitPolicies'[o] # "absent"
         /\ exitPolicies[o] \in {"success", "failure"} => exitPolicies'[o] = exitPolicies[o]
<1>1. ASSUME NEW p \in Operations, Prepare(p)
      PROVE  exitPolicies[o] # "absent" => exitPolicies'[o] = exitPolicies[o]
  BY <1>1 DEF Prepare, StartPreparation, StartAndRefuse, ApplyExitPolicies, coordinatorVars, IndInv, TypeOK
<1>2. CASE PollFindsIdle
  BY <1>2 DEF PollFindsIdle, ApplyExitPolicies, IndInv, TypeOK
<1>3. ASSUME NEW p \in Operations, ExitPoliciesSettle(p)
      PROVE  /\ exitPolicies[o] # "absent" => exitPolicies'[o] # "absent"
             /\ exitPolicies[o] \in {"success", "failure"} => exitPolicies'[o] = exitPolicies[o]
  BY <1>3 DEF ExitPoliciesSettle, IndInv, TypeOK
<1>4. ASSUME ~PollFindsIdle, \A p \in Operations : ~Prepare(p) /\ ~ExitPoliciesSettle(p)
      PROVE  UNCHANGED exitPolicies
  BY <1>4 DEF Next, vars, coordinatorVars, PrepareRefused, PrepareTooSoon, Return, PollGivesUp,
     ExitPoliciesTimeOut, ExitPoliciesFail, ExitPoliciesSucceed, SnapshotFails, SnapshotTooLate,
     SnapshotTaken, ClosingReturns, Defer, RestoreAndReturn, SealAndReturn, Cancel,
     MarkRecoveryRequired, DeadlinePasses, RetryAfterPasses, BeginWork, EndWork
<1> QED
  BY <1>1, <1>2, <1>3, <1>4

(* Exit policies run at most once for an operation: putIfAbsent starts no attempt twice. *)
THEOREM ExitPoliciesRunOnce == Spec => ExitPoliciesOnce
<1>1. IndInv /\ [Next]_vars =>
        [\A o \in Operations :
           /\ exitPolicies[o] # "absent" => exitPolicies'[o] # "absent"
           /\ exitPolicies[o] \in {"success", "failure"} => exitPolicies'[o] = exitPolicies[o]]_vars
  BY LedgerStep
<1> QED
  BY <1>1, Invariance, PTL DEF Spec, ExitPoliciesOnce

-----------------------------------------------------------------------------

\* Everything that maintenance pauses is open.
Open ==
  /\ phase = "operational" /\ admissionOperation = NoOperation
  /\ queueOperation = NoOperation /\ supervisorOperation = NoOperation

\* The phases of a gate that waits for a recovery.
Recovery == {"recoveryRequired", "dispatchUnknown"}

\* What explains a gate that is closed after a preparation that sealed nothing.
Explained ==
  /\ admissionOperation # NoOperation
  /\ \/ reconciled
     \/ /\ cleanupFailed
        /\ queueOperation = admissionOperation /\ supervisorOperation = admissionOperation

\* A preparation that returned a failure and left the gate closed: the bootstrap finds a
\* gate that it can mark, or one that is marked.
LeftClosed ==
  /\ result = "failed"
  /\ phase \in Recovery \/ (phase = "draining" /\ admissionOperation = bootOperation)
  /\ Explained

\* What holds besides IndInv: only a reconciliation moves the gate of a preparation under
\* way, and a preparation that is over without sealing has opened everything, or there is
\* an explanation and the gate asks for a recovery as soon as prepare has returned.
ReversibleInv ==
  /\ accepting \/ closureStarted
  /\ pc \in UnderWay => phase = "draining" \/ (phase \in Recovery /\ reconciled)
  /\ pc \in {"none", "finished"} /\ ~sealed => ~frozen
  /\ pc = "finished" /\ ~sealed => Open \/ LeftClosed
  /\ pc = "none" => Open \/ (phase \in Recovery /\ Explained)

(* restoreAdmission of a preparation under way opens everything, or throws because a    *)
(* cleanup failed (nothing is restored) or because the gate was marked meanwhile.       *)
LEMMA RestoreOutcome ==
  ASSUME IndInv, ReversibleInv, pc \in UnderWay, RestoreAdmission,
         UNCHANGED <<bootOperation, reconciled, cleanupFailed>>
  PROVE  \/ AdmissionReopens /\ Open'
         \/ /\ ~AdmissionReopens
            /\ phase' \in Recovery \/ (phase' = "draining" /\ admissionOperation' = bootOperation')
            /\ Explained'
<1>1. /\ admissionOperation = bootOperation /\ queueOperation = bootOperation
      /\ supervisorOperation = bootOperation /\ bootOperation # NoOperation
  BY MaintenanceAssumption DEF IndInv, CallbacksActForTheirOperation, UnderWay, UnderWayOK
<1>2. accepting /\ (phase = "draining" \/ (phase \in Recovery /\ reconciled))
  BY DEF IndInv, ReversibleInv, UnderWayOK, ClosureOK
<1>3. CASE AdmissionReopens
  <2>1. SupervisorResumes
    BY <1>3 DEF AdmissionReopens
  <2> QED
    BY <1>1, <1>3, <2>1 DEF RestoreAdmission, Open, Transition
<1>4. CASE ~SupervisorResumes
  <2>1. cleanupFailed
    BY <1>1, <1>2, <1>4 DEF SupervisorResumes
  <2>2. ~AdmissionReopens
    BY <1>4 DEF AdmissionReopens
  <2>3. UNCHANGED <<phase, admissionOperation, queueOperation, supervisorOperation>>
    BY <1>4, <2>2 DEF RestoreAdmission
  <2>4. Explained'
    BY <1>1, <2>1, <2>3 DEF Explained
  <2> QED
    BY <1>1, <1>2, <2>2, <2>3, <2>4
<1>5. CASE SupervisorResumes /\ ~AdmissionReopens
  <2>1. phase # "draining"
    BY <1>1, <1>5 DEF AdmissionReopens, MayTransition, Free
  <2>2. UNCHANGED <<phase, admissionOperation>>
    BY <1>5 DEF RestoreAdmission
  <2> QED
    BY <1>1, <1>2, <1>5, <2>1, <2>2 DEF Explained
<1> QED
  BY <1>3, <1>4, <1>5

(* So a preparation that restores and returns has opened everything or failed. *)
LEMMA RestoreKeeps ==
  ASSUME IndInv, ReversibleInv, pc \in UnderWay, NEW r, RestoreAndReturn(r),
         UNCHANGED <<accepting, cleanupFailed, closureStarted, bootOperation, reconciled>>
  PROVE  ReversibleInv'
<1>1. ~frozen' /\ pc' = "finished" /\ RestoreAdmission
  BY DEF RestoreAndReturn, Finish
<1>2. ~AdmissionReopens => result' = "failed"
  BY DEF RestoreAndReturn, Finish
<1>3. Open' \/ LeftClosed'
  BY <1>1, <1>2, RestoreOutcome DEF LeftClosed
<1> QED
  BY <1>1, <1>3 DEF ReversibleInv, UnderWay

(* One that seals leaves the agent sealed. *)
LEMMA SealKeeps ==
  ASSUME ReversibleInv, NEW r, SealAndReturn(r), UNCHANGED cleanupFailed
  PROVE  ReversibleInv'
  BY DEF SealAndReturn, Finish, ReversibleInv, UnderWay

(* A step that leaves the gate, the queues and the preparation alone.                    *)
LEMMA ReversibleStutters ==
  ASSUME ReversibleInv,
         UNCHANGED <<pc, sealed, frozen, result, phase, admissionOperation, queueOperation,
                     supervisorOperation, accepting, closureStarted, reconciled>>,
         cleanupFailed => cleanupFailed',
         UNCHANGED bootOperation \/ pc = "none"
  PROVE  ReversibleInv'
<1>1. Open' = Open /\ (Explained => Explained')
  BY DEF Open, Explained
<1>2. CASE pc = "none"
  BY <1>1, <1>2 DEF ReversibleInv, UnderWay
<1>3. CASE UNCHANGED bootOperation
  BY <1>1, <1>3 DEF ReversibleInv, LeftClosed
<1> QED
  BY <1>2, <1>3

(* A preparation freezes the whole agent or is refused; where the freeze throws half-way *)
(* there was a closed gate before, and there is one after.                               *)
LEMMA StartReverses ==
  ASSUME IndInv, ReversibleInv, NEW o \in Operations, pc = "none", StartPreparation(o),
         bootOperation' = o,
         UNCHANGED <<accepting, cleanupFailed, closureStarted, sealed, reconciled>>
  PROVE  ReversibleInv'
<1>1. ~sealed /\ ~frozen /\ (Open \/ (phase \in Recovery /\ Explained))
  BY DEF IndInv, SealedOK, ReversibleInv
<1>2. accepting /\ o # NoOperation
  BY <1>1, MaintenanceAssumption DEF IndInv, ReversibleInv, ClosureOK
<1>3. CASE QueuesPause(o)
  <2>1. phase' = "draining"
    BY <1>3 DEF StartPreparation, FreezeAdmission, Transition, QueuesPause
  <2>2. pc' \in {"polling", "policies"}
    BY <1>3 DEF StartPreparation
  <2> QED
    BY <1>2, <2>1, <2>2 DEF ReversibleInv, UnderWay
<1>4. CASE ~QueuesPause(o)
  <2>1. pc' = "finished" /\ result' = "failed" /\ ~frozen'
    <3>1. Finish("failed") /\ UNCHANGED frozen
      BY <1>4 DEF StartPreparation
    <3> QED
      BY SMT, <1>1, <3>1 DEF Finish
  <2>2. phase \in Recovery /\ Explained
    BY <1>1, <1>2, <1>4 DEF Open, QueuesPause, AdmissionFreezes, SupervisorPauses, MayTransition,
                            Free
  <2>3. CASE AdmissionFreezes(o)
    <3>1. phase' = "draining" /\ admissionOperation' = o
      BY <2>3 DEF StartPreparation, FreezeAdmission, Transition
    <3>2. admissionOperation = o
      BY <2>2, <2>3 DEF AdmissionFreezes, MayTransition, Free, Explained
    <3>3. reconciled
      BY <1>4, <2>2, <2>3, <3>2 DEF QueuesPause, Free, Explained
    <3> QED
      BY <1>2, <2>1, <3>1, <3>3 DEF ReversibleInv, LeftClosed, Explained, UnderWay
  <2>4. CASE ~AdmissionFreezes(o)
    <3>1. UNCHANGED <<phase, admissionOperation, queueOperation>>
      BY <1>4, <2>4 DEF StartPreparation, FreezeAdmission
    <3>2. CASE reconciled
      BY <1>2, <2>1, <2>2, <3>1, <3>2 DEF ReversibleInv, LeftClosed, Explained, UnderWay
    <3>3. CASE ~reconciled
      <4>1. supervisorOperation = admissionOperation /\ admissionOperation # NoOperation
        BY <2>2, <3>3 DEF Explained
      <4>2. ~SupervisorPauses(o)
        BY <2>4, <4>1 DEF AdmissionFreezes, SupervisorPauses, MayTransition, Free
      <4>3. UNCHANGED supervisorOperation
        BY <4>2 DEF StartPreparation, FreezeAdmission
      <4> QED
        BY <1>2, <2>1, <2>2, <3>1, <4>3 DEF ReversibleInv, LeftClosed, Explained, UnderWay
    <3> QED
      BY <3>2, <3>3
  <2> QED
    BY <2>3, <2>4
<1> QED
  BY <1>3, <1>4

(* A call of prepare joins a preparation, starts one, or is refused at once.             *)
LEMMA PrepareReverses ==
  ASSUME IndInv, ReversibleInv, NEW o \in Operations, Prepare(o)
  PROVE  ReversibleInv'
<1>1. /\ UNCHANGED <<accepting, cleanupFailed, closureStarted, sealed, reconciled>>
      /\ bootOperation' = o
  BY DEF Prepare, workVars, coordinatorVars
<1>2. CASE pc # "none" /\ operationId = o /\ UNCHANGED <<coordinatorVars, gateVars>>
  <2>1. UNCHANGED bootOperation
    BY <1>1, <1>2 DEF IndInv, CallbacksActForTheirOperation
  <2>2. UNCHANGED <<pc, sealed, frozen, result, phase, admissionOperation, queueOperation,
                    supervisorOperation>>
    BY <1>2 DEF coordinatorVars, gateVars
  <2> QED
    BY <1>1, <2>1, <2>2, ReversibleStutters
<1>3. CASE pc = "none" /\ StartPreparation(o)
  BY <1>1, <1>3, StartReverses
<1>4. CASE pc = "none" /\ StartAndRefuse(o)
  <2>1. ~frozen
    BY <1>4 DEF IndInv, SealedOK, ReversibleInv
  <2>2. Open' /\ ~frozen' /\ pc' = "finished"
    BY <1>4, <2>1 DEF StartAndRefuse, Finish, Transition, Open
  <2> QED
    BY <1>1, <2>2 DEF ReversibleInv, UnderWay
<1> QED
  BY <1>2, <1>3, <1>4 DEF Prepare

(* The end of prepare marks a gate that it finds closed, and forgets a preparation only  *)
(* when it is not sealed.                                                                *)
LEMMA ReturnReverses ==
  ASSUME IndInv, ReversibleInv, NEW o \in Operations, Return(o)
  PROVE  ReversibleInv'
<1>1. /\ pc = "finished"
      /\ UNCHANGED <<accepting, cleanupFailed, closureStarted, sealed, frozen, queueOperation,
                     supervisorOperation, reconciled>>
  BY DEF Return, workVars
<1>2. CASE sealed
  BY SMT, <1>1, <1>2 DEF Return, WhenComplete, ReversibleInv, UnderWay
<1>3. CASE ~sealed
  <2>1. pc' = "none"
    BY <1>3 DEF Return, WhenComplete
  <2>2. ~frozen /\ (Open \/ LeftClosed)
    BY <1>1, <1>3 DEF ReversibleInv
  <2>3. CASE Open
    <3>1. UNCHANGED <<phase, admissionOperation>>
      BY <2>3 DEF Return, AfterFailure, Open, Blocked
    <3> QED
      BY <1>1, <2>1, <2>2, <2>3, <3>1 DEF ReversibleInv, UnderWay, Open
  <2>4. CASE LeftClosed
    <3>1. AfterFailure(o)
      <4>1. ~closureStarted
        BY <1>3 DEF IndInv, ClosureOK
      <4> QED
        BY <2>4, <4>1 DEF Return, LeftClosed
    <3>2. Blocked
      BY <2>4 DEF LeftClosed, Blocked, Recovery
    <3>3. CASE MayTransition(bootOperation, "recoveryRequired")
      <4>1. admissionOperation = bootOperation
        BY <2>4, <3>3 DEF MayTransition, Free, LeftClosed, Explained
      <4>2. phase' = "recoveryRequired" /\ UNCHANGED admissionOperation
        BY <3>1, <3>2, <3>3, <4>1 DEF AfterFailure, Transition
      <4> QED
        BY <1>1, <2>1, <2>2, <2>4, <4>2 DEF ReversibleInv, UnderWay, LeftClosed, Explained, Recovery
    <3>4. CASE ~MayTransition(bootOperation, "recoveryRequired")
      <4>1. phase \in Recovery
        BY <2>4, <3>4 DEF MayTransition, Free, LeftClosed
      <4>2. UNCHANGED <<phase, admissionOperation>>
        BY <3>1, <3>2, <3>4 DEF AfterFailure
      <4> QED
        BY <1>1, <2>1, <2>2, <2>4, <4>1, <4>2 DEF ReversibleInv, UnderWay, LeftClosed, Explained,
           Recovery
    <3> QED
      BY <3>3, <3>4
  <2> QED
    BY <2>2, <2>3, <2>4
<1> QED
  BY <1>2, <1>3

(* Every step keeps ReversibleInv.                                                       *)
LEMMA ReversibleStep ==
  ASSUME IndInv, ReversibleInv, [Next]_vars
  PROVE  ReversibleInv'
<1> USE DEF coordinatorVars, bootVars, gateVars, workVars
<1>1. ASSUME NEW o \in Operations, Prepare(o) PROVE ReversibleInv'
  BY <1>1, PrepareReverses
<1>2. ASSUME NEW o \in Operations, PrepareRefused(o) \/ PrepareTooSoon(o) \/ ExitPoliciesSettle(o)
      PROVE  ReversibleInv'
  <2> DEFINE Kept == UNCHANGED <<pc, sealed, frozen, result, phase, admissionOperation,
                                 queueOperation, supervisorOperation, accepting,
                                 closureStarted, reconciled, cleanupFailed>>
  <2>1. Kept /\ (UNCHANGED bootOperation \/ pc = "none")
    <3>1. CASE PrepareRefused(o)
      BY <3>1 DEF PrepareRefused
    <3>2. CASE PrepareTooSoon(o)
      BY <3>2 DEF PrepareTooSoon
    <3>3. CASE ExitPoliciesSettle(o)
      BY <3>3 DEF ExitPoliciesSettle
    <3> QED
      BY <1>2, <3>1, <3>2, <3>3
  <2> QED
    BY <2>1, ReversibleStutters
<1>3. ASSUME NEW o \in Operations, Return(o) PROVE ReversibleInv'
  BY <1>3, ReturnReverses
<1>4. CASE PollGivesUp
  <2>1. pc \in UnderWay /\ UNCHANGED <<accepting, cleanupFailed, closureStarted, bootOperation, reconciled>>
    BY <1>4 DEF PollGivesUp, UnderWay
  <2>2. RestoreAndReturn("deferred") \/ RestoreAndReturn("failed")
    BY <1>4 DEF PollGivesUp, Defer
  <2> QED
    BY <2>1, <2>2, RestoreKeeps
<1>5. CASE PollFindsIdle
  BY <1>5 DEF PollFindsIdle, ReversibleInv, UnderWay
<1>6. CASE ExitPoliciesTimeOut
  BY <1>6, SealKeeps DEF ExitPoliciesTimeOut
<1>7. CASE ExitPoliciesFail
  <2>1. pc \in UnderWay /\ UNCHANGED <<accepting, cleanupFailed, closureStarted, bootOperation, reconciled>>
    BY <1>7 DEF ExitPoliciesFail, UnderWay
  <2>2. RestoreAndReturn("failed") \/ SealAndReturn("failed")
    BY <1>7 DEF ExitPoliciesFail
  <2> QED
    BY <2>1, <2>2, RestoreKeeps, SealKeeps
<1>8. CASE ExitPoliciesSucceed
  <2>1. pc \in UnderWay /\ UNCHANGED <<accepting, cleanupFailed, closureStarted, bootOperation, reconciled>>
    BY <1>8 DEF ExitPoliciesSucceed, UnderWay
  <2>2. CASE RestoreAndReturn("deferred")
    BY <2>1, <2>2, RestoreKeeps
  <2>3. CASE pc' = "snapshot" /\ UNCHANGED gateVars
    BY <2>1, <2>3 DEF ReversibleInv, UnderWay
  <2> QED
    BY <1>8, <2>2, <2>3 DEF ExitPoliciesSucceed, Defer
<1>9. CASE SnapshotFails
  <2>1. pc \in UnderWay /\ UNCHANGED <<accepting, cleanupFailed, closureStarted, bootOperation, reconciled>>
    BY <1>9 DEF SnapshotFails, UnderWay
  <2>2. RestoreAndReturn("failed") \/ SealAndReturn("failed")
    BY <1>9 DEF SnapshotFails
  <2> QED
    BY <2>1, <2>2, RestoreKeeps, SealKeeps
<1>10. CASE SnapshotTooLate
  <2>1. pc \in UnderWay /\ UNCHANGED <<accepting, cleanupFailed, closureStarted, bootOperation, reconciled>>
    BY <1>10 DEF SnapshotTooLate, UnderWay
  <2> QED
    BY <1>10, <2>1, RestoreKeeps DEF SnapshotTooLate, Defer
<1>11. CASE SnapshotTaken
  BY <1>11 DEF SnapshotTaken, ReversibleInv, UnderWay
<1>12. CASE ClosingReturns
  <2>1. PICK r \in {"ready", "failed"} : SealAndReturn(r)
    BY <1>12 DEF ClosingReturns
  <2> QED
    BY <1>12, <2>1, SealKeeps DEF ClosingReturns
<1>13. CASE Cancel
  <2>1. ~(pc = "none" /\ frozen)
    BY <1>13 DEF Cancel, ReversibleInv
  <2> QED
    BY <1>13, <2>1, ReversibleStutters DEF Cancel
<1>14. CASE MarkRecoveryRequired
  <2>1. PICK next \in {"dispatchUnknown", "recoveryRequired"} : Transition(bootOperation, next)
    BY <1>14 DEF MarkRecoveryRequired
  <2>2. phase' \in Recovery /\ admissionOperation' # NoOperation /\ reconciled'
    BY <1>14, <2>1 DEF MarkRecoveryRequired, Transition, Recovery
  <2>3. /\ pc # "finished" \/ sealed
        /\ UNCHANGED <<pc, sealed, frozen, accepting, closureStarted>>
    BY <1>14 DEF MarkRecoveryRequired
  <2> QED
    BY <2>2, <2>3 DEF ReversibleInv, Explained
<1>15. CASE DeadlinePasses \/ RetryAfterPasses
  <2>1. UNCHANGED <<pc, sealed, frozen, result, bootVars, gateVars, workVars>>
    BY <1>15 DEF DeadlinePasses, RetryAfterPasses
  <2> QED
    BY <2>1, ReversibleStutters
<1>16. ASSUME NEW w \in Work, BeginWork(w) \/ EndWork(w) PROVE ReversibleInv'
  <2>1. UNCHANGED <<coordinatorVars, bootVars, gateVars, accepting>>
    BY <1>16 DEF BeginWork, EndWork
  <2>2. cleanupFailed => cleanupFailed'
    BY <1>16 DEF BeginWork, EndWork
  <2> QED
    BY <2>1, <2>2, ReversibleStutters
<1>17. CASE UNCHANGED vars
  BY <1>17, ReversibleStutters DEF vars
<1> QED
  BY <1>1, <1>2, <1>3, <1>4, <1>5, <1>6, <1>7, <1>8, <1>9, <1>10, <1>11, <1>12, <1>13,
     <1>14, <1>15, <1>16, <1>17 DEF Next

(* "Reversible admission freeze", for every set of updates and of work, with cleanups   *)
(* that fail and reconciliations at any moment: a preparation that is over without      *)
(* sealing has opened the gate, the queues and the supervisor, or a cleanup failed or a *)
(* reconciliation intervened and the gate asks for a recovery.                          *)
THEOREM FreezeReversed == Spec => []FreezeIsReversed
<1>1. Init => ReversibleInv
  BY DEF Init, ReversibleInv, Open, UnderWay
<1>2. IndInv /\ ReversibleInv /\ [Next]_vars => ReversibleInv'
  BY ReversibleStep
<1>3. ReversibleInv => FreezeIsReversed
  BY DEF ReversibleInv, Open, Explained, Recovery, FreezeIsReversed, Blocked
<1> QED
  BY Invariance, <1>1, <1>2, <1>3, PTL DEF Spec
=============================================================================
