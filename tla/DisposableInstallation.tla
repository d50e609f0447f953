------------------------ MODULE DisposableInstallation ------------------------
(***************************************************************************)
(* tool/updater/validate_windows_installation.py: installation, upgrade,   *)
(* optional repair and removal of the application on a disposable machine. *)
(* The validator requires a clean machine, and whatever happens on the way *)
(* it runs the uninstaller, if there is one, before it writes result.json. *)
(* It may be killed at any step and started again on the same machine,     *)
(* also with the same evidence directory.                                  *)
(*                                                                         *)
(* The installers and the uninstaller are external: what they leave on the *)
(* machine is their choice, within what the validator can see of it.       *)
(***************************************************************************)
EXTENDS Naturals, Sequences

CONSTANTS
    MaxAttempts,     \* how often the validator is started
    Versions         \* versions an installer may leave behind

ASSUME VersionsAssumption == Versions \subseteq Nat \ {0}

VARIABLES
    machine,         \* version installed, uninstaller, user data, traces
    attempt,         \* the validator under way
    attempts,        \* how many were started
    outcome          \* result.json, with what was true of the machine when written

disposableVars == <<machine, attempt, attempts, outcome>>

\* version and uninstaller are those of the attempt's own new directory,
\* version 0 being no application executable; traces are the registry keys,
\* services and directories of an installation that the clean check looks for.
CleanMachine == [version |-> 0, uninstaller |-> FALSE, data |-> "absent",
                 traces |-> FALSE]
NoAttempt == [at |-> "none", installed |-> 0, upgraded |-> 0, phases |-> {},
              status |-> "failed"]
NoOutcome == [status |-> "none", phases |-> {}, installed |-> 0, upgraded |-> 0,
              version |-> 0, data |-> "absent"]

DisposableInit ==
    /\ machine = CleanMachine /\ attempt = NoAttempt
    /\ attempts = 0 /\ outcome = NoOutcome

assert_clean_machine == ~machine.traces /\ machine.data = "absent"

\* A machine that is not clean is refused before anything is written.
StartValidation ==
    /\ attempt = NoAttempt /\ attempts < MaxAttempts
    /\ assert_clean_machine
    /\ attempt' = [NoAttempt EXCEPT !.at = "installation"]
    /\ machine' = [machine EXCEPT !.version = 0, !.uninstaller = FALSE]
    /\ attempts' = attempts + 1
    /\ UNCHANGED outcome

Cleanup(phases, status) == [attempt EXCEPT !.at = "cleanup", !.phases = phases, !.status = status]

\* An installer runs: it may fail at any point of its work, and may leave an
\* application without an uninstaller, or alter data that was there.
MachineAfter(version) ==
    [version : {version}, uninstaller : BOOLEAN, traces : {TRUE},
     data : IF machine.data = "absent" THEN {"absent"}
                                       ELSE {machine.data, "altered", "absent"}]

\* installation: the version is read and the user data put in place.
InstallFirst ==
    /\ attempt.at = "installation"
    /\ UNCHANGED <<attempts, outcome>>
    /\ \/ \E version \in {0} \cup Versions, phases \in {{}, {"installation"}} :
          \E after \in MachineAfter(version) \cup {machine} :
             machine' = after /\ attempt' = Cleanup(phases, "failed")
       \/ \E version \in Versions : \E after \in MachineAfter(version) :
             /\ machine' = [after EXCEPT !.data = "kept"]
             /\ attempt' = [attempt EXCEPT !.at = "probe installation", !.installed = version,
                                           !.phases = @ \cup {"installation"}]

NewerVersion(version) == version > attempt.installed

\* upgrade: the version must grow and the data be as it was written.
Upgrade ==
    /\ attempt.at = "upgrade"
    /\ UNCHANGED <<attempts, outcome>>
    /\ \/ \E version \in {0} \cup Versions, phases \in {{}, {"upgrade"}} :
          \E after \in MachineAfter(version) :
             machine' = after /\ attempt' = Cleanup(attempt.phases \cup phases, "failed")
       \/ \E version \in Versions : \E after \in MachineAfter(version) :
             LET phases == attempt.phases \cup {"upgrade"}
             IN  /\ machine' = after
                 /\ attempt' = IF NewerVersion(version) /\ after.data = "kept"
                               THEN [attempt EXCEPT !.at = "probe upgrade", !.phases = phases,
                                                     !.upgraded = version]
                               ELSE Cleanup(phases, "failed")

\* plug_install_check --core and --odbc.
Probe ==
    /\ attempt.at \in {"probe installation", "probe upgrade"}
    /\ \/ attempt' = [attempt EXCEPT !.at = IF @ = "probe upgrade" THEN "repair" ELSE "upgrade"]
       \/ attempt' = Cleanup(attempt.phases, "failed")
    /\ UNCHANGED <<machine, attempts, outcome>>

\* The optional repair, with the core executable held open and hashed.
OptionalRepair ==
    /\ attempt.at = "repair"
    /\ UNCHANGED <<attempts, outcome>>
    /\ \E version \in Versions, succeeds \in BOOLEAN : \E after \in MachineAfter(version) :
          /\ machine' = after
          /\ attempt' = IF succeeds /\ version = attempt.upgraded
                        THEN Cleanup(attempt.phases \cup {"optional_repair"}, "passed")
                        ELSE Cleanup(attempt.phases, "failed")

Result(status, phases) ==
    [status |-> status, phases |-> phases, installed |-> attempt.installed,
     upgraded |-> attempt.upgraded, version |-> machine'.version, data |-> machine'.data]

\* A faulty variant: what the uninstaller did is not looked at.
TrustTheUninstaller(after) == TRUE

\* What the validator requires of the machine once the uninstaller is done.
UninstallAccepted(after) ==
    /\ after.version = 0
    /\ after.data \in {"absent", "kept"}
    /\ "upgrade" \in attempt.phases => after.data # "absent"

\* The outer finally: uninstall, judge, write result.json.
CleanupAndReport ==
    /\ attempt.at = "cleanup"
    /\ attempt' = NoAttempt /\ UNCHANGED attempts
    /\ \/ /\ ~machine.uninstaller
          /\ UNCHANGED machine
          /\ outcome' = Result("failed", attempt.phases)
       \/ /\ machine.uninstaller
          /\ \E version \in {0, machine.version}, data \in {machine.data, "absent", "altered"},
                removed, traces, succeeds \in BOOLEAN :
                /\ machine' = [version |-> version, data |-> data, traces |-> traces,
                               uninstaller |-> ~removed]
                /\ outcome' = IF succeeds /\ UninstallAccepted(machine')
                              THEN Result(attempt.status, attempt.phases \cup {"uninstall"})
                              ELSE Result("failed", attempt.phases)

\* The validator is killed: neither the uninstaller nor the report follows.
ValidatorKilled ==
    /\ attempt # NoAttempt
    /\ attempt' = NoAttempt
    /\ UNCHANGED <<machine, attempts, outcome>>

DisposableNext ==
    \/ StartValidation \/ InstallFirst \/ Upgrade \/ Probe \/ OptionalRepair
    \/ CleanupAndReport \/ ValidatorKilled

DisposableSpec == DisposableInit /\ [][DisposableNext]_disposableVars

-----------------------------------------------------------------------------
\* A passed result means that all four phases succeeded in one attempt, that
\* the upgrade was to a newer version, and that when the result was written
\* the application was gone and the user data intact, whatever the installers
\* and the uninstaller did and reported
\* (validate_windows_installation.py:117-120, :134-137, :145-163).
PassedMeansWholeLifecycle ==
    outcome.status = "passed" =>
        /\ outcome.phases = {"installation", "upgrade", "optional_repair", "uninstall"}
        /\ outcome.upgraded > outcome.installed
        /\ outcome.version = 0 /\ outcome.data = "kept"

\* A passed result is the last one of its machine: the user data that a
\* successful lifecycle leaves behind keeps every later attempt from starting,
\* so it is never overwritten in its evidence directory
\* (validate_windows_installation.py:73-78, :151-154).
PassedIsFinal ==
    [][outcome.status = "passed" => attempt'.at = "none" /\ outcome' = outcome]_disposableVars
=============================================================================
