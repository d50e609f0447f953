------------------------- MODULE ExistingInstallation -------------------------
(***************************************************************************)
(* tool/updater/validate_existing_windows_installation.py: the optional    *)
(* repair of the installer, tried on a host with a configured profile that *)
(* is in use.  --prepare takes a backup and a snapshot of what the repair  *)
(* must leave alone; --run-repair checks that nothing moved since, runs    *)
(* the installer, compares everything with the snapshot again and writes   *)
(* result.json.  Either may be killed between any two of its steps and     *)
(* started again, and the running application, an update or a rebuild may  *)
(* change the host at any moment.                                          *)
(*                                                                         *)
(* The content of each thing is a number that grows with every change.     *)
(***************************************************************************)
EXTENDS Naturals, Sequences, FiniteSets

CONSTANTS
    MaxHostChanges,   \* how often the host changes by itself
    MaxRepairs,       \* how often the installer is launched
    MaxTampering      \* how many things one launch changes

VARIABLES
    host,           \* thing -> its content
    evidence,       \* the evidence directory: made, protected, backup, state, result
    tool,           \* the process under way: which, at which step, what it read
    tampered,       \* the things the installer changed since the snapshot
    repairs,        \* how often the installer was launched
    hostChanges     \* how often the host changed by itself

repairVars == <<host, evidence, tool, tampered, repairs, hostChanges>>

Compared == {"profile", "vault", "registry", "updater", "executables"}
Copied == {"profile", "vault", "executables", "installer"}
Things == Compared \cup {"installer"}

NoTool == [which |-> "none", at |-> 1, read |-> <<>>, commands |-> FALSE]
NoState == <<>>
NoResult == [status |-> "none", tampered |-> {}]

RepairInit ==
    /\ host = [t \in Things |-> 0]
    /\ evidence = [made |-> FALSE, protected |-> FALSE, backup |-> <<>>,
                   state |-> NoState, result |-> NoResult]
    /\ tool = NoTool /\ tampered = {} /\ repairs = 0 /\ hostChanges = 0

\* What the tool reads of the host: digests of the configured profile and of
\* single files, the startup, protocol and updater registrations, the
\* updater's executables and policy.
configured_profile_digest == host["profile"]
registry_snapshot == host["registry"]
updater_snapshot == host["updater"]
sha256(file) == host[file]
Reading(thing) ==
    CASE thing = "profile" -> configured_profile_digest
      [] thing = "registry" -> registry_snapshot
      [] thing = "updater" -> updater_snapshot
      [] OTHER -> sha256(thing)

protect_backup(directory) == [directory EXCEPT !.protected = TRUE]

With(f, t, value) == [x \in DOMAIN f \cup {t} |-> IF x = t THEN value ELSE f[x]]

-----------------------------------------------------------------------------
(* --prepare.  The copies, then the hashes of the live host, one by one,   *)
(* and state.json last.                                                    *)

\* A faulty variant: state.json appears before the backup is complete.
StateBeforeBackup ==
    <<<<"mkdir", "-">>, <<"protect", "-">>,
      <<"copy", "installer">>,
      <<"hash", "installer">>, <<"hash", "profile">>, <<"hash", "vault">>,
      <<"hash", "registry">>, <<"hash", "updater">>, <<"hash", "executables">>,
      <<"write", "-">>,
      <<"copy", "executables">>, <<"copy", "profile">>, <<"copy", "vault">>>>

PrepareSteps ==
    <<<<"mkdir", "-">>, <<"protect", "-">>,
      <<"copy", "executables">>, <<"copy", "profile">>, <<"copy", "vault">>,
      <<"copy", "installer">>,
      <<"hash", "installer">>, <<"hash", "profile">>, <<"hash", "vault">>,
      <<"hash", "registry">>, <<"hash", "updater">>, <<"hash", "executables">>,
      <<"write", "-">>>>

\* An existing evidence directory is refused.
StartPrepare ==
    /\ tool = NoTool /\ ~evidence.made
    /\ tool' = [NoTool EXCEPT !.which = "prepare"]
    /\ UNCHANGED <<host, evidence, tampered, repairs, hostChanges>>

PrepareStep ==
    LET op == PrepareSteps[tool.at][1]
        thing == PrepareSteps[tool.at][2]
    IN  /\ tool.which = "prepare"
        /\ evidence' = CASE op = "mkdir" -> [evidence EXCEPT !.made = TRUE]
                         [] op = "protect" -> protect_backup(evidence)
                         [] op = "copy" -> [evidence EXCEPT !.backup = With(@, thing, host[thing])]
                         [] op = "hash" -> evidence
                         [] op = "write" -> [evidence EXCEPT !.state = tool.read]
        /\ tool' = IF tool.at = Len(PrepareSteps) THEN NoTool
                   ELSE [tool EXCEPT !.at = @ + 1,
                                     !.read = IF op = "hash" THEN With(@, thing, Reading(thing)) ELSE @]
        /\ UNCHANGED <<host, tampered, repairs, hostChanges>>

-----------------------------------------------------------------------------
(* --run-repair --allow-machine-changes, with elevation.                   *)

\* A faulty variant: the executables are not compared after the repair.
ExecutablesNotCompared ==
    <<<<"load", "-">>, <<"verify", "installer">>,
      <<"match", "profile">>, <<"match", "vault">>, <<"match", "updater">>,
      <<"match", "registry">>, <<"install", "-">>, <<"log", "-">>,
      <<"match", "updater">>, <<"match", "profile">>, <<"match", "vault">>,
      <<"match", "registry">>, <<"probe", "-">>>>

RepairSteps ==
    <<<<"load", "-">>, <<"verify", "installer">>,
      <<"match", "profile">>, <<"match", "vault">>, <<"match", "updater">>,
      <<"match", "registry">>, <<"install", "-">>, <<"log", "-">>,
      <<"match", "updater">>, <<"match", "executables">>, <<"match", "profile">>,
      <<"match", "vault">>, <<"match", "registry">>, <<"probe", "-">>>>

StartRepair ==
    /\ tool = NoTool /\ evidence.made /\ repairs < MaxRepairs
    /\ tool' = [NoTool EXCEPT !.which = "repair"]
    /\ UNCHANGED <<host, evidence, tampered, repairs, hostChanges>>

\* The finally of validate_repair.
WriteResult(status) ==
    /\ evidence' = [evidence EXCEPT !.result = [status |-> status, tampered |-> tampered']]
    /\ tool' = NoTool

\* No updater command in the log of the repair.
verify_no_updater_mutations == ~tool.commands

Holds(op, thing) ==
    CASE op = "load" -> evidence.state # NoState
      [] op = "verify" -> evidence.backup[thing] = tool.read[thing]
      [] op = "match" -> Reading(thing) = tool.read[thing]
      [] op = "log" -> verify_no_updater_mutations
      [] OTHER -> TRUE

\* A check: state.json is read by the first, the probes may fail by themselves.
CheckStep ==
    LET op == RepairSteps[tool.at][1]
        thing == RepairSteps[tool.at][2]
    IN  /\ tool.which = "repair" /\ op # "install"
        /\ UNCHANGED <<host, tampered, repairs, hostChanges>>
        /\ \/ /\ Holds(op, thing)
              /\ IF tool.at = Len(RepairSteps) THEN WriteResult("passed")
                 ELSE /\ tool' = [tool EXCEPT !.at = @ + 1,
                                    !.read = IF op = "load" THEN evidence.state ELSE @]
                      /\ UNCHANGED evidence
           \/ /\ ~Holds(op, thing) \/ op = "probe"
              /\ WriteResult("failed")

\* The installer from the backup, with the core executable held open: what it
\* changes, the updater commands it logs and its exit code are its own.
Install ==
    /\ tool.which = "repair" /\ RepairSteps[tool.at][1] = "install"
    /\ repairs' = repairs + 1
    /\ UNCHANGED hostChanges
    /\ \E changes \in {c \in SUBSET Compared : Cardinality(c) <= MaxTampering},
          commands, succeeds \in BOOLEAN :
          /\ host' = [t \in Things |-> IF t \in changes THEN host[t] + 1 ELSE host[t]]
          /\ tampered' = tampered \cup changes
          /\ IF succeeds
             THEN /\ tool' = [tool EXCEPT !.at = @ + 1, !.commands = commands]
                  /\ UNCHANGED evidence
             ELSE WriteResult("failed")

-----------------------------------------------------------------------------
\* Either tool ends without its handlers, or --prepare raises: what was
\* written stays.
ToolStops ==
    /\ tool # NoTool
    /\ tool' = NoTool
    /\ UNCHANGED <<host, evidence, tampered, repairs, hostChanges>>

\* The application in use, an update or a rebuilt installer.
HostChanges(t) ==
    /\ hostChanges < MaxHostChanges
    /\ hostChanges' = hostChanges + 1
    /\ host' = [host EXCEPT ![t] = @ + 1]
    /\ UNCHANGED <<evidence, tool, tampered, repairs>>

RepairNext ==
    \/ StartPrepare \/ PrepareStep
    \/ StartRepair \/ CheckStep \/ Install
    \/ ToolStops
    \/ \E t \in Things : HostChanges(t)

RepairSpec == RepairInit /\ [][RepairNext]_repairVars

-----------------------------------------------------------------------------
RepairTypeOK ==
    /\ DOMAIN host = Things
    /\ tool.which \in {"none", "prepare", "repair"}
    /\ tool.which = "prepare" => tool.at \in DOMAIN PrepareSteps
    /\ tool.which = "repair" => tool.at \in DOMAIN RepairSteps
    /\ evidence.state # NoState => DOMAIN evidence.state = Things
    /\ evidence.result.status \in {"none", "passed", "failed"}

\* A passed repair result means that no repair tried with this evidence, an
\* earlier interrupted or failed one included, changed the profile, the
\* vault, the Windows integration, the updater or an executable: trying again
\* never washes a change out, because the snapshot is taken once and every
\* attempt is compared with it
\* (validate_existing_windows_installation.py:114-115, :147-152, :168-176).
RepairPassedMeansPreserved ==
    /\ RepairTypeOK
    /\ evidence.result.status = "passed" => evidence.result.tampered = {}

\* The installer is launched only over a protected evidence directory with a
\* complete backup, and it is the installer whose hash was recorded, wherever
\* preparation was interrupted or the host changed meanwhile
\* (validate_existing_windows_installation.py:116-135, :144-148).
InstallerRunsOverASnapshot ==
    [][repairs' > repairs =>
          /\ evidence.protected
          /\ DOMAIN evidence.backup = Copied
          /\ evidence.backup["installer"] = evidence.state["installer"]]_repairVars
=============================================================================
