------------------------- MODULE IsolatedLifecycle -------------------------
(* validate_isolated_windows_lifecycle.py: an administrator's process installs
   the fixture, hands over to a standard user's process, waits for its result
   and goes on to repair, upgrade, reinstall and uninstall; a finally block
   writes lifecycle-result.json. Both phases may be started again, also while
   an earlier invocation is at work, and a process may die at any point.

   The machine is the private namespace of the fixture; the installer, the
   service and the client are external, and do what they are asked, refuse, or
   (a change) do something they should not.                                  *)
EXTENDS LifecycleHandoff

CONSTANTS
  Admins,     \* invocations of the administrator's phase
  Users,      \* invocations of the standard user's phase
  MaxDeaths   \* processes that die

ASSUME ProcessAssumption == Admins \intersect Users = {}
ASSUME DeathsAssumption == MaxDeaths \in Nat

VARIABLES
  adminAt,    \* where each administrator's invocation is
  userAt,     \* where each user's invocation is
  report,     \* the result each invocation is building
  handed,     \* the handoff each invocation holds
  loaded,     \* the fixture each invocation loaded
  retained,   \* the digests of profile and vault each administrator took
  machine,    \* the namespace on the machine
  hostKeys,   \* the registrations of the agent that is installed
  snapshot,   \* those that each administrator's invocation saw when it began
  beside,     \* history: the administrators' invocations it ran at the same time as
  deaths

lifecycleVars == <<adminAt, userAt, report, handed, loaded, retained, machine, hostKeys, snapshot,
                   beside, deaths>>
vars == <<fixtureVars, handoffVars, lifecycleVars>>

Processes == Admins \union Users

(* app: "broken" when the registrations or the files are not as they should
   be; package: what was installed, and by which invocation.                 *)
CleanMachine ==
  [app |-> "none", client |-> FALSE, host |-> "none", core |-> "none", package |-> None,
   profile |-> "none", vault |-> None, downloads |-> FALSE]

NoReport == [status |-> "none", checks |-> {}]

Init ==
  /\ FixtureInit
  /\ HandoffInit
  /\ adminAt = [a \in Admins |-> "off"]
  /\ userAt = [u \in Users |-> "off"]
  /\ report = [p \in Processes |-> NoReport]
  /\ handed = [p \in Processes |-> None]
  /\ loaded = [p \in Processes |-> None]
  /\ retained = [a \in Admins |-> None]
  /\ machine = CleanMachine
  /\ hostKeys = "before"
  /\ snapshot = [a \in Admins |-> "none"]
  /\ beside = [a \in Admins |-> {}]
  /\ deaths = 0

Ends == {"off", "over", "dead"}

Active(a) == adminAt[a] \notin Ends

(* load_fixture and the comparison with what was loaded at the start *)
InputBindingHolds(p) == FixtureVerifies /\ loaded[p] = manifest

----------------------------------------------------------------------------
(* The administrator's phase. *)

(* Faulty: forgets that the fixture may have been consumed. *)
NamespaceUnconsumed == machine.app = "none" /\ machine.package = None /\ AssertFresh

(* The directories, the service key, lifecycle-result.json, assert_fresh. What
   an installation leaves behind when it is uninstalled keeps two of the
   directories, so the machine is free only if nothing was ever installed.   *)
NamespaceIsFree ==
  /\ machine.app = "none" /\ ~machine.client /\ machine.host = "none"
  /\ machine.profile = "none" /\ machine.package = None
  /\ ended = None
  /\ AssertFresh

(* Nothing is reserved by these tests: an invocation started before another
   installs passes them too.                                                 *)
StartAdministrator(a) ==
  /\ adminAt[a] = "off"
  /\ builder \in {"done", "failed"}
  /\ IF FixtureVerifies /\ NamespaceIsFree
     THEN /\ adminAt' = [adminAt EXCEPT ![a] = "bind"]
          /\ report' = [report EXCEPT ![a].status = "failed"]
          /\ loaded' = [loaded EXCEPT ![a] = manifest]
          /\ snapshot' = [snapshot EXCEPT ![a] = hostKeys]
          /\ beside' = [b \in Admins |-> IF b = a THEN {c \in Admins : Active(c)}
                                         ELSE IF Active(b) THEN beside[b] \union {a} ELSE beside[b]]
     ELSE adminAt' = [adminAt EXCEPT ![a] = "over"] /\ UNCHANGED <<report, loaded, snapshot, beside>>
  /\ UNCHANGED <<userAt, handed, retained, machine, hostKeys, deaths, fixtureVars, handoffVars>>

(* A step of the try block: next if it goes well, the finally block if not. *)
AdminGoes(a, from, next, ok) ==
  /\ adminAt[a] = from
  /\ adminAt' = [adminAt EXCEPT ![a] = IF ok THEN next ELSE "registrations"]

AdminKeeps == UNCHANGED <<userAt, report, handed, loaded, hostKeys, snapshot, beside, deaths>>

AdminCheck(a, from, next, ok) ==
  /\ AdminGoes(a, from, next, ok)
  /\ AdminKeeps
  /\ UNCHANGED <<retained, machine, fixtureVars, handoffVars>>

(* A command, or a request to the service, fails. *)
AdminCommandFails(a) ==
  /\ adminAt[a] \notin Ends \union {"bind", "wait", "verify", "pass", "registrations", "rebind", "write"}
  /\ adminAt' = [adminAt EXCEPT ![a] = "registrations"]
  /\ AdminKeeps
  /\ UNCHANGED <<retained, machine, fixtureVars, handoffVars>>

(* A command that changes the machine as it should, or (a change) leaves it as
   one of spoils, and whether the tests that follow find it good.            *)
AdminRuns(a, from, next, after, spoils, good) ==
  /\ \/ machine' = after /\ UNCHANGED changes
     \/ changes < MaxChanges /\ machine' \in spoils /\ changes' = changes + 1
  /\ AdminGoes(a, from, next, good)
  /\ AdminKeeps
  /\ UNCHANGED <<retained, builder, plan, disk, receipt, manifest, handoffVars>>

BindInputs(a) == AdminCheck(a, "bind", "install", InputBindingHolds(a))

Installed == [machine EXCEPT !.app = "installed", !.client = TRUE, !.host = "current", !.core = "installed"]

(* The installer, verify_integrations and plug_install_check *)
CleanInstall(a) ==
  LET first == [Installed EXCEPT !.package = [content |-> disk.installer, by |-> a]]
  IN AdminRuns(a, "install", "provision", first, {[first EXCEPT !.app = "broken"]},
               machine'.app = "installed")

(* CREATE TABLE fails where the database of another attempt has the table. *)
ProvisionData(a) ==
  /\ AdminGoes(a, "provision", "handoff", machine.profile = "none")
  /\ machine' = IF machine.profile = "none"
                THEN [machine EXCEPT !.profile = "private", !.downloads = TRUE] ELSE machine
  /\ AdminKeeps
  /\ UNCHANGED <<retained, fixtureVars, handoffVars>>

CreateHandoff(a) ==
  /\ AdminGoes(a, "handoff", "wait", AssertFresh)
  /\ IF AssertFresh
     THEN ready' = Handoff(a) /\ handed' = [handed EXCEPT ![a] = Handoff(a)]
     ELSE UNCHANGED <<ready, handed>>
  /\ UNCHANGED <<userAt, report, loaded, hostKeys, snapshot, beside, deaths, retained, machine>>
  /\ UNCHANGED <<fixtureVars, claim, pending, result, ended>>

ResultArrives(a) == result # None /\ AdminCheck(a, "wait", "verify", TRUE)

(* Faulty: waits without a deadline. *)
WaitForever(a) == result = None /\ AdminCheck(a, "wait", "wait", TRUE)

WaitTimesOut(a) == result = None /\ AdminCheck(a, "wait", "wait", FALSE)

VerifyStandardResult(a) == AdminCheck(a, "verify", "measure", VerifyResult(handed[a]))

TakeDigests(a) ==
  /\ AdminGoes(a, "measure", "optionalRepair", machine.vault # None)
  /\ retained' = [retained EXCEPT ![a] = [profile |-> machine.profile, vault |-> machine.vault]]
  /\ AdminKeeps
  /\ UNCHANGED <<machine, fixtureVars, handoffVars>>

Kept(a, m) == m.profile = retained[a].profile /\ m.vault = retained[a].vault

Altered(m) == [m EXCEPT !.profile = "altered"]

OptionalRepair(a) ==
  AdminRuns(a, "optionalRepair", "repairClient", machine, {[machine EXCEPT !.core = "replaced"]},
            machine'.core = machine.core)

(* The client is removed, the repair brings it back. *)
RepairClient(a) ==
  AdminRuns(a, "repairClient", "legacyHost", machine, {[machine EXCEPT !.client = FALSE]},
            machine'.client)

StartLegacyHost(a) ==
  /\ AdminGoes(a, "legacyHost", "refuseLegacy", TRUE)
  /\ machine' = [machine EXCEPT !.host = "legacy"]
  /\ AdminKeeps
  /\ UNCHANGED <<retained, fixtureVars, handoffVars>>

(* The repair has to refuse the historical host with exit code 7. *)
LegacyRefused(a) ==
  AdminRuns(a, "refuseLegacy", "upgradeHost", machine, {[machine EXCEPT !.host = "current"]},
            machine'.host = "legacy")

UpgradeHost(a) ==
  AdminRuns(a, "upgradeHost", "reinstall", [machine EXCEPT !.host = "current"], {machine},
            machine'.host = "current")

Reinstall(a) == AdminRuns(a, "reinstall", "uninstall", machine, {Altered(machine)}, Kept(a, machine'))

Uninstalled ==
  [machine EXCEPT !.app = "none", !.client = FALSE, !.host = "none", !.core = "none", !.downloads = FALSE]

Leftovers == {[Uninstalled EXCEPT !.app = "broken"], Altered(Uninstalled)}

Uninstall(a) ==
  AdminRuns(a, "uninstall", "residual", Uninstalled,
            Leftovers \union {[Uninstalled EXCEPT !.downloads = machine.downloads]},
            machine'.app = "none" /\ ~machine'.downloads /\ Kept(a, machine'))

ReinstallResidual(a) ==
  AdminRuns(a, "residual", "finalUninstall", Installed, {[Installed EXCEPT !.app = "broken"]},
            machine'.app = "installed")

FinalUninstall(a) ==
  AdminRuns(a, "finalUninstall", "pass", Uninstalled, Leftovers, machine'.app = "none" /\ Kept(a, machine'))

Pass(a) ==
  /\ AdminGoes(a, "pass", "registrations", TRUE)
  /\ report' = [report EXCEPT ![a].status = "passed"]
  /\ UNCHANGED <<userAt, handed, loaded, hostKeys, snapshot, beside, deaths, retained, machine>>
  /\ UNCHANGED <<fixtureVars, handoffVars>>

(* Faulty: the last check alone decides. *)
FinallyDecides(a, from, to, ok) ==
  /\ adminAt[a] = from
  /\ adminAt' = [adminAt EXCEPT ![a] = to]
  /\ report' = [report EXCEPT ![a].status = IF ok THEN "passed" ELSE "failed"]
  /\ UNCHANGED <<userAt, handed, loaded, retained, machine, hostKeys, snapshot, beside, deaths>>
  /\ UNCHANGED <<fixtureVars, handoffVars>>

(* The finally block: three nested steps, each reached whatever the others do. *)
FinallyChecks(a, from, to, ok) ==
  /\ adminAt[a] = from
  /\ adminAt' = [adminAt EXCEPT ![a] = to]
  /\ report' = IF ok THEN report ELSE [report EXCEPT ![a].status = "failed"]
  /\ UNCHANGED <<userAt, handed, loaded, retained, machine, hostKeys, snapshot, beside, deaths>>
  /\ UNCHANGED <<fixtureVars, handoffVars>>

CheckRegistrations(a) == FinallyChecks(a, "registrations", "rebind", hostKeys = snapshot[a])

RebindInputs(a) == FinallyChecks(a, "rebind", "write", InputBindingHolds(a))

WriteLifecycleResult(a) ==
  /\ adminAt[a] = "write"
  /\ ended' = [by |-> a, status |-> report[a].status,
               applicationSourceVerified |-> loaded[a].application # None]
  /\ adminAt' = [adminAt EXCEPT ![a] = "over"]
  /\ UNCHANGED <<userAt, report, handed, loaded, retained, machine, hostKeys, snapshot, beside, deaths>>
  /\ UNCHANGED fixtureVars
  /\ UNCHANGED <<ready, claim, pending, result>>

AdminStep(a) ==
  \/ BindInputs(a) \/ CleanInstall(a) \/ ProvisionData(a) \/ CreateHandoff(a)
  \/ ResultArrives(a) \/ WaitTimesOut(a) \/ VerifyStandardResult(a) \/ TakeDigests(a)
  \/ OptionalRepair(a) \/ RepairClient(a) \/ StartLegacyHost(a) \/ LegacyRefused(a) \/ UpgradeHost(a)
  \/ Reinstall(a) \/ Uninstall(a) \/ ReinstallResidual(a) \/ FinalUninstall(a) \/ Pass(a)
  \/ CheckRegistrations(a) \/ RebindInputs(a) \/ WriteLifecycleResult(a)

----------------------------------------------------------------------------
(* The standard user's phase. *)

UserGoes(u, from, to) == userAt[u] = from /\ userAt' = [userAt EXCEPT ![u] = to]

UserKeeps == UNCHANGED <<adminAt, loaded, retained, hostKeys, snapshot, beside, deaths, fixtureVars>>

StartUser(u) ==
  /\ ready # None   \* the operator starts it when told to
  /\ UserGoes(u, "off", IF FixtureVerifies THEN "look" ELSE "over")
  /\ loaded' = [loaded EXCEPT ![u] = manifest]
  /\ UNCHANGED <<adminAt, report, handed, retained, machine, hostKeys, snapshot, beside, deaths>>
  /\ UNCHANGED <<fixtureVars, handoffVars>>

(* claim_handoff up to the creation of CLAIM *)
LookForHandoff(u) ==
  LET open == ended = None /\ result = None /\ HandoffMatches IN
  /\ UserGoes(u, "look", IF open THEN "claim" ELSE "over")
  /\ handed' = IF open THEN [handed EXCEPT ![u] = ready] ELSE handed
  /\ UserKeeps
  /\ UNCHANGED <<report, machine, handoffVars>>

ClaimHandoff(u) ==
  /\ UserGoes(u, "claim", "bind")
  /\ CreateClaim(handed[u])
  /\ report' = [report EXCEPT ![u].status = "failed"]
  /\ UserKeeps
  /\ UNCHANGED <<handed, machine>>

ClaimRefused(u) ==
  /\ claim # None
  /\ UserGoes(u, "claim", "over")
  /\ UserKeeps
  /\ UNCHANGED <<report, handed, machine, handoffVars>>

UserBindsInputs(u) ==
  /\ UserGoes(u, "bind", IF InputBindingHolds(u) THEN "denials" ELSE "rebind")
  /\ UserKeeps
  /\ UNCHANGED <<report, handed, machine, handoffVars>>

(* One group of checks: all of them hold, and are recorded, or an exception. *)
UserChecks(u, group, next) ==
  /\ UserGoes(u, group, next)
  /\ machine.client /\ machine.host = "current"
  /\ report' = [report EXCEPT ![u].checks = @ \union {group},
                              ![u].status = IF next = "rebind" THEN "passed" ELSE @]
  /\ UserKeeps
  /\ UNCHANGED <<handed, handoffVars>>

CheckDenials(u) == UserChecks(u, "denials", "vault") /\ UNCHANGED machine

(* The protected blob is written beside the profile. *)
CheckVault(u) ==
  /\ UserChecks(u, "vault", "staging")
  /\ machine' = [machine EXCEPT !.vault = [by |-> u]]

CheckStaging(u) == UserChecks(u, "staging", "rebind") /\ UNCHANGED machine

UserCheckFails(u) ==
  /\ userAt[u] \in CHECKS
  /\ userAt' = [userAt EXCEPT ![u] = "rebind"]
  /\ UserKeeps
  /\ UNCHANGED <<report, handed, machine, handoffVars>>

UserRebindsInputs(u) ==
  /\ UserGoes(u, "rebind", "write")
  /\ report' = IF InputBindingHolds(u) THEN report ELSE [report EXCEPT ![u].status = "failed"]
  /\ UserKeeps
  /\ UNCHANGED <<handed, machine, handoffVars>>

(* write_result: the refusals, the file to be renamed, the rename. *)
WritePending(u) ==
  /\ UserGoes(u, "write", IF result = None /\ pending = None THEN "publish" ELSE "over")
  /\ pending' = IF result = None /\ pending = None
                THEN [binding |-> ResultBinding(handed[u]), status |-> report[u].status,
                      checks |-> report[u].checks]
                ELSE pending
  /\ UserKeeps
  /\ UNCHANGED <<report, handed, machine, ready, claim, result, ended>>

PublishResult(u) ==
  /\ UserGoes(u, "publish", "over")
  /\ IF result = None THEN result' = pending /\ pending' = None ELSE UNCHANGED <<result, pending>>
  /\ UserKeeps
  /\ UNCHANGED <<report, handed, machine, ready, claim, ended>>

UserStep(u) ==
  \/ LookForHandoff(u) \/ ClaimHandoff(u) \/ ClaimRefused(u) \/ UserBindsInputs(u)
  \/ CheckDenials(u) \/ CheckVault(u) \/ CheckStaging(u)
  \/ UserRebindsInputs(u) \/ WritePending(u) \/ PublishResult(u)

----------------------------------------------------------------------------
(* A process dies, or something else touches the registrations of the agent
   that is installed on the machine (it only matters before they are compared). *)
AdminDies(a) ==
  /\ Active(a) /\ deaths < MaxDeaths
  /\ adminAt' = [adminAt EXCEPT ![a] = "dead"]
  /\ deaths' = deaths + 1
  /\ UNCHANGED <<userAt, report, handed, loaded, retained, machine, hostKeys, snapshot, beside>>
  /\ UNCHANGED <<fixtureVars, handoffVars>>

UserDies(u) ==
  /\ userAt[u] \notin Ends /\ deaths < MaxDeaths
  /\ userAt' = [userAt EXCEPT ![u] = "dead"]
  /\ deaths' = deaths + 1
  /\ UNCHANGED <<adminAt, report, handed, loaded, retained, machine, hostKeys, snapshot, beside>>
  /\ UNCHANGED <<fixtureVars, handoffVars>>

HostRegistrationsChange ==
  /\ \E a \in Admins : Active(a) /\ adminAt[a] \notin {"rebind", "write"}
  /\ changes < MaxChanges /\ changes' = changes + 1
  /\ hostKeys' = "changed"
  /\ UNCHANGED <<builder, plan, disk, receipt, manifest, handoffVars>>
  /\ UNCHANGED <<adminAt, userAt, report, handed, loaded, retained, machine, snapshot, beside, deaths>>

FixtureStep ==
  /\ BuildStep \/ RewriteManifest \/ \E artefact \in Artefacts : Change(artefact)
  /\ UNCHANGED <<handoffVars, lifecycleVars>>

Next ==
  \/ FixtureStep
  \/ \E a \in Admins : StartAdministrator(a) \/ AdminStep(a) \/ AdminCommandFails(a) \/ AdminDies(a)
  \/ \E u \in Users : StartUser(u) \/ UserStep(u) \/ UserCheckFails(u) \/ UserDies(u)
  \/ HostRegistrationsChange

Spec == Init /\ [][Next]_vars

(* While an administrator's process runs, one of them goes on; nobody has to
   start one, and the standard user's owes nothing.                          *)
Progress == WF_vars(\E a \in Admins : AdminStep(a))

----------------------------------------------------------------------------
(* Every place is one of the code's, and no more happened than was allowed. *)
TypeOK ==
  /\ builder \in {"runtime", "application", "export", "bindRuntime", "compile", "verifyBuild", "capture",
                  "receipt", "loadReceipt", "payload", "package", "verifyPackage", "legacy", "manifest",
                  "done", "failed"}
  /\ adminAt \in [Admins -> Ends \union
                   {"bind", "install", "provision", "handoff", "wait", "verify", "measure", "optionalRepair",
                    "repairClient", "legacyHost", "refuseLegacy", "upgradeHost", "reinstall", "uninstall",
                    "residual", "finalUninstall", "pass", "registrations", "rebind", "write"}]
  /\ userAt \in [Users -> Ends \union CHECKS \union {"look", "claim", "bind", "rebind", "write", "publish"}]
  /\ \A p \in Processes : report[p].status \in {"none", "failed", "passed"} /\ report[p].checks \subseteq CHECKS
  /\ machine.app \in {"none", "installed", "broken"} /\ machine.host \in {"none", "current", "legacy"}
  /\ changes \in 0 .. MaxChanges /\ deaths \in 0 .. MaxDeaths

(* claim_handoff: however many invocations of the standard user's phase run at
   once or after one another, also when one died, at most one of them ever
   gets past the claim and works on the machine.                             *)
OneStandardPhase ==
  /\ TypeOK
  /\ \A u, v \in Users : report[u].status # "none" /\ report[v].status # "none" => u = v

(* administrator_phase: a lifecycle-result.json that says passed stands for a
   complete attempt: the standard user's phase was done for this very handoff
   and this fixture.json and passed every check, and the profile and the vault
   are what the standard user left; since there is only ever one handoff, only
   one attempt can pass.  Where no other attempt ran beside it, the application
   is gone and the registrations of the agent installed on the machine are
   untouched; and when it says that the application's source was verified
   (applicationSourceVerified), what was installed was made of nothing but the
   commit, the signed runtime (when one was bound) and the fixture's tools,
   whatever was changed between two of the stages.                           *)
PassedMeansComplete ==
  ended # None /\ ended.status = "passed" =>
    /\ ready # None /\ ready.phaseId = ended.by /\ ready.fixtureBinding = loaded[ended.by]
    /\ claim = ready
    /\ result # None /\ result.binding = ready /\ result.status = "passed" /\ result.checks = CHECKS
    /\ \E u \in Users : machine.vault = [by |-> u] /\ handed[u] = claim /\ loaded[u] = loaded[ended.by]
    /\ machine.profile = "private"
    /\ beside[ended.by] = {} =>
         /\ machine.app = "none" /\ machine.host = "none" /\ ~machine.downloads
         /\ hostKeys = snapshot[ended.by]
         /\ ended.applicationSourceVerified => machine.package.content = Genuine

(* "One-attempt coordination evidence", "Refusing an existing or already
   consumed fixture namespace": what the phases hand over is never replaced or
   taken away, not by attempts that overlap either; the installation and the
   result of an attempt are never replaced by one that began after it was
   over, also when it died half way: only by one that ran beside it.         *)
OneAttempt ==
  [][/\ ready # None => ready' = ready
     /\ claim # None => claim' = claim
     /\ result # None => result' = result
     /\ ended # None /\ ended' # ended => ended.by \in beside[ended'.by]
     /\ machine.package # None /\ machine'.package # machine.package =>
          machine.package.by \in beside[machine'.package.by]]_vars

(* The wait is bounded and the finally block always writes: the attempts that
   got past the refusals come to an end, also if no standard user ever comes
   or the one that came died, and one that did not die has left its result, or
   one that ran beside it has put its own in that place.                     *)
AttemptIsRecorded ==
  []<>(\A a \in Admins :
         /\ ~Active(a)
         /\ adminAt[a] = "over" /\ report[a].status # "none" =>
              ended # None /\ ended.by \in {a} \union beside[a])
=============================================================================
