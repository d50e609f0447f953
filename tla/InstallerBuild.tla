--------------------------- MODULE InstallerBuild ---------------------------
(* The first half of a release job: the version files are brought in line,
   the preflight looks at them, and build_installer.py turns the tree into an
   installer with the evidence that the feed keys are inside it.

   A job is one run of the release workflow ("publish", or "dryRun"), which
   starts from a fresh checkout, or a build on a developer's machine
   ("local"), which starts from whatever that machine holds. Every command
   and check is a step; any of them may fail or be cut off (StepFails).       *)
EXTENDS ReleaseSource

CONSTANTS
  BuildIds,      \* identities of compiled installers; no two builds are equal
  LocalSettings, \* <<environ, dotenv, sync>> a developer may build with
  CIEnviron,     \* the environment the workflow builds with
  NoEnvFile,     \* .env of a checkout without one
  BundleGaps,    \* what a build may leave out of the bundle, {} included
  MaxFaults      \* faults, and rare inputs, that may happen in a behaviour

ASSUME SettingsAssumption ==
  /\ MaxFaults \in Nat
  /\ DOMAIN CIEnviron = SettingNames
  /\ \A setting \in LocalSettings : DOMAIN setting[1] = SettingNames

VARIABLES
  step,      \* where the job is; "idle" between jobs
  job,       \* its kind and inputs
  tree,      \* the tracked files of its working copy
  native,    \* the cached ODBC library: "none", "binary", "torn", "recorded"
  bundle,    \* build/windows/x64/runner/Release
  dist,      \* the installer in installer/dist
  evidence,  \* its .keys.json
  faults     \* faults so far

buildVars == <<step, job, tree, native, bundle, dist, evidence, faults>>

None == [none |-> TRUE]

Ends == {"idle", "done", "failed"}

(* The environment and the .env file build_installer.py is started with, and
   the environment it leaves once the settings are resolved.                 *)
StartEnviron ==
  IF job.kind = "local" THEN job.environ ELSE [CIEnviron EXCEPT !.channel = job.channel]

EnvFile == IF job.kind = "local" THEN job.dotenv ELSE NoEnvFile

Environ == BuildEnvironment(StartEnviron, EnvFile)

BuildInit(source) ==
  /\ step = "idle"
  /\ job = None
  /\ tree = source
  /\ native = "none"
  /\ bundle = None
  /\ dist = None
  /\ evidence = None
  /\ faults = 0

(* Where prepare_native_library writes the manifest of what it downloaded. *)
RecordSteps == {"gateRecord", "nativeRecord"}

(* A check moves the job on, or ends it. *)
Gate(from, to, ok) ==
  /\ step = from
  /\ step' = IF ok THEN to ELSE "failed"
  /\ UNCHANGED <<job, tree, native, bundle, dist, evidence, faults>>

StepFails ==
  /\ step \notin Ends
  /\ faults < MaxFaults
  /\ faults' = faults + 1
  /\ step' = "failed"
  /\ native' \in IF step \in RecordSteps THEN {native, "torn"} ELSE {native}
  /\ UNCHANGED <<job, tree, bundle, dist, evidence>>

----------------------------------------------------------------------------
(* Starting a job. A workflow run has a runner of its own; on a developer's
   machine the caches and the last build are still there.                    *)

StartCheckout(inputs, source) ==
  /\ step = "idle"
  /\ job' = inputs
  /\ tree' = source
  /\ step' = IF inputs.kind = "dryRun" THEN "early" ELSE "persona"
  /\ native' = "none"
  /\ bundle' = None
  /\ dist' = None
  /\ evidence' = None
  /\ UNCHANGED faults

StartLocal(setting, source) ==
  /\ step = "idle"
  /\ job' = [kind |-> "local", environ |-> setting[1], dotenv |-> setting[2], sync |-> setting[3]]
  /\ tree' = source
  /\ step' = "settings"
  /\ UNCHANGED <<native, bundle, dist, evidence, faults>>

----------------------------------------------------------------------------
(* Version files, preflight and gates of the workflow. *)

RequirePersona == Gate("persona", "early", PersonaAccepted(tree, job.version, job.channel))

WorkflowFlags == {"allow_dirty", "allow_existing_tag"}

RunEarlyPreflight(here) ==
  Gate("early", "bump",
       run_early_checks({"require_iscc", "allow_existing_tag"},
                        [commands |-> {"git", "python", "ISCC"}, tags |-> here]))

UpdatePubspec ==
  /\ step = "bump"
  /\ tree' = [tree EXCEPT !.pubspec = job.version]
  /\ step' = "syncVersion"
  /\ UNCHANGED <<job, native, bundle, dist, evidence, faults>>

update_setup_iss(source) == [source EXCEPT !.setup = source.pubspec.short]

update_app_version_dart(source) == [source EXCEPT !.gen = source.pubspec]

(* installer/update_version.py *)
UpdateVersionFiles ==
  /\ step = "syncVersion"
  /\ tree' = update_app_version_dart(update_setup_iss(tree))
  /\ step' = IF job.kind = "local" THEN "flutter" ELSE "versions"
  /\ UNCHANGED <<job, native, bundle, dist, evidence, faults>>

AllTools == {"git", "python", "flutter", "ISCC"}

VersionPreflight(here) ==
  Gate("versions", "checkTag",
       Preflight(WorkflowFlags, job.version.short, tree, [commands |-> AllTools, tags |-> here]))

(* git diff over everything but the version files *)
GeneratedFilesUnchanged(head) ==
  Gate("generated", "quality", [tree EXCEPT !.pubspec = head.pubspec, !.setup = head.setup, !.gen = head.gen] = head)

QualityGate(here) ==
  Gate("quality", "gateNative",
       Preflight(WorkflowFlags \union {"gate"}, NoVersion, tree,
                 [commands |-> AllTools, tags |-> here]))

(* run_optional_checks, once it has prepared the native library. A check that
   fails ends the job (StepFails); a suite that is skipped ends it here.     *)
RunOptionalChecks(report) ==
  /\ report = "skipped" => faults < MaxFaults
  /\ step = "checks"
  /\ faults' = IF report = "skipped" THEN faults + 1 ELSE faults
  /\ step' = IF /\ "appcast_tooling" \in Checks({"gate"})
                /\ ~ensure_appcast_signing_tests_not_skipped(report) THEN "failed"
             ELSE "settings"
  /\ UNCHANGED <<job, tree, native, bundle, dist, evidence>>

----------------------------------------------------------------------------
(* build_installer.py *)

ResolveSettings ==
  Gate("settings", "native",
       /\ OfficialSettings(StartEnviron, EnvFile)
       /\ ensure_signing_matches_runtime(Environ, EnvFile)
       /\ FeedKeysUsable(Environ.keys))

(* prepare_native_library, for the gate and for the build. *)
AfterNative ==
  IF step \in {"gateNative", "gateRecord"} THEN "checks"
  ELSE IF job.kind = "local" /\ job.sync THEN "syncVersion" ELSE "flutter"

UseCachedNative ==
  /\ native \in {"torn", "recorded"}
  /\ \E from \in {"gateNative", "native"} : Gate(from, AfterNative, native = "recorded")

(* The published checksum matches what was downloaded, or it does not. *)
DownloadNative(matches) ==
  /\ step \in {"gateNative", "native"}
  /\ native \in {"none", "binary"}
  /\ ~matches => faults < MaxFaults
  /\ faults' = IF matches THEN faults ELSE faults + 1
  /\ native' = IF matches THEN "binary" ELSE native
  /\ step' = IF ~matches THEN "failed"
             ELSE IF step = "gateNative" THEN "gateRecord" ELSE "nativeRecord"
  /\ UNCHANGED <<job, tree, bundle, dist, evidence>>

RecordNative ==
  /\ step \in RecordSteps
  /\ native' = "recorded"
  /\ step' = AfterNative
  /\ UNCHANGED <<job, tree, bundle, dist, evidence, faults>>

(* What the Flutter and CMake builds make of the tree: Dart takes the defines
   main() resolves, CMake the environment alone, and only when it configures
   anew. missing: which of the C++ runtime, the fonts and the ODBC library are
   not where they belong. The elevated runner of an earlier build stays. A
   build may rewrite a tracked file.                                         *)
FlutterBuild(configures, missing, rewrites) ==
  /\ step = "flutter"
  /\ bundle = None => configures
  /\ missing # {} \/ rewrites => faults < MaxFaults
  /\ faults' = IF missing # {} \/ rewrites THEN faults + 1 ELSE faults
  /\ tree' = IF rewrites THEN [tree EXCEPT !.code = "rewritten"] ELSE tree
  /\ bundle' = [app |-> tree', missing |-> missing, touched |-> FALSE, version |-> None,
                runner |-> IF bundle = None THEN None ELSE bundle.runner,
                dart |-> [keys |-> Setting(Environ, EnvFile, "keys"),
                          validSignature |-> Setting(Environ, EnvFile, "validSignature"),
                          feedSignature |-> Setting(Environ, EnvFile, "feedSignature")],
                cmake |-> IF configures
                          THEN [keys |-> Environ.keys, validSignature |-> Environ.validSignature]
                          ELSE bundle.cmake]
  /\ step' = "verify"
  /\ UNCHANGED <<job, native, dist, evidence>>

verify_bundled_vc_runtime(built) == "runtime" \notin built.missing

verify_bundled_fonts(built) == "fonts" \notin built.missing

verify_native_feed_keys(built, keys) == built.cmake.keys = keys

verify_native_bundle(built) == "odbc" \notin built.missing

VerifyBundle ==
  Gate("verify", "helper",
       /\ verify_bundled_vc_runtime(bundle)
       /\ verify_bundled_fonts(bundle)
       /\ verify_native_feed_keys(bundle, Environ.keys)
       /\ verify_native_bundle(bundle))

application_version == tree.pubspec

(* set_version_info, for every executable of the project *)
Stamped(built) == [built EXCEPT !.version = application_version]

(* build_elevated_runner.py compiles the runner, twice, in directories it has
   emptied, and copies it over the one in the bundle; main() then stamps the
   executables.                                                              *)
BuildElevatedRunner ==
  /\ step = "helper"
  /\ bundle' = Stamped([bundle EXCEPT !.runner = tree])
  /\ step' = "inspect"
  /\ UNCHANGED <<job, tree, native, dist, evidence, faults>>

KeysEmbedded(payload, keys) == payload.dart.keys = keys /\ payload.cmake.keys = keys

InspectPayload ==
  Gate("inspect", "compile", KeysEmbedded(bundle, Environ.keys))

(* Something else rewrites a key-bearing file of the bundle. *)
BundleTouched ==
  /\ step \in {"compile", "record", "installer"}
  /\ faults < MaxFaults
  /\ faults' = faults + 1
  /\ bundle' = [bundle EXCEPT !.touched = TRUE]
  /\ UNCHANGED <<step, job, tree, native, dist, evidence>>

CompileInstaller(id) ==
  LET channel == UpdateChannel(Environ, EnvFile) IN
  /\ step = "compile"
  /\ IF tree.setup = tree.pubspec.short /\ channel \in Channels \union {"internal"}
     THEN /\ dist' = [id |-> id, name |-> tree.setup, worker |-> tree.pubspec,
                      channel |-> channel, payload |-> bundle]
          /\ step' = "record"
     ELSE step' = "failed" /\ UNCHANGED dist
  /\ UNCHANGED <<job, tree, native, bundle, evidence, faults>>

(* Faulty: records the bundle as it is by then. *)
RecordEvidenceUnchecked ==
  /\ step = "record"
  /\ evidence' = [installer |-> dist.id, payload |-> bundle]
  /\ step' = IF job.kind = "local" THEN "done" ELSE "installer"
  /\ UNCHANGED <<job, tree, native, bundle, dist, faults>>

find_generated_installer(setup) == dist # None /\ dist.name = setup

(* record: the payload must still be what InspectPayload saw. *)
RecordEvidence ==
  /\ step = "record"
  /\ IF find_generated_installer(tree.setup) /\ ~bundle.touched
     THEN /\ evidence' = [installer |-> dist.id, payload |-> bundle]
          /\ step' = IF job.kind = "local" THEN "done" ELSE "installer"
     ELSE step' = "failed" /\ UNCHANGED evidence
  /\ UNCHANGED <<job, tree, native, bundle, dist, faults>>

EvidenceVerifies ==
  /\ evidence # None
  /\ evidence.installer = dist.id
  /\ evidence.payload = bundle
  /\ KeysEmbedded(bundle, CIEnviron.keys)

ValidateInstaller(here) ==
  Gate("installer", IF job.kind = "dryRun" THEN "done" ELSE "commit",
       Preflight(WorkflowFlags \union {"check_installer"}, job.version.short, tree,
                 [commands |-> AllTools, tags |-> here,
                  installer |-> [present |-> dist # None, name |-> dist.name,
                                 evidenceVerifies |-> EvidenceVerifies]]))
=============================================================================
