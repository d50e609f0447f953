--------------------------- MODULE ReleaseSource ---------------------------
(* What the release tools read and decide without changing anything: the
   three version files, the changelog, the persona acceptance gate, the
   preflight, and the settings of an installer build. A source tree is

     code     an identity of everything the other fields do not single out
     pubspec  the full version of pubspec.yaml, [short, build]
     setup    the short version #define'd in installer/setup.iss
     gen      the full version in lib/core/constants/app_version.g.dart
     log      which CHANGELOG.md; Changelog gives its contents: whether
              Unreleased has changes, and the entries
     persona  contracts/persona-v2-release.json lists every gate as done     *)
EXTENDS Naturals, Sequences

CONSTANTS
  Versions,       \* short versions, ordered as numbers
  Builds,         \* build numbers
  Trees,          \* the source trees a developer may push
  Changelog,      \* the contents of the changelogs of those trees
  AcceptedRisk    \* ACCEPTED_RISK: <<full version, channel>> let through early

IsTree(t) ==
  t = [code |-> t.code, pubspec |-> t.pubspec, setup |-> t.setup, gen |-> t.gen, log |-> t.log,
       persona |-> t.persona]

ASSUME TreesAssumption == \A t \in Trees : IsTree(t)

Channels == {"stable", "beta"}

FullVersions == [short : Versions, build : Builds]

----------------------------------------------------------------------------
(* tool/release/check_changelog.py *)

Descending(entries) ==
  \A i, j \in DOMAIN entries : i < j =>
    /\ entries[j].day <= entries[i].day
    /\ entries[j].number < entries[i].number

WellFormed(entry) ==
  /\ entry.status \in {"tagged", "local", "baseline", "prepared"}
  /\ entry.build.short = entry.number
  /\ entry.noted

ChangelogValid(log, version, release) ==
  /\ Descending(log.entries)
  /\ \A i \in DOMAIN log.entries : WellFormed(log.entries[i])
  /\ log.entries # <<>>
  /\ log.entries[1].number = version.short
  /\ log.entries[1].build = version
  /\ release => log.entries[1].status = "prepared" /\ ~log.pending

----------------------------------------------------------------------------
(* tool/release/check_persona_release.py *)

PersonaAccepted(tree, version, channel) ==
  \/ tree.persona
  \/ <<version, channel>> \in AcceptedRisk /\ tree.pubspec = version

----------------------------------------------------------------------------
(* tool/release/release_preflight.py. flags holds the switches of the call,
   seen what the preflight finds on the machine, in the repository and on
   GitHub: the commands, the tags of the version and where they are, whether
   the worktree is clean, and the installer with its key evidence.           *)

NoVersion == 0

(* --gate stands for four of the optional checks. *)
Checks(flags) ==
  IF "gate" \in flags THEN flags \union {"analyze", "tests_ci", "architecture", "appcast_tooling"}
  ELSE flags

load_version_state(tree) ==
  [full |-> tree.pubspec, short |-> tree.pubspec.short, setup |-> tree.setup,
   generated |-> tree.gen]

ensure_clean_worktree(flags, seen) == "allow_dirty" \in flags \/ seen.clean

ensure_version_sync(state, expected) ==
  /\ expected # NoVersion => state.short = expected
  /\ state.setup = state.short
  /\ state.generated = state.full

find_iscc(commands) == "ISCC" \in commands

ensure_tools(flags, seen) ==
  /\ {"git", "python", "flutter"} \subseteq seen.commands
  /\ "check_pages" \in flags => "gh" \in seen.commands
  /\ "require_iscc" \in flags => find_iscc(seen.commands)

(* Flutter is installed only after the early call. *)
ensure_early_tools(flags, seen) ==
  /\ {"git", "python"} \subseteq seen.commands
  /\ "require_iscc" \in flags => find_iscc(seen.commands)

ensure_tag_available(seen) == {"local", "remote"} \intersect seen.tags = {}

run_early_checks(flags, seen) ==
  /\ ensure_early_tools(flags, seen)
  /\ "allow_existing_tag" \in flags \/ ensure_tag_available(seen)

ensure_installer_exists(version, installer) == installer.present /\ installer.name = version

ensure_feed_public_key_embedded(installer) == installer.evidenceVerifies

ensure_github_pages_workflow_ready(pages) == pages = "workflow"

(* unittest ends well when it skips a suite, so its report is read as well. *)
ensure_appcast_signing_tests_not_skipped(report) == report = "ran"

(* main(), up to run_optional_checks *)
Preflight(flags, version, tree, seen) ==
  LET state == load_version_state(tree) IN
  /\ ensure_clean_worktree(flags, seen)
  /\ ensure_version_sync(state, version)
  /\ ChangelogValid(Changelog[tree.log], state.full, FALSE)
  /\ ensure_tools(flags, seen)
  /\ "allow_existing_tag" \in flags \/ ensure_tag_available(seen)
  /\ "check_installer" \in flags =>
       /\ ensure_installer_exists(state.short, seen.installer)
       /\ ensure_feed_public_key_embedded(seen.installer)
  /\ "check_pages" \in flags => ensure_github_pages_workflow_ready(seen.pages)

----------------------------------------------------------------------------
(* installer/build_installer.py: a setting is read from the process
   environment and, where that has none, from the .env file.                 *)

Unset == "unset"

SettingNames ==
  {"validSignature", "codeSigning", "feedSignature", "certificate", "provider", "keys", "channel"}

Setting(environ, dotenv, key) ==
  IF environ[key] # Unset THEN environ[key] ELSE dotenv[key]

OfficialValue ==
  [validSignature |-> "false", codeSigning |-> "false", feedSignature |-> "true"]

PolicyKeys == DOMAIN OfficialValue

signing_cert_path(environ, dotenv) == Setting(environ, dotenv, "certificate")

should_sign_artifacts(environ, dotenv) ==
  \/ signing_cert_path(environ, dotenv) # Unset
  \/ Setting(environ, dotenv, "codeSigning") = "true"

(* As the application reads it: required unless it is switched off. *)
auto_update_requires_valid_signature(environ, dotenv) ==
  Setting(environ, dotenv, "validSignature") # "false"

ensure_signing_matches_runtime(environ, dotenv) ==
  auto_update_requires_valid_signature(environ, dotenv) => should_sign_artifacts(environ, dotenv)

(* The settings main() refuses before it builds anything. *)
OfficialSettings(environ, dotenv) ==
  /\ signing_cert_path(environ, dotenv) = Unset
  /\ Setting(environ, dotenv, "provider") \in {Unset, "manifest"}
  /\ \A key \in PolicyKeys :
       Setting(environ, dotenv, key) \in {Unset, OfficialValue[key]}

(* The environment main() leaves for CMake, the Flutter tool and itself. The
   feed keys are put back normalised; the channel stays as it was.           *)
BuildEnvironment(environ, dotenv) ==
  [key \in DOMAIN environ |->
     IF key \in PolicyKeys THEN OfficialValue[key]
     ELSE IF key = "keys" THEN Setting(environ, dotenv, key)
     ELSE environ[key]]

FeedKeysUsable(keys) == keys \notin {Unset, "malformed"}

UpdateChannel(environ, dotenv) ==
  LET channel == Setting(environ, dotenv, "channel")
  IN  IF channel = Unset THEN "stable" ELSE channel
=============================================================================
