---------------------------- MODULE ReleaseProofs ----------------------------
(* Proofs about the release pipeline: what an installer was made of and what
   is recorded of it, the publication as an implementation of ReleaseContract,
   and the feed. BuildInv says what holds of a job up to its installer,
   PublishInv what holds of it and of origin from there on, FeedInv what holds
   of the feed and of the job that edits it; each is inductive on top of the
   ones before it.                                                           *)
EXTENDS AppcastFeed, WellFoundedInduction, TLAPS

\* A leaf that names no prover is one for Zenon.
USE ZenonT(30)

\* The steps of a job: before it builds, while it builds and while it publishes.
VersionSteps == {"versions", "checkTag", "generated", "quality", "gateNative", "gateRecord", "checks"}
EarlySteps == {"persona", "early", "bump"} \cup VersionSteps
BuildSteps ==
  {"settings", "native", "nativeRecord", "syncVersion", "flutter", "verify", "helper", "inspect",
   "compile", "record"}
AssetSteps == {"create", "upload", "verifyUpload", "show"}
PublishSteps ==
  {"commit", "sign", "publish", "metadata", "verifyPublic", "tag", "push", "published"} \cup AssetSteps
RunSteps == EarlySteps \cup BuildSteps \cup PublishSteps \cup {"installer"}

IsReleaseJob ==
  /\ job.kind \in {"publish", "dryRun"}
  /\ job.version \in FullVersions /\ job.channel \in Channels

IsLocalJob == job.kind = "local" /\ DOMAIN job.environ = SettingNames

\* Which jobs are at which steps.
JobOK ==
  /\ step \in EarlySteps \cup PublishSteps \cup {"installer"} => IsReleaseJob
  /\ step \in BuildSteps => IsReleaseJob \/ IsLocalJob

\* A workflow's run builds the version it was asked for.
TreeOK ==
  /\ IsTree(tree)
  /\ step \in RunSteps \ {"persona", "early", "bump"} /\ job.kind # "local" => tree.pubspec = job.version

\* No build gets past its settings without usable keys.
KeysOK ==
  step \in BuildSteps \ {"settings", "syncVersion"} \/ (step = "syncVersion" /\ job.kind = "local") =>
    FeedKeysUsable(Environ.keys)

IsBundle(b) ==
  b = [app |-> b.app, missing |-> b.missing, touched |-> b.touched, version |-> b.version,
       runner |-> b.runner, dart |-> b.dart, cmake |-> b.cmake]

\* What the bundle holds, from the build that made it to the installer.
BundleOK ==
  /\ bundle # None => IsBundle(bundle) /\ bundle.cmake.validSignature = "false"
  /\ step \in {"verify", "helper", "inspect", "compile", "record"} =>
       bundle # None /\ bundle.app = tree /\ bundle.dart.feedSignature = "true"
  /\ step \in {"inspect", "compile", "record"} =>
       bundle.runner = tree /\ bundle.version = tree.pubspec
  /\ step \in {"compile", "record"} => KeysEmbedded(bundle, Environ.keys)

\* An installer is of one source; a job that goes on with one made it of its own.
DistOK ==
  /\ dist # None =>
       /\ dist.id \in BuildIds
       /\ dist.payload.runner = dist.payload.app
       /\ dist.payload.app.pubspec = dist.worker
       /\ dist.payload.version = dist.worker
       /\ dist.name = dist.worker.short
  /\ step = "record" /\ ~bundle.touched => dist.payload = bundle
  /\ step \in {"record", "installer"} \cup PublishSteps =>
       dist # None /\ dist.payload.app = tree /\ (job.kind # "local" => dist.channel = job.channel)

\* What the key evidence says when it is about the installer beside it.
EvidenceOK ==
  dist # None /\ evidence # None /\ evidence.installer = dist.id =>
    /\ dist.payload = evidence.payload
    /\ FeedKeysUsable(dist.payload.dart.keys)
    /\ dist.payload.cmake.keys = dist.payload.dart.keys
    /\ dist.payload.dart.feedSignature = "true"
    /\ dist.payload.cmake.validSignature = "false"

BuildInv == JobOK /\ TreeOK /\ KeysOK /\ BundleOK /\ DistOK /\ EvidenceOK

MainTrees == {main[i] : i \in DOMAIN main}

\* main is a history of source trees, and a tag names one of them.
MainOK ==
  /\ main \in Seq(MainTrees) /\ main # <<>> /\ \A t \in MainTrees : IsTree(t)
  /\ DOMAIN tags = Versions
  /\ \A v \in Versions : tags[v] # None =>
       tags[v].n \in DOMAIN main /\ main[tags[v].n] = tags[v].tree

\* HEAD of a run is the commit that was checked out, or the version bump on top of it.
HeadOK ==
  step \in RunSteps /\ job.kind # "local" =>
    /\ head = [n |-> head.n, tree |-> head.tree]
    /\ base \in DOMAIN main
    /\ head.n \in {base, base + 1}
    /\ head.n = base => head.tree = main[base]
    /\ step \notin PublishSteps \ {"commit"} => head.n = base

\* The checkout knows the tag on origin, and from the signature on it is of the tree.
TagOK ==
  /\ step \in RunSteps \ {"push"} /\ job.kind # "local" => localTag = tags[Tag]
  /\ step \in PublishSteps \ {"commit", "sign", "published"} /\ localTag # None => localTag.tree = tree
  /\ step \in AssetSteps \cup {"verifyPublic"} => localTag # None
  /\ step = "push" => localTag = head

IsRelease(r) ==
  /\ r = [state |-> r.state, prerelease |-> r.prerelease, notes |-> r.notes, setup |-> r.setup,
          manifest |-> r.manifest]
  /\ r.state \in {"absent", "draft", "public"}

\* The job knows the state of its release, and the bytes of its installer are nobody else's.
ReleaseOK ==
  /\ DOMAIN releases = Versions /\ \A v \in Versions : IsRelease(releases[v])
  /\ step \in {"tag", "push"} => metadata = releases[Tag].state /\ metadata # "public"
  /\ step = "create" => releases[Tag].state = "absent"
  /\ step \in AssetSteps \ {"create"} => releases[Tag].state = "draft"
  /\ dist # None => \A v \in Versions :
       releases[v].setup # None /\ releases[v].setup.id = dist.id => releases[v].setup = dist

\* What is about to be shown belongs to the tag.
ShowOK ==
  step = "show" =>
    Contract!BelongTogether([setup |-> releases[Tag].setup, manifest |-> releases[Tag].manifest],
                            tags[Tag], Tag)

PublishInv == MainOK /\ HeadOK /\ TagOK /\ ReleaseOK /\ ShowOK

ReleaseInv == BuildInv /\ PublishInv

\* The steps of the feed job, and those at which its release is known and checked.
FeedSteps ==
  {"feedPersona", "feedRelease", "feedAssets", "feedUpdate", "feedValidate", "feedPush", "deploy", "smoke"}

\* A feed job is about one of the versions, on one of the channels.
FeedJobOK ==
  /\ step \in FeedSteps => job.kind = "feed" /\ job.short \in Versions /\ job.channel \in Channels
  /\ \A inputs \in queued : inputs.kind = "feed" /\ inputs.short \in Versions /\ inputs.channel \in Channels

\* The source of a release, and the channel its manifest and its page agree on.
PublicOK ==
  /\ \A v \in Versions : tags[v] # None => tags[v].tree.pubspec \in FullVersions
  /\ \A v \in Versions : releases[v].state # "absent" => tags[v] # None
  /\ \A v \in Versions : releases[v].state = "public" =>
       releases[v].prerelease = (releases[v].manifest.payload.channel = "beta")
  /\ step \in AssetSteps \ {"create"} => releases[Tag].prerelease = (job.channel = "beta")
  /\ step = "show" => releases[Tag].manifest.payload.channel = job.channel

\* What the feed job has found out about its release.
CheckedOK ==
  /\ step \in {"feedAssets", "feedUpdate", "feedValidate", "feedPush"} => releases[job.short].state = "public"
  /\ step \in {"feedUpdate", "feedValidate", "feedPush"} =>
       /\ tags[job.short].tree.pubspec.short = job.short
       /\ releases[job.short].manifest.payload.channel = job.channel

\* The context an update is asked with (command_update).
Asked == IF job.preserve THEN PreservedRollout(feed, AppcastContext) ELSE AppcastContext

\* The draft is made of the feed on main, and is pushed and deployed only if it is valid.
DraftOK ==
  /\ step \in {"feedValidate", "feedPush"} =>
       context = Asked /\ \E date : draft = UpdatedFeed(feed, context, date, job.key)
  /\ step \in {"feedPush", "deploy"} =>
       context.maxItems = MaxItems /\ FeedValid(draft, context, TrustedKeys)

Items(f) == {f[i] : i \in DOMAIN f}

\* An item that was added is of a public release, and has the version of its source.
ItemOK(item) ==
  item \notin FirstItems =>
    /\ item.version.short \in Versions
    /\ releases[item.version.short].state = "public"
    /\ item.version = tags[item.version.short].tree.pubspec
    /\ item.asset = releases[item.version.short].setup.id
    /\ item.manifest = releases[item.version.short].manifest
    /\ releases[item.version.short].prerelease = (item.channel = "beta")

\* The feeds are within bounds, what is listed is right, and what is deployed verifies.
FeedOK ==
  /\ \A f \in {feed, draft, pages, served} : f \in Seq(Items(f)) /\ Len(f) <= MaxItems
  /\ \A item \in Items(feed) : ItemOK(item)
  /\ OneItemEach(feed)
  /\ pages # FirstFeed => InspectValid(pages, MaxItems, TrustedKeys)

\* What is counted stays within its bounds.
CountsOK ==
  /\ faults \in 0..MaxFaults
  /\ native \in {"none", "binary", "torn", "recorded"}
  /\ uploads \subseteq AssetNames

FeedInv == FeedJobOK /\ PublicOK /\ CheckedOK /\ DraftOK /\ FeedOK

-----------------------------------------------------------------------------
(* The build.                                                                *)

(* A bundle is something, and so is an installer or a commit. *)
LEMMA BundleIsSomething == ASSUME NEW b, IsBundle(b) PROVE b # None
<1>1. DOMAIN None = {"none"}
  BY DEF None
<1>2. "app" \in DOMAIN b
  BY SMT DEF IsBundle
<1> QED
  BY SMT, <1>1, <1>2

(* The environment of a build is the official one, and a workflow's run builds for its    *)
(* channel.                                                                               *)
LEMMA OfficialEnvironment ==
  ASSUME IsReleaseJob \/ IsLocalJob
  PROVE  /\ Environ.validSignature = "false"
         /\ Setting(Environ, EnvFile, "feedSignature") = "true"
         /\ job.kind # "local" => UpdateChannel(Environ, EnvFile) = job.channel
<1>1. DOMAIN StartEnviron = SettingNames
  BY SettingsAssumption DEF StartEnviron, IsReleaseJob, IsLocalJob
<1>2. /\ Environ = [key \in SettingNames |->
                      IF key \in PolicyKeys THEN OfficialValue[key]
                      ELSE IF key = "keys" THEN Setting(StartEnviron, EnvFile, key)
                      ELSE StartEnviron[key]]
  BY <1>1 DEF Environ, BuildEnvironment
<1>3. PolicyKeys = {"validSignature", "codeSigning", "feedSignature"}
  BY DEF PolicyKeys, OfficialValue
<1>4. OfficialValue["validSignature"] = "false" /\ OfficialValue["feedSignature"] = "true"
  BY DEF OfficialValue
<1>5. Environ["validSignature"] = "false" /\ Environ["feedSignature"] = "true"
  BY <1>2, <1>3, <1>4 DEF SettingNames
<1>6. Environ["channel"] = StartEnviron["channel"]
  BY <1>2, <1>3 DEF SettingNames
<1>7. ASSUME job.kind # "local" PROVE UpdateChannel(Environ, EnvFile) = job.channel
  <2>1. StartEnviron["channel"] = job.channel
    BY <1>7, SettingsAssumption DEF StartEnviron, SettingNames
  <2>2. job.channel # Unset
    BY <1>7 DEF IsReleaseJob, IsLocalJob, Channels, Unset
  <2> QED
    BY <1>6, <2>1, <2>2 DEF UpdateChannel, Setting
<1>8. Setting(Environ, EnvFile, "feedSignature") = "true"
  BY <1>5 DEF Setting, Unset
<1> QED
  BY <1>5, <1>7, <1>8

(* Between jobs and in a feed job nothing is said of the build but what is left of it.    *)
LEMMA QuietBuild ==
  ASSUME BuildInv, step' \notin RunSteps, IsTree(tree'),
         \/ UNCHANGED <<bundle, dist, evidence>>
         \/ bundle' = None /\ dist' = None
  PROVE  BuildInv'
<1> USE DEF RunSteps, EarlySteps, VersionSteps, BuildSteps, PublishSteps, AssetSteps
<1>1. JobOK' /\ TreeOK' /\ KeysOK'
  BY DEF JobOK, TreeOK, KeysOK
<1>2. BundleOK'
  BY DEF BuildInv, BundleOK
<1>3. DistOK'
  BY DEF BuildInv, DistOK
<1>4. EvidenceOK'
  BY DEF BuildInv, EvidenceOK
<1> QED
  BY <1>1, <1>2, <1>3, <1>4 DEF BuildInv

\* A step that changes nothing of the build but where it is.
Moves == UNCHANGED <<job, tree, bundle, dist, evidence>>

(* A step that ends the job leaves the build as it is. *)
LEMMA EndingBuild ==
  ASSUME BuildInv, Moves, step' \in Ends
  PROVE  BuildInv'
<1>1. step' \notin RunSteps
  BY DEF Ends, RunSteps, EarlySteps, VersionSteps, BuildSteps, PublishSteps, AssetSteps
<1> QED
  BY <1>1, QuietBuild DEF Moves, BuildInv, TreeOK

(* What a step owes that moves on: the facts that hold from there on, of a build that is  *)
(* as it was.                                                                             *)
LEMMA MovingBuild ==
  ASSUME BuildInv, Moves, step \in RunSteps,
         step' \in EarlySteps \cup PublishSteps \cup {"installer"} => IsReleaseJob,
         step' \in BuildSteps => IsReleaseJob \/ IsLocalJob,
         step' \notin {"persona", "early", "bump"} => step \notin {"persona", "early", "bump"},
         step' \in BuildSteps \ {"settings", "syncVersion"} \/ (step' = "syncVersion" /\ job.kind = "local")
           => FeedKeysUsable(Environ.keys),
         step' \notin {"verify", "inspect"},
         step' = "helper" => step = "verify",
         step' = "compile" => step = "inspect" /\ KeysEmbedded(bundle, Environ.keys),
         step' # "record",
         step' \in {"installer"} \cup PublishSteps => step \in {"record", "installer"} \cup PublishSteps
  PROVE  BuildInv'
<1> USE DEF Moves
<1>4. JobOK'
  BY DEF JobOK, IsReleaseJob, IsLocalJob
<1>5. TreeOK'
  BY DEF BuildInv, TreeOK
<1>6. KeysOK'
  BY DEF KeysOK, Environ, StartEnviron, EnvFile
<1>1. BundleOK'
  BY DEF BuildInv, BundleOK, KeysEmbedded, Environ, StartEnviron, EnvFile
<1>2. DistOK'
  BY DEF BuildInv, DistOK
<1>3. EvidenceOK'
  BY DEF BuildInv, EvidenceOK
<1> QED
  BY <1>1, <1>2, <1>3, <1>4, <1>5, <1>6 DEF BuildInv

(* The version files, the preflights and the gates of the workflow. *)
LEMMA EarlyBuildStep ==
  ASSUME BuildInv, NEW here,
         \/ RequirePersona \/ (step = "early" /\ RunEarlyPreflight(here))
         \/ (step = "versions" /\ VersionPreflight(here)) \/ CheckTag
         \/ (step = "generated" /\ GeneratedFilesUnchanged(head.tree))
         \/ (step = "quality" /\ QualityGate(here)) \/ RunOptionalChecks("ran")
         \/ RunOptionalChecks("skipped")
  PROVE  BuildInv'
<1>1. Moves
  BY DEF Moves, RequirePersona, RunEarlyPreflight, VersionPreflight, CheckTag,
         GeneratedFilesUnchanged, QualityGate, RunOptionalChecks, Gate
<1>2. CASE step' \in Ends
  BY <1>1, <1>2, EndingBuild
<1>3. CASE step' \notin Ends
  <2>1. <<step, step'>> \in {<<"persona", "early">>, <<"early", "bump">>, <<"versions", "checkTag">>,
          <<"checkTag", "generated">>, <<"generated", "quality">>, <<"quality", "gateNative">>,
          <<"checks", "settings">>}
    BY <1>3 DEF RequirePersona, RunEarlyPreflight, VersionPreflight, CheckTag,
         GeneratedFilesUnchanged, QualityGate, RunOptionalChecks, Gate, Ends
  <2>2. IsReleaseJob
    BY <2>1 DEF BuildInv, JobOK, EarlySteps, VersionSteps
  <2> QED
    BY <1>1, <2>1, <2>2, MovingBuild
       DEF RunSteps, EarlySteps, VersionSteps, BuildSteps, PublishSteps, AssetSteps
<1> QED
  BY <1>2, <1>3

(* The version files are brought in line: only the version of a tree changes. *)
LEMMA VersionFilesStep ==
  ASSUME BuildInv, UpdatePubspec \/ UpdateVersionFiles
  PROVE  BuildInv'
<1> USE DEF UpdatePubspec, UpdateVersionFiles
<1>1. UNCHANGED <<job, bundle, dist, evidence>>
  OBVIOUS
<1>2. <<step, step'>> \in {<<"bump", "syncVersion">>, <<"syncVersion", "versions">>, <<"syncVersion", "flutter">>}
  OBVIOUS
<1>3. step' = "flutter" => job.kind = "local"
  OBVIOUS
<1>4. step = "bump" \/ step' = "versions" => IsReleaseJob
  BY <1>2 DEF BuildInv, JobOK, EarlySteps, VersionSteps, BuildSteps, IsLocalJob
<1>5. JobOK'
  BY <1>1, <1>2, <1>4 DEF BuildInv, JobOK, EarlySteps, VersionSteps, BuildSteps, PublishSteps, AssetSteps, IsReleaseJob, IsLocalJob
<1>6. TreeOK'
  <2>1. IsTree(tree)
    BY DEF BuildInv, TreeOK
  <2>2. CASE UpdatePubspec
    BY <2>1, <2>2 DEF TreeOK, IsTree
  <2>3. CASE UpdateVersionFiles
    <3>1. IsTree(tree') /\ tree'.pubspec = tree.pubspec
      BY <2>1, <2>3 DEF IsTree, update_app_version_dart, update_setup_iss
    <3>2. step' # "flutter" => tree.pubspec = job.version
      BY <1>4, <1>2, <2>3 DEF BuildInv, TreeOK, IsReleaseJob, RunSteps, BuildSteps
    <3> QED
      BY <1>1, <1>3, <3>1, <3>2 DEF TreeOK
  <2> QED
    BY <2>2, <2>3
<1>7. KeysOK'
  <2>1. CASE step' = "flutter"
    BY <1>1, <1>2, <1>3, <2>1 DEF BuildInv, KeysOK, Environ, StartEnviron, EnvFile
  <2>2. CASE step' = "versions"
    BY <2>2 DEF KeysOK, BuildSteps
  <2>3. CASE step' = "syncVersion"
    <3>1. job'.kind # "local"
      BY <1>1, <1>2, <1>4, <2>3 DEF IsReleaseJob
    <3> QED
      BY <2>3, <3>1 DEF KeysOK
  <2> QED
    BY <1>2, <2>1, <2>2, <2>3
<1>8. BundleOK'
  BY <1>1, <1>2 DEF BuildInv, BundleOK
<1>9. DistOK'
  BY <1>1, <1>2 DEF BuildInv, DistOK, PublishSteps, AssetSteps
<1>10. EvidenceOK'
  BY <1>1 DEF BuildInv, EvidenceOK
<1> QED
  BY <1>5, <1>6, <1>7, <1>8, <1>9, <1>10 DEF BuildInv

(* The settings and the native library. *)
LEMMA NativeStep ==
  ASSUME BuildInv,
         ResolveSettings \/ UseCachedNative \/ DownloadNative(TRUE) \/ DownloadNative(FALSE) \/ RecordNative
  PROVE  BuildInv'
<1>1. Moves
  BY DEF Moves, ResolveSettings, UseCachedNative, DownloadNative, RecordNative, Gate
<1>2. CASE step' \in Ends
  BY <1>1, <1>2, EndingBuild
<1>3. CASE step' \notin Ends
  <2>1. \/ step = "settings" /\ step' = "native" /\ FeedKeysUsable(Environ.keys)
        \/ <<step, step'>> \in {<<"gateNative", "checks">>, <<"gateNative", "gateRecord">>, <<"gateRecord", "checks">>}
        \/ step \in {"native", "nativeRecord"} /\ step' \in {"nativeRecord", "flutter"}
        \/ step \in {"native", "nativeRecord"} /\ step' = "syncVersion" /\ job.kind = "local"
    BY <1>3 DEF ResolveSettings, UseCachedNative, DownloadNative, RecordNative, Gate, Ends, AfterNative,
                RecordSteps
  <2>2. step \in {"gateNative", "gateRecord"} => IsReleaseJob
    BY DEF BuildInv, JobOK, EarlySteps, VersionSteps
  <2>3. step \in {"settings", "native", "nativeRecord"} => IsReleaseJob \/ IsLocalJob
    BY DEF BuildInv, JobOK, BuildSteps
  <2>4. step \in {"native", "nativeRecord"} => FeedKeysUsable(Environ.keys)
    BY DEF BuildInv, KeysOK, BuildSteps
  <2> QED
    BY <1>1, <2>1, <2>2, <2>3, <2>4, MovingBuild
       DEF RunSteps, EarlySteps, VersionSteps, BuildSteps, PublishSteps, AssetSteps
<1> QED
  BY <1>2, <1>3

(* What becomes of the facts about bundle, installer and evidence when a step of the      *)
(* build changes the bundle alone, before there is an installer of this build.            *)
LEMMA BundleStep ==
  ASSUME BuildInv, UNCHANGED <<job, dist, evidence>>,
         step \in BuildSteps, step' \in {"verify", "inspect"},
         step \notin {"settings", "syncVersion"},
         IsTree(tree'), tree'.pubspec = tree.pubspec,
         bundle' # None, IsBundle(bundle'), bundle'.cmake.validSignature = "false",
         bundle'.app = tree', bundle'.dart.feedSignature = "true",
         step' = "inspect" => bundle'.runner = tree' /\ bundle'.version = tree'.pubspec
  PROVE  BuildInv'
<1>1. IsReleaseJob \/ IsLocalJob
  BY DEF BuildInv, JobOK
<1>2. JobOK'
  BY <1>1 DEF JobOK, BuildSteps, EarlySteps, VersionSteps, PublishSteps, AssetSteps, IsReleaseJob, IsLocalJob
<1>3. TreeOK'
  BY DEF BuildInv, TreeOK, RunSteps, BuildSteps
<1>4. KeysOK'
  BY DEF BuildInv, KeysOK, BuildSteps, Environ, StartEnviron, EnvFile
<1>5. BundleOK'
  BY DEF BundleOK
<1>6. DistOK'
  BY DEF BuildInv, DistOK, PublishSteps, AssetSteps
<1>7. EvidenceOK'
  BY DEF BuildInv, EvidenceOK
<1> QED
  BY <1>2, <1>3, <1>4, <1>5, <1>6, <1>7 DEF BuildInv

(* The Flutter build makes a bundle of the tree, with the official update policy. *)
LEMMA FlutterStep ==
  ASSUME BuildInv, NEW configures \in BOOLEAN, NEW missing, NEW rewrites \in BOOLEAN,
         FlutterBuild(configures, missing, rewrites)
  PROVE  BuildInv'
<1>1. /\ step = "flutter" /\ step' = "verify" /\ UNCHANGED <<job, dist, evidence>>
      /\ bundle = None => configures
      /\ tree' = IF rewrites THEN [tree EXCEPT !.code = "rewritten"] ELSE tree
  BY DEF FlutterBuild
<1>2. IsReleaseJob \/ IsLocalJob
  BY <1>1 DEF BuildInv, JobOK, BuildSteps
<1>3. IsTree(tree') /\ tree'.pubspec = tree.pubspec
  BY <1>1 DEF BuildInv, TreeOK, IsTree
<1> DEFINE dart == [keys |-> Setting(Environ, EnvFile, "keys"),
                    validSignature |-> Setting(Environ, EnvFile, "validSignature"),
                    feedSignature |-> Setting(Environ, EnvFile, "feedSignature")]
           runner == IF bundle = None THEN None ELSE bundle.runner
           cmake == IF configures
                    THEN [keys |-> Environ.keys, validSignature |-> Environ.validSignature]
                    ELSE bundle.cmake
<1>4. bundle' = [app |-> tree', missing |-> missing, touched |-> FALSE, version |-> None,
                 runner |-> runner, dart |-> dart, cmake |-> cmake]
  BY DEF FlutterBuild
<1>5. dart.feedSignature = "true"
  <2>1. dart.feedSignature = Setting(Environ, EnvFile, "feedSignature")
    OBVIOUS
  <2> QED
    BY <2>1, <1>2, OfficialEnvironment
<1>6. cmake.validSignature = "false"
  <2>1. CASE configures
    <3>1. cmake.validSignature = Environ.validSignature
      BY <2>1
    <3> QED
      BY <3>1, <1>2, OfficialEnvironment
  <2>2. CASE ~configures
    BY <1>1, <2>2 DEF BuildInv, BundleOK
  <2> QED
    BY <2>1, <2>2
<1> HIDE DEF dart, cmake, runner
<1>7. /\ IsBundle(bundle') /\ bundle'.app = tree' /\ bundle'.dart = dart /\ bundle'.cmake = cmake
  BY <1>4 DEF IsBundle
<1> QED
  BY <1>1, <1>3, <1>5, <1>6, <1>7, BundleStep, BundleIsSomething DEF BuildSteps

(* The elevated runner is compiled of the tree, and the executables are stamped. *)
LEMMA RunnerStep ==
  ASSUME BuildInv, BuildElevatedRunner
  PROVE  BuildInv'
<1>1. /\ step = "helper" /\ step' = "inspect" /\ UNCHANGED <<job, tree, dist, evidence>>
      /\ bundle' = [[bundle EXCEPT !.runner = tree] EXCEPT !.version = tree.pubspec]
  BY DEF BuildElevatedRunner, Stamped, application_version
<1>2. /\ IsBundle(bundle) /\ bundle.cmake.validSignature = "false"
      /\ bundle.app = tree /\ bundle.dart.feedSignature = "true"
  BY <1>1 DEF BuildInv, BundleOK
<1>3. /\ IsBundle(bundle') /\ bundle'.app = bundle.app /\ bundle'.dart = bundle.dart
      /\ bundle'.cmake = bundle.cmake /\ bundle'.runner = tree /\ bundle'.version = tree.pubspec
  BY <1>1, <1>2 DEF IsBundle
<1>4. IsTree(tree)
  BY DEF BuildInv, TreeOK
<1>5. bundle' # None
  BY <1>3, BundleIsSomething
<1> QED
  BY <1>1, <1>2, <1>3, <1>4, <1>5, BundleStep DEF BuildSteps

(* The checks of the bundle, the installer and its evidence, and a step that fails. *)
LEMMA CheckStep ==
  ASSUME BuildInv, NEW here,
         VerifyBundle \/ InspectPayload \/ (step = "installer" /\ ValidateInstaller(here)) \/ StepFails
  PROVE  BuildInv'
<1>1. Moves
  BY DEF Moves, VerifyBundle, InspectPayload, ValidateInstaller, StepFails, Gate
<1>2. CASE step' \in Ends
  BY <1>1, <1>2, EndingBuild
<1>3. CASE step' \notin Ends
  <2>1. \/ <<step, step'>> = <<"verify", "helper">>
        \/ <<step, step'>> = <<"installer", "commit">>
        \/ <<step, step'>> = <<"inspect", "compile">> /\ KeysEmbedded(bundle, Environ.keys)
    BY <1>3 DEF VerifyBundle, InspectPayload, ValidateInstaller, StepFails, Gate, Ends
  <2>2. /\ step = "installer" => IsReleaseJob
        /\ step \in {"verify", "inspect"} => (IsReleaseJob \/ IsLocalJob) /\ FeedKeysUsable(Environ.keys)
    BY DEF BuildInv, JobOK, BuildSteps, KeysOK
  <2> QED
    BY <1>1, <2>1, <2>2, MovingBuild
       DEF RunSteps, EarlySteps, VersionSteps, BuildSteps, PublishSteps, AssetSteps
<1> QED
  BY <1>2, <1>3

(* Something rewrites a key-bearing file: the bundle is not what was packed any more. *)
LEMMA TouchStep ==
  ASSUME BuildInv, BundleTouched
  PROVE  BuildInv'
<1>1. /\ UNCHANGED <<step, job, tree, dist, evidence>>
      /\ bundle' = [bundle EXCEPT !.touched = TRUE]
  BY DEF BundleTouched
<1>2. CASE bundle = None
  <2>1. bundle' = None
    BY <1>1, <1>2 DEF None
  <2>2. step = step' /\ bundle' = bundle
    BY <1>1, <1>2, <2>1
  <2>3. BundleOK' /\ DistOK'
    BY <1>1, <2>2 DEF BuildInv, BundleOK, DistOK, KeysEmbedded, Environ, StartEnviron, EnvFile
  <2>4. JobOK' /\ TreeOK'
    BY <1>1 DEF BuildInv, JobOK, TreeOK, IsReleaseJob, IsLocalJob
  <2>5. KeysOK' /\ EvidenceOK'
    BY <1>1 DEF BuildInv, KeysOK, EvidenceOK, Environ, StartEnviron, EnvFile
  <2> QED
    BY <2>3, <2>4, <2>5 DEF BuildInv
<1>3. CASE bundle # None
  <2>1. IsBundle(bundle)
    BY <1>3 DEF BuildInv, BundleOK
  <2>2. /\ IsBundle(bundle') /\ bundle'.touched
        /\ bundle'.app = bundle.app /\ bundle'.dart = bundle.dart /\ bundle'.cmake = bundle.cmake
        /\ bundle'.runner = bundle.runner /\ bundle'.version = bundle.version
    BY <1>1, <2>1 DEF IsBundle
  <2>3. JobOK' /\ TreeOK'
    BY <1>1 DEF BuildInv, JobOK, TreeOK, IsReleaseJob, IsLocalJob
  <2>4. KeysOK' /\ EvidenceOK'
    BY <1>1 DEF BuildInv, KeysOK, EvidenceOK, Environ, StartEnviron, EnvFile
  <2>5. BundleOK'
    BY <1>1, <1>3, <2>2, BundleIsSomething
       DEF BuildInv, BundleOK, KeysEmbedded, Environ, StartEnviron, EnvFile
  <2>6. DistOK'
    BY <1>1, <2>2 DEF BuildInv, DistOK
  <2> QED
    BY <2>3, <2>4, <2>5, <2>6 DEF BuildInv
<1> QED
  BY <1>2, <1>3

(* The installer is compiled: it packs the bundle as it is, and no evidence is about it. *)
LEMMA CompileStep ==
  ASSUME BuildInv, NEW id \in BuildIds, id \notin StoredIds, CompileInstaller(id)
  PROVE  BuildInv'
<1>1. step = "compile" /\ UNCHANGED <<job, tree, bundle, evidence>>
  BY DEF CompileInstaller
<1>2. IsReleaseJob \/ IsLocalJob
  BY <1>1 DEF BuildInv, JobOK, BuildSteps
<1>3. CASE step' = "failed"
  <2>1. Moves
    BY <1>1, <1>3 DEF CompileInstaller, Moves
  <2> QED
    BY <1>3, <2>1, EndingBuild DEF Ends
<1>4. CASE step' # "failed"
  <2> DEFINE channel == UpdateChannel(Environ, EnvFile)
  <2>1. /\ step' = "record" /\ tree.setup = tree.pubspec.short
        /\ dist' = [id |-> id, name |-> tree.setup, worker |-> tree.pubspec,
                    channel |-> channel, payload |-> bundle]
    BY <1>4 DEF CompileInstaller
  <2>2. job.kind # "local" => channel = job.channel
    BY <1>2, OfficialEnvironment
  <2> HIDE DEF channel
  <2>3. /\ dist'.id = id /\ dist'.name = tree.setup /\ dist'.worker = tree.pubspec
        /\ dist'.channel = channel /\ dist'.payload = bundle
    BY <2>1
  <2>4. dist' # None
    <3>1. DOMAIN None = {"none"} /\ "id" \in DOMAIN dist'
      BY <2>1 DEF None
    <3> QED
      BY SMT, <3>1
  <2>5. evidence # None => evidence.installer # id
    BY DEF StoredIds
  <2>6. JobOK'
    BY <1>1, <1>2, <2>1 DEF JobOK, BuildSteps, EarlySteps, VersionSteps, PublishSteps, AssetSteps,
                            IsReleaseJob, IsLocalJob
  <2>7. TreeOK'
    BY <1>1, <2>1 DEF BuildInv, TreeOK, RunSteps, BuildSteps
  <2>8. KeysOK'
    BY <1>1, <2>1 DEF BuildInv, KeysOK, BuildSteps, Environ, StartEnviron, EnvFile
  <2>9. BundleOK'
    BY <1>1, <2>1 DEF BuildInv, BundleOK, KeysEmbedded, Environ, StartEnviron, EnvFile
  <2>10. DistOK'
    BY <1>1, <2>1, <2>2, <2>3, <2>4 DEF BuildInv, BundleOK, DistOK
  <2>11. EvidenceOK'
    BY <1>1, <2>3, <2>5 DEF EvidenceOK
  <2> QED
    BY <2>6, <2>7, <2>8, <2>9, <2>10, <2>11 DEF BuildInv
<1> QED
  BY <1>3, <1>4

(* The evidence is written of a bundle that nobody touched since it was packed. *)
LEMMA EvidenceStep ==
  ASSUME BuildInv, RecordEvidence
  PROVE  BuildInv'
<1>1. step = "record" /\ UNCHANGED <<job, tree, bundle, dist>>
  BY DEF RecordEvidence
<1>2. IsReleaseJob \/ IsLocalJob
  BY <1>1 DEF BuildInv, JobOK, BuildSteps
<1>3. CASE step' = "failed"
  <2>1. Moves
    BY <1>1, <1>3 DEF RecordEvidence, Moves
  <2> QED
    BY <1>3, <2>1, EndingBuild DEF Ends
<1>4. CASE step' # "failed"
  <2>1. /\ evidence' = [installer |-> dist.id, payload |-> bundle]
        /\ step' = IF job.kind = "local" THEN "done" ELSE "installer"
        /\ ~bundle.touched
    BY <1>4 DEF RecordEvidence
  <2>2. dist.payload = bundle /\ bundle.dart.feedSignature = "true"
        /\ bundle.cmake.validSignature = "false" /\ KeysEmbedded(bundle, Environ.keys)
    BY <1>1, <2>1 DEF BuildInv, DistOK, BundleOK
  <2>3. FeedKeysUsable(Environ.keys)
    BY <1>1 DEF BuildInv, KeysOK, BuildSteps
  <2>4. EvidenceOK'
    BY <1>1, <2>1, <2>2, <2>3 DEF EvidenceOK, KeysEmbedded, FeedKeysUsable
  <2>5. JobOK'
    BY <1>1, <1>2, <2>1 DEF JobOK, BuildSteps, EarlySteps, VersionSteps, PublishSteps, AssetSteps,
                            IsReleaseJob, IsLocalJob
  <2>6. TreeOK' /\ KeysOK'
    BY <1>1, <2>1 DEF BuildInv, TreeOK, KeysOK, RunSteps, EarlySteps, VersionSteps, BuildSteps,
                      PublishSteps, AssetSteps
  <2>7. BundleOK'
    BY <1>1, <2>1 DEF BuildInv, BundleOK
  <2>8. DistOK'
    BY <1>1, <2>1 DEF BuildInv, DistOK, PublishSteps, AssetSteps
  <2> QED
    BY <2>4, <2>5, <2>6, <2>7, <2>8 DEF BuildInv
<1> QED
  BY <1>3, <1>4

(* The publication, which moves through its steps and leaves the build as it is. *)
LEMMA PublicationKeepsTheBuild ==
  ASSUME BuildInv,
         \/ CommitVersionBump \/ SignManifest \/ PrepareRelease \/ ReadMetadata \/ VerifyPublic
         \/ TagSource \/ PushSource \/ \E notes \in ReleaseNotes : CreateDraft(notes)
         \/ \E name \in AssetNames : UploadAsset(name)
         \/ \E name \in AssetNames : UploadInterrupted(name)
         \/ VerifyUploaded \/ PublishDraft \/ AfterPublication
  PROVE  BuildInv'
<1>1. Moves
  BY DEF Moves, CommitVersionBump, SignManifest, PrepareRelease, ReadMetadata, VerifyPublic, TagSource,
         PushSource, CreateDraft, UploadAsset, UploadInterrupted, VerifyUploaded, PublishDraft,
         AfterPublication, Gate, Proceed
<1>2. CASE step' \in Ends
  BY <1>1, <1>2, EndingBuild
<1>3. CASE step' \notin Ends
  <2>1. step \in PublishSteps /\ step' \in PublishSteps
    BY <1>3 DEF CommitVersionBump, SignManifest, PrepareRelease, ReadMetadata, VerifyPublic, TagSource,
         PushSource, CreateDraft, UploadAsset, UploadInterrupted, VerifyUploaded, PublishDraft,
         AfterPublication, AfterMetadata, Gate, Proceed, Ends, PublishSteps, AssetSteps
  <2>2. IsReleaseJob
    BY <2>1 DEF BuildInv, JobOK
  <2> QED
    BY <1>1, <2>1, <2>2, MovingBuild
       DEF RunSteps, EarlySteps, VersionSteps, BuildSteps, PublishSteps, AssetSteps
<1> QED
  BY <1>2, <1>3

(* What main is, for the steps that read it. *)
LEMMA MainFacts ==
  ASSUME MainOK
  PROVE  /\ Len(main) \in Nat /\ Len(main) >= 1 /\ DOMAIN main = 1..Len(main)
         /\ \A i \in DOMAIN main : IsTree(main[i])
         /\ IsTree(Last(main)) /\ IsTree(main[1])
<1>1. main \in Seq(MainTrees) /\ main # <<>>
  BY DEF MainOK
<1>2. Len(main) \in Nat /\ DOMAIN main = 1..Len(main)
  BY SMT, <1>1
<1>3. Len(main) # 0
  BY SMT, <1>1
<1>4. \A i \in DOMAIN main : IsTree(main[i])
  BY DEF MainOK, MainTrees
<1> QED
  BY SMT, <1>2, <1>3, <1>4 DEF Last

(* A release run starts from a fresh checkout of main. *)
LEMMA StartReleaseBuild ==
  ASSUME MainOK, NEW kind \in {"publish", "dryRun"}, NEW request \in Requests, NEW key,
         StartRelease(kind, request, key)
  PROVE  BuildInv'
<1>1. /\ job' = [kind |-> kind, version |-> request.version, channel |-> request.channel, key |-> key]
      /\ tree' = Last(main)
      /\ bundle' = None /\ dist' = None /\ evidence' = None
      /\ step' = IF job'.kind = "dryRun" THEN "early" ELSE "persona"
  BY DEF StartRelease, StartCheckout
<1>2. step' \in {"early", "persona"}
  BY <1>1
<1>3. IsReleaseJob'
  BY <1>1, ReleasesAssumption DEF IsReleaseJob
<1>4. JobOK'
  BY <1>2, <1>3 DEF JobOK, BuildSteps
<1>5. TreeOK'
  BY <1>1, <1>2, MainFacts DEF TreeOK
<1>6. KeysOK' /\ BundleOK' /\ DistOK' /\ EvidenceOK'
  BY <1>1, <1>2 DEF KeysOK, BundleOK, DistOK, EvidenceOK, BuildSteps, PublishSteps, AssetSteps
<1> QED
  BY <1>4, <1>5, <1>6 DEF BuildInv

(* A developer's build starts from what their machine holds. *)
LEMMA StartLocalBuild ==
  ASSUME BuildInv, NEW setting \in LocalSettings, NEW source \in Trees, StartLocal(setting, source)
  PROVE  BuildInv'
<1>1. /\ job' = [kind |-> "local", environ |-> setting[1], dotenv |-> setting[2], sync |-> setting[3]]
      /\ tree' = source /\ step' = "settings" /\ UNCHANGED <<bundle, dist, evidence>>
  BY DEF StartLocal
<1>2. IsLocalJob'
  BY <1>1, SettingsAssumption DEF IsLocalJob
<1>3. JobOK' /\ TreeOK'
  BY <1>1, <1>2, TreesAssumption DEF JobOK, TreeOK, EarlySteps, VersionSteps, PublishSteps, AssetSteps, IsLocalJob
<1>4. KeysOK'
  BY <1>1 DEF KeysOK, BuildSteps
<1>5. BundleOK' /\ DistOK'
  BY <1>1 DEF BuildInv, BundleOK, DistOK, PublishSteps, AssetSteps
<1>6. EvidenceOK'
  BY <1>1 DEF BuildInv, EvidenceOK
<1> QED
  BY <1>3, <1>4, <1>5, <1>6 DEF BuildInv

(* Nothing of the build changes. *)
LEMMA SameBuild ==
  ASSUME BuildInv, UNCHANGED buildVars
  PROVE  BuildInv'
<1> USE DEF buildVars
<1>1. JobOK' /\ TreeOK'
  BY DEF BuildInv, JobOK, TreeOK, IsReleaseJob, IsLocalJob
<1>2. KeysOK' /\ EvidenceOK'
  BY DEF BuildInv, KeysOK, EvidenceOK, Environ, StartEnviron, EnvFile
<1>3. BundleOK'
  BY DEF BuildInv, BundleOK, KeysEmbedded, Environ, StartEnviron, EnvFile
<1>4. DistOK'
  BY DEF BuildInv, DistOK
<1> QED
  BY <1>1, <1>2, <1>3, <1>4 DEF BuildInv

\* A step of the feed job, or the end of a job.
FeedMove ==
  /\ step' \in FeedSteps \cup Ends
  /\ UNCHANGED remoteVars
  /\ \/ UNCHANGED <<tree, bundle, dist, evidence>>
     \/ tree' = Last(main) /\ bundle' = None /\ dist' = None
     \/ tree' = main[1] /\ UNCHANGED <<bundle, dist, evidence>>
     \/ tree' = main[1] /\ bundle' = None /\ dist' = None

(* What the steps of the feed job and the end of a job have in common. *)
LEMMA FeedMoves ==
  ASSUME \/ StartFeedJob \/ FeedPersona \/ LoadRelease \/ VerifyReleaseAssets
         \/ \E date \in Dates : UpdateFeed(date)
         \/ ValidateFeed \/ PushFeed \/ DeployPages \/ SmokeValidate \/ EndJob
         \/ \E version \in Versions, channel \in Channels, rollout \in Rollouts, key \in SigningKeys :
              DispatchFeedUpdate(version, channel, rollout, key)
  PROVE  FeedMove
<1> USE DEF FeedMove, FeedSteps, Ends
<1>1. CASE \/ StartFeedJob
           \/ \E version \in Versions, channel \in Channels, rollout \in Rollouts, key \in SigningKeys :
                DispatchFeedUpdate(version, channel, rollout, key)
  <2>1. PICK inputs : BeginFeedJob(inputs)
    BY <1>1 DEF StartFeedJob, DispatchFeedUpdate
  <2> QED
    BY <2>1 DEF BeginFeedJob
<1>2. CASE FeedPersona \/ LoadRelease \/ VerifyReleaseAssets \/ ValidateFeed
  <2>1. UNCHANGED <<remoteVars, tree, bundle, dist, evidence>>
    BY <1>2 DEF FeedPersona, LoadRelease, VerifyReleaseAssets, ValidateFeed, FeedGate, Gate
  <2>2. step' \in {"feedRelease", "feedAssets", "feedUpdate", "feedPush", "failed"}
    BY <1>2 DEF FeedPersona, LoadRelease, VerifyReleaseAssets, ValidateFeed, FeedGate, Gate
  <2> QED
    BY <2>1, <2>2
<1>3. CASE \E date \in Dates : UpdateFeed(date)
  <2>1. UNCHANGED <<remoteVars, tree, bundle, dist, evidence>> /\ step' = "feedValidate"
    BY <1>3 DEF UpdateFeed, Proceed
  <2> QED
    BY <2>1
<1>4. CASE PushFeed \/ DeployPages \/ SmokeValidate
  <2>1. /\ UNCHANGED <<remoteVars, tree, bundle, dist, evidence>>
        /\ step' \in {"failed", "deploy", "smoke", "done"}
    BY <1>4 DEF PushFeed, DeployPages, SmokeValidate, Proceed
  <2> QED
    BY <2>1
<1>5. CASE EndJob
  BY <1>5 DEF EndJob, Finish
<1> QED
  BY <1>1, <1>2, <1>3, <1>4, <1>5

(* The build, over a step of the feed job. *)
LEMMA FeedKeepsTheBuild ==
  ASSUME BuildInv, MainOK, FeedMove
  PROVE  BuildInv'
<1>1. step' \notin RunSteps
  BY DEF FeedMove, FeedSteps, Ends, RunSteps, EarlySteps, VersionSteps, BuildSteps, PublishSteps, AssetSteps
<1>2. IsTree(tree')
  BY MainFacts DEF FeedMove, BuildInv, TreeOK
<1> QED
  BY <1>1, <1>2, QuietBuild DEF FeedMove

-----------------------------------------------------------------------------
(* The publication.                                                          *)

(* No installer, no tag, no release: nothing that is something. *)
LEMMA RecordsAreSomething ==
  /\ \A n, t : [n |-> n, tree |-> t] # None
  /\ None.none
<1>1. DOMAIN None = {"none"}
  BY DEF None
<1>2. ASSUME NEW n, NEW t PROVE [n |-> n, tree |-> t] # None
  <2>1. "n" \in DOMAIN [n |-> n, tree |-> t]
    OBVIOUS
  <2> QED
    BY SMT, <1>1, <2>1
<1> QED
  BY <1>2 DEF None

(* Origin and GitHub stay as they are. *)
LEMMA SameRemote ==
  ASSUME PublishInv, UNCHANGED remoteVars
  PROVE  MainOK' /\ DOMAIN releases' = Versions /\ \A v \in Versions : IsRelease(releases'[v])
  BY DEF remoteVars, PublishInv, MainOK, MainTrees, ReleaseOK

(* Outside a run nothing is said of the publication but what is on origin. *)
LEMMA QuietPublication ==
  ASSUME PublishInv, UNCHANGED remoteVars, step' \notin RunSteps, dist' = dist \/ dist' = None
  PROVE  PublishInv'
<1> USE DEF RunSteps, PublishSteps, AssetSteps
<1>1. MainOK'
  BY SameRemote
<1>2. HeadOK' /\ TagOK' /\ ShowOK'
  BY DEF HeadOK, TagOK, ShowOK
<1>3. ReleaseOK'
  BY SameRemote DEF PublishInv, ReleaseOK, remoteVars
<1> QED
  BY <1>1, <1>2, <1>3 DEF PublishInv

(* A step of the build does nothing to the publication: a new installer is not on GitHub. *)
LEMMA BuildKeepsPublication ==
  ASSUME PublishInv, UNCHANGED <<remoteVars, checkoutVars, job>>,
         step \in RunSteps, step \notin PublishSteps, step' \notin PublishSteps \ {"commit"},
         \/ dist' = dist \/ dist' = None
         \/ dist'.id \notin StoredIds
  PROVE  PublishInv'
<1>1. MainOK'
  BY SameRemote
<1>2. HeadOK'
  BY DEF PublishInv, HeadOK, checkoutVars, remoteVars, RunSteps
<1>3. TagOK'
  BY DEF PublishInv, TagOK, checkoutVars, remoteVars, RunSteps, PublishSteps, AssetSteps, Tag
<1>4. ShowOK'
  BY DEF ShowOK, PublishSteps, AssetSteps
<1>5. ASSUME dist' # None, NEW v \in Versions, releases'[v].setup # None, releases'[v].setup.id = dist'.id
      PROVE  releases'[v].setup = dist'
  <2>1. releases' = releases
    BY DEF remoteVars
  <2>2. releases[v].setup.id \in StoredIds
    BY <1>5, <2>1 DEF StoredIds
  <2> QED
    BY <1>5, <2>1, <2>2 DEF PublishInv, ReleaseOK
<1>6. ReleaseOK'
  BY <1>5, SameRemote DEF ReleaseOK, PublishSteps, AssetSteps
<1> QED
  BY <1>1, <1>2, <1>3, <1>4, <1>6 DEF PublishInv

(* A release run checks out main and its tag. *)
LEMMA StartReleasePublication ==
  ASSUME PublishInv, NEW kind \in {"publish", "dryRun"}, NEW request \in Requests, NEW key,
         StartRelease(kind, request, key)
  PROVE  PublishInv'
<1>1. /\ job' = [kind |-> kind, version |-> request.version, channel |-> request.channel, key |-> key]
      /\ dist' = None
      /\ step' \in {"early", "persona"}
      /\ base' = Len(main)
      /\ head' = [n |-> Len(main), tree |-> Last(main)]
      /\ localTag' = tags[request.version.short]
      /\ UNCHANGED remoteVars
  BY DEF StartRelease, StartCheckout
<1>2. MainOK'
  BY <1>1, SameRemote
<1>3. HeadOK'
  BY SMT, <1>1, MainFacts DEF PublishInv, HeadOK, Last, remoteVars, PublishSteps, AssetSteps
<1>4. Tag' = request.version.short
  BY <1>1 DEF Tag
<1>5. TagOK' /\ ShowOK'
  BY <1>1, <1>4 DEF TagOK, ShowOK, remoteVars, PublishSteps, AssetSteps
<1>6. ReleaseOK'
  BY <1>1, SameRemote DEF ReleaseOK, PublishSteps, AssetSteps
<1> QED
  BY <1>2, <1>3, <1>5, <1>6 DEF PublishInv

(* A sequence is a function on an initial segment of the numbers. *)
LEMMA SequenceIsFunction ==
  ASSUME NEW S, NEW s \in Seq(S)
  PROVE  Len(s) \in Nat /\ DOMAIN s = 1..Len(s) /\ s \in [1..Len(s) -> S]
BY SMT

(* And such a function is a sequence. *)
LEMMA FunctionIsSequence ==
  ASSUME NEW S, NEW n \in Nat, NEW s \in [1..n -> S]
  PROVE  s \in Seq(S)
BY SMT

(* main on origin grows by a source tree. *)
LEMMA MainGrows ==
  ASSUME MainOK, NEW t, IsTree(t), main' = Append(main, t), DOMAIN tags' = Versions,
         \A v \in Versions : \/ tags'[v] = tags[v]
                             \/ tags'[v].n = Len(main) + 1 /\ tags'[v].tree = t
  PROVE  MainOK' /\ Len(main') = Len(main) + 1 /\ \A i \in DOMAIN main : i \in DOMAIN main' /\ main'[i] = main[i]
<1> DEFINE U == MainTrees \cup {t}
<1>1. main \in Seq(U)
  <2>1. main \in Seq(MainTrees) /\ MainTrees \subseteq U
    BY DEF MainOK
  <2>2. Len(main) \in Nat /\ DOMAIN main = 1..Len(main) /\ main \in [1..Len(main) -> MainTrees]
    BY <2>1, SequenceIsFunction
  <2>3. main \in [1..Len(main) -> U]
    BY <2>1, <2>2
  <2> QED
    BY <2>2, <2>3, FunctionIsSequence
<1>2. t \in U
  OBVIOUS
<1>3. /\ main' \in Seq(U)
      /\ Len(main') = Len(main) + 1
      /\ \A i \in 1..Len(main) : main'[i] = main[i]
      /\ main'[Len(main) + 1] = t
  BY SMT, <1>1, <1>2
<1>4. Len(main) \in Nat /\ DOMAIN main = 1..Len(main) /\ DOMAIN main' = 1..(Len(main) + 1)
  BY SMT, <1>1, <1>3
<1> HIDE DEF U
<1>5. \A i \in DOMAIN main : i \in DOMAIN main' /\ main'[i] = main[i]
  BY SMT, <1>3, <1>4
<1>6. \A i \in DOMAIN main' : i \in DOMAIN main \/ main'[i] = t
  BY SMT, <1>3, <1>4
<1>7. main' \in Seq(MainTrees')
  <2>1. \A i \in DOMAIN main' : main'[i] \in MainTrees'
    BY DEF MainTrees
  <2>2. main' \in [1..Len(main') -> U] /\ Len(main') \in Nat
    BY <1>3, SequenceIsFunction
  <2>3. main' \in [1..Len(main') -> MainTrees']
    BY <1>3, <1>4, <2>1, <2>2
  <2> QED
    BY <2>2, <2>3, FunctionIsSequence
<1>8. main' # <<>>
  <2>1. 1 \in DOMAIN main'
    BY SMT, <1>4
  <2> QED
    BY SMT, <2>1
<1>9. \A x \in MainTrees' : IsTree(x)
  BY <1>5, <1>6 DEF MainOK, MainTrees
<1>10. ASSUME NEW v \in Versions, tags'[v] # None
       PROVE  tags'[v].n \in DOMAIN main' /\ main'[tags'[v].n] = tags'[v].tree
  BY SMT, <1>3, <1>4, <1>5, <1>10 DEF MainOK
<1> QED
  BY <1>3, <1>5, <1>7, <1>8, <1>9, <1>10 DEF MainOK

(* Developers push to main; a run goes on with what it has checked out. *)
LEMMA PushKeepsPublication ==
  ASSUME PublishInv, NEW source \in Trees, DeveloperPushes(source)
  PROVE  PublishInv'
<1>1. /\ main' = Append(main, source) /\ UNCHANGED <<tags, releases, step, job, tree, dist>>
      /\ UNCHANGED checkoutVars
  BY DEF DeveloperPushes, buildVars
<1>2. MainOK' /\ \A i \in DOMAIN main : i \in DOMAIN main' /\ main'[i] = main[i]
  BY <1>1, MainGrows, TreesAssumption DEF PublishInv, MainOK
<1>3. HeadOK'
  BY <1>1, <1>2 DEF PublishInv, HeadOK, checkoutVars
<1>4. TagOK'
  BY <1>1 DEF PublishInv, TagOK, checkoutVars, Tag
<1>5. ReleaseOK'
  BY <1>1 DEF PublishInv, ReleaseOK, checkoutVars, Tag
<1>6. ShowOK'
  BY <1>1 DEF PublishInv, ShowOK, Tag, Contract!BelongTogether
<1> QED
  BY <1>2, <1>3, <1>4, <1>5, <1>6 DEF PublishInv

(* What a step of the publication owes that leaves origin and GitHub as they are. *)
LEMMA PublicationMoves ==
  ASSUME PublishInv, UNCHANGED <<remoteVars, job, dist>>,
         HeadOK', TagOK', ShowOK',
         step' \in {"tag", "push"} => metadata' = releases[Tag].state /\ metadata' # "public",
         step' = "create" => releases[Tag].state = "absent",
         step' \in AssetSteps \ {"create"} => releases[Tag].state = "draft"
  PROVE  PublishInv'
<1>1. MainOK'
  BY SameRemote
<1>2. ReleaseOK'
  BY SameRemote DEF PublishInv, ReleaseOK, remoteVars, Tag
<1> QED
  BY <1>1, <1>2 DEF PublishInv

(* Where the checkout stands stays true while it does not move. *)
LEMMA SameHead ==
  ASSUME PublishInv, job.kind # "local", UNCHANGED <<remoteVars, job, base, head>>, step \in PublishSteps,
         step' \in PublishSteps \ {"commit"}
  PROVE  HeadOK'
  BY DEF PublishInv, HeadOK, remoteVars, RunSteps, PublishSteps, AssetSteps

(* The version bump is committed on top of what was checked out. *)
LEMMA CommitPublication ==
  ASSUME PublishInv, BuildInv, CommitVersionBump
  PROVE  PublishInv'
<1> DEFINE index == WithVersionFiles(head.tree, tree)
<1>1. /\ step = "commit" /\ step' \in {"sign", "failed"}
      /\ head' = IF localTag # None \/ index = head.tree THEN head ELSE [n |-> head.n + 1, tree |-> index]
      /\ UNCHANGED <<base, localTag, metadata, job, tree, dist>> /\ UNCHANGED remoteVars
  BY DEF CommitVersionBump, Proceed, remoteVars
<1>2. CASE step' = "failed"
  BY <1>1, <1>2, QuietPublication
     DEF RunSteps, EarlySteps, VersionSteps, BuildSteps, PublishSteps, AssetSteps
<1>3. CASE step' = "sign"
  <2>1. job.kind # "local"
    BY <1>1 DEF BuildInv, JobOK, PublishSteps, IsReleaseJob
  <2>2. /\ head = [n |-> head.n, tree |-> head.tree] /\ base \in DOMAIN main
        /\ head.n = base /\ head.tree = main[base]
    BY <1>1, <2>1 DEF PublishInv, HeadOK, RunSteps, PublishSteps
  <2>3. base \in Nat
    BY SMT, <2>2, MainFacts DEF PublishInv
  <2> HIDE DEF index
  <2>4. \/ head' = head
        \/ head' = [n |-> base + 1, tree |-> index]
    BY <1>1, <2>2
  <2>5. HeadOK'
    BY SMTT(20), <1>1, <1>3, <2>2, <2>3, <2>4 DEF HeadOK, remoteVars, RunSteps, PublishSteps
  <2>6. TagOK' /\ ShowOK'
    BY <1>1, <1>3, <2>1 DEF PublishInv, TagOK, ShowOK, remoteVars, RunSteps, PublishSteps, AssetSteps, Tag
  <2> QED
    BY <1>1, <1>3, <2>5, <2>6, PublicationMoves DEF AssetSteps
<1> QED
  BY <1>1, <1>2, <1>3

(* The manifest is signed, the assets are verified and the release is looked up. *)
LEMMA PreparePublication ==
  ASSUME PublishInv, BuildInv, SignManifest \/ PrepareRelease \/ ReadMetadata \/ VerifyPublic
  PROVE  PublishInv'
<1>1. /\ UNCHANGED <<base, head, localTag, job, tree, dist>> /\ UNCHANGED remoteVars
      /\ step \in {"sign", "publish", "metadata", "verifyPublic"}
  BY DEF SignManifest, PrepareRelease, ReadMetadata, VerifyPublic, Proceed, Gate, remoteVars, checkoutVars
<1>2. CASE step' = "failed"
  BY <1>1, <1>2, QuietPublication
     DEF RunSteps, EarlySteps, VersionSteps, BuildSteps, PublishSteps, AssetSteps
<1>3. CASE step' # "failed"
  <2>1. \/ <<step, step'>> = <<"sign", "publish">> /\ TagIsCompatible
        \/ <<step, step'>> = <<"publish", "metadata">>
        \/ <<step, step'>> = <<"verifyPublic", "published">>
        \/ /\ step = "metadata" /\ step' = AfterMetadata(releases[Tag])
           /\ metadata' = releases[Tag].state
    BY <1>3 DEF SignManifest, PrepareRelease, ReadMetadata, VerifyPublic, Proceed, Gate
  <2>2. Tag \in Versions /\ job.kind # "local"
    BY <1>1 DEF BuildInv, JobOK, PublishSteps, IsReleaseJob, FullVersions, Tag
  <2>3. releases[Tag].state \in {"absent", "draft", "public"}
    BY <2>2 DEF PublishInv, ReleaseOK, IsRelease
  <2>4. step = "metadata" =>
          \/ step' = "verifyPublic" /\ localTag # None
          \/ step' = "tag" /\ releases[Tag].state # "public" /\ localTag = None
          \/ step' = "create" /\ releases[Tag].state = "absent" /\ localTag # None
          \/ step' = "upload" /\ releases[Tag].state = "draft" /\ localTag # None
    BY <1>3, <2>1, <2>3 DEF AfterMetadata
  <2>5. localTag = tags[Tag]
    BY <1>1, <2>2 DEF PublishInv, TagOK, RunSteps, PublishSteps
  <2>6. HeadOK'
    BY <1>1, <2>1, <2>2, <2>4, SameHead DEF PublishSteps, AssetSteps
  <2>7. TagOK'
    <3>1. localTag' = tags'[Tag'] /\ step' # "push"
      BY <1>1, <2>1, <2>4, <2>5 DEF remoteVars, Tag
    <3>2. step' \notin {"sign", "published"} /\ localTag # None => localTag.tree = tree
      BY <1>1, <2>1, <2>4 DEF PublishInv, TagOK, PublishSteps, TagIsCompatible
    <3>3. step' \in AssetSteps \cup {"verifyPublic"} => localTag # None
      BY <2>1, <2>4 DEF AssetSteps
    <3> QED
      BY <1>1, <3>1, <3>2, <3>3 DEF TagOK
  <2>8. ShowOK'
    BY <2>1, <2>4 DEF ShowOK
  <2> QED
    BY <1>1, <2>1, <2>4, <2>6, <2>7, <2>8, PublicationMoves DEF AssetSteps
<1> QED
  BY <1>2, <1>3

(* The source is tagged in the checkout. *)
LEMMA TagPublication ==
  ASSUME PublishInv, BuildInv, TagSource
  PROVE  PublishInv'
<1>1. /\ UNCHANGED <<base, head, metadata, job, tree, dist>> /\ UNCHANGED remoteVars
      /\ step = "tag"
  BY DEF TagSource, Proceed, remoteVars
<1>2. CASE step' = "failed"
  BY <1>1, <1>2, QuietPublication
     DEF RunSteps, EarlySteps, VersionSteps, BuildSteps, PublishSteps, AssetSteps
<1>3. CASE step' # "failed"
  <2>1. step' = "push" /\ localTag' = head /\ tree = head.tree
    BY <1>3 DEF TagSource, Proceed
  <2>2. job.kind # "local"
    BY <1>1 DEF BuildInv, JobOK, PublishSteps, IsReleaseJob, FullVersions, Tag
  <2>3. metadata = releases[Tag].state /\ metadata # "public"
    BY <1>1 DEF PublishInv, ReleaseOK
  <2>4. HeadOK'
    BY <1>1, <2>1, <2>2, SameHead DEF PublishSteps
  <2>5. TagOK' /\ ShowOK'
    BY <1>1, <2>1 DEF TagOK, ShowOK, AssetSteps
  <2> QED
    BY <1>1, <2>1, <2>3, <2>4, <2>5, PublicationMoves DEF AssetSteps
<1> QED
  BY <1>2, <1>3

(* main and the tag are pushed together. *)
LEMMA PushPublication ==
  ASSUME PublishInv, BuildInv, PushSource
  PROVE  PublishInv'
<1>1. /\ UNCHANGED <<releases, base, head, localTag, metadata, job, tree, dist>>
      /\ step = "push"
  BY DEF PushSource, Proceed
<1>2. CASE step' = "failed"
  <2>1. UNCHANGED remoteVars
    BY <1>2 DEF PushSource, Proceed, remoteVars
  <2> QED
    BY <1>1, <1>2, <2>1, QuietPublication
       DEF RunSteps, EarlySteps, VersionSteps, BuildSteps, PublishSteps, AssetSteps
<1>3. CASE step' # "failed"
  <2>1. /\ Len(main) = base /\ tags[Tag] = None
        /\ main' = IF head.n = base THEN main ELSE Append(main, head.tree)
        /\ tags' = [tags EXCEPT ![Tag] = localTag]
        /\ step' = IF metadata = "absent" THEN "create" ELSE "upload"
    BY <1>3 DEF PushSource, Proceed
  <2>2. Tag \in Versions /\ job.kind # "local"
    BY <1>1 DEF BuildInv, JobOK, PublishSteps, IsReleaseJob, FullVersions, Tag
  <2>3. /\ head = [n |-> head.n, tree |-> head.tree] /\ base \in DOMAIN main
        /\ head.n \in {base, base + 1} /\ (head.n = base => head.tree = main[base])
    BY <1>1, <2>2 DEF PublishInv, HeadOK, RunSteps, PublishSteps
  <2>4. localTag = head /\ localTag # None /\ head.tree = tree
    <3>1. localTag = head
      BY <1>1 DEF PublishInv, TagOK
    <3>2. localTag # None
      BY <2>3, <3>1, RecordsAreSomething
    <3> QED
      BY <1>1, <3>1, <3>2 DEF PublishInv, TagOK, PublishSteps
  <2>5. metadata = releases[Tag].state /\ metadata \in {"absent", "draft"}
    BY <1>1, <2>2 DEF PublishInv, ReleaseOK, IsRelease
  <2>6. DOMAIN tags = Versions /\ DOMAIN tags' = Versions /\ tags'[Tag] = head
        /\ \A v \in Versions : v # Tag => tags'[v] = tags[v]
    BY <2>1, <2>2, <2>4 DEF PublishInv, MainOK
  <2>7. IsTree(head.tree)
    BY <2>4 DEF BuildInv, TreeOK
  <2>8. MainOK' /\ \A i \in DOMAIN main : i \in DOMAIN main' /\ main'[i] = main[i]
    <3>1. CASE head.n = base
      <4>1. main' = main
        BY <2>1, <3>1
      <4> QED
        BY <2>3, <2>6, <3>1, <4>1 DEF PublishInv, MainOK, MainTrees
    <3>2. CASE head.n # base
      <4>1. main' = Append(main, head.tree) /\ head.n = Len(main) + 1
        BY <2>1, <2>3, <3>2
      <4>2. \A v \in Versions : \/ tags'[v] = tags[v]
                                \/ tags'[v].n = Len(main) + 1 /\ tags'[v].tree = head.tree
        BY <2>6, <4>1
      <4> QED
        BY <2>6, <2>7, <4>1, <4>2, MainGrows DEF PublishInv
    <3> QED
      BY <3>1, <3>2
  <2>9. step' \in {"create", "upload"}
    BY <2>1
  <2>10. HeadOK'
    BY <1>1, <2>3, <2>8, <2>9 DEF HeadOK, PublishSteps, AssetSteps
  <2>11. TagOK' /\ ShowOK'
    BY <1>1, <2>4, <2>6, <2>9 DEF TagOK, ShowOK, Tag
  <2>12. ReleaseOK'
    BY <1>1, <2>1, <2>5, <2>9 DEF PublishInv, ReleaseOK, Tag
  <2> QED
    BY <2>8, <2>10, <2>11, <2>12 DEF PublishInv
<1> QED
  BY <1>2, <1>3

\* Of one release, which the job is about, other parts than its state change.
OneReleaseChanges(r) ==
  /\ releases' = [releases EXCEPT ![Tag] = r]
  /\ IsRelease(r)
  /\ UNCHANGED <<main, tags, base, head, localTag, job, tree, dist>>

(* What a step of the publication owes that changes its release. *)
LEMMA ReleaseMoves ==
  ASSUME PublishInv, BuildInv, NEW r, OneReleaseChanges(r), step \in AssetSteps,
         step' \in {"upload", "verifyUpload", "published", "failed"},
         step' \in {"upload", "verifyUpload"} => r.state = "draft",
         r.setup = None \/ r.setup = releases[Tag].setup \/ r.setup = dist \/ r.setup = Damaged
  PROVE  PublishInv'
<1>1. /\ releases' = [releases EXCEPT ![Tag] = r] /\ IsRelease(r)
      /\ UNCHANGED <<main, tags, base, head, localTag, job, tree, dist>>
  BY DEF OneReleaseChanges
<1>2. Tag \in Versions /\ Tag' = Tag /\ job.kind # "local"
  BY <1>1 DEF BuildInv, JobOK, PublishSteps, IsReleaseJob, FullVersions, Tag
<1>3. DOMAIN releases' = Versions /\ releases'[Tag] = r
      /\ \A v \in Versions : v # Tag => releases'[v] = releases[v]
  BY <1>1, <1>2 DEF PublishInv, ReleaseOK
<1>4. MainOK'
  BY <1>1 DEF PublishInv, MainOK, MainTrees
<1>5. HeadOK'
  BY <1>1, <1>2 DEF PublishInv, HeadOK, RunSteps, EarlySteps, VersionSteps, BuildSteps, PublishSteps, AssetSteps
<1>6. TagOK'
  BY <1>1, <1>2 DEF PublishInv, TagOK, RunSteps, EarlySteps, VersionSteps, BuildSteps, PublishSteps, AssetSteps
<1>7. ShowOK'
  BY DEF ShowOK
<1>8. ASSUME dist # None, NEW v \in Versions, releases'[v].setup # None, releases'[v].setup.id = dist.id
      PROVE  releases'[v].setup = dist
  <2>1. dist.id # "damaged"
    BY <1>8, ReleasesAssumption DEF BuildInv, DistOK
  <2>2. Damaged.id = "damaged"
    BY DEF Damaged
  <2> QED
    BY <1>2, <1>3, <1>8, <2>1, <2>2 DEF PublishInv, ReleaseOK
<1>9. ReleaseOK'
  BY <1>1, <1>2, <1>3, <1>8 DEF PublishInv, ReleaseOK, AssetSteps
<1> QED
  BY <1>4, <1>5, <1>6, <1>7, <1>9 DEF PublishInv

(* A draft is opened for the tag. *)
LEMMA DraftPublication ==
  ASSUME PublishInv, BuildInv, NEW notes, CreateDraft(notes)
  PROVE  PublishInv'
<1>1. /\ step = "create" /\ UNCHANGED <<main, tags, base, head, localTag, job, tree, dist, pushes>>
  BY DEF CreateDraft
<1>2. CASE step' = "failed"
  <2>1. UNCHANGED remoteVars
    BY <1>1, <1>2 DEF CreateDraft, remoteVars
  <2> QED
    BY <1>1, <1>2, <2>1, QuietPublication
       DEF RunSteps, EarlySteps, VersionSteps, BuildSteps, PublishSteps, AssetSteps
<1>3. CASE step' # "failed"
  <2> DEFINE beta == job.channel = "beta"
             r == [NoRelease EXCEPT !.state = "draft", !.notes = notes, !.prerelease = beta]
  <2>1. releases' = [releases EXCEPT ![Tag] = r] /\ step' = "upload"
    BY <1>3 DEF CreateDraft
  <2> HIDE DEF beta
  <2>2. r = [state |-> "draft", prerelease |-> beta, notes |-> notes, setup |-> None, manifest |-> None]
    <3> DEFINE no == FALSE
    <3>1. NoRelease = [state |-> "absent", prerelease |-> no, notes |-> "brief", setup |-> None,
                       manifest |-> None]
      BY DEF NoRelease
    <3> HIDE DEF no
    <3> DEFINE opened == [NoRelease EXCEPT !.state = "draft"]
               noted == [opened EXCEPT !.notes = notes]
    <3>2. opened = [state |-> "draft", prerelease |-> no, notes |-> "brief", setup |-> None, manifest |-> None]
      BY SMT, <3>1
    <3>3. r = [noted EXCEPT !.prerelease = beta]
      OBVIOUS
    <3> HIDE DEF opened
    <3>4. noted = [state |-> "draft", prerelease |-> no, notes |-> notes, setup |-> None, manifest |-> None]
      BY SMT, <3>2
    <3> HIDE DEF noted, r
    <3> QED
      BY <3>3, <3>4
  <2>3. IsRelease(r) /\ r.state = "draft" /\ r.setup = None
    BY <2>2 DEF IsRelease
  <2> HIDE DEF r
  <2> QED
    BY <1>1, <2>1, <2>3, ReleaseMoves DEF OneReleaseChanges, AssetSteps
<1> QED
  BY <1>2, <1>3

\* A release with one asset in place of another.
WithAsset(r, name, stored) == [r EXCEPT ![name] = stored]

(* An asset that is replaced leaves the rest of its release as it was. *)
LEMMA AssetReplaced ==
  ASSUME NEW r, IsRelease(r), NEW name \in AssetNames, NEW stored
  PROVE  LET q == WithAsset(r, name, stored)
         IN  /\ IsRelease(q) /\ q.state = r.state /\ q.prerelease = r.prerelease /\ q.notes = r.notes
             /\ q.setup = IF name = "setup" THEN stored ELSE r.setup
             /\ q.manifest = IF name = "manifest" THEN stored ELSE r.manifest
<1> DEFINE q == WithAsset(r, name, stored)
<1>1. PICK a, b, c, d, e : r = [state |-> a, prerelease |-> b, notes |-> c, setup |-> d, manifest |-> e]
  BY DEF IsRelease
<1>2. r.state = a /\ r.prerelease = b /\ r.notes = c /\ r.setup = d /\ r.manifest = e
  BY <1>1
<1>3. a \in {"absent", "draft", "public"}
  BY <1>2 DEF IsRelease
<1>4. CASE name = "setup"
  <2>1. q = [state |-> a, prerelease |-> b, notes |-> c, setup |-> stored, manifest |-> e]
    BY SMT, <1>1, <1>4 DEF WithAsset
  <2> HIDE DEF q
  <2>2. q.state = a /\ q.prerelease = b /\ q.notes = c /\ q.setup = stored /\ q.manifest = e
    BY <2>1
  <2>3. IsRelease(q)
    BY <1>3, <2>1, <2>2 DEF IsRelease
  <2> QED
    BY <1>2, <1>4, <2>2, <2>3 DEF q
<1>5. CASE name = "manifest"
  <2>1. q = [state |-> a, prerelease |-> b, notes |-> c, setup |-> d, manifest |-> stored]
    BY SMTT(20), <1>1, <1>5 DEF WithAsset
  <2> HIDE DEF q
  <2>2. q.state = a /\ q.prerelease = b /\ q.notes = c /\ q.setup = d /\ q.manifest = stored
    BY <2>1
  <2>3. IsRelease(q)
    BY <1>3, <2>1, <2>2 DEF IsRelease
  <2> QED
    BY <1>2, <1>5, <2>2, <2>3 DEF q
<1> QED
  BY <1>4, <1>5 DEF AssetNames

(* The assets are uploaded, or an upload is cut off. *)
LEMMA UploadPublication ==
  ASSUME PublishInv, BuildInv, NEW name \in AssetNames, UploadAsset(name) \/ UploadInterrupted(name)
  PROVE  PublishInv'
<1>1. step = "upload" /\ UNCHANGED <<main, tags, base, head, localTag, job, tree, dist>>
      /\ step' \in {"upload", "verifyUpload", "failed"}
  BY DEF UploadAsset, UploadInterrupted, checkoutVars
<1>2. Tag \in Versions
  BY <1>1 DEF BuildInv, JobOK, PublishSteps, AssetSteps, IsReleaseJob, FullVersions, Tag
<1>3. IsRelease(releases[Tag]) /\ DOMAIN releases = Versions /\ releases[Tag].state = "draft"
  BY <1>1, <1>2 DEF PublishInv, ReleaseOK, AssetSteps
<1>4. PICK stored \in {LocalAsset(name), Damaged, releases[Tag][name], None} :
        releases' = [releases EXCEPT ![Tag][name] = stored]
  BY DEF UploadAsset, UploadInterrupted
<1> DEFINE q == WithAsset(releases[Tag], name, stored)
<1>5. releases' = [releases EXCEPT ![Tag] = q]
  BY <1>4 DEF WithAsset
<1>6. IsRelease(q) /\ q.state = "draft" /\ q.setup = IF name = "setup" THEN stored ELSE releases[Tag].setup
  BY SMT, <1>3, AssetReplaced
<1> HIDE DEF q
<1>7. q.setup \in {dist, Damaged, releases[Tag].setup, None}
  BY <1>4, <1>6 DEF LocalAsset
<1> QED
  BY <1>1, <1>5, <1>6, <1>7, ReleaseMoves DEF OneReleaseChanges, AssetSteps

(* What was uploaded is compared with what was built: it belongs to the tag. *)
LEMMA VerifyPublication ==
  ASSUME PublishInv, BuildInv, VerifyUploaded
  PROVE  PublishInv'
<1>1. /\ step = "verifyUpload" /\ UNCHANGED <<base, head, localTag, job, tree, dist>>
      /\ UNCHANGED remoteVars
  BY DEF VerifyUploaded, Gate, checkoutVars, remoteVars
<1>2. CASE step' = "failed"
  BY <1>1, <1>2, QuietPublication
     DEF RunSteps, EarlySteps, VersionSteps, BuildSteps, PublishSteps, AssetSteps
<1>3. CASE step' # "failed"
  <2> DEFINE setup == releases[Tag].setup
             page == releases[Tag].manifest
  <2>1. /\ step' = "show" /\ setup.id = dist.id
        /\ verify_release(page, setup, job.version, job.channel, SourceCommit)
    BY <1>3 DEF VerifyUploaded, Gate, verify_assets
  <2>2. /\ Tag \in Versions /\ Tag' = Tag /\ job.kind # "local" /\ job.version.short = Tag
    BY <1>1 DEF BuildInv, JobOK, PublishSteps, AssetSteps, IsReleaseJob, FullVersions, Tag
  <2>3. localTag # None /\ localTag = tags[Tag] /\ localTag.tree = tree
    BY <1>1, <2>2 DEF PublishInv, TagOK, RunSteps, PublishSteps, AssetSteps
  <2>4. /\ setup # None /\ page.payload.version = job.version /\ page.payload.channel = job.channel
        /\ page.payload.commit = localTag /\ page.payload.installer = setup.id
    BY <2>1, <2>3 DEF verify_release, SourceCommit
  <2>5. dist # None /\ dist.payload.app = tree /\ dist.channel = job.channel
    BY <1>1, <2>2 DEF BuildInv, DistOK, PublishSteps, AssetSteps
  <2>6. setup = dist
    BY <2>1, <2>2, <2>4, <2>5 DEF PublishInv, ReleaseOK
  <2>7. tree.pubspec = job.version
    BY <1>1, <2>2 DEF BuildInv, TreeOK, RunSteps, PublishSteps, AssetSteps
  <2>8. dist.worker = job.version /\ dist.name = Tag
    BY <2>2, <2>5, <2>7 DEF BuildInv, DistOK
  <2>9. Contract!BelongTogether([setup |-> setup, manifest |-> page], tags[Tag], Tag)
    BY <2>3, <2>4, <2>5, <2>6, <2>8 DEF Contract!BelongTogether
  <2>10. ShowOK'
    BY <1>1, <2>2, <2>9 DEF ShowOK, remoteVars, Contract!BelongTogether
  <2>11. HeadOK'
    BY <1>1, <2>1, <2>2, SameHead DEF PublishSteps, AssetSteps
  <2>12. TagOK'
    BY <1>1, <2>1, <2>2, <2>3 DEF TagOK, remoteVars
  <2>13. releases[Tag].state = "draft"
    BY <1>1 DEF PublishInv, ReleaseOK, AssetSteps
  <2> QED
    BY <1>1, <2>1, <2>10, <2>11, <2>12, <2>13, PublicationMoves DEF AssetSteps
<1> QED
  BY <1>2, <1>3

(* The draft is made public. *)
LEMMA ShowPublication ==
  ASSUME PublishInv, BuildInv, PublishDraft
  PROVE  PublishInv'
<1>1. /\ step = "show" /\ step' = "published" /\ UNCHANGED <<main, tags, base, head, localTag, job, tree, dist>>
      /\ releases' = [releases EXCEPT ![Tag].state = "public"]
  BY DEF PublishDraft, Proceed, checkoutVars
<1>2. Tag \in Versions
  BY <1>1 DEF BuildInv, JobOK, PublishSteps, AssetSteps, IsReleaseJob, FullVersions, Tag
<1>3. IsRelease(releases[Tag]) /\ DOMAIN releases = Versions
  BY <1>2 DEF PublishInv, ReleaseOK
<1> DEFINE q == [releases[Tag] EXCEPT !.state = "public"]
<1>4. releases' = [releases EXCEPT ![Tag] = q]
  BY <1>1
<1>5. IsRelease(q) /\ q.setup = releases[Tag].setup
  BY SMT, <1>3 DEF IsRelease
<1> HIDE DEF q
<1> QED
  BY <1>1, <1>4, <1>5, ReleaseMoves DEF OneReleaseChanges, AssetSteps

-----------------------------------------------------------------------------
(* The invariant.                                                            *)

(* Nothing has been released yet. *)
LEMMA ReleaseStart == Init => ReleaseInv
<1> SUFFICES ASSUME Init PROVE ReleaseInv
  OBVIOUS
<1>1. /\ step = "idle" /\ tree = FirstTree /\ bundle = None /\ dist = None /\ evidence = None
      /\ main = <<FirstTree>> /\ tags = [v \in Versions |-> None]
      /\ releases = [v \in Versions |-> NoRelease]
  BY DEF Init, PublishInit, BuildInit
<1>2. step \notin RunSteps
  BY <1>1 DEF RunSteps, EarlySteps, VersionSteps, BuildSteps, PublishSteps, AssetSteps
<1>3. BuildInv
  BY <1>1, <1>2, ReleasesAssumption DEF BuildInv, JobOK, TreeOK, KeysOK, BundleOK, DistOK, EvidenceOK, RunSteps
<1>4. MainOK
  <2>1. Len(main) = 1 /\ DOMAIN main = {1} /\ main[1] = FirstTree
    BY SMT, <1>1
  <2>2. MainTrees = {FirstTree}
    BY <2>1 DEF MainTrees
  <2>3. main \in Seq(MainTrees) /\ main # <<>>
    BY SMT, <1>1, <2>2
  <2> QED
    BY <1>1, <2>2, <2>3, ReleasesAssumption DEF MainOK
<1>5. IsRelease(NoRelease)
  BY DEF NoRelease, IsRelease
<1>6. HeadOK /\ TagOK /\ ReleaseOK /\ ShowOK
  BY <1>1, <1>2, <1>5 DEF HeadOK, TagOK, ReleaseOK, ShowOK, RunSteps, PublishSteps, AssetSteps
<1> QED
  BY <1>3, <1>4, <1>6 DEF ReleaseInv, PublishInv

(* Every step of a build. *)
LEMMA BuildStepKeeps ==
  ASSUME ReleaseInv, BuildStep \/ CheckTag
  PROVE  ReleaseInv'
<1> USE DEF ReleaseInv
<1>1. UNCHANGED <<remoteVars, checkoutVars>>
  BY DEF BuildStep, CheckTag
<1>2. CASE \/ RequirePersona \/ CheckTag \/ RunOptionalChecks("ran")
           \/ step = "early" /\ RunEarlyPreflight(TagsSeen)
           \/ step = "versions" /\ VersionPreflight(TagsSeen)
           \/ step = "generated" /\ GeneratedFilesUnchanged(head.tree)
           \/ step = "quality" /\ QualityGate(TagsSeen)
  <2>1. BuildInv'
    BY <1>2, EarlyBuildStep
  <2>2. /\ UNCHANGED <<job, dist>>
        /\ step \in {"persona", "early", "versions", "checkTag", "generated", "quality", "checks"}
        /\ step' \in {"early", "bump", "checkTag", "generated", "quality", "gateNative", "settings", "failed"}
    BY <1>2 DEF RequirePersona, RunEarlyPreflight, VersionPreflight, CheckTag, GeneratedFilesUnchanged,
                QualityGate, RunOptionalChecks, Gate
  <2> QED
    BY <1>1, <2>1, <2>2, BuildKeepsPublication DEF RunSteps, EarlySteps, VersionSteps, PublishSteps, AssetSteps
<1>3. CASE UpdatePubspec \/ UpdateVersionFiles
  <2>1. BuildInv'
    BY <1>3, VersionFilesStep
  <2>2. UNCHANGED <<job, dist>> /\ step \in {"bump", "syncVersion"}
        /\ step' \in {"syncVersion", "versions", "flutter"}
    BY <1>3 DEF UpdatePubspec, UpdateVersionFiles
  <2> QED
    BY <1>1, <2>1, <2>2, BuildKeepsPublication DEF RunSteps, EarlySteps, BuildSteps, PublishSteps, AssetSteps
<1>4. CASE ResolveSettings \/ UseCachedNative \/ DownloadNative(TRUE) \/ RecordNative
  <2>1. BuildInv'
    BY <1>4, NativeStep
  <2>2. /\ UNCHANGED <<job, dist>>
        /\ step \in {"settings", "native", "nativeRecord", "gateNative", "gateRecord"}
        /\ step' \in {"native", "checks", "syncVersion", "flutter", "gateRecord", "nativeRecord", "failed"}
    BY <1>4 DEF ResolveSettings, UseCachedNative, DownloadNative, RecordNative, RecordSteps, AfterNative, Gate
  <2> QED
    BY <1>1, <2>1, <2>2, BuildKeepsPublication
       DEF RunSteps, EarlySteps, VersionSteps, BuildSteps, PublishSteps, AssetSteps
<1>5. CASE \E configures, rewrites \in BOOLEAN, missing \in BundleGaps :
             FlutterBuild(configures, missing, rewrites)
  <2>1. BuildInv'
    BY <1>5, FlutterStep
  <2>2. UNCHANGED <<job, dist>> /\ step = "flutter" /\ step' = "verify"
    BY <1>5 DEF FlutterBuild
  <2> QED
    BY <1>1, <2>1, <2>2, BuildKeepsPublication DEF RunSteps, BuildSteps, PublishSteps, AssetSteps
<1>6. CASE BuildElevatedRunner
  <2>1. BuildInv'
    BY <1>6, RunnerStep
  <2>2. UNCHANGED <<job, dist>> /\ step = "helper" /\ step' = "inspect"
    BY <1>6 DEF BuildElevatedRunner
  <2> QED
    BY <1>1, <2>1, <2>2, BuildKeepsPublication DEF RunSteps, BuildSteps, PublishSteps, AssetSteps
<1>7. CASE VerifyBundle \/ InspectPayload \/ (step = "installer" /\ ValidateInstaller(TagsSeen))
  <2>1. BuildInv'
    BY <1>7, CheckStep
  <2>2. UNCHANGED <<job, dist>> /\ step \in {"verify", "inspect", "installer"}
        /\ step' \in {"helper", "compile", "done", "commit", "failed"}
    BY <1>7 DEF VerifyBundle, InspectPayload, ValidateInstaller, Gate
  <2> QED
    BY <1>1, <2>1, <2>2, BuildKeepsPublication DEF RunSteps, BuildSteps, PublishSteps, AssetSteps
<1>8. CASE BuildIds \ StoredIds # {} /\ CompileInstaller(CHOOSE id \in BuildIds \ StoredIds : TRUE)
  <2>1. PICK id \in BuildIds \ StoredIds : CompileInstaller(id)
    BY <1>8
  <2>2. BuildInv'
    BY <2>1, CompileStep
  <2>3. UNCHANGED job /\ step = "compile" /\ step' \in {"record", "failed"}
        /\ (dist' = dist \/ dist'.id = id)
    BY SMT, <2>1 DEF CompileInstaller
  <2> QED
    BY <1>1, <2>1, <2>2, <2>3, BuildKeepsPublication DEF RunSteps, BuildSteps, PublishSteps, AssetSteps
<1>9. CASE RecordEvidence
  <2>1. BuildInv'
    BY <1>9, EvidenceStep
  <2>2. UNCHANGED <<job, dist>> /\ step = "record" /\ step' \in {"done", "installer", "failed"}
    BY <1>9 DEF RecordEvidence
  <2> QED
    BY <1>1, <2>1, <2>2, BuildKeepsPublication DEF RunSteps, BuildSteps, PublishSteps, AssetSteps
<1> QED
  BY <1>2, <1>3, <1>4, <1>5, <1>6, <1>7, <1>8, <1>9 DEF BuildStep

(* Every fault of a build. *)
LEMMA BuildFaultKeeps ==
  ASSUME ReleaseInv, BuildFault
  PROVE  ReleaseInv'
<1> USE DEF ReleaseInv
<1>1. UNCHANGED <<remoteVars, checkoutVars>>
  BY DEF BuildFault
<1>2. CASE StepFails
  <2>1. BuildInv'
    BY <1>2, CheckStep
  <2>2. step' = "failed" /\ dist' = dist
    BY <1>2 DEF StepFails
  <2> QED
    BY <1>1, <2>1, <2>2, QuietPublication
       DEF RunSteps, EarlySteps, VersionSteps, BuildSteps, PublishSteps, AssetSteps
<1>3. CASE BundleTouched
  <2>1. BuildInv'
    BY <1>3, TouchStep
  <2>2. UNCHANGED <<job, dist, step>> /\ step \in {"compile", "record", "installer"}
    BY <1>3 DEF BundleTouched
  <2> QED
    BY <1>1, <2>1, <2>2, BuildKeepsPublication DEF RunSteps, BuildSteps, PublishSteps, AssetSteps
<1>4. CASE DownloadNative(FALSE) \/ RunOptionalChecks("skipped")
  <2>1. BuildInv'
    BY <1>4, NativeStep, EarlyBuildStep
  <2>2. /\ UNCHANGED <<job, dist>> /\ step \in {"gateNative", "native", "checks"}
        /\ step' \in {"failed", "settings"}
    BY <1>4 DEF DownloadNative, RunOptionalChecks
  <2> QED
    BY <1>1, <2>1, <2>2, BuildKeepsPublication
       DEF RunSteps, EarlySteps, VersionSteps, BuildSteps, PublishSteps, AssetSteps
<1> QED
  BY <1>2, <1>3, <1>4 DEF BuildFault

(* Nothing of a build or a publication changes. *)
LEMMA SameRelease ==
  ASSUME ReleaseInv, UNCHANGED publishVars
  PROVE  ReleaseInv'
<1>1. UNCHANGED buildVars /\ UNCHANGED remoteVars /\ UNCHANGED checkoutVars
  BY DEF publishVars
<1>2. BuildInv'
  BY <1>1, SameBuild DEF ReleaseInv
<1>3. MainOK'
  BY <1>1, SameRemote DEF ReleaseInv
<1>4. HeadOK' /\ TagOK'
  BY <1>1 DEF ReleaseInv, PublishInv, HeadOK, TagOK, buildVars, remoteVars, checkoutVars, Tag
<1>5. ReleaseOK'
  BY <1>1 DEF ReleaseInv, PublishInv, ReleaseOK, buildVars, remoteVars, checkoutVars, Tag
<1>6. ShowOK'
  BY <1>1 DEF ReleaseInv, PublishInv, ShowOK, buildVars, remoteVars, Tag, Contract!BelongTogether
<1> QED
  BY <1>2, <1>3, <1>4, <1>5, <1>6 DEF ReleaseInv, PublishInv

(* Every step of the publication. *)
LEMMA PublishStepKeeps ==
  ASSUME ReleaseInv, PublishStep
  PROVE  ReleaseInv'
<1> USE DEF ReleaseInv
<1>1. CASE CheckTag
  BY <1>1, BuildStepKeeps
<1>2. CASE ~CheckTag
  <2>1. BuildInv'
    BY <1>2, PublicationKeepsTheBuild DEF PublishStep
  <2>2. PublishInv'
    BY <1>2, CommitPublication, PreparePublication, TagPublication, PushPublication, DraftPublication,
       UploadPublication, VerifyPublication, ShowPublication DEF PublishStep
  <2> QED
    BY <2>1, <2>2
<1> QED
  BY <1>1, <1>2

(* Every step of the pipeline keeps the invariant. *)
LEMMA ReleaseStep ==
  ASSUME ReleaseInv, Next
  PROVE  ReleaseInv'
<1> USE DEF ReleaseInv
<1>1. CASE BuildStep
  BY <1>1, BuildStepKeeps
<1>2. CASE PublishStep
  BY <1>2, PublishStepKeeps
<1>3. CASE AfterPublication
  <2>1. step' = "done" /\ dist' = dist /\ UNCHANGED remoteVars
    BY <1>3 DEF AfterPublication, Proceed
  <2> QED
    BY <1>3, <2>1, PublicationKeepsTheBuild, QuietPublication
       DEF RunSteps, EarlySteps, VersionSteps, BuildSteps, PublishSteps, AssetSteps
<1>4. CASE \/ StartFeedJob \/ FeedPersona \/ LoadRelease \/ VerifyReleaseAssets
           \/ \E date \in Dates : UpdateFeed(date)
           \/ ValidateFeed \/ PushFeed \/ DeployPages \/ SmokeValidate \/ EndJob
           \/ \E version \in Versions, channel \in Channels, rollout \in Rollouts, key \in SigningKeys :
                DispatchFeedUpdate(version, channel, rollout, key)
  <2>1. FeedMove
    BY <1>4, FeedMoves
  <2>2. BuildInv'
    BY <2>1, FeedKeepsTheBuild DEF PublishInv
  <2>3. step' \notin RunSteps /\ UNCHANGED remoteVars /\ (dist' = dist \/ dist' = None)
    BY <2>1 DEF FeedMove, FeedSteps, Ends, RunSteps, EarlySteps, VersionSteps, BuildSteps, PublishSteps, AssetSteps
  <2> QED
    BY <2>2, <2>3, QuietPublication
<1>5. CASE BuildFault
  BY <1>5, BuildFaultKeeps
<1>6. CASE \E name \in AssetNames : UploadInterrupted(name)
  BY <1>6, PublicationKeepsTheBuild, UploadPublication
<1>7. CASE \E kind \in {"publish", "dryRun"}, request \in Requests : \E key : StartRelease(kind, request, key)
  BY <1>7, StartReleaseBuild, StartReleasePublication DEF PublishInv
<1>8. CASE \E setting \in LocalSettings, source \in Trees : StartDeveloperBuild(setting, source)
  <2>1. PICK setting \in LocalSettings, source \in Trees :
          StartLocal(setting, source) /\ UNCHANGED <<remoteVars, checkoutVars>>
    BY <1>8 DEF StartDeveloperBuild
  <2>2. BuildInv'
    BY <2>1, StartLocalBuild
  <2>3. job'.kind = "local" /\ step' = "settings" /\ dist' = dist
    BY <2>1 DEF StartLocal
  <2>4. MainOK'
    BY <2>1, SameRemote
  <2>5. HeadOK' /\ TagOK' /\ ShowOK'
    BY <2>3 DEF HeadOK, TagOK, ShowOK, PublishSteps, AssetSteps
  <2>6. ReleaseOK'
    BY <2>1, <2>3, SameRemote DEF PublishInv, ReleaseOK, remoteVars, AssetSteps
  <2> QED
    BY <2>2, <2>4, <2>5, <2>6 DEF PublishInv
<1>9. CASE \E source \in Trees : DeveloperPushes(source)
  BY <1>9, PushKeepsPublication, SameBuild DEF DeveloperPushes
<1>10. CASE EdgeRefreshes
  BY <1>10, SameRelease DEF EdgeRefreshes
<1>11. Environment =>
         \/ \E kind \in {"publish", "dryRun"}, request \in Requests : \E key : StartRelease(kind, request, key)
         \/ \E setting \in LocalSettings, source \in Trees : StartDeveloperBuild(setting, source)
         \/ \E source \in Trees : DeveloperPushes(source)
         \/ \E version \in Versions, channel \in Channels, rollout \in Rollouts, key \in SigningKeys :
              DispatchFeedUpdate(version, channel, rollout, key)
         \/ EdgeRefreshes
  BY DEF Environment, RunRelease
<1> QED
  BY <1>1, <1>2, <1>3, <1>4, <1>5, <1>6, <1>7, <1>8, <1>9, <1>10, <1>11 DEF Next, JobStep, Fault

-----------------------------------------------------------------------------
(* The theorems.                                                             *)

(* The invariant of the release jobs holds, for any versions, requests, trees, settings   *)
(* and numbers of faults and pushes.                                                      *)
THEOREM ReleaseInvariant == Spec => []ReleaseInv
<1>1. ReleaseInv /\ [Next]_vars => ReleaseInv'
  BY ReleaseStep, SameRelease DEF vars
<1> QED
  BY <1>1, ReleaseStart, PTL DEF Spec

(* However often a bundle is rebuilt in place or touched, the installer is of one source, *)
(* with the version it announces, and the key evidence beside it (build_installer.py) is  *)
(* about what is in it: both files hold the keys, under the official update policy.       *)
THEOREM InstallerRecorded == Spec => []InstallerIsAsRecorded
<1>1. ReleaseInv => InstallerIsAsRecorded
  BY DEF ReleaseInv, BuildInv, DistOK, EvidenceOK, InstallerIsAsRecorded
<1> QED
  BY <1>1, ReleaseInvariant, PTL

\* The phase and the shown pair of the contract, as KeepsTheContract reads them.
Phase == [v \in Versions |-> releases[v].state]
Shown == [v \in Versions |-> IF releases[v].state = "public"
                             THEN [setup |-> releases[v].setup, manifest |-> releases[v].manifest]
                             ELSE None]

(* A release run starts where the contract starts. *)
LEMMA ContractStart == Init => Contract!Init
<1> SUFFICES ASSUME Init PROVE Contract!Init
  OBVIOUS
<1>1. tags = [v \in Versions |-> None] /\ releases = [v \in Versions |-> NoRelease]
  BY DEF Init, PublishInit
<1>2. NoRelease.state = "absent"
  BY DEF NoRelease
<1>3. \A v \in Versions : releases[v].state = "absent"
  BY <1>1, <1>2
<1> QED
  BY <1>1, <1>3 DEF Contract!Init

(* A step that leaves tags and releases alone is no step of the contract. *)
LEMMA ContractStutters ==
  ASSUME UNCHANGED <<tags, releases>>
  PROVE  UNCHANGED Contract!contractVars
  BY DEF Contract!contractVars

(* The tag that reaches origin is the first one of its version. *)
LEMMA PushIsFixSource ==
  ASSUME ReleaseInv, PushSource, ~UNCHANGED <<tags, releases>>
  PROVE  \E v \in Versions : Contract!FixSource(v)
<1>1. step = "push" /\ UNCHANGED <<releases, localTag>> /\ tags[Tag] = None
      /\ tags' = [tags EXCEPT ![Tag] = localTag]
  BY DEF PushSource, Proceed
<1>2. Tag \in Versions /\ job.kind # "local"
  BY <1>1 DEF ReleaseInv, BuildInv, JobOK, PublishSteps, IsReleaseJob, FullVersions, Tag
<1>3. localTag = head /\ head = [n |-> head.n, tree |-> head.tree]
  BY <1>1, <1>2 DEF ReleaseInv, PublishInv, TagOK, HeadOK, RunSteps, PublishSteps
<1>4. localTag # None
  BY <1>3, RecordsAreSomething
<1>5. DOMAIN tags = Versions
  BY DEF ReleaseInv, PublishInv, MainOK
<1>6. tags'[Tag] = localTag
  BY <1>1, <1>2, <1>5
<1>7. PICK v \in Versions : v = Tag
  BY <1>2
<1>8. Contract!FixSource(v)
  BY <1>7, <1>1, <1>4, <1>6 DEF Contract!FixSource
<1> QED
  BY <1>8

(* A draft is opened for a version that has a source and no release. *)
LEMMA CreateIsOpenDraft ==
  ASSUME ReleaseInv, NEW notes, CreateDraft(notes), ~UNCHANGED <<tags, releases>>
  PROVE  \E v \in Versions : Contract!OpenDraft(v)
<1> DEFINE draftOf == [NoRelease EXCEPT !.state = "draft", !.notes = notes, !.prerelease = (job.channel = "beta")]
<1>1. step = "create" /\ UNCHANGED tags /\ tags[Tag] # None
      /\ releases' = [releases EXCEPT ![Tag] = draftOf]
  BY DEF CreateDraft
<1>2. Tag \in Versions /\ releases[Tag].state = "absent" /\ DOMAIN releases = Versions
  BY <1>1 DEF ReleaseInv, BuildInv, PublishInv, JobOK, ReleaseOK, PublishSteps, AssetSteps, IsReleaseJob, FullVersions, Tag
<1>3. draftOf.state = "draft"
  BY DEF NoRelease
<1> HIDE DEF draftOf
<1>4. /\ releases'[Tag].state = "draft"
      /\ \A v \in Versions : v # Tag => releases'[v] = releases[v]
  BY <1>1, <1>2, <1>3
<1>5. Phase[Tag] = "absent" /\ Phase' = [Phase EXCEPT ![Tag] = "draft"]
  BY <1>2, <1>4 DEF Phase
<1>6. Shown' = Shown
  <2>1. ASSUME NEW v \in Versions PROVE Shown'[v] = Shown[v]
    BY <1>2, <1>4 DEF Shown
  <2> QED
    BY <2>1 DEF Shown
<1>7. PICK v \in Versions : v = Tag
  BY <1>2
<1>8. Contract!OpenDraft(v)
  BY <1>7, <1>1, <1>5, <1>6 DEF Contract!OpenDraft, Phase, Shown
<1> QED
  BY <1>8

(* What happens to a draft is nobody's business. *)
LEMMA UploadStutters ==
  ASSUME ReleaseInv, NEW name \in AssetNames, UploadAsset(name) \/ UploadInterrupted(name)
  PROVE  UNCHANGED Contract!contractVars
<1>1. step = "upload" /\ UNCHANGED tags
  BY DEF UploadAsset, UploadInterrupted
<1>2. Tag \in Versions /\ releases[Tag].state = "draft" /\ DOMAIN releases = Versions /\ IsRelease(releases[Tag])
  BY <1>1 DEF ReleaseInv, BuildInv, PublishInv, JobOK, ReleaseOK, PublishSteps, AssetSteps, IsReleaseJob, FullVersions, Tag
<1>3. PICK stored : releases' = [releases EXCEPT ![Tag][name] = stored]
  BY DEF UploadAsset, UploadInterrupted
<1>4. releases' = [releases EXCEPT ![Tag] = WithAsset(releases[Tag], name, stored)]
  BY <1>3 DEF WithAsset
<1>5. WithAsset(releases[Tag], name, stored).state = "draft"
  BY SMT, <1>2, AssetReplaced
<1>6. /\ releases'[Tag].state = "draft"
      /\ \A v \in Versions : v # Tag => releases'[v] = releases[v]
  BY <1>2, <1>4, <1>5
<1>7. Phase' = Phase
  BY <1>2, <1>6 DEF Phase
<1>8. Shown' = Shown
  <2>1. ASSUME NEW v \in Versions PROVE Shown'[v] = Shown[v]
    BY <1>2, <1>6 DEF Shown
  <2> QED
    BY <2>1 DEF Shown
<1> QED
  BY <1>1, <1>7, <1>8 DEF Contract!contractVars, Phase, Shown

(* What is made public is what belongs to the tag. *)
LEMMA PublishIsShow ==
  ASSUME ReleaseInv, PublishDraft
  PROVE  \E v \in Versions : Contract!Show(v)
<1>1. /\ step = "show" /\ UNCHANGED tags
      /\ releases' = [releases EXCEPT ![Tag].state = "public"]
  BY DEF PublishDraft
<1>2. Tag \in Versions /\ releases[Tag].state = "draft" /\ DOMAIN releases = Versions /\ IsRelease(releases[Tag])
  BY <1>1 DEF ReleaseInv, BuildInv, PublishInv, JobOK, ReleaseOK, PublishSteps, AssetSteps, IsReleaseJob, FullVersions, Tag
<1> DEFINE pair == [setup |-> releases[Tag].setup, manifest |-> releases[Tag].manifest]
<1>3. Contract!BelongTogether(pair, tags[Tag], Tag)
  BY <1>1 DEF ReleaseInv, PublishInv, ShowOK
<1>4. /\ releases'[Tag].state = "public" /\ releases'[Tag].setup = releases[Tag].setup
      /\ releases'[Tag].manifest = releases[Tag].manifest
      /\ \A v \in Versions : v # Tag => releases'[v] = releases[v]
  BY <1>1, <1>2 DEF IsRelease
<1>5. Phase[Tag] = "draft" /\ Phase' = [Phase EXCEPT ![Tag] = "public"]
  BY <1>2, <1>4 DEF Phase
<1>6. Shown'[Tag] = pair
  BY <1>2, <1>4 DEF Shown
<1>7. Shown' = [Shown EXCEPT ![Tag] = Shown'[Tag]]
  <2>1. ASSUME NEW v \in Versions, v # Tag PROVE Shown'[v] = Shown[v]
    BY <1>4, <2>1 DEF Shown
  <2>2. Shown' = [v \in Versions |-> Shown'[v]] /\ Shown = [v \in Versions |-> Shown[v]]
    BY DEF Shown
  <2> QED
    BY <2>1, <2>2
<1>8. Contract!BelongTogether(Shown'[Tag], tags[Tag], Tag)
  BY <1>3, <1>6
<1>9. PICK v \in Versions : v = Tag
  BY <1>2
<1>10. Contract!Show(v)
  BY <1>9, <1>1, <1>5, <1>7, <1>8 DEF Contract!Show, Phase, Shown
<1> QED
  BY <1>10

(* Every other step leaves tags and releases alone. *)
LEMMA OtherStepsStutter ==
  ASSUME Next, ~PublishStep, ~\E name \in AssetNames : UploadInterrupted(name)
  PROVE  UNCHANGED <<tags, releases>>
<1>1. CASE JobStep
  BY <1>1, FeedMoves DEF JobStep, BuildStep, AfterPublication, FeedMove, remoteVars
<1>2. CASE Fault
  BY <1>2 DEF Fault, BuildFault, remoteVars
<1>3. CASE \E version \in Versions, channel \in Channels, rollout \in Rollouts, key \in SigningKeys :
             DispatchFeedUpdate(version, channel, rollout, key)
  BY <1>3, FeedMoves DEF FeedMove, remoteVars
<1>4. CASE Environment
  BY <1>3, <1>4 DEF Environment, RunRelease, StartRelease, StartDeveloperBuild, DeveloperPushes,
                    EdgeRefreshes, publishVars, remoteVars
<1> QED
  BY <1>1, <1>2, <1>4 DEF Next

(* Every step of the publication is one of the contract's, or none. *)
LEMMA ContractStep ==
  ASSUME ReleaseInv, Next
  PROVE  Contract!Next \/ UNCHANGED Contract!contractVars
<1>1. CASE UNCHANGED <<tags, releases>>
  BY <1>1, ContractStutters
<1>2. CASE \E name \in AssetNames : UploadAsset(name) \/ UploadInterrupted(name)
  BY <1>2, UploadStutters
<1>3. CASE ~UNCHANGED <<tags, releases>> /\ (PushSource \/ PublishDraft \/ \E notes \in ReleaseNotes : CreateDraft(notes))
  BY <1>3, PushIsFixSource, PublishIsShow, CreateIsOpenDraft DEF Contract!Next
<1>4. ASSUME PublishStep, ~UNCHANGED <<tags, releases>>
      PROVE  \/ PushSource \/ PublishDraft \/ \E notes \in ReleaseNotes : CreateDraft(notes)
             \/ \E name \in AssetNames : UploadAsset(name)
  BY <1>4 DEF PublishStep, CheckTag, CommitVersionBump, SignManifest, PrepareRelease, ReadMetadata,
              VerifyPublic, TagSource, VerifyUploaded, remoteVars
<1> QED
  BY <1>1, <1>2, <1>3, <1>4, OtherStepsStutter

(* The pipeline implements the contract of the releases page (publish_release.py), for    *)
(* every crash, retry and rejected push and any number of them: one source per version, a *)
(* draft, then once an installer and a manifest of that source, never replaced.           *)
THEOREM ReleaseKeepsContract == Spec => KeepsTheContract
<1>1. ReleaseInv /\ [Next]_vars => [Contract!Next]_(Contract!contractVars)
  BY ContractStep, ContractStutters DEF vars, publishVars, remoteVars
<1> QED
  BY <1>1, ContractStart, ReleaseInvariant, PTL DEF Spec, KeepsTheContract, Contract!Spec

-----------------------------------------------------------------------------
(* The feed.                                                                 *)

(* Some numbers have a least one: what is used in place of induction. *)
LEMMA LeastNumber ==
  ASSUME NEW S \in SUBSET Nat, S # {}
  PROVE  \E m \in S : \A n \in S : m <= n
<1> DEFINE R == {ss \in Nat \X Nat : ss[1] < ss[2]}
<1>1. R = OpToRel(<, Nat)
  BY DEF OpToRel
<1>2. IsWellFoundedOn(R, Nat)
  BY <1>1, NatLessThanWellFounded
<1> HIDE DEF R
<1>3. PICK m \in S : \A n \in S : ~(<<n, m>> \in R)
  BY <1>2, WFMin
<1>4. \A n \in S : ~(n < m)
  BY <1>3 DEF R
<1> QED
  BY SMT, <1>3, <1>4

(* Places of a feed can be put in order: those up to the j-th, for each j, since
   there is no first j for which they cannot.                                *)
LEMMA PlacesHaveAnOrder ==
  ASSUME NEW n \in Nat, NEW S \in SUBSET (1..n)
  PROVE  \E m \in 0..n : \E e \in [1..m -> S] : InOrder(e, S)
<1> DEFINE Upto(j) == {i \in S : i <= j}
           Ordered(j) == \E m \in 0..j : \E e \in [1..m -> S] : InOrder(e, Upto(j))
           T == {j \in Nat : ~Ordered(j)}
<1>1. \A i \in S : i \in Nat /\ 1 <= i /\ i <= n
  BY SMT
<1>2. Upto(n) = S
  <2>1. \A i \in S : i <= n
    BY <1>1
  <2> QED
    BY <2>1
<1>3. Ordered(0)
  <2> DEFINE e == [k \in 1..0 |-> 1]
  <2>1. e \in [1..0 -> S] /\ DOMAIN e = {}
    BY SMT
  <2>2. Upto(0) = {}
    <3>1. \A i \in S : ~(i <= 0)
      BY SMT, <1>1
    <3> QED
      BY <3>1
  <2>3. InOrder(e, Upto(0))
    BY <2>1, <2>2 DEF InOrder
  <2>4. 0 \in 0..0
    BY SMT
  <2> HIDE DEF e, Upto
  <2> QED
    BY <2>1, <2>3, <2>4
<1>4. ASSUME NEW j \in Nat, j # 0, Ordered(j - 1)
      PROVE  Ordered(j)
  <2>6. PICK m \in 0..(j - 1) : \E e \in [1..m -> S] : InOrder(e, Upto(j - 1))
    BY <1>4
  <2>1. PICK e \in [1..m -> S] : InOrder(e, Upto(j - 1))
    BY <2>6
  <2>2. m \in Nat /\ m <= j - 1 /\ m + 1 \in 0..j /\ m \in 0..j
    BY SMT, <1>4, <2>1
  <2>3. \A i \in S : i <= j <=> i <= j - 1 \/ i = j
    BY SMT, <1>1, <1>4
  <2>4. CASE j \notin S
    <3>1. Upto(j) = Upto(j - 1)
      BY <2>3, <2>4
    <3> QED
      BY <2>1, <2>2, <3>1
  <2>5. CASE j \in S
    <3> DEFINE d == [k \in 1..(m + 1) |-> IF k = m + 1 THEN j ELSE e[k]]
    <3>1. d \in [1..(m + 1) -> S] /\ DOMAIN d = 1..(m + 1) /\ d[m + 1] = j
      BY SMTT(20), <2>1, <2>2, <2>5
    <3>2. \A k \in 1..m : d[k] = e[k] /\ k \in 1..(m + 1) /\ k < m + 1 /\ e[k] < j
      <4>1. \A k \in 1..m : e[k] \in Upto(j - 1)
        BY <2>1 DEF InOrder
      <4>2. \A k \in 1..m : e[k] \in S /\ e[k] <= j - 1
        BY <4>1
      <4>5. \A i \in S : i <= j - 1 => i < j
        BY SMT, <1>1
      <4>3. \A k \in 1..m : e[k] < j
        BY <4>2, <4>5
      <4>4. \A k \in 1..m : k \in 1..(m + 1) /\ k < m + 1 /\ k # m + 1
        BY SMT, <2>2
      <4> QED
        BY <4>3, <4>4
    <3>3. \A k \in 1..(m + 1) : k \in 1..m \/ k = m + 1
      BY SMT, <2>2
    <3>4. 1..(m + 1) = 1..m \cup {m + 1} /\ DOMAIN e = 1..m
      BY SMT, <2>1, <2>2
    <3> HIDE DEF d
    <3>5. Upto(j) = Upto(j - 1) \cup {j}
      BY <2>3, <2>5
    <3>6. {d[k] : k \in DOMAIN d} = Upto(j)
      <4>1. {e[k] : k \in 1..m} = Upto(j - 1)
        BY <2>1, <3>4 DEF InOrder
      <4> HIDE DEF Upto
      <4> QED
        BY SMTT(20), <3>1, <3>2, <3>3, <3>5, <4>1
    <3>7. \A k, l \in DOMAIN d : k < l => d[k] < d[l]
      <4>1. \A k, l \in 1..m : k < l => e[k] < e[l]
        BY <2>1, <3>4 DEF InOrder
      <4>2. \A l \in 1..(m + 1) : ~(m + 1 < l)
        BY SMT, <2>2
      <4> QED
        BY SMTT(20), <3>1, <3>2, <3>3, <4>1, <4>2
    <3> QED
      BY <2>2, <3>1, <3>6, <3>7 DEF InOrder
  <2> QED
    BY <2>4, <2>5
<1> HIDE DEF Upto, Ordered
<1>5. T = {}
  <2> SUFFICES ASSUME T # {} PROVE FALSE
    OBVIOUS
  <2>1. PICK j \in T : \A i \in T : j <= i
    BY LeastNumber
  <2>2. j \in Nat /\ ~Ordered(j) /\ j # 0
    BY <1>3, <2>1
  <2>3. j - 1 \in Nat /\ j - 1 \notin T
    BY SMTT(20), <2>1, <2>2
  <2> QED
    BY <1>4, <2>2, <2>3
<1>6. Ordered(n)
  BY <1>5
<1> QED
  BY <1>2, <1>6 DEF Ordered

(* The items at some places are those items, in the order of the feed. *)
LEMMA ItemsInOrder ==
  ASSUME NEW X, NEW f \in Seq(X), NEW S \in SUBSET DOMAIN f
  PROVE  \E m \in Nat : \E e \in [1..m -> S] :
           /\ \A i \in S : \E k \in 1..m : e[k] = i
           /\ \A k, l \in 1..m : k < l => e[k] < e[l]
           /\ ItemsAt(f, S) \in Seq(X) /\ Len(ItemsAt(f, S)) = m
           /\ \A k \in 1..m : ItemsAt(f, S)[k] = f[e[k]]
<1>1. Len(f) \in Nat /\ DOMAIN f = 1..Len(f) /\ \A i \in DOMAIN f : f[i] \in X
  BY SMT
<1> DEFINE Orders == UNION {[1..m -> S] : m \in 0..Len(f)}
           e == Order(S, Len(f))
<1>2. \E o \in Orders : InOrder(o, S)
  BY <1>1, PlacesHaveAnOrder
<1>3. e \in Orders /\ InOrder(e, S)
  BY <1>2 DEF Order
<1>4. ItemsAt(f, S) = [k \in DOMAIN e |-> f[e[k]]]
  BY DEF ItemsAt
<1> HIDE DEF e
<1>5. PICK m \in 0..Len(f) : e \in [1..m -> S]
  BY <1>3
<1>6. m \in Nat /\ DOMAIN e = 1..m /\ \A k \in 1..m : f[e[k]] \in X
  BY SMT, <1>1, <1>5
<1>7. ItemsAt(f, S) \in [1..m -> X] /\ \A k \in 1..m : ItemsAt(f, S)[k] = f[e[k]]
  BY <1>4, <1>6
<1>8. ItemsAt(f, S) \in Seq(X) /\ Len(ItemsAt(f, S)) = m
  BY SMT, <1>6, <1>7
<1>9. /\ \A i \in S : \E k \in 1..m : e[k] = i
      /\ \A k, l \in 1..m : k < l => e[k] < e[l]
  BY <1>3, <1>6 DEF InOrder
<1> QED
  BY <1>5, <1>6, <1>7, <1>8, <1>9

\* o is the items of f at the places e, from the first to the last; these are
\* all the places of items that the context does not match.
OthersAt(o, f, c, m, e) ==
  /\ Len(o) = m /\ \A k \in 1..m : o[k] = f[e[k]]
  /\ \A k \in 1..m : e[k] \in DOMAIN f /\ ~Matches(f[e[k]], c)
  /\ \A i \in DOMAIN f : ~Matches(f[i], c) => \E k \in 1..m : e[k] = i
  /\ \A k, l \in 1..m : k < l => e[k] < e[l]

(* The others are all the items that the context does not match, in their order. *)
LEMMA OthersInOrder ==
  ASSUME NEW X, NEW f \in Seq(X), NEW c
  PROVE  /\ Others(f, c) \in Seq(X)
         /\ \E m \in Nat : \E e \in [1..m -> DOMAIN f] : OthersAt(Others(f, c), f, c, m, e)
<1> DEFINE S == DOMAIN f \ Matching(f, c)
           o == Others(f, c)
<1>1. S \subseteq DOMAIN f /\ \A i \in S : ~Matches(f[i], c)
  BY DEF Matching
<1>2. \A i \in DOMAIN f : ~Matches(f[i], c) => i \in S
  BY DEF Matching
<1>3. o = ItemsAt(f, S)
  BY DEF Others
<1> HIDE DEF S
<1> DEFINE Is(m, e) ==
             /\ \A i \in S : \E k \in 1..m : e[k] = i
             /\ \A k, l \in 1..m : k < l => e[k] < e[l]
             /\ ItemsAt(f, S) \in Seq(X) /\ Len(ItemsAt(f, S)) = m
             /\ \A k \in 1..m : ItemsAt(f, S)[k] = f[e[k]]
<1>4. PICK m \in Nat : \E e \in [1..m -> S] : Is(m, e)
  BY SMTT(60), <1>1, ItemsInOrder
<1>5. PICK e \in [1..m -> S] : Is(m, e)
  BY <1>4
<1> HIDE DEF o
<1>6. o \in Seq(X) /\ Len(o) = m /\ \A k \in 1..m : o[k] = f[e[k]]
  BY <1>3, <1>5
<1>7. e \in [1..m -> DOMAIN f] /\ \A k \in 1..m : e[k] \in DOMAIN f /\ ~Matches(f[e[k]], c)
  BY <1>1, <1>5
<1>8. \A i \in DOMAIN f : ~Matches(f[i], c) => \E k \in 1..m : e[k] = i
  BY <1>2, <1>5
<1>9. OthersAt(o, f, c, m, e)
  BY <1>5, <1>6, <1>7, <1>8 DEF OthersAt
<1> QED
  BY <1>6, <1>7, <1>9 DEF o

\* o holds items of f that the context does not match, none of them twice.
OthersOf(o, f, c) ==
  /\ \A k \in 1..Len(o) : \E i \in DOMAIN f : o[k] = f[i] /\ ~Matches(f[i], c)
  /\ \A k, l \in 1..Len(o) : k # l => \E i, j \in DOMAIN f : i # j /\ o[k] = f[i] /\ o[l] = f[j]

(* The others are items that the context does not match, and none is there twice. *)
LEMMA OtherItems ==
  ASSUME NEW X, NEW f \in Seq(X), NEW c
  PROVE  Others(f, c) \in Seq(X) /\ Len(Others(f, c)) \in Nat /\ OthersOf(Others(f, c), f, c)
<1> DEFINE o == Others(f, c)
<1>1. o \in Seq(X) /\ \E m \in Nat : \E e \in [1..m -> DOMAIN f] : OthersAt(o, f, c, m, e)
  BY OthersInOrder
<1> HIDE DEF o
<1>2. PICK m \in Nat : \E e \in [1..m -> DOMAIN f] : OthersAt(o, f, c, m, e)
  BY <1>1
<1>3. PICK e \in [1..m -> DOMAIN f] : OthersAt(o, f, c, m, e)
  BY <1>2
<1>4. /\ Len(o) = m /\ \A k \in 1..m : o[k] = f[e[k]] /\ e[k] \in DOMAIN f /\ ~Matches(f[e[k]], c)
      /\ \A k, l \in 1..m : k < l => e[k] < e[l]
  BY <1>3 DEF OthersAt
<1>5. DOMAIN f \subseteq Nat
  BY SMT
<1>6. ASSUME NEW k \in 1..m, NEW l \in 1..m, k # l
      PROVE  e[k] # e[l]
  BY SMTT(20), <1>4, <1>5, <1>6
<1>7. ASSUME NEW k \in 1..m, NEW l \in 1..m, k # l
      PROVE  \E i, j \in DOMAIN f : i # j /\ o[k] = f[i] /\ o[l] = f[j]
  <2>1. e[k] \in DOMAIN f /\ e[l] \in DOMAIN f /\ e[k] # e[l]
    BY <1>4, <1>6, <1>7
  <2>2. o[k] = f[e[k]] /\ o[l] = f[e[l]]
    BY <1>4
  <2> QED
    BY <2>1, <2>2
<1>8. OthersOf(o, f, c)
  BY <1>4, <1>7 DEF OthersOf
<1> QED
  BY <1>1, <1>4, <1>8 DEF o

(* _find_matching_item is one of the feed's items, and the context matches it. *)
LEMMA FoundItem ==
  ASSUME NEW X, NEW f \in Seq(X), NEW c, Matching(f, c) # {}
  PROVE  \E i \in DOMAIN f : _find_matching_item(f, c) = f[i] /\ Matches(f[i], c)
<1> DEFINE S == Matching(f, c)
<1>1. S \subseteq DOMAIN f /\ (\A i \in S : Matches(f[i], c)) /\ S # {}
  BY DEF Matching
<1>2. DOMAIN f \subseteq Nat
  BY SMT
<1> HIDE DEF S
<1>3. \E i \in S : \A j \in S : i <= j
  BY <1>1, <1>2, LeastNumber
<1> DEFINE m == CHOOSE i \in S : \A j \in S : i <= j
<1>4. m \in S
  BY <1>3
<1>5. _find_matching_item(f, c) = f[m]
  BY DEF _find_matching_item, S
<1> HIDE DEF m
<1> QED
  BY <1>1, <1>4, <1>5

\* u is the feed f without what the context replaces, behind the new item.
IsUpdate(u, f, c, X, item) ==
  /\ u \in Seq(X \cup {item}) /\ Len(u) \in Nat /\ Len(u) <= c.maxItems
  /\ Len(u) <= Len(Others(f, c)) + 1 /\ Len(Others(f, c)) \in Nat
  /\ Len(u) = c.maxItems \/ Len(u) = Len(Others(f, c)) + 1
  /\ \A k \in 1..Len(u) : u[k] = IF k = 1 THEN item ELSE Others(f, c)[k - 1]

(* An updated feed is the new item and then the others, as many as fit. *)
LEMMA UpdatedShape ==
  ASSUME NEW X, NEW f \in Seq(X), NEW c, NEW date, NEW key, c.maxItems \in Nat,
         NEW u, u = UpdatedFeed(f, c, date, key),
         NEW item, item = UpdatedItem(f, c, date, key)
  PROVE  IsUpdate(u, f, c, X, item)
<1> DEFINE o == Others(f, c)
           items == <<item>> \o o
           Y == X \cup {item}
           n == c.maxItems
<1>1. o \in Seq(X) /\ Len(o) \in Nat
  BY OtherItems
<1>2. u = IF Len(items) <= n THEN items ELSE SubSeq(items, 1, n)
  BY DEF UpdatedFeed
<1>5. n \in Nat
  OBVIOUS
<1> HIDE DEF o, n
<1>3. o \in Seq(Y) /\ <<item>> \in Seq(Y)
  BY SMTT(20), <1>1
<1>4. /\ items \in Seq(Y) /\ Len(items) = Len(o) + 1
      /\ \A k \in 1..Len(items) : items[k] = IF k = 1 THEN item ELSE o[k - 1]
  BY SMTT(20), <1>1, <1>3
<1> HIDE DEF items, Y
<1>6. CASE Len(items) <= n
  BY SMTT(20), <1>1, <1>2, <1>4, <1>5, <1>6 DEF o, Y, n, IsUpdate
<1>7. CASE ~(Len(items) <= n)
  <2>1. u = SubSeq(items, 1, n) /\ n <= Len(items)
    BY SMTT(20), <1>1, <1>2, <1>4, <1>5, <1>7
  <2>2. u \in Seq(Y) /\ Len(u) = n /\ \A k \in 1..n : u[k] = items[k]
    BY SMT, <1>1, <1>4, <1>5, <2>1
  <2> QED
    BY SMTT(20), <1>1, <1>4, <1>5, <2>1, <2>2 DEF o, Y, n, IsUpdate
<1> QED
  BY <1>6, <1>7

(* The item of an update says what the context says, and is of the date of the
   item it replaces. *)
LEMMA ItemOfContext ==
  ASSUME NEW X, NEW f \in Seq(X), NEW c, NEW date, NEW key, c.channel \in Channels,
         NEW item, item = UpdatedItem(f, c, date, key)
  PROVE  /\ item.version = c.version /\ item.asset = c.asset /\ item.manifest = c.manifest
         /\ _plug_channel(item) = c.channel /\ (item.channel = "beta" <=> c.channel = "beta")
         /\ c.rollout # NoRollout => _plug_rollout_percentage(item) = c.rollout
         /\ Matching(f, c) # {} => item.date = _find_matching_item(f, c).date
<1>1. CASE /\ Matching(f, c) # {}
           /\ ItemValid(_find_matching_item(f, c), c)
           /\ item = _find_matching_item(f, c)
  BY <1>1 DEF ItemValid, _plug_channel, Channels, NoAttribute
<1>2. CASE item = BuildItem(c, PubDate(f, c, date), key)
  <2>1. /\ item.version = c.version /\ item.asset = c.asset /\ item.manifest = c.manifest
        /\ item.channel = c.channel /\ item.rollout = c.rollout /\ item.date = PubDate(f, c, date)
    BY SMT, <1>2 DEF BuildItem
  <2>2. Matching(f, c) # {} => PubDate(f, c, date) = _find_matching_item(f, c).date
    BY DEF PubDate
  <2> QED
    BY <2>1, <2>2 DEF _plug_channel, _plug_rollout_percentage, Channels, NoAttribute
<1> QED
  BY <1>1, <1>2 DEF UpdatedItem

(* A release is of one version: its items are, or are from before builds. *)
OneVersionEach(f, c) ==
  \A i \in DOMAIN f :
    f[i].version.short = c.version.short => f[i].version \in {c.version, WithoutBuild(c.version)}

(* What a context matches is of its release and channel, and the other way round. *)
LEMMA MatchesRelease ==
  ASSUME NEW f, NEW c, NEW i \in DOMAIN f, OneVersionEach(f, c), c.version \in FullVersions
  PROVE  Matches(f[i], c) <=> f[i].version.short = c.version.short /\ _plug_channel(f[i]) = c.channel
<1>1. WithoutBuild(c.version).short = c.version.short
  BY DEF WithoutBuild, FullVersions
<1> QED
  BY <1>1 DEF Matches, OneVersionEach

(* Every item of an updated feed is the new one, or one that was there and that
   the context does not match; no two of them were the same one. *)
LEMMA UpdatedItems ==
  ASSUME NEW X, NEW f \in Seq(X), NEW c, NEW date, NEW key, c.maxItems \in Nat,
         NEW u, u = UpdatedFeed(f, c, date, key),
         NEW item, item = UpdatedItem(f, c, date, key)
  PROVE  /\ u # <<>> => u[1] = item
         /\ \A k \in DOMAIN u : k # 1 => \E i \in DOMAIN f : u[k] = f[i] /\ ~Matches(f[i], c)
         /\ \A k, l \in DOMAIN u : k # 1 /\ l # 1 /\ k # l =>
              \E i, j \in DOMAIN f : i # j /\ u[k] = f[i] /\ u[l] = f[j]
<1> DEFINE o == Others(f, c)
<1>0. IsUpdate(u, f, c, X, item)
  BY UpdatedShape
<1>1. /\ u \in Seq(X \cup {item}) /\ Len(u) \in Nat
      /\ Len(u) <= Len(o) + 1 /\ Len(o) \in Nat
      /\ \A k \in 1..Len(u) : u[k] = IF k = 1 THEN item ELSE o[k - 1]
  BY <1>0 DEF IsUpdate
<1>2. OthersOf(o, f, c)
  BY OtherItems
<1> HIDE DEF o
<1>3. DOMAIN u = 1..Len(u) /\ (u # <<>> => Len(u) # 0)
  BY SMTT(20), <1>1
<1>4. \A k \in DOMAIN u : k # 1 => k - 1 \in 1..Len(o) /\ u[k] = o[k - 1]
  BY SMTT(20), <1>1, <1>3
<1>5. \A k, l \in DOMAIN u : k # l => k - 1 # l - 1
  BY SMTT(20), <1>1, <1>3
<1>6. u # <<>> => u[1] = item
  BY SMT, <1>1, <1>3
<1>7. ASSUME NEW k \in DOMAIN u, k # 1
      PROVE  \E i \in DOMAIN f : u[k] = f[i] /\ ~Matches(f[i], c)
  <2>1. PICK p \in 1..Len(o) : u[k] = o[p]
    BY <1>4, <1>7
  <2>2. PICK i \in DOMAIN f : o[p] = f[i] /\ ~Matches(f[i], c)
    BY <1>2 DEF OthersOf
  <2> QED
    BY <2>1, <2>2
<1>8. ASSUME NEW k \in DOMAIN u, NEW l \in DOMAIN u, k # 1, l # 1, k # l
      PROVE  \E i, j \in DOMAIN f : i # j /\ u[k] = f[i] /\ u[l] = f[j]
  <2>1. k - 1 \in 1..Len(o) /\ l - 1 \in 1..Len(o) /\ k - 1 # l - 1 /\ u[k] = o[k - 1] /\ u[l] = o[l - 1]
    BY <1>4, <1>5, <1>8
  <2>2. PICK p \in 1..Len(o), q \in 1..Len(o) : p # q /\ u[k] = o[p] /\ u[l] = o[q]
    BY <2>1
  <2>3. PICK i \in DOMAIN f, j \in DOMAIN f : i # j /\ o[p] = f[i] /\ o[q] = f[j]
    BY <1>2, <2>2 DEF OthersOf
  <2> QED
    BY <2>2, <2>3
<1>9. \A k \in DOMAIN u : k # 1 => \E i \in DOMAIN f : u[k] = f[i] /\ ~Matches(f[i], c)
  BY <1>7
<1>10. \A k, l \in DOMAIN u : k # 1 /\ l # 1 /\ k # l =>
         \E i, j \in DOMAIN f : i # j /\ u[k] = f[i] /\ u[l] = f[j]
  BY <1>8
<1> QED
  BY <1>6, <1>9, <1>10

\* What the context does not match stays behind the first item of u; what does
\* not find room there is older than everything that stays.
DropsOnlyTheOldest(u, f, c) ==
  \A i \in DOMAIN f : ~Matches(f[i], c) =>
    \/ \E k \in 2..Len(u) : u[k] = f[i]
    \/ /\ Len(u) = c.maxItems
       /\ \A k \in 2..Len(u) : \E j \in DOMAIN f : j < i /\ u[k] = f[j] /\ ~Matches(f[j], c)

(* update_appcast_tree, for a feed of any length: the feed it writes is within
   max_items, begins with the item of the release, and has all the items of
   other releases and channels, except that the oldest of them make room.    *)
THEOREM UpdateIsExact ==
  ASSUME NEW X, NEW f \in Seq(X), NEW c, NEW date, NEW key, c.maxItems \in Nat,
         NEW u, u = UpdatedFeed(f, c, date, key)
  PROVE  /\ Len(u) <= c.maxItems
         /\ u # <<>> => u[1] = UpdatedItem(f, c, date, key)
         /\ DropsOnlyTheOldest(u, f, c)
<1> DEFINE item == UpdatedItem(f, c, date, key)
           o == Others(f, c)
<1>1. IsUpdate(u, f, c, X, item)
  BY UpdatedShape
<1>2. \E m \in Nat : \E e \in [1..m -> DOMAIN f] : OthersAt(o, f, c, m, e)
  BY OthersInOrder
<1> HIDE DEF item
<1>3. /\ u \in Seq(X \cup {item}) /\ Len(u) \in Nat /\ Len(u) <= c.maxItems
      /\ Len(u) = c.maxItems \/ Len(u) = Len(o) + 1
      /\ \A k \in 1..Len(u) : u[k] = IF k = 1 THEN item ELSE o[k - 1]
  BY <1>1 DEF IsUpdate
<1> HIDE DEF o
<1>4. u # <<>> => u[1] = item
  BY SMT, <1>3
<1>5. PICK m \in Nat : \E e \in [1..m -> DOMAIN f] : OthersAt(o, f, c, m, e)
  BY <1>2
<1>6. PICK e \in [1..m -> DOMAIN f] : OthersAt(o, f, c, m, e)
  BY <1>5
<1>7. ASSUME NEW i \in DOMAIN f, ~Matches(f[i], c)
      PROVE  \/ \E k \in 2..Len(u) : u[k] = f[i]
             \/ /\ Len(u) = c.maxItems
                /\ \A k \in 2..Len(u) : \E j \in DOMAIN f : j < i /\ u[k] = f[j] /\ ~Matches(f[j], c)
  <2>1. PICK p \in 1..m : e[p] = i
    BY <1>6, <1>7 DEF OthersAt
  <2>2. Len(o) = m /\ o[p] = f[i]
    BY <1>6, <2>1 DEF OthersAt
  <2>3. CASE p + 1 \in 2..Len(u)
    <3>1. u[p + 1] = o[p]
      BY SMTT(20), <1>3, <2>3
    <3> QED
      BY <2>2, <2>3, <3>1
  <2>4. CASE p + 1 \notin 2..Len(u)
    <3>1. Len(u) = c.maxItems
      BY SMTT(20), <1>3, <2>2, <2>4
    <3>2. ASSUME NEW k \in 2..Len(u)
          PROVE  \E j \in DOMAIN f : j < i /\ u[k] = f[j] /\ ~Matches(f[j], c)
      <4>1. k \in 1..Len(u) /\ k # 1 /\ k - 1 \in 1..m /\ k - 1 < p
        BY SMT, <3>2, <2>4
      <4>2. u[k] = o[k - 1]
        BY <1>3, <4>1
      <4>3. PICK l \in 1..m : l < p /\ u[k] = o[l]
        BY <4>1, <4>2
      <4>4. e[l] \in DOMAIN f /\ e[l] < e[p] /\ o[l] = f[e[l]] /\ ~Matches(f[e[l]], c)
        BY <1>6, <4>3 DEF OthersAt
      <4> QED
        BY <2>1, <4>3, <4>4
    <3> QED
      BY <3>1, <3>2
  <2> QED
    BY <2>3, <2>4
<1>8. DropsOnlyTheOldest(u, f, c)
  BY <1>7 DEF DropsOnlyTheOldest
<1> QED
  BY <1>4, <1>3, <1>8 DEF item

(* An update leaves a release with one item on a channel. *)
LEMMA UpdateKeepsOneEach ==
  ASSUME NEW X, NEW f \in Seq(X), NEW c, NEW date, NEW key, c.maxItems \in Nat,
         c.channel \in Channels, c.version \in FullVersions, OneVersionEach(f, c), OneItemEach(f)
  PROVE  OneItemEach(UpdatedFeed(f, c, date, key))
<1> DEFINE u == UpdatedFeed(f, c, date, key)
           item == UpdatedItem(f, c, date, key)
           Id(x) == <<x.version.short, _plug_channel(x)>>
<1>1. /\ u # <<>> => u[1] = item
      /\ \A k \in DOMAIN u : k # 1 => \E i \in DOMAIN f : u[k] = f[i] /\ ~Matches(f[i], c)
      /\ \A k, l \in DOMAIN u : k # 1 /\ l # 1 /\ k # l =>
           \E i, j \in DOMAIN f : i # j /\ u[k] = f[i] /\ u[l] = f[j]
  BY SMTT(20), UpdatedItems
<1>2. item.version = c.version /\ _plug_channel(item) = c.channel
  BY SMT, ItemOfContext
<1> HIDE DEF u, item
<1>3. ASSUME NEW k \in DOMAIN u, k # 1
      PROVE  Id(u[k]) # Id(item)
  <2>1. PICK i \in DOMAIN f : u[k] = f[i] /\ ~Matches(f[i], c)
    BY <1>1, <1>3
  <2>2. ~(f[i].version.short = c.version.short /\ _plug_channel(f[i]) = c.channel)
    BY <2>1, MatchesRelease
  <2> QED
    BY <1>2, <2>1, <2>2
<1>4. u # <<>> => u[1] = item
  BY <1>1
<1>5. \A k \in DOMAIN u : u # <<>>
  BY SMT
<1>6. ASSUME NEW k \in DOMAIN u, NEW l \in DOMAIN u, k # l
      PROVE  Id(u[k]) # Id(u[l])
  <2>1. CASE k = 1
    <3>1. l # 1 /\ u[k] = item
      BY <1>4, <1>5, <1>6, <2>1
    <3> QED
      BY <1>3, <3>1
  <2>2. CASE l = 1
    <3>1. k # 1 /\ u[l] = item
      BY <1>4, <1>5, <1>6, <2>2
    <3> QED
      BY <1>3, <3>1
  <2>3. CASE k # 1 /\ l # 1
    <3>1. PICK i \in DOMAIN f, j \in DOMAIN f : i # j /\ u[k] = f[i] /\ u[l] = f[j]
      BY <1>1, <1>6, <2>3
    <3> QED
      BY <3>1 DEF OneItemEach
  <2> QED
    BY <2>1, <2>2, <2>3
<1>7. OneItemEach(u)
  BY <1>6 DEF OneItemEach
<1> QED
  BY <1>7 DEF u

(* Of a release that is listed again, an update keeps the publication date,
   and the rollout when the context has taken it over. *)
LEMMA UpdateKeepsItems ==
  ASSUME NEW X, NEW f \in Seq(X), NEW c, NEW date, NEW key, c.maxItems \in Nat,
         c.channel \in Channels, c.version \in FullVersions, OneVersionEach(f, c), OneItemEach(f),
         NEW u, u = UpdatedFeed(f, c, date, key),
         NEW i \in DOMAIN f, NEW j \in DOMAIN u,
         f[i].version.short = u[j].version.short, _plug_channel(f[i]) = _plug_channel(u[j])
  PROVE  /\ u[j].date = f[i].date
         /\ (Matching(f, c) # {} => c.rollout = _plug_rollout_percentage(_find_matching_item(f, c))) =>
              _plug_rollout_percentage(u[j]) = _plug_rollout_percentage(f[i])
<1> DEFINE item == UpdatedItem(f, c, date, key)
           Id(x) == <<x.version.short, _plug_channel(x)>>
<1>1. /\ u # <<>> => u[1] = item
      /\ \A k \in DOMAIN u : k # 1 => \E m \in DOMAIN f : u[k] = f[m] /\ ~Matches(f[m], c)
  BY SMTT(20), UpdatedItems
<1>2. /\ item.version = c.version /\ _plug_channel(item) = c.channel
      /\ c.rollout # NoRollout => _plug_rollout_percentage(item) = c.rollout
      /\ Matching(f, c) # {} => item.date = _find_matching_item(f, c).date
  BY SMT, ItemOfContext
<1> HIDE DEF item
<1>3. ASSUME NEW m \in DOMAIN f, f[m].version.short = f[i].version.short,
             _plug_channel(f[m]) = _plug_channel(f[i])
      PROVE  f[m] = f[i]
  BY <1>3 DEF OneItemEach
<1>4. CASE j # 1
  <2>1. PICK m \in DOMAIN f : u[j] = f[m]
    BY <1>1, <1>4
  <2>2. f[m] = f[i]
    BY <1>3, <2>1
  <2> QED
    BY <2>1, <2>2
<1>5. CASE j = 1
  <2>1. u[j] = item
    BY SMT, <1>1, <1>5
  <2>2. f[i].version.short = c.version.short /\ _plug_channel(f[i]) = c.channel
    BY <1>2, <2>1
  <2>3. Matching(f, c) # {}
    BY <2>2, MatchesRelease DEF Matching
  <2>4. PICK m \in DOMAIN f : _find_matching_item(f, c) = f[m] /\ Matches(f[m], c)
    BY <2>3, FoundItem
  <2>5. f[m] = f[i]
    BY SMTT(20), <1>3, <2>2, <2>4, MatchesRelease
  <2>6. _plug_rollout_percentage(f[i]) # NoRollout
    BY SMT DEF _plug_rollout_percentage, NoRollout
  <2> QED
    BY <1>2, <2>1, <2>3, <2>4, <2>5, <2>6
<1> QED
  BY <1>4, <1>5

\* The steps the feed's invariant says something about.
WatchedSteps == FeedSteps \cup (AssetSteps \ {"create"})

(* A step outside the feed job and the assets leaves everything said of the feed. *)
LEMMA QuietFeed ==
  ASSUME FeedInv, UNCHANGED <<tags, releases, feedVars>>,
         step' \notin WatchedSteps \/ UNCHANGED <<step, job>>
  PROVE  FeedInv'
<1>1. UNCHANGED <<feed, draft, context, pages, served, queued>>
  BY DEF feedVars
<1>2. FeedJobOK'
  BY <1>1 DEF FeedInv, FeedJobOK, WatchedSteps
<1>3. PublicOK'
  BY DEF FeedInv, PublicOK, WatchedSteps, AssetSteps, Tag
<1>4. CheckedOK'
  BY DEF FeedInv, CheckedOK, WatchedSteps, FeedSteps
<1>5. DraftOK'
  <2>1. CASE step' \notin WatchedSteps
    BY <2>1 DEF DraftOK, WatchedSteps, FeedSteps
  <2>2. CASE UNCHANGED <<step, job>>
    <3>1. Asked' = Asked
      BY <1>1, <2>2 DEF Asked, AppcastContext
    <3> QED
      BY <1>1, <2>2, <3>1 DEF FeedInv, DraftOK
  <2> QED
    BY <2>1, <2>2
<1>6. FeedOK'
  <2>1. \A item : ItemOK(item)' = ItemOK(item)
    BY DEF ItemOK
  <2> QED
    BY <1>1, <2>1 DEF FeedInv, FeedOK, Items
<1> QED
  BY <1>2, <1>3, <1>4, <1>5, <1>6 DEF FeedInv

(* Where the steps of a build lead. *)
LEMMA BuildLandings ==
  ASSUME BuildStep \/ BuildFault
  PROVE  step' \notin WatchedSteps /\ UNCHANGED remoteVars
<1> USE DEF WatchedSteps, FeedSteps, AssetSteps
<1>1. UNCHANGED remoteVars
  BY DEF BuildStep, BuildFault
<1>2. CASE \/ RequirePersona \/ RunOptionalChecks("ran") \/ RunOptionalChecks("skipped")
           \/ step = "early" /\ RunEarlyPreflight(TagsSeen)
           \/ step = "versions" /\ VersionPreflight(TagsSeen)
           \/ step = "generated" /\ GeneratedFilesUnchanged(head.tree)
           \/ step = "quality" /\ QualityGate(TagsSeen)
           \/ step = "installer" /\ ValidateInstaller(TagsSeen)
  BY <1>1, <1>2 DEF RequirePersona, RunEarlyPreflight, VersionPreflight, GeneratedFilesUnchanged,
              QualityGate, RunOptionalChecks, ValidateInstaller, Gate
<1>3. CASE \/ UpdatePubspec \/ UpdateVersionFiles \/ ResolveSettings \/ UseCachedNative
           \/ DownloadNative(TRUE) \/ DownloadNative(FALSE) \/ RecordNative
  BY <1>1, <1>3 DEF UpdatePubspec, UpdateVersionFiles, ResolveSettings, UseCachedNative, DownloadNative,
              RecordNative, AfterNative, Gate
<1>4. CASE \/ \E configures, rewrites \in BOOLEAN, missing \in BundleGaps :
                FlutterBuild(configures, missing, rewrites)
           \/ VerifyBundle \/ BuildElevatedRunner \/ InspectPayload \/ RecordEvidence
           \/ CompileInstaller(CHOOSE id \in BuildIds \ StoredIds : TRUE)
           \/ StepFails \/ BundleTouched
  <2>1. step' \in {"verify", "helper", "inspect", "compile", "record", "done", "installer", "failed"}
    BY <1>4 DEF FlutterBuild, VerifyBundle, BuildElevatedRunner, InspectPayload, RecordEvidence,
                CompileInstaller, StepFails, BundleTouched, Gate
  <2> QED
    BY <1>1, <2>1
<1> QED
  BY <1>1, <1>2, <1>3, <1>4 DEF BuildStep, BuildFault

(* What a step of the publication owes the feed that changes its release. *)
LEMMA OneReleaseFeed ==
  ASSUME ReleaseInv, FeedInv, step \in {"create", "upload", "show"}, step' \notin FeedSteps \cup {"show"},
         UNCHANGED <<tags, job, feedVars>>, NEW r, releases' = [releases EXCEPT ![Tag] = r],
         tags[Tag] # None,
         r.state = "public" => r.prerelease = (r.manifest.payload.channel = "beta"),
         step' \in AssetSteps \ {"create"} => r.prerelease = (job.channel = "beta")
  PROVE  FeedInv'
<1>1. /\ Tag \in Versions /\ DOMAIN releases = Versions
      /\ releases[Tag].state # "public" /\ Tag' = Tag
  BY DEF ReleaseInv, BuildInv, PublishInv, JobOK, ReleaseOK, PublishSteps, AssetSteps, IsReleaseJob, FullVersions, Tag
<1>2. releases'[Tag] = r /\ \A v \in Versions : v # Tag => releases'[v] = releases[v]
  BY <1>1
<1>3. UNCHANGED <<feed, draft, context, pages, served, queued>>
  BY DEF feedVars
<1>4. FeedJobOK'
  BY <1>3 DEF FeedInv, FeedJobOK
<1>5. PublicOK'
  <2>1. \A v \in Versions : (releases'[v].state = "public") =>
          releases'[v].prerelease = (releases'[v].manifest.payload.channel = "beta")
    BY <1>1, <1>2 DEF FeedInv, PublicOK
  <2>2. step' \in AssetSteps \ {"create"} => releases'[Tag].prerelease = (job.channel = "beta")
    BY <1>2
  <2> HIDE DEF Tag
  <2>3. /\ \A v \in Versions : tags'[v] # None => tags'[v].tree.pubspec \in FullVersions
        /\ \A v \in Versions : releases'[v].state # "absent" => tags'[v] # None
    BY <1>1, <1>2 DEF FeedInv, PublicOK
  <2>4. job' = job /\ step' # "show"
    OBVIOUS
  <2> QED
    BY <1>1, <2>1, <2>2, <2>3, <2>4 DEF PublicOK
<1>6. CheckedOK'
  BY DEF CheckedOK, FeedSteps
<1>7. DraftOK'
  BY DEF DraftOK, FeedSteps
<1>8. FeedOK'
  <2>1. ASSUME NEW item, ItemOK(item) PROVE ItemOK(item)'
    BY <1>1, <1>2, <2>1 DEF ItemOK
  <2> QED
    BY <1>3, <2>1 DEF FeedInv, FeedOK, Items
<1> QED
  BY <1>4, <1>5, <1>6, <1>7, <1>8 DEF FeedInv

(* The feed, over a draft that is created. *)
LEMMA DraftFeed ==
  ASSUME ReleaseInv, FeedInv, NEW notes, CreateDraft(notes), UNCHANGED feedVars
  PROVE  FeedInv'
<1> DEFINE beta == job.channel = "beta"
           draftOf == [NoRelease EXCEPT !.state = "draft", !.notes = notes, !.prerelease = beta]
<1>1. step = "create" /\ UNCHANGED <<tags, job>>
      /\ \/ tags[Tag] # None /\ releases' = [releases EXCEPT ![Tag] = draftOf] /\ step' = "upload"
         \/ step' = "failed" /\ UNCHANGED releases
  BY DEF CreateDraft
<1> HIDE DEF beta
<1>2. draftOf.state = "draft" /\ draftOf.prerelease = beta
  BY DEF NoRelease
<1> HIDE DEF draftOf
<1>3. CASE tags[Tag] # None /\ releases' = [releases EXCEPT ![Tag] = draftOf] /\ step' = "upload"
  BY <1>1, <1>2, <1>3, OneReleaseFeed DEF beta, FeedSteps
<1>4. CASE step' = "failed" /\ UNCHANGED releases
  BY <1>1, <1>4, QuietFeed DEF WatchedSteps, FeedSteps, AssetSteps
<1> QED
  BY <1>1, <1>3, <1>4

(* The feed, over assets that are uploaded. *)
LEMMA UploadFeed ==
  ASSUME ReleaseInv, FeedInv, NEW name \in AssetNames, UploadAsset(name) \/ UploadInterrupted(name),
         UNCHANGED feedVars
  PROVE  FeedInv'
<1>1. step = "upload" /\ UNCHANGED <<tags, job>> /\ step' \in {"upload", "verifyUpload", "failed"}
  BY DEF UploadAsset, UploadInterrupted
<1>2. /\ Tag \in Versions /\ releases[Tag].state = "draft" /\ DOMAIN releases = Versions
      /\ IsRelease(releases[Tag]) /\ tags[Tag] # None
  BY <1>1 DEF ReleaseInv, BuildInv, PublishInv, JobOK, ReleaseOK, PublishSteps, AssetSteps, IsReleaseJob,
              FullVersions, Tag, FeedInv, PublicOK
<1>3. PICK stored : releases' = [releases EXCEPT ![Tag][name] = stored]
  BY DEF UploadAsset, UploadInterrupted
<1> DEFINE r == WithAsset(releases[Tag], name, stored)
<1>4. releases' = [releases EXCEPT ![Tag] = r]
  BY <1>3 DEF WithAsset
<1>5. r.state = "draft" /\ r.prerelease = releases[Tag].prerelease
  BY SMT, <1>2, AssetReplaced
<1> HIDE DEF r
<1>6. releases[Tag].prerelease = (job.channel = "beta")
  <2>1. step \in AssetSteps \ {"create"}
    BY <1>1 DEF AssetSteps
  <2> QED
    BY <2>1 DEF FeedInv, PublicOK
<1>7. r.prerelease = (job.channel = "beta")
  BY <1>5, <1>6
<1>8. step' \notin FeedSteps \cup {"show"}
  BY <1>1 DEF FeedSteps
<1> QED
  BY <1>1, <1>2, <1>4, <1>5, <1>7, <1>8, OneReleaseFeed

(* The feed, over a draft that is made public: page and manifest agree on the channel. *)
LEMMA ShowFeed ==
  ASSUME ReleaseInv, FeedInv, PublishDraft, UNCHANGED feedVars
  PROVE  FeedInv'
<1>1. /\ step = "show" /\ UNCHANGED <<tags, job>> /\ step' = "published"
      /\ releases' = [releases EXCEPT ![Tag].state = "public"]
  BY DEF PublishDraft, Proceed
<1>2. /\ Tag \in Versions /\ releases[Tag].state = "draft" /\ DOMAIN releases = Versions
      /\ IsRelease(releases[Tag]) /\ tags[Tag] # None
  BY <1>1 DEF ReleaseInv, BuildInv, PublishInv, JobOK, ReleaseOK, PublishSteps, AssetSteps, IsReleaseJob,
              FullVersions, Tag, FeedInv, PublicOK
<1> DEFINE r == [releases[Tag] EXCEPT !.state = "public"]
<1>3. releases' = [releases EXCEPT ![Tag] = r]
  BY <1>1
<1>4. r.prerelease = releases[Tag].prerelease /\ r.manifest = releases[Tag].manifest
  BY <1>2 DEF IsRelease
<1>5. /\ releases[Tag].prerelease = (job.channel = "beta")
      /\ releases[Tag].manifest.payload.channel = job.channel
  <2>1. step \in AssetSteps \ {"create"}
    BY <1>1 DEF AssetSteps
  <2> QED
    BY <1>1, <2>1 DEF FeedInv, PublicOK
<1> HIDE DEF r
<1>6. r.prerelease = (r.manifest.payload.channel = "beta")
  BY <1>4, <1>5
<1>7. step' \notin FeedSteps \cup {"show"} /\ step' \notin AssetSteps
  BY <1>1 DEF FeedSteps, AssetSteps
<1> QED
  BY <1>1, <1>2, <1>3, <1>6, <1>7, OneReleaseFeed

(* The feed, over a tag that is pushed: a version without a tag has no release. *)
LEMMA PushFeedKept ==
  ASSUME ReleaseInv, FeedInv, PushSource, UNCHANGED feedVars
  PROVE  FeedInv'
<1>1. CASE UNCHANGED tags /\ step' = "failed"
  BY <1>1, QuietFeed DEF PushSource, WatchedSteps, FeedSteps, AssetSteps
<1>2. CASE ~(UNCHANGED tags /\ step' = "failed")
  <2>1. /\ step = "push" /\ UNCHANGED <<releases, job>> /\ tags[Tag] = None
        /\ tags' = [tags EXCEPT ![Tag] = localTag]
        /\ step' = IF metadata = "absent" THEN "create" ELSE "upload"
    BY <1>2 DEF PushSource, Proceed
  <2>2. /\ Tag \in Versions /\ DOMAIN tags = Versions /\ job.kind # "local" /\ job.version \in FullVersions
        /\ Tag' = Tag
    BY <2>1 DEF ReleaseInv, BuildInv, PublishInv, JobOK, MainOK, PublishSteps, IsReleaseJob, FullVersions, Tag
  <2>3. releases[Tag].state = "absent" /\ step' = "create"
    BY <2>1, <2>2 DEF ReleaseInv, PublishInv, ReleaseOK, FeedInv, PublicOK
  <2>4. tags'[Tag] = localTag /\ \A v \in Versions : v # Tag => tags'[v] = tags[v]
    BY <2>1, <2>2
  <2>5. localTag # None => localTag.tree = tree
    BY <2>1 DEF ReleaseInv, PublishInv, TagOK, PublishSteps, AssetSteps
  <2>6. tree.pubspec = job.version
    BY <2>1, <2>2 DEF ReleaseInv, BuildInv, TreeOK, RunSteps, PublishSteps
  <2>7. UNCHANGED <<feed, draft, context, pages, served, queued>>
    BY DEF feedVars
  <2>8. FeedJobOK' /\ CheckedOK' /\ DraftOK'
    BY <2>1, <2>3, <2>7 DEF FeedInv, FeedJobOK, CheckedOK, DraftOK, FeedSteps
  <2>9. PublicOK'
    <3>1. /\ \A v \in Versions : tags'[v] # None => tags'[v].tree.pubspec \in FullVersions
          /\ \A v \in Versions : releases'[v].state # "absent" => tags'[v] # None
      BY <2>1, <2>2, <2>3, <2>4, <2>5, <2>6 DEF FeedInv, PublicOK
    <3>2. \A v \in Versions : releases'[v].state = "public" =>
            releases'[v].prerelease = (releases'[v].manifest.payload.channel = "beta")
      BY <2>1 DEF FeedInv, PublicOK
    <3>3. step' \notin AssetSteps \ {"create"} /\ step' # "show"
      BY <2>3 DEF AssetSteps
    <3> QED
      BY <3>1, <3>2, <3>3 DEF PublicOK
  <2>10. FeedOK'
    <3>1. ASSUME NEW item, ItemOK(item) PROVE ItemOK(item)'
      BY <2>1, <2>2, <2>3, <2>4, <3>1 DEF ItemOK
    <3> QED
      BY <2>7, <3>1 DEF FeedInv, FeedOK, Items
  <2> QED
    BY <2>8, <2>9, <2>10 DEF FeedInv
<1> QED
  BY <1>1, <1>2

(* The feed, over a look at the release: the page is of the channel from then on. *)
LEMMA LookFeed ==
  ASSUME ReleaseInv, FeedInv, ReadMetadata \/ VerifyUploaded, UNCHANGED feedVars
  PROVE  FeedInv'
<1>1. UNCHANGED <<tags, releases, job>> /\ step \notin FeedSteps /\ step' \notin FeedSteps
  BY DEF ReadMetadata, VerifyUploaded, AfterMetadata, Gate, Proceed, remoteVars, FeedSteps
<1>2. step' \in AssetSteps \ {"create"} => releases[Tag].prerelease = (job.channel = "beta")
  <2>1. CASE ReadMetadata
    <3>1. step' = AfterMetadata(releases[Tag]) /\ step = "metadata"
      BY <2>1 DEF ReadMetadata, Proceed
    <3>2. step' \in AssetSteps \ {"create"} =>
            releases[Tag].state # "absent" /\ ~(releases[Tag].prerelease # (job.channel = "beta"))
      <4> DEFINE differs == releases[Tag].prerelease # (job.channel = "beta")
      <4>1. step' = IF releases[Tag].state # "absent" /\ differs THEN "failed"
                    ELSE IF releases[Tag].state = "public"
                         THEN (IF localTag = None THEN "failed" ELSE "verifyPublic")
                    ELSE IF localTag = None THEN "tag"
                    ELSE IF releases[Tag].state = "absent" THEN "create" ELSE "upload"
        BY <3>1 DEF AfterMetadata
      <4> HIDE DEF differs
      <4>2. step' \in AssetSteps \ {"create"} => releases[Tag].state # "absent" /\ ~differs
        BY <4>1 DEF AssetSteps
      <4> QED
        BY <4>2 DEF differs
    <3> QED
      BY <3>2
  <2>2. CASE VerifyUploaded
    <3>1. step = "verifyUpload"
      BY <2>2 DEF VerifyUploaded, Gate
    <3>2. step \in AssetSteps \ {"create"}
      BY <3>1 DEF AssetSteps
    <3> QED
      BY <3>2 DEF FeedInv, PublicOK
  <2> QED
    BY <2>1, <2>2
<1>3. step' = "show" => releases[Tag].manifest.payload.channel = job.channel
  BY DEF ReadMetadata, VerifyUploaded, AfterMetadata, Gate, Proceed, verify_assets, verify_release
<1>4. UNCHANGED <<feed, draft, context, pages, served, queued>>
  BY DEF feedVars
<1>5. FeedJobOK' /\ CheckedOK' /\ DraftOK'
  BY <1>1, <1>4 DEF FeedInv, FeedJobOK, CheckedOK, DraftOK, FeedSteps
<1>6. PublicOK'
  <2>1. Tag' = Tag
    BY <1>1 DEF Tag
  <2> QED
    BY <1>1, <1>2, <1>3, <2>1 DEF FeedInv, PublicOK
<1>7. FeedOK'
  <2>1. \A item : ItemOK(item)' = ItemOK(item)
    BY <1>1 DEF ItemOK
  <2> QED
    BY <1>4, <2>1 DEF FeedInv, FeedOK, Items
<1> QED
  BY <1>5, <1>6, <1>7 DEF FeedInv

(* The feed, over every step of the publication. *)
LEMMA PublicationKeepsTheFeed ==
  ASSUME ReleaseInv, FeedInv, UNCHANGED feedVars,
         PublishStep \/ \E name \in AssetNames : UploadInterrupted(name)
  PROVE  FeedInv'
<1>1. CASE CheckTag \/ CommitVersionBump \/ SignManifest \/ PrepareRelease \/ VerifyPublic \/ TagSource
  <2>1. /\ UNCHANGED <<tags, releases>>
        /\ step' \in {"generated", "sign", "publish", "metadata", "published", "push", "failed"}
    BY <1>1 DEF CheckTag, CommitVersionBump, SignManifest, PrepareRelease, VerifyPublic, TagSource,
                Gate, Proceed, remoteVars
  <2> QED
    BY <2>1, QuietFeed DEF WatchedSteps, FeedSteps, AssetSteps
<1>2. CASE ReadMetadata \/ VerifyUploaded
  BY <1>2, LookFeed
<1>3. CASE PushSource
  BY <1>3, PushFeedKept
<1>4. CASE \E notes \in ReleaseNotes : CreateDraft(notes)
  BY <1>4, DraftFeed
<1>5. CASE \E name \in AssetNames : UploadAsset(name) \/ UploadInterrupted(name)
  BY <1>5, UploadFeed
<1>6. CASE PublishDraft
  BY <1>6, ShowFeed
<1> QED
  BY <1>1, <1>2, <1>3, <1>4, <1>5, <1>6 DEF PublishStep

(* What the context of a feed job says, from the moment its release is checked. *)
LEMMA ContextOfRelease ==
  ASSUME FeedInv, step \in {"feedUpdate", "feedValidate", "feedPush"}, NEW c, c = Asked
  PROVE  /\ job.short \in Versions /\ releases[job.short].state = "public"
         /\ c.version = tags[job.short].tree.pubspec /\ c.version \in FullVersions
         /\ c.version.short = job.short
         /\ c.asset = releases[job.short].setup.id /\ c.manifest = releases[job.short].manifest
         /\ c.channel = job.channel /\ c.channel \in Channels
         /\ releases[job.short].manifest.payload.channel = job.channel
         /\ c.maxItems = MaxItems
         /\ job.preserve /\ Matching(feed, c) # {} =>
              c.rollout = _plug_rollout_percentage(_find_matching_item(feed, c))
<1> DEFINE a == AppcastContext
<1>1. /\ job.short \in Versions /\ job.channel \in Channels
      /\ releases[job.short].state = "public"
      /\ tags[job.short].tree.pubspec.short = job.short
      /\ releases[job.short].manifest.payload.channel = job.channel
  BY DEF FeedInv, FeedJobOK, CheckedOK, FeedSteps
<1>2. tags[job.short].tree.pubspec \in FullVersions
  BY <1>1 DEF FeedInv, PublicOK
<1>3. /\ a.version = tags[job.short].tree.pubspec /\ a.asset = releases[job.short].setup.id
      /\ a.manifest = releases[job.short].manifest /\ a.channel = job.channel /\ a.maxItems = MaxItems
  BY DEF AppcastContext
<1>4. /\ c.version = a.version /\ c.asset = a.asset /\ c.manifest = a.manifest
      /\ c.channel = a.channel /\ c.maxItems = a.maxItems
      /\ job.preserve /\ Matching(feed, a) # {} =>
           c.rollout = _plug_rollout_percentage(_find_matching_item(feed, a))
  <2>1. CASE c = a
    <3>1. ~(job.preserve /\ Matching(feed, a) # {}) \/ c = PreservedRollout(feed, a)
      BY DEF Asked
    <3>2. ASSUME c = PreservedRollout(feed, a), Matching(feed, a) # {}
          PROVE  c.rollout = _plug_rollout_percentage(_find_matching_item(feed, a))
      <4> DEFINE percentage == _plug_rollout_percentage(_find_matching_item(feed, a))
      <4>1. c = [a EXCEPT !.rollout = percentage]
        BY <3>2 DEF PreservedRollout
      <4> HIDE DEF percentage
      <4>2. c.rollout = percentage
        BY <4>1 DEF AppcastContext
      <4> QED
        BY <4>2 DEF percentage
    <3> QED
      BY <2>1, <3>1, <3>2
  <2>2. CASE c # a
    <3> DEFINE percentage == _plug_rollout_percentage(_find_matching_item(feed, a))
    <3>1. c = [a EXCEPT !.rollout = percentage]
      BY <2>2 DEF Asked, PreservedRollout
    <3> HIDE DEF percentage
    <3>2. /\ c.version = a.version /\ c.asset = a.asset /\ c.manifest = a.manifest
          /\ c.channel = a.channel /\ c.maxItems = a.maxItems /\ c.rollout = percentage
      BY <3>1 DEF AppcastContext
    <3> QED
      BY <3>2 DEF percentage
  <2> QED
    BY <2>1, <2>2
<1> HIDE DEF a
<1>5. Matching(feed, c) = Matching(feed, a)
  BY <1>4 DEF Matching, Matches
<1>6. _find_matching_item(feed, c) = _find_matching_item(feed, a)
  BY <1>5 DEF _find_matching_item
<1> QED
  BY <1>1, <1>2, <1>3, <1>4, <1>5, <1>6

(* The items of a release are of the version its source has, or from before builds. *)
LEMMA FeedOfOneVersion ==
  ASSUME FeedInv, NEW c, c.version \in FullVersions, c.version = tags[c.version.short].tree.pubspec
  PROVE  OneVersionEach(feed, c)
<1> SUFFICES ASSUME NEW i \in DOMAIN feed, feed[i].version.short = c.version.short
             PROVE  feed[i].version \in {c.version, WithoutBuild(c.version)}
  BY DEF OneVersionEach
<1>1. c.version.short \in Versions /\ WithoutBuild(c.version) = [short |-> c.version.short, build |-> 0]
  BY SMT DEF FullVersions, WithoutBuild
<1>2. ItemOK(feed[i])
  BY DEF FeedInv, FeedOK, Items
<1>3. CASE feed[i] \in FirstItems
  BY <1>1, <1>3, FeedAssumption
<1>4. CASE feed[i] \notin FirstItems
  BY <1>2, <1>4 DEF ItemOK
<1> QED
  BY <1>3, <1>4

(* A valid feed verifies by itself: its latest item says what the context said. *)
LEMMA ValidVerifies ==
  ASSUME NEW f, NEW c, FeedValid(f, c, TrustedKeys), c.maxItems = MaxItems
  PROVE  InspectValid(f, MaxItems, TrustedKeys)
<1> DEFINE own == context_from_latest_item(f[1], MaxItems)
<1>1. /\ f # <<>> /\ Len(f) <= MaxItems
      /\ ItemValid(f[1], c) /\ SignaturesValid(f[1], c, TrustedKeys)
  BY DEF FeedValid, SmokeValid
<1>2. /\ own.version = c.version /\ own.url = c.url /\ own.asset = c.asset /\ own.channel = c.channel
      /\ own.rollout = c.rollout /\ own.manifest = c.manifest
  BY <1>1 DEF ItemValid, context_from_latest_item
<1> HIDE DEF own
<1>3. canonical_payload(own) = canonical_payload(c)
  BY <1>2 DEF canonical_payload
<1>4. ManifestBindingPayload(own) = ManifestBindingPayload(c)
  BY <1>2, <1>3 DEF ManifestBindingPayload
<1>5. SignaturesValid(f[1], own, TrustedKeys)
  BY <1>1, <1>2, <1>3, <1>4 DEF SignaturesValid
<1> QED
  BY <1>1, <1>5 DEF InspectValid, own

(* What is listed on main stays right while nothing of it changes. *)
LEMMA SameListing ==
  ASSUME FeedInv, UNCHANGED <<tags, releases, feed>>
  PROVE  (\A item \in Items(feed') : ItemOK(item)') /\ OneItemEach(feed')
<1>1. \A item : ItemOK(item)' = ItemOK(item)
  BY DEF ItemOK
<1> QED
  BY <1>1 DEF FeedInv, FeedOK

(* What is said of the releases needs no more than that they stay. *)
LEMMA SamePublic ==
  ASSUME FeedInv, UNCHANGED <<tags, releases>>, step' \notin AssetSteps
  PROVE  PublicOK'
<1>1. step' # "show" /\ step' \notin AssetSteps \ {"create"}
  BY DEF AssetSteps
<1> QED
  BY <1>1 DEF FeedInv, PublicOK

(* An empty feed is within every bound. *)
LEMMA NoItems == <<>> \in Seq(Items(<<>>)) /\ Len(<<>>) <= MaxItems
  BY SMT, FeedAssumption DEF Items

(* The feed, over the start of a feed job. *)
LEMMA StartFeed ==
  ASSUME FeedInv, NEW inputs, BeginFeedJob(inputs), queued' \subseteq queued,
         inputs.kind = "feed", inputs.short \in Versions, inputs.channel \in Channels
  PROVE  FeedInv'
<1>1. /\ step' = "feedPersona" /\ job' = inputs /\ UNCHANGED <<tags, releases, feed, pages, served>>
      /\ draft' = <<>>
  BY DEF BeginFeedJob, remoteVars
<1>2. FeedJobOK'
  BY <1>1 DEF FeedInv, FeedJobOK
<1>3. CheckedOK' /\ DraftOK'
  BY <1>1 DEF CheckedOK, DraftOK
<1>4. PublicOK'
  BY <1>1, SamePublic DEF AssetSteps
<1>5. FeedOK'
  BY <1>1, SameListing, NoItems DEF FeedInv, FeedOK
<1> QED
  BY <1>2, <1>3, <1>4, <1>5 DEF FeedInv

(* The feed, over a release run that gets its feed job in line. *)
LEMMA QueueFeed ==
  ASSUME ReleaseInv, FeedInv, AfterPublication
  PROVE  FeedInv'
<1> DEFINE inputs == [kind |-> "feed", short |-> Tag, channel |-> job.channel,
                      key |-> job.key, rollout |-> InitialRollout, preserve |-> TRUE]
<1>1. /\ step = "published" /\ step' = "done" /\ UNCHANGED <<tags, releases, feed, draft, context, pages, served>>
      /\ queued' = queued \cup {inputs}
  BY DEF AfterPublication, Proceed, remoteVars
<1>2. Tag \in Versions /\ job.channel \in Channels
  BY <1>1 DEF ReleaseInv, BuildInv, JobOK, PublishSteps, IsReleaseJob, FullVersions, Tag
<1>3. inputs.kind = "feed" /\ inputs.short \in Versions /\ inputs.channel \in Channels
  BY <1>2
<1> HIDE DEF inputs
<1>4. FeedJobOK'
  BY <1>1, <1>3 DEF FeedInv, FeedJobOK, FeedSteps
<1>5. CheckedOK' /\ DraftOK'
  BY <1>1 DEF CheckedOK, DraftOK
<1>6. PublicOK'
  BY <1>1, SamePublic DEF AssetSteps
<1>7. FeedOK'
  BY <1>1, SameListing DEF FeedInv, FeedOK
<1> QED
  BY <1>4, <1>5, <1>6, <1>7 DEF FeedInv

(* The feed, over the checks of the feed job. *)
LEMMA CheckFeed ==
  ASSUME FeedInv, FeedPersona \/ LoadRelease \/ VerifyReleaseAssets \/ ValidateFeed
  PROVE  FeedInv'
<1>1. /\ UNCHANGED <<job, tags, releases, feed, draft, context, pages, served, queued>>
      /\ step \in FeedSteps
      /\ step' \in {"feedRelease", "feedAssets", "feedUpdate", "feedPush", "failed"}
  BY DEF FeedPersona, LoadRelease, VerifyReleaseAssets, ValidateFeed, FeedGate, Gate, remoteVars, feedVars, FeedSteps
<1>2. FeedJobOK'
  BY <1>1 DEF FeedInv, FeedJobOK
<1>3. PublicOK'
  BY <1>1, SamePublic DEF AssetSteps
<1>4. FeedOK'
  BY <1>1, SameListing DEF FeedInv, FeedOK
<1>5. CheckedOK'
  <2>1. CASE step' \in {"feedRelease", "failed"}
    BY <2>1 DEF CheckedOK
  <2>2. CASE step' = "feedAssets"
    <3>1. releases[job.short].state = "public"
      BY <2>2 DEF FeedPersona, LoadRelease, VerifyReleaseAssets, ValidateFeed, FeedGate, Gate
    <3> QED
      BY <1>1, <2>2, <3>1 DEF CheckedOK
  <2>3. CASE step' = "feedUpdate"
    <3>1. step = "feedAssets" /\ VerifyReleaseAssets
      BY <2>3 DEF FeedPersona, LoadRelease, VerifyReleaseAssets, ValidateFeed, FeedGate, Gate
    <3>2. tags[job.short].tree.pubspec.short = job.short
          /\ releases[job.short].manifest.payload.channel = job.channel
      BY <2>3, <3>1 DEF VerifyReleaseAssets, FeedGate, Gate, verify_release
    <3> QED
      BY <1>1, <2>3, <3>1, <3>2 DEF FeedInv, CheckedOK
  <2>4. CASE step' = "feedPush"
    <3>1. step = "feedValidate"
      BY <2>4 DEF FeedPersona, LoadRelease, VerifyReleaseAssets, ValidateFeed, FeedGate, Gate
    <3> QED
      BY <1>1, <2>4, <3>1 DEF FeedInv, CheckedOK
  <2> QED
    BY <1>1, <2>1, <2>2, <2>3, <2>4
<1>6. DraftOK'
  <2>1. CASE step' # "feedPush"
    BY <1>1, <2>1 DEF DraftOK
  <2>2. CASE step' = "feedPush"
    <3>1. step = "feedValidate" /\ FeedValid(draft, context, TrustedKeys)
      BY <2>2 DEF FeedPersona, LoadRelease, VerifyReleaseAssets, ValidateFeed, FeedGate, Gate
    <3>2. Asked' = Asked
      BY <1>1 DEF Asked, AppcastContext
    <3>3. context.maxItems = MaxItems
      BY <3>1, ContextOfRelease DEF FeedInv, DraftOK
    <3> QED
      BY <1>1, <2>2, <3>1, <3>2, <3>3 DEF FeedInv, DraftOK
  <2> QED
    BY <2>1, <2>2
<1> QED
  BY <1>2, <1>3, <1>4, <1>5, <1>6 DEF FeedInv

(* The feed, over the item that is written: the draft is made of the feed on main. *)
LEMMA WriteFeed ==
  ASSUME FeedInv, NEW date, UpdateFeed(date)
  PROVE  FeedInv'
<1>1. /\ step = "feedUpdate" /\ step' = "feedValidate" /\ context' = Asked
      /\ draft' = UpdatedFeed(feed, Asked, date, job.key)
      /\ UNCHANGED <<job, tags, releases, feed, pages, served, queued>>
  BY DEF UpdateFeed, write_appcast_tree, Proceed, remoteVars, Asked
<1>2. FeedJobOK'
  BY <1>1 DEF FeedInv, FeedJobOK, FeedSteps
<1>3. PublicOK'
  BY <1>1, SamePublic DEF AssetSteps
<1>4. CheckedOK'
  BY <1>1 DEF FeedInv, CheckedOK
<1>5. DraftOK'
  <2>1. Asked' = Asked
    BY <1>1 DEF Asked, AppcastContext
  <2> QED
    BY <1>1, <2>1 DEF DraftOK
<1>6. FeedOK'
  <2>1. feed \in Seq(Items(feed)) /\ MaxItems \in Nat
    BY FeedAssumption DEF FeedInv, FeedOK
  <2>2. PICK c : c = Asked
    OBVIOUS
  <2>3. c.maxItems = MaxItems
    BY <1>1, <2>2, ContextOfRelease
  <2>4. PICK item : item = UpdatedItem(feed, c, date, job.key)
    OBVIOUS
  <2>5. draft' \in Seq(Items(feed) \cup {item}) /\ Len(draft') <= MaxItems
    <3>1. IsUpdate(draft', feed, c, Items(feed), item)
      BY <1>1, <2>1, <2>2, <2>3, <2>4, UpdatedShape
    <3> QED
      BY <2>3, <3>1 DEF IsUpdate
  <2>6. draft' \in Seq(Items(draft'))
    BY SMT, <2>5 DEF Items
  <2> QED
    BY <1>1, <2>5, <2>6, SameListing DEF FeedInv, FeedOK
<1> QED
  BY <1>2, <1>3, <1>4, <1>5, <1>6 DEF FeedInv

(* The feed, over a push: what was added is of a public release, and the release has one
   item on the channel. *)
LEMMA PushedFeed ==
  ASSUME FeedInv, PushFeed
  PROVE  FeedInv'
<1>1. /\ step = "feedPush" /\ UNCHANGED <<job, tags, releases, draft, context, pages, served, queued>>
      /\ \/ feed' = draft /\ step' = "deploy"
         \/ UNCHANGED feed /\ step' = "failed"
  BY DEF PushFeed, Proceed, remoteVars
<1>2. FeedJobOK'
  BY <1>1 DEF FeedInv, FeedJobOK, FeedSteps
<1>3. PublicOK'
  BY <1>1, SamePublic DEF AssetSteps
<1>4. CheckedOK' /\ DraftOK'
  BY <1>1 DEF FeedInv, CheckedOK, DraftOK
<1>5. CASE UNCHANGED feed
  BY <1>1, <1>2, <1>3, <1>4, <1>5, SameListing DEF FeedInv, FeedOK
<1>6. CASE feed' = draft
  <2>1. PICK date : context = Asked /\ draft = UpdatedFeed(feed, context, date, job.key)
    BY <1>1 DEF FeedInv, DraftOK
  <2>2. PICK c, key, item : c = context /\ key = job.key /\ item = UpdatedItem(feed, c, date, key)
    OBVIOUS
  <2>3. /\ job.short \in Versions /\ releases[job.short].state = "public"
        /\ c.version = tags[job.short].tree.pubspec /\ c.version \in FullVersions
        /\ c.version.short = job.short
        /\ c.asset = releases[job.short].setup.id /\ c.manifest = releases[job.short].manifest
        /\ c.channel = job.channel /\ c.channel \in Channels
        /\ releases[job.short].manifest.payload.channel = job.channel
        /\ c.maxItems = MaxItems
    BY <1>1, <2>1, <2>2, ContextOfRelease
  <2>4. feed \in Seq(Items(feed)) /\ MaxItems \in Nat /\ OneItemEach(feed)
    BY FeedAssumption DEF FeedInv, FeedOK
  <2>5. OneVersionEach(feed, c)
    BY <2>3, FeedOfOneVersion
  <2>6. OneItemEach(feed')
    BY <1>6, <2>1, <2>2, <2>3, <2>4, <2>5, UpdateKeepsOneEach
  <2>7. /\ item.version = c.version /\ item.asset = c.asset /\ item.manifest = c.manifest
        /\ (item.channel = "beta" <=> c.channel = "beta")
    BY SMTT(20), <2>2, <2>3, <2>4, ItemOfContext
  <2>8. ItemOK(item)
    <3>1. releases[job.short].prerelease = (releases[job.short].manifest.payload.channel = "beta")
      BY <2>3 DEF FeedInv, PublicOK
    <3>2. releases[job.short].prerelease = (item.channel = "beta")
      BY <2>3, <2>7, <3>1
    <3>3. item.version.short = job.short
      BY <2>3, <2>7
    <3>4. /\ item.version = tags[job.short].tree.pubspec /\ item.asset = releases[job.short].setup.id
          /\ item.manifest = releases[job.short].manifest
      BY <2>3, <2>7
    <3> QED
      BY <2>3, <3>2, <3>3, <3>4 DEF ItemOK
  <2>9. ASSUME NEW x \in Items(feed') PROVE ItemOK(x)
    <3>1. PICK k \in DOMAIN draft : x = draft[k]
      BY <1>6 DEF Items
    <3>2. draft # <<>> => draft[1] = item
      BY SMTT(20), <2>1, <2>2, <2>3, <2>4, UpdatedItems
    <3>3. k # 1 => \E i \in DOMAIN feed : draft[k] = feed[i]
      BY SMTT(20), <2>1, <2>2, <2>3, <2>4, UpdatedItems
    <3>4. draft # <<>>
      BY SMT, <3>1
    <3> QED
      BY <2>8, <3>1, <3>2, <3>3, <3>4 DEF FeedInv, FeedOK, Items
  <2>10. \A x : ItemOK(x)' = ItemOK(x)
    BY <1>1 DEF ItemOK
  <2>11. FeedOK'
    BY <1>1, <1>6, <2>6, <2>9, <2>10 DEF FeedInv, FeedOK
  <2> QED
    BY <1>2, <1>3, <1>4, <2>11 DEF FeedInv
<1> QED
  BY <1>1, <1>5, <1>6

(* The feed, over the deployment, the smoke attempts and the end of a job. *)
LEMMA DeployedFeed ==
  ASSUME FeedInv, DeployPages \/ SmokeValidate \/ EndJob
  PROVE  FeedInv'
<1>1. UNCHANGED <<tags, releases, feed, served, queued>> /\ (UNCHANGED draft \/ draft' = <<>>)
  BY DEF DeployPages, SmokeValidate, EndJob, Finish, remoteVars
<1>2. \/ step = "deploy" /\ step' = "smoke" /\ UNCHANGED job /\ pages' = draft
      \/ step = "smoke" /\ step' \in {"smoke", "done", "failed"} /\ UNCHANGED <<job, pages>>
      \/ step' = "idle" /\ UNCHANGED pages
  BY DEF DeployPages, SmokeValidate, EndJob, Finish, Proceed
<1>3. FeedJobOK'
  BY <1>1, <1>2 DEF FeedInv, FeedJobOK, FeedSteps
<1>4. PublicOK'
  BY <1>1, <1>2, SamePublic DEF AssetSteps
<1>5. CheckedOK' /\ DraftOK'
  BY <1>2 DEF CheckedOK, DraftOK
<1>6. pages' # FirstFeed => InspectValid(pages', MaxItems, TrustedKeys)
  <2>1. CASE UNCHANGED pages
    BY <2>1 DEF FeedInv, FeedOK
  <2>2. CASE step = "deploy" /\ pages' = draft
    BY <2>2, ValidVerifies DEF FeedInv, DraftOK
  <2> QED
    BY <1>2, <2>1, <2>2
<1>7. FeedOK'
  <2>1. \A f \in {feed', draft', pages', served'} : f \in Seq(Items(f)) /\ Len(f) <= MaxItems
    BY <1>1, <1>2, NoItems DEF FeedInv, FeedOK
  <2> QED
    BY <1>1, <1>6, <2>1, SameListing DEF FeedOK
<1> QED
  BY <1>3, <1>4, <1>5, <1>7 DEF FeedInv

(* The feed, over an edge that serves what is deployed. *)
LEMMA ServedFeed ==
  ASSUME FeedInv, EdgeRefreshes
  PROVE  FeedInv'
<1>1. UNCHANGED <<step, job, tags, releases, feed, draft, context, pages, queued>> /\ served' = pages
  BY DEF EdgeRefreshes, publishVars, buildVars, remoteVars
<1>2. Asked' = Asked /\ Tag' = Tag
  BY <1>1 DEF Asked, AppcastContext, Tag
<1>3. FeedJobOK' /\ CheckedOK' /\ DraftOK'
  BY <1>1, <1>2 DEF FeedInv, FeedJobOK, CheckedOK, DraftOK
<1>4. PublicOK'
  BY <1>1, <1>2 DEF FeedInv, PublicOK
<1>5. FeedOK'
  BY <1>1, SameListing DEF FeedInv, FeedOK
<1> QED
  BY <1>3, <1>4, <1>5 DEF FeedInv

(* The feed's invariant holds at the start. *)
LEMMA FeedStart == Init => FeedInv
<1> SUFFICES ASSUME Init PROVE FeedInv
  OBVIOUS
<1>1. /\ step = "idle" /\ tags = [v \in Versions |-> None] /\ releases = [v \in Versions |-> NoRelease]
      /\ feed = FirstFeed /\ draft = <<>> /\ pages = FirstFeed /\ served = FirstFeed /\ queued = {}
  BY DEF Init, PublishInit, BuildInit
<1>2. FeedJobOK /\ CheckedOK /\ DraftOK
  BY <1>1 DEF FeedJobOK, CheckedOK, DraftOK, FeedSteps
<1>3. \A v \in Versions : tags[v] = None /\ releases[v].state = "absent"
  BY <1>1 DEF NoRelease
<1>4. PublicOK
  <2>1. step # "show" /\ step \notin AssetSteps \ {"create"}
    BY <1>1 DEF AssetSteps
  <2>2. \A v \in Versions : releases[v].state # "public"
    BY <1>3
  <2> QED
    BY <1>3, <2>1, <2>2 DEF PublicOK
<1>5. FeedOK
  <2>1. Items(FirstFeed) = FirstItems
    BY DEF Items, FirstItems
  <2>2. FirstFeed \in Seq(Items(FirstFeed)) /\ Len(FirstFeed) <= MaxItems /\ OneItemEach(FirstFeed)
    BY <2>1, FeedAssumption
  <2>3. \A item \in Items(FirstFeed) : ItemOK(item)
    BY <2>1 DEF ItemOK
  <2> QED
    BY <1>1, <2>2, <2>3, NoItems DEF FeedOK
<1> QED
  BY <1>2, <1>4, <1>5 DEF FeedInv

(* Every step of the pipeline keeps what is said of the feed. *)
LEMMA FeedStep ==
  ASSUME ReleaseInv, FeedInv, Next
  PROVE  FeedInv'
<1>1. CASE (BuildStep \/ BuildFault) /\ UNCHANGED feedVars
  BY <1>1, BuildLandings, QuietFeed DEF remoteVars
<1>2. CASE (PublishStep \/ \E name \in AssetNames : UploadInterrupted(name)) /\ UNCHANGED feedVars
  BY <1>2, PublicationKeepsTheFeed
<1>3. CASE AfterPublication
  BY <1>3, QueueFeed
<1>4. CASE StartFeedJob
  <2>1. PICK inputs \in queued : BeginFeedJob(inputs) /\ queued' = queued \ {inputs}
    BY <1>4 DEF StartFeedJob
  <2>2. inputs.kind = "feed" /\ inputs.short \in Versions /\ inputs.channel \in Channels
    BY <2>1 DEF FeedInv, FeedJobOK
  <2> QED
    BY <2>1, <2>2, StartFeed
<1>5. CASE FeedPersona \/ LoadRelease \/ VerifyReleaseAssets \/ ValidateFeed
  BY <1>5, CheckFeed
<1>6. CASE \E date \in Dates : UpdateFeed(date)
  BY <1>6, WriteFeed
<1>7. CASE PushFeed
  BY <1>7, PushedFeed
<1>8. CASE DeployPages \/ SmokeValidate \/ EndJob
  BY <1>8, DeployedFeed
<1>9. CASE \E version \in Versions, channel \in Channels, rollout \in Rollouts, key \in SigningKeys :
             DispatchFeedUpdate(version, channel, rollout, key)
  <2>1. PICK version \in Versions, channel \in Channels, rollout \in Rollouts, key \in SigningKeys :
          DispatchFeedUpdate(version, channel, rollout, key)
    BY <1>9
  <2>2. PICK inputs : inputs = [kind |-> "feed", short |-> version, channel |-> channel, key |-> key,
                                rollout |-> rollout, preserve |-> FALSE]
    OBVIOUS
  <2>3. BeginFeedJob(inputs) /\ queued' = queued
    BY <2>1, <2>2 DEF DispatchFeedUpdate
  <2>4. inputs.kind = "feed" /\ inputs.short \in Versions /\ inputs.channel \in Channels
    BY <2>2
  <2> QED
    BY <2>3, <2>4, StartFeed
<1>10. CASE EdgeRefreshes
  BY <1>10, ServedFeed
<1>11. CASE /\ \/ \E kind \in {"publish", "dryRun"}, request \in Requests : \E key : StartRelease(kind, request, key)
               \/ \E setting \in LocalSettings, source \in Trees : StartDeveloperBuild(setting, source)
            /\ UNCHANGED feedVars
  <2>1. UNCHANGED <<tags, releases>> /\ step' \in {"early", "persona", "settings"}
    BY <1>11 DEF StartRelease, StartCheckout, StartDeveloperBuild, StartLocal, remoteVars
  <2> QED
    BY <1>11, <2>1, QuietFeed DEF WatchedSteps, FeedSteps, AssetSteps
<1>12. CASE (\E source \in Trees : DeveloperPushes(source)) /\ UNCHANGED feedVars
  BY <1>12, QuietFeed DEF DeveloperPushes, buildVars
<1>13. Environment =>
         \/ /\ \/ \E kind \in {"publish", "dryRun"}, request \in Requests : \E key : StartRelease(kind, request, key)
               \/ \E setting \in LocalSettings, source \in Trees : StartDeveloperBuild(setting, source)
            /\ UNCHANGED feedVars
         \/ (\E source \in Trees : DeveloperPushes(source)) /\ UNCHANGED feedVars
         \/ \E version \in Versions, channel \in Channels, rollout \in Rollouts, key \in SigningKeys :
              DispatchFeedUpdate(version, channel, rollout, key)
         \/ EdgeRefreshes
  BY DEF Environment, RunRelease
<1> QED
  BY <1>1, <1>2, <1>3, <1>4, <1>5, <1>6, <1>7, <1>8, <1>9, <1>10, <1>11, <1>12, <1>13
     DEF Next, JobStep, Fault

(* Only a push changes the feed on main. *)
LEMMA OnlyPushChangesFeed ==
  ASSUME Next, feed' # feed
  PROVE  PushFeed
<1>1. CASE JobStep
  <2>1. StartFeedJob => UNCHANGED feed
    BY DEF StartFeedJob, BeginFeedJob
  <2>2. (\E date \in Dates : UpdateFeed(date)) => UNCHANGED feed
    BY DEF UpdateFeed
  <2>3. AfterPublication \/ EndJob \/ DeployPages \/ SmokeValidate => UNCHANGED feed
    BY DEF AfterPublication, EndJob, DeployPages, SmokeValidate
  <2>4. FeedPersona \/ LoadRelease \/ VerifyReleaseAssets \/ ValidateFeed => UNCHANGED feed
    BY DEF FeedPersona, LoadRelease, VerifyReleaseAssets, ValidateFeed, FeedGate, feedVars
  <2>5. UNCHANGED feedVars => UNCHANGED feed
    BY DEF feedVars
  <2> QED
    BY <1>1, <2>1, <2>2, <2>3, <2>4, <2>5 DEF JobStep
<1>2. CASE Fault
  BY <1>2 DEF Fault, feedVars
<1>3. CASE Environment
  BY <1>3 DEF Environment, RunRelease, DispatchFeedUpdate, BeginFeedJob, EdgeRefreshes, feedVars
<1> QED
  BY <1>1, <1>2, <1>3 DEF Next

\* A step counts at most one fault, and only while there is one left.
CountsOn ==
  /\ UNCHANGED faults \/ (faults < MaxFaults /\ faults' = faults + 1)
  /\ native' \in {"none", "binary", "torn", "recorded"}
  /\ uploads' \subseteq AssetNames

(* Every step counts its faults. *)
LEMMA CountsStep ==
  ASSUME CountsOK, Next
  PROVE  CountsOK'
<1> SUFFICES CountsOn
  BY SMT, SettingsAssumption DEF CountsOK, CountsOn
<1>0. native \in {"none", "binary", "torn", "recorded"} /\ uploads \subseteq AssetNames
  BY DEF CountsOK
<1>1. CASE BuildStep
  <2>1. UNCHANGED uploads
    BY <1>1 DEF BuildStep, checkoutVars
  <2>2. CASE \/ RequirePersona \/ RunOptionalChecks("ran")
             \/ step = "early" /\ RunEarlyPreflight(TagsSeen)
             \/ step = "versions" /\ VersionPreflight(TagsSeen)
             \/ step = "generated" /\ GeneratedFilesUnchanged(head.tree)
             \/ step = "quality" /\ QualityGate(TagsSeen)
             \/ step = "installer" /\ ValidateInstaller(TagsSeen)
    <3>1. UNCHANGED <<faults, native>>
      BY <2>2 DEF RequirePersona, RunEarlyPreflight, VersionPreflight, GeneratedFilesUnchanged,
                  QualityGate, RunOptionalChecks, ValidateInstaller, Gate
    <3> QED
      BY <1>0, <2>1, <3>1 DEF CountsOn
  <2>3. CASE \/ UpdatePubspec \/ UpdateVersionFiles \/ ResolveSettings \/ UseCachedNative
             \/ DownloadNative(TRUE) \/ RecordNative
    <3>1. UNCHANGED faults /\ native' \in {native, "binary", "recorded"}
      BY <2>3 DEF UpdatePubspec, UpdateVersionFiles, ResolveSettings, UseCachedNative, DownloadNative,
                  RecordNative, Gate
    <3> QED
      BY <1>0, <2>1, <3>1 DEF CountsOn
  <2>4. CASE \E configures, rewrites \in BOOLEAN, missing \in BundleGaps :
               FlutterBuild(configures, missing, rewrites)
    <3>1. UNCHANGED native /\ (UNCHANGED faults \/ (faults < MaxFaults /\ faults' = faults + 1))
      BY <2>4 DEF FlutterBuild
    <3> QED
      BY <1>0, <2>1, <3>1 DEF CountsOn
  <2>5. CASE \/ VerifyBundle \/ BuildElevatedRunner \/ InspectPayload \/ RecordEvidence
             \/ CompileInstaller(CHOOSE id \in BuildIds \ StoredIds : TRUE)
    <3>1. UNCHANGED <<faults, native>>
      BY <2>5 DEF VerifyBundle, BuildElevatedRunner, InspectPayload, RecordEvidence, CompileInstaller, Gate
    <3> QED
      BY <1>0, <2>1, <3>1 DEF CountsOn
  <2> QED
    BY <1>1, <2>2, <2>3, <2>4, <2>5 DEF BuildStep
<1>2. CASE BuildFault
  <2>1. /\ UNCHANGED uploads /\ native' \in {native, "torn"}
        /\ faults < MaxFaults /\ faults' = faults + 1
    BY <1>2 DEF BuildFault, checkoutVars, StepFails, BundleTouched, DownloadNative, RunOptionalChecks
  <2> QED
    BY <1>0, <2>1 DEF CountsOn
<1>3. CASE CheckTag \/ CommitVersionBump \/ SignManifest \/ PrepareRelease \/ VerifyPublic \/ TagSource
           \/ VerifyUploaded \/ PublishDraft
  <2>1. UNCHANGED <<faults, native, uploads>>
    BY <1>3 DEF CheckTag, CommitVersionBump, SignManifest, PrepareRelease, VerifyPublic, TagSource,
                VerifyUploaded, PublishDraft, Gate, Proceed, checkoutVars
  <2> QED
    BY <1>0, <2>1 DEF CountsOn
<1>4. CASE ReadMetadata \/ PushSource
  <2>1. UNCHANGED <<faults, native>> /\ uploads' \in {AssetNames, {}}
    BY <1>4 DEF ReadMetadata, PushSource, Proceed
  <2> QED
    BY <1>0, <2>1 DEF CountsOn
<1>5. CASE \/ \E notes \in ReleaseNotes : CreateDraft(notes)
           \/ \E name \in AssetNames : UploadAsset(name) \/ UploadInterrupted(name)
  <2>1. UNCHANGED native /\ (UNCHANGED faults \/ (faults < MaxFaults /\ faults' = faults + 1))
    BY <1>5 DEF CreateDraft, UploadAsset, UploadInterrupted
  <2>2. uploads' \in {AssetNames, uploads} \/ \E name : uploads' = uploads \ {name}
    BY <1>5 DEF CreateDraft, UploadAsset, UploadInterrupted, checkoutVars
  <2> QED
    BY <1>0, <2>1, <2>2 DEF CountsOn
<1>6. CASE AfterPublication \/ PushFeed \/ DeployPages \/ SmokeValidate
           \/ FeedPersona \/ LoadRelease \/ VerifyReleaseAssets \/ ValidateFeed
           \/ \E date \in Dates : UpdateFeed(date)
  <2>1. UNCHANGED <<faults, native, uploads>>
    BY <1>6 DEF AfterPublication, PushFeed, DeployPages, SmokeValidate, FeedPersona, LoadRelease,
                VerifyReleaseAssets, ValidateFeed, FeedGate, Gate, UpdateFeed, Proceed, checkoutVars
  <2> QED
    BY <1>0, <2>1 DEF CountsOn
<1>7. CASE StartFeedJob \/ EndJob
  <2>1. UNCHANGED faults /\ native' \in {native, "none"} /\ uploads' = {}
    BY <1>7 DEF StartFeedJob, BeginFeedJob, EndJob, Finish
  <2> QED
    BY <1>0, <2>1 DEF CountsOn
<1>8. CASE Environment
  <2>1. CASE \E version \in Versions, channel \in Channels, rollout \in Rollouts, key \in SigningKeys :
               DispatchFeedUpdate(version, channel, rollout, key)
    <3>1. native' = "none" /\ uploads' = {} /\ (UNCHANGED faults \/ (faults < MaxFaults /\ faults' = faults + 1))
      BY <2>1 DEF DispatchFeedUpdate, BeginFeedJob
    <3> QED
      BY <1>0, <3>1 DEF CountsOn
  <2>2. CASE ~\E version \in Versions, channel \in Channels, rollout \in Rollouts, key \in SigningKeys :
               DispatchFeedUpdate(version, channel, rollout, key)
    <3>1. UNCHANGED faults /\ native' \in {native, "none"} /\ uploads' \in {uploads, {}}
      BY <1>8, <2>2 DEF Environment, RunRelease, StartRelease, StartCheckout, StartDeveloperBuild, StartLocal,
                        DeveloperPushes, EdgeRefreshes, publishVars, buildVars, checkoutVars
    <3> QED
      BY <1>0, <3>1 DEF CountsOn
  <2> QED
    BY <2>1, <2>2
<1> QED
  BY <1>1, <1>2, <1>3, <1>4, <1>5, <1>6, <1>7, <1>8 DEF Next, JobStep, Fault, PublishStep

(* Nothing is counted at the start. *)
LEMMA CountsStart == Init => CountsOK
  BY SMT, SettingsAssumption DEF Init, PublishInit, BuildInit, CountsOK

(* The inductive invariant of the pipeline with its feed, for any versions, sources,      *)
(* requests, keys and rollouts, any number of faults and any bound on the feed's length.  *)
THEOREM FeedInvariant == Spec => [](ReleaseInv /\ FeedInv /\ CountsOK)
<1>1. Init => FeedInv /\ CountsOK
  BY FeedStart, CountsStart
<1>2. ReleaseInv /\ FeedInv /\ CountsOK /\ [Next]_vars => FeedInv' /\ CountsOK'
  <2>1. CASE Next
    BY <2>1, FeedStep, CountsStep
  <2>2. ASSUME FeedInv, CountsOK, UNCHANGED vars PROVE FeedInv' /\ CountsOK'
    <3>1. UNCHANGED <<tags, releases, feedVars, step, job, faults, native, uploads>>
      BY <2>2 DEF vars, publishVars, buildVars, remoteVars, checkoutVars
    <3>2. FeedInv'
      BY <2>2, <3>1, QuietFeed
    <3> QED
      BY <2>2, <3>1, <3>2 DEF CountsOK
  <2> QED
    BY <2>1, <2>2
<1> QED
  BY <1>1, <1>2, ReleaseInvariant, PTL DEF Spec

(* A tag on origin names a commit of main; an item that was added to the feed names a     *)
(* public release of its channel, with the bytes and the manifest of its page; a release  *)
(* has one item on a channel; and once something was deployed, its latest item verifies   *)
(* with the keys clients trust (publish_release.py, appcast_manager.py).                  *)
THEOREM FeedAboutReleases == Spec => []FeedIsAboutReleases
<1>1. ReleaseInv /\ FeedInv /\ CountsOK => FeedIsAboutReleases
  <2> SUFFICES ASSUME ReleaseInv, FeedInv, CountsOK PROVE FeedIsAboutReleases
    OBVIOUS
  <2>1. TypeOK
    BY DEF CountsOK, ReleaseInv, PublishInv, ReleaseOK, IsRelease, FeedInv, FeedOK, TypeOK
  <2>2. \A v \in Versions : tags[v] # None => tags[v].n \in DOMAIN main /\ main[tags[v].n] = tags[v].tree
    BY DEF ReleaseInv, PublishInv, MainOK
  <2>3. ASSUME NEW i \in DOMAIN feed, feed[i] \notin FirstItems
        PROVE  LET release == releases[feed[i].version.short] IN
               /\ release.state = "public"
               /\ feed[i].asset = release.setup.id
               /\ feed[i].manifest = release.manifest
               /\ release.prerelease = (feed[i].channel = "beta")
    <3>1. ItemOK(feed[i])
      BY DEF FeedInv, FeedOK, Items
    <3> QED
      BY <2>3, <3>1 DEF ItemOK
  <2>4. OneItemEach(feed) /\ (pages # FirstFeed => InspectValid(pages, MaxItems, TrustedKeys))
    BY DEF FeedInv, FeedOK
  <2> QED
    BY <2>1, <2>2, <2>3, <2>4 DEF FeedIsAboutReleases
<1> QED
  BY <1>1, FeedInvariant, PTL

(* What a push leaves of the feed it found. *)
LEMMA PushKeeps ==
  ASSUME FeedInv, PushFeed, feed' # feed
  PROVE  /\ LET others == Others(feed, context)
                kept == Tail(feed')
            IN Len(kept) <= Len(others) /\ kept = SubSeq(others, 1, Len(kept))
         /\ \A i \in DOMAIN feed, j \in DOMAIN feed' :
              /\ feed[i].version.short = feed'[j].version.short
              /\ _plug_channel(feed[i]) = _plug_channel(feed'[j])
              => /\ feed'[j].date = feed[i].date
                 /\ job.preserve =>
                      _plug_rollout_percentage(feed'[j]) = _plug_rollout_percentage(feed[i])
<1>1. step = "feedPush" /\ feed' = draft
  BY DEF PushFeed
<1>2. PICK date : context = Asked /\ draft = UpdatedFeed(feed, context, date, job.key)
  BY <1>1 DEF FeedInv, DraftOK
<1>3. PICK c, key, item : c = context /\ key = job.key /\ item = UpdatedItem(feed, c, date, key)
  OBVIOUS
<1>4. /\ c.version = tags[c.version.short].tree.pubspec /\ c.version \in FullVersions
      /\ c.channel \in Channels /\ c.maxItems = MaxItems
      /\ job.preserve /\ Matching(feed, c) # {} =>
           c.rollout = _plug_rollout_percentage(_find_matching_item(feed, c))
  BY <1>1, <1>2, <1>3, ContextOfRelease
<1>5. feed \in Seq(Items(feed)) /\ MaxItems \in Nat /\ OneItemEach(feed) /\ draft # <<>>
  BY <1>1, FeedAssumption DEF FeedInv, FeedOK, DraftOK, FeedValid
<1>6. OneVersionEach(feed, c)
  BY <1>4, FeedOfOneVersion
<1>7. PICK u : u = feed'
  OBVIOUS
<1>8. u = UpdatedFeed(feed, c, date, key) /\ u # <<>>
  BY <1>1, <1>2, <1>3, <1>5, <1>7
<1>9. LET others == Others(feed, c)
          kept == Tail(u)
      IN Len(kept) <= Len(others) /\ kept = SubSeq(others, 1, Len(kept))
  <2> DEFINE o == Others(feed, c)
             X == Items(feed) \cup {item}
  <2>1. /\ u \in Seq(X) /\ Len(u) \in Nat /\ Len(u) <= Len(o) + 1 /\ Len(o) \in Nat
        /\ \A k \in 1..Len(u) : u[k] = IF k = 1 THEN item ELSE o[k - 1]
    <3>1. IsUpdate(u, feed, c, Items(feed), item)
      BY <1>3, <1>4, <1>5, <1>8, UpdatedShape
    <3> QED
      BY <3>1 DEF IsUpdate
  <2>2. o \in Seq(Items(feed))
    BY <1>5, OtherItems
  <2>3. o \in Seq(X)
    BY SMT, <2>2
  <2> HIDE DEF o, X
  <2>4. Len(u) >= 1
    BY SMTT(20), <1>8, <2>1
  <2>5. Tail(u) \in Seq(X) /\ Len(Tail(u)) = Len(u) - 1 /\ \A k \in 1..(Len(u) - 1) : Tail(u)[k] = u[k + 1]
    BY SMTT(20), <1>8, <2>1
  <2>6. \A k \in 1..(Len(u) - 1) : Tail(u)[k] = o[k]
    BY SMTT(20), <2>1, <2>5
  <2>7. PICK n \in Nat : n = Len(u) - 1 /\ n <= Len(o)
    BY SMTT(20), <2>1, <2>4
  <2>8. SubSeq(o, 1, n) \in Seq(X) /\ Len(SubSeq(o, 1, n)) = n /\ \A k \in 1..n : SubSeq(o, 1, n)[k] = o[k]
    BY SMTT(20), <2>1, <2>3, <2>7
  <2>9. Tail(u) = SubSeq(o, 1, n)
    BY SMTT(20), <2>5, <2>6, <2>7, <2>8
  <2> QED
    BY <2>5, <2>7, <2>9 DEF o
<1>10. ASSUME NEW i \in DOMAIN feed, NEW j \in DOMAIN u,
              feed[i].version.short = u[j].version.short, _plug_channel(feed[i]) = _plug_channel(u[j])
       PROVE  /\ u[j].date = feed[i].date
              /\ job.preserve => _plug_rollout_percentage(u[j]) = _plug_rollout_percentage(feed[i])
  BY SMTT(20), <1>4, <1>5, <1>6, <1>8, <1>10, UpdateKeepsItems
<1> QED
  BY <1>3, <1>7, <1>9, <1>10

(* A push of the feed leaves the items of the other releases as they are and in their     *)
(* order, and drops none but the oldest; of a release it lists again it keeps the date,   *)
(* and a release run the rollout too (update_appcast_tree, --preserve-existing-rollout).  *)
THEOREM PushKeepsListing == Spec => PushKeepsWhatIsListed
<1> DEFINE Kept ==
      feed' # feed =>
       /\ LET others == Others(feed, context)
              kept == Tail(feed')
          IN Len(kept) <= Len(others) /\ kept = SubSeq(others, 1, Len(kept))
       /\ \A i \in DOMAIN feed, j \in DOMAIN feed' :
            /\ feed[i].version.short = feed'[j].version.short
            /\ _plug_channel(feed[i]) = _plug_channel(feed'[j])
            => /\ feed'[j].date = feed[i].date
               /\ job.preserve =>
                    _plug_rollout_percentage(feed'[j]) = _plug_rollout_percentage(feed[i])
<1>1. FeedInv /\ [Next]_vars => [Kept]_vars
  <2>1. ASSUME FeedInv, Next PROVE Kept
    BY <2>1, OnlyPushChangesFeed, PushKeeps
  <2> QED
    BY <2>1
<1>2. [][Kept]_vars <=> PushKeepsWhatIsListed
  BY DEF PushKeepsWhatIsListed
<1> QED
  BY <1>1, <1>2, FeedInvariant, PTL DEF Spec

=============================================================================
