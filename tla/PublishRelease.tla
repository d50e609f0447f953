--------------------------- MODULE PublishRelease ---------------------------
(* The second half of a release job: the version bump is committed, the
   manifest signed, and publish_release.py tags the source, pushes it, fills a
   draft release and makes it public. The job runs on a fresh checkout; what
   survives it is origin (main and the tags) and the releases on GitHub. Jobs
   run one at a time (the workflow's concurrency groups); developers push to
   main at any moment.

   A commit is [n, tree]: its place in main's history and what it contains
   (appcast.xml apart, which no comparison of sources looks at).             *)
EXTENDS InstallerBuild

CONSTANTS
  FirstTree,     \* the source main starts with
  Requests,      \* [version, channel] of the releases asked for
  SigningKeys,   \* manifest and feed keys a job may be given
  TrustedKeys,   \* those the public key list names
  ReleaseNotes,  \* what GitHub may generate as the notes of a release
  MaxPushes      \* pushes by developers

ASSUME ReleasesAssumption ==
  /\ IsTree(FirstTree)
  /\ \A request \in Requests : request.version \in FullVersions /\ request.channel \in Channels
  /\ "damaged" \notin BuildIds

VARIABLES
  main,       \* main on origin, a sequence of trees
  tags,       \* the tags on origin
  releases,   \* the releases on GitHub
  pushes,     \* developer pushes so far
  base,       \* how many commits main had at the checkout
  head,       \* HEAD of the checkout
  localTag,   \* the release tag in the checkout
  manifest,   \* the signed manifest in installer/dist
  metadata,   \* the state of the release when the job looked it up
  uploads     \* assets still to be uploaded

remoteVars == <<main, tags, releases, pushes>>
checkoutVars == <<base, head, localTag, manifest, metadata, uploads>>
publishVars == <<buildVars, remoteVars, checkoutVars>>

AssetNames == {"setup", "manifest"}

NoRelease ==
  [state |-> "absent", prerelease |-> FALSE, notes |-> "brief", setup |-> None, manifest |-> None]

Damaged == [id |-> "damaged", damaged |-> TRUE]

Last(s) == s[Len(s)]

PublishInit ==
  /\ BuildInit(FirstTree)
  /\ main = <<FirstTree>>
  /\ tags = [v \in Versions |-> None]
  /\ releases = [v \in Versions |-> NoRelease]
  /\ pushes = 0
  /\ base = 0
  /\ head = None
  /\ localTag = None
  /\ manifest = None
  /\ metadata = "unread"
  /\ uploads = {}

Tag == job.version.short

Proceed(next) ==
  /\ step' = next
  /\ UNCHANGED <<job, tree, native, bundle, dist, evidence, faults>>

----------------------------------------------------------------------------
(* The job's checkout and its end. *)

StartRelease(kind, request, key) ==
  /\ StartCheckout([kind |-> kind, version |-> request.version, channel |-> request.channel,
                    key |-> key], Last(main))
  /\ base' = Len(main)
  /\ head' = [n |-> Len(main), tree |-> Last(main)]
  /\ localTag' = tags[request.version.short]
  /\ manifest' = None
  /\ metadata' = "unread"
  /\ uploads' = {}
  /\ UNCHANGED remoteVars

StartDeveloperBuild(setting, source) ==
  /\ StartLocal(setting, source)
  /\ UNCHANGED <<remoteVars, checkoutVars>>

(* A runner is thrown away with everything on it. *)
Finish ==
  /\ step \in {"done", "failed"}
  /\ step' = "idle"
  /\ job' = None
  /\ tree' = main[1]
  /\ IF job.kind = "local" THEN UNCHANGED <<native, bundle, dist, evidence>>
     ELSE native' = "none" /\ bundle' = None /\ dist' = None /\ evidence' = None
  /\ base' = 0 /\ head' = None /\ localTag' = None
  /\ manifest' = None /\ metadata' = "unread" /\ uploads' = {}
  /\ UNCHANGED <<faults, remoteVars>>

DeveloperPushes(source) ==
  /\ pushes < MaxPushes
  /\ source # Last(main)
  /\ main' = Append(main, source)
  /\ pushes' = pushes + 1
  /\ UNCHANGED <<tags, releases, buildVars, checkoutVars>>

----------------------------------------------------------------------------
(* Reads of the checkout. *)

(* tagged_source: the tag is absent, or names the source that is checked out. *)
TagIsCompatible == localTag # None => localTag.tree = tree

SourceCommit == IF localTag # None THEN localTag ELSE head

CheckTag == Gate("checkTag", "generated", TagIsCompatible) /\ UNCHANGED <<remoteVars, checkoutVars>>

WithVersionFiles(source, versions) ==
  [source EXCEPT !.pubspec = versions.pubspec, !.setup = versions.setup, !.gen = versions.gen]

CommitVersionBump ==
  LET index == WithVersionFiles(head.tree, tree) IN
  /\ step = "commit"
  /\ head' = IF localTag # None \/ index = head.tree THEN head
             ELSE [n |-> head.n + 1, tree |-> index]
  /\ Proceed(IF tree = index THEN "sign" ELSE "failed")
  /\ UNCHANGED <<base, localTag, manifest, metadata, uploads, remoteVars>>

(* tool/updater/manifest.py *)
Payload(version, channel, commit, installer) ==
  [version |-> version, channel |-> channel, commit |-> commit, tag |-> version.short,
   name |-> installer.name, installer |-> installer.id]

validate_payload(payload) ==
  /\ payload.channel \in Channels \union {"internal"}
  /\ payload.tag = payload.version.short
  /\ payload.name = payload.version.short

sign(payload, key) == [payload |-> payload, key |-> key]

SignManifest ==
  LET payload == Payload(job.version, job.channel, SourceCommit, dist) IN
  /\ step = "sign"
  /\ IF TagIsCompatible /\ validate_payload(payload)
     THEN manifest' = sign(payload, job.key) /\ Proceed("publish")
     ELSE Proceed("failed") /\ UNCHANGED manifest
  /\ UNCHANGED <<base, head, localTag, metadata, uploads, remoteVars>>

----------------------------------------------------------------------------
(* publish_release.py *)

verify(envelope, trusted) ==
  /\ envelope # None /\ envelope # Damaged
  /\ envelope.key \in trusted
  /\ validate_payload(envelope.payload)

(* tool/updater/verify_release.py: a trusted key signed the manifest, and it
   describes these installer bytes, this version, channel and commit.        *)
verify_release(envelope, installer, version, channel, commit) ==
  /\ installer # None
  /\ verify(envelope, TrustedKeys)
  /\ envelope.payload.version = version
  /\ envelope.payload.channel = channel
  /\ envelope.payload.commit = commit
  /\ envelope.payload.installer = installer.id

verify_assets(installer, envelope) ==
  verify_release(envelope, installer, job.version, job.channel, SourceCommit)

PrepareRelease ==
  /\ Gate("publish", "metadata",
          /\ ChangelogValid(Changelog[tree.log], job.version, TRUE)
          /\ TagIsCompatible
          /\ verify_assets(dist, manifest))
  /\ UNCHANGED <<remoteVars, checkoutVars>>

(* Faulty: a release that exists already is never touched again. *)
AfterMetadataOfNewRelease(release) ==
  IF release.state # "absent" THEN "failed" ELSE IF localTag = None THEN "tag" ELSE "create"

(* What release_metadata and the branches on it decide to do next. *)
AfterMetadata(release) ==
  IF release.state # "absent" /\ release.prerelease # (job.channel = "beta") THEN "failed"
  ELSE IF release.state = "public" THEN (IF localTag = None THEN "failed" ELSE "verifyPublic")
  ELSE IF localTag = None THEN "tag"
  ELSE IF release.state = "absent" THEN "create" ELSE "upload"

ReadMetadata ==
  LET next == AfterMetadata(releases[Tag]) IN
  /\ step = "metadata"
  /\ Proceed(next)
  /\ metadata' = releases[Tag].state
  /\ uploads' = IF next = "upload" THEN AssetNames ELSE {}
  /\ UNCHANGED <<base, head, localTag, manifest, remoteVars>>

(* Faulty: what is public already needs no feed job any more. *)
VerifyPublicOnly ==
  /\ Gate("verifyPublic", "done",
          verify_assets(releases[Tag].setup, releases[Tag].manifest))
  /\ UNCHANGED <<remoteVars, checkoutVars>>

VerifyPublic ==
  /\ Gate("verifyPublic", "published",
          verify_assets(releases[Tag].setup, releases[Tag].manifest))
  /\ UNCHANGED <<remoteVars, checkoutVars>>

TagSource ==
  /\ step = "tag"
  /\ IF tree = head.tree THEN localTag' = head /\ Proceed("push")
     ELSE Proceed("failed") /\ UNCHANGED localTag
  /\ UNCHANGED <<base, head, manifest, metadata, uploads, remoteVars>>

(* git push --atomic: main and the tag move together, or neither does. *)
PushSource ==
  /\ step = "push"
  /\ IF Len(main) = base /\ tags[Tag] = None
     THEN /\ main' = IF head.n = base THEN main ELSE Append(main, head.tree)
          /\ tags' = [tags EXCEPT ![Tag] = localTag]
          /\ Proceed(IF metadata = "absent" THEN "create" ELSE "upload")
     ELSE Proceed("failed") /\ UNCHANGED <<main, tags>>
  /\ uploads' = IF step' = "upload" THEN AssetNames ELSE {}
  /\ UNCHANGED <<releases, pushes, base, head, localTag, manifest, metadata>>

(* GitHub generates the notes. Notes that come to be cut at white space are as
   rare as a fault, and are counted as one.                                  *)
CreateDraft(notes) ==
  /\ step = "create"
  /\ notes # "brief" => faults < MaxFaults
  /\ faults' = IF notes # "brief" THEN faults + 1 ELSE faults
  /\ IF tags[Tag] # None
     THEN /\ releases' = [releases EXCEPT ![Tag] =
                            [NoRelease EXCEPT !.state = "draft", !.notes = notes,
                                              !.prerelease = (job.channel = "beta")]]
          /\ uploads' = AssetNames
          /\ step' = "upload"
     ELSE step' = "failed" /\ UNCHANGED <<releases, uploads>>
  /\ UNCHANGED <<job, tree, native, bundle, dist, evidence>>
  /\ UNCHANGED <<main, tags, pushes, base, head, localTag, manifest, metadata>>

LocalAsset(name) == IF name = "setup" THEN dist ELSE manifest

(* gh release upload --clobber sends the files in any order. What GitHub then
   serves is the file or, by a fault, a damaged one or the one before.       *)
UploadAsset(name) ==
  /\ step = "upload"
  /\ name \in uploads
  /\ \E stored \in {LocalAsset(name), Damaged, releases[Tag][name]} :
       /\ stored # LocalAsset(name) => faults < MaxFaults
       /\ faults' = IF stored # LocalAsset(name) THEN faults + 1 ELSE faults
       /\ releases' = [releases EXCEPT ![Tag][name] = stored]
  /\ uploads' = uploads \ {name}
  /\ step' = IF uploads = {name} THEN "verifyUpload" ELSE "upload"
  /\ UNCHANGED <<job, tree, native, bundle, dist, evidence>>
  /\ UNCHANGED <<main, tags, pushes, base, head, localTag, manifest, metadata>>

(* Cut off between deleting an old asset and sending the new one. *)
UploadInterrupted(name) ==
  /\ step = "upload"
  /\ name \in uploads
  /\ faults < MaxFaults
  /\ faults' = faults + 1
  /\ releases' = [releases EXCEPT ![Tag][name] = None]
  /\ step' = "failed"
  /\ UNCHANGED <<job, tree, native, bundle, dist, evidence>>
  /\ UNCHANGED <<main, tags, pushes, checkoutVars>>

(* Faulty: the assets are only looked up by name. *)
VerifyUploadedNames ==
  /\ Gate("verifyUpload", "show", releases[Tag].setup # None /\ releases[Tag].manifest # None)
  /\ UNCHANGED <<remoteVars, checkoutVars>>

VerifyUploaded ==
  LET release == releases[Tag] IN
  /\ Gate("verifyUpload", "show",
          /\ verify_assets(release.setup, release.manifest)
          /\ release.setup.id = dist.id
          /\ release.manifest = manifest)
  /\ UNCHANGED <<remoteVars, checkoutVars>>

PublishDraft ==
  /\ step = "show"
  /\ releases' = [releases EXCEPT ![Tag].state = "public"]
  /\ Proceed("published")
  /\ UNCHANGED <<main, tags, pushes, checkoutVars>>

----------------------------------------------------------------------------
StoredIds ==
  (IF dist = None THEN {} ELSE {dist.id})
    \union (IF evidence = None THEN {} ELSE {evidence.installer})
    \union {releases[v].setup.id : v \in {w \in Versions : releases[w].setup # None}}

(* Where the version of the job is tagged, as git shows it to the job. *)
TagsSeen ==
  (IF localTag = None THEN {} ELSE {"local"})
    \union (IF tags[Tag] = None THEN {} ELSE {"remote"})

BuildStep ==
  /\ \/ RequirePersona
     \/ step = "early" /\ RunEarlyPreflight(TagsSeen)
     \/ UpdatePubspec
     \/ UpdateVersionFiles
     \/ step = "versions" /\ VersionPreflight(TagsSeen)
     \/ step = "generated" /\ GeneratedFilesUnchanged(head.tree)
     \/ step = "quality" /\ QualityGate(TagsSeen)
     \/ RunOptionalChecks("ran")
     \/ ResolveSettings
     \/ UseCachedNative
     \/ DownloadNative(TRUE)
     \/ RecordNative
     \/ \E configures, rewrites \in BOOLEAN, missing \in BundleGaps :
          FlutterBuild(configures, missing, rewrites)
     \/ VerifyBundle
     \/ BuildElevatedRunner
     \/ InspectPayload
     \/ BuildIds \ StoredIds # {} /\ CompileInstaller(CHOOSE id \in BuildIds \ StoredIds : TRUE)
     \/ RecordEvidence
     \/ step = "installer" /\ ValidateInstaller(TagsSeen)
  /\ UNCHANGED <<remoteVars, checkoutVars>>

BuildFault ==
  /\ StepFails \/ BundleTouched \/ DownloadNative(FALSE) \/ RunOptionalChecks("skipped")
  /\ UNCHANGED <<remoteVars, checkoutVars>>

PublishStep ==
  \/ CheckTag
  \/ CommitVersionBump
  \/ SignManifest
  \/ PrepareRelease
  \/ ReadMetadata
  \/ VerifyPublic
  \/ TagSource
  \/ PushSource
  \/ \E notes \in ReleaseNotes : CreateDraft(notes)
  \/ \E name \in AssetNames : UploadAsset(name)
  \/ VerifyUploaded
  \/ PublishDraft
=============================================================================
