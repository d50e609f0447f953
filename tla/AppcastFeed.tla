---------------------------- MODULE AppcastFeed ----------------------------
(* The whole release pipeline: the jobs of PublishRelease, and the feed job
   that puts a public release into appcast.xml, pushes it, deploys it to Pages
   and looks at what is served. A release run goes on with a feed job; a
   maintainer may also start one by hand, with a rollout of their choice.    *)
EXTENDS PublishRelease, AppcastItems

CONSTANTS
  FirstFeed,       \* appcast.xml before the first release of the model
  InitialRollout,  \* the rollout a release run asks for
  Rollouts,        \* those a maintainer may ask for
  Dates,           \* publication dates
  MaxItems,        \* MAX_APPCAST_ITEMS
  Attempts         \* smoke attempts

FirstItems == {FirstFeed[i] : i \in DOMAIN FirstFeed}

(* A release has one item on a channel. *)
OneItemEach(f) ==
  \A i, j \in DOMAIN f :
    i # j => <<f[i].version.short, _plug_channel(f[i])>> # <<f[j].version.short, _plug_channel(f[j])>>

(* The feed the model starts with: items of the releases to come, if any, are
   from before build numbers.                                                *)
ASSUME FeedAssumption ==
  /\ MaxItems \in Nat
  /\ FirstFeed \in Seq(FirstItems) /\ Len(FirstFeed) <= MaxItems
  /\ OneItemEach(FirstFeed)
  /\ \A item \in FirstItems :
       item.version.short \in Versions => item.version = [short |-> item.version.short, build |-> 0]

VARIABLES
  feed,      \* appcast.xml on main
  draft,     \* appcast.xml in the feed job's checkout
  context,   \* the AppcastContext of the feed job
  pages,     \* the deployed feed
  served,    \* what the Pages edge answers
  attempts,  \* smoke attempts made
  queued     \* feed jobs of release runs that wait for main (concurrency group)

feedVars == <<feed, draft, context, pages, served, attempts, queued>>
vars == <<publishVars, feedVars>>

Init ==
  /\ PublishInit
  /\ feed = FirstFeed
  /\ draft = <<>>
  /\ context = None
  /\ pages = FirstFeed
  /\ served = FirstFeed
  /\ attempts = 0
  /\ queued = {}

----------------------------------------------------------------------------
(* Starting the feed job, on a runner of its own. *)

BeginFeedJob(inputs) ==
  /\ job' = inputs
  /\ step' = "feedPersona"
  /\ tree' = Last(main)
  /\ native' = "none" /\ bundle' = None /\ dist' = None /\ evidence' = None
  /\ base' = 0 /\ head' = None /\ localTag' = None
  /\ manifest' = None /\ metadata' = "unread" /\ uploads' = {}
  /\ draft' = <<>> /\ context' = None /\ attempts' = 0
  /\ UNCHANGED <<remoteVars, feed, pages, served>>

(* The publish job of a release run is over; its feed job gets in line. *)
AfterPublication ==
  /\ step = "published"
  /\ queued' = queued \union {[kind |-> "feed", short |-> Tag, channel |-> job.channel,
                               key |-> job.key, rollout |-> InitialRollout, preserve |-> TRUE]}
  /\ Proceed("done")
  /\ UNCHANGED <<remoteVars, checkoutVars, feed, draft, context, pages, served, attempts>>

StartFeedJob ==
  /\ step = "idle"
  /\ \E inputs \in queued : BeginFeedJob(inputs) /\ queued' = queued \ {inputs}
  /\ UNCHANGED faults

(* A signing key that clients do not trust (yet) counts as a fault. *)
DispatchFeedUpdate(version, channel, rollout, key) ==
  /\ step = "idle"
  /\ key \notin TrustedKeys => faults < MaxFaults
  /\ faults' = IF key \in TrustedKeys THEN faults ELSE faults + 1
  /\ BeginFeedJob([kind |-> "feed", short |-> version, channel |-> channel, key |-> key,
                   rollout |-> rollout, preserve |-> FALSE])
  /\ UNCHANGED queued

----------------------------------------------------------------------------
(* The feed job. *)

FeedGate(from, to, ok) ==
  /\ Gate(from, to, ok)
  /\ UNCHANGED <<remoteVars, checkoutVars, feedVars>>

FeedPersona ==
  FeedGate("feedPersona", "feedRelease",
           \/ tree.persona
           \/ tree.pubspec.short = job.short /\ PersonaAccepted(tree, tree.pubspec, job.channel))

(* Faulty: takes a draft for a release. *)
LoadReleaseOrDraft ==
  LET release == releases[job.short] IN
  FeedGate("feedRelease", "feedAssets",
           release.state # "absent" /\ ~(release.prerelease /\ job.channel = "stable"))

LoadRelease ==
  LET release == releases[job.short] IN
  FeedGate("feedRelease", "feedAssets",
           release.state = "public" /\ ~(release.prerelease /\ job.channel = "stable"))

VerifyReleaseAssets ==
  LET release == releases[job.short]
      source == tags[job.short].tree
  IN FeedGate("feedAssets", "feedUpdate",
              /\ source.pubspec.short = job.short
              /\ source.setup = job.short
              /\ verify_release(release.manifest, release.setup, source.pubspec, job.channel,
                                tags[job.short]))

AppcastContext ==
  LET release == releases[job.short]
  IN  [version |-> tags[job.short].tree.pubspec, url |-> job.short, asset |-> release.setup.id,
       channel |-> job.channel, rollout |-> job.rollout, notes |-> release.notes,
       manifest |-> release.manifest, maxItems |-> MaxItems]

(* A temporary file replaces appcast.xml: what was there, or the whole of it. *)
write_appcast_tree(items) == draft' = items

(* command_update on main as it is now *)
UpdateFeed(date) ==
  LET asked == IF job.preserve THEN PreservedRollout(feed, AppcastContext) ELSE AppcastContext IN
  /\ step = "feedUpdate"
  /\ context' = asked
  /\ write_appcast_tree(UpdatedFeed(feed, asked, date, job.key))
  /\ base' = Len(main)
  /\ Proceed("feedValidate")
  /\ UNCHANGED <<remoteVars, head, localTag, manifest, metadata, uploads>>
  /\ UNCHANGED <<feed, pages, served, attempts, queued>>

ValidateFeed == FeedGate("feedValidate", "feedPush", FeedValid(draft, context, TrustedKeys))

PushFeed ==
  /\ step = "feedPush"
  /\ IF Len(main) = base THEN feed' = draft /\ Proceed("deploy")
     ELSE Proceed("failed") /\ UNCHANGED feed
  /\ UNCHANGED <<remoteVars, checkoutVars, draft, context, pages, served, attempts, queued>>

DeployPages ==
  /\ step = "deploy"
  /\ pages' = draft
  /\ Proceed("smoke")
  /\ UNCHANGED <<remoteVars, checkoutVars, feed, draft, context, served, attempts, queued>>

SmokeValidate ==
  LET ok == SmokeValid(served, context, TrustedKeys) IN
  /\ step = "smoke"
  /\ attempts' = attempts + 1
  /\ Proceed(IF ok THEN "done" ELSE IF attempts + 1 < Attempts THEN "smoke" ELSE "failed")
  /\ UNCHANGED <<remoteVars, checkoutVars, feed, draft, context, pages, served, queued>>

EdgeRefreshes ==
  /\ served # pages
  /\ served' = pages
  /\ UNCHANGED <<publishVars, feed, draft, context, pages, attempts, queued>>

EndJob ==
  /\ Finish
  /\ draft' = <<>> /\ context' = None /\ attempts' = 0
  /\ UNCHANGED <<feed, pages, served, queued>>

----------------------------------------------------------------------------
JobStep ==
  \/ (BuildStep \/ PublishStep) /\ UNCHANGED feedVars
  \/ AfterPublication
  \/ StartFeedJob
  \/ FeedPersona
  \/ LoadRelease
  \/ VerifyReleaseAssets
  \/ \E date \in Dates : UpdateFeed(date)
  \/ ValidateFeed
  \/ PushFeed
  \/ DeployPages
  \/ SmokeValidate
  \/ EndJob

Fault ==
  /\ BuildFault \/ \E name \in AssetNames : UploadInterrupted(name)
  /\ UNCHANGED feedVars

(* A bound: a dry run, a run with a key nobody trusts and a developer's build
   leave nothing a later job reads, so they are explored before the first tag
   and the first push only.                                                  *)
BeforeAnyRelease == pushes = 0 /\ \A v \in Versions : tags[v] = None

(* Runs of one version wait for each other, the feed job included. *)
RunRelease(kind, request, key) ==
  /\ \A inputs \in queued : inputs.short # request.version.short
  /\ StartRelease(kind, request, key)
  /\ UNCHANGED feedVars

Environment ==
  \/ \E request \in Requests, key \in SigningKeys :
       (key \in TrustedKeys \/ BeforeAnyRelease) /\ RunRelease("publish", request, key)
  \/ \E request \in Requests : BeforeAnyRelease /\ RunRelease("dryRun", request, NoKey)
  \/ \E setting \in LocalSettings, source \in Trees :
       BeforeAnyRelease /\ StartDeveloperBuild(setting, source) /\ UNCHANGED feedVars
  \/ \E source \in Trees : DeveloperPushes(source) /\ UNCHANGED feedVars
  \/ \E version \in Versions, channel \in Channels, rollout \in Rollouts, key \in SigningKeys :
       DispatchFeedUpdate(version, channel, rollout, key)
  \/ EdgeRefreshes

Next == JobStep \/ Fault \/ Environment

Spec == Init /\ [][Next]_vars

(* Somebody runs the release again, for the channel it was begun on. *)
RetryRelease(version) ==
  /\ step = "idle"
  /\ \E request \in Requests, key \in SigningKeys \intersect TrustedKeys :
       /\ request.version.short = version
       /\ releases[version].state # "absent" =>
            releases[version].prerelease = (request.channel = "beta")
       /\ RunRelease("publish", request, key)

(* A runner goes on with its job, the line for main is served, and a release is
   run again until it is out.                                                *)
FairSpec ==
  /\ Spec
  /\ WF_vars(JobStep)
  /\ SF_vars(StartFeedJob)
  /\ \A version \in Versions : SF_vars(RetryRelease(version))

----------------------------------------------------------------------------
(* The job is at a known step, the releases are absent, drafts or public, and
   the feed of main, the deployed one and the served one stay within
   max_items.                                                                *)
TypeOK ==
  /\ faults \in 0..MaxFaults
  /\ native \in {"none", "binary", "torn", "recorded"}
  /\ uploads \subseteq AssetNames
  /\ \A v \in Versions : releases[v].state \in {"absent", "draft", "public"}
  /\ \A f \in {feed, draft, pages, served} : Len(f) <= MaxItems

(* publish_release.py, for every crash, retry and rejected push, implements
   the contract of a release page: one source per version, a draft, then once
   an installer and a manifest of that source, never replaced.               *)
Contract == INSTANCE ReleaseContract WITH
  Releasable <- Versions, NoSource <- None, NothingShown <- None,
  source <- tags,
  phase <- [v \in Versions |-> releases[v].state],
  shown <- [v \in Versions |-> IF releases[v].state = "public"
                               THEN [setup |-> releases[v].setup, manifest |-> releases[v].manifest]
                               ELSE None]

KeepsTheContract == Contract!Spec

(* However often a bundle was rebuilt in place or touched: what is packed into
   an installer is of one source, the application and the elevated runner
   beside it, with the version that the installer announces; and the key
   evidence beside it is about that installer: both key-bearing files in it
   hold the keys, and its update policy is the official one.                 *)
InstallerIsAsRecorded ==
  dist # None =>
    /\ dist.payload.runner = dist.payload.app
    /\ dist.payload.app.pubspec = dist.worker
    /\ dist.payload.version = dist.worker
    /\ evidence # None /\ evidence.installer = dist.id =>
         /\ dist.payload = evidence.payload
         /\ FeedKeysUsable(dist.payload.dart.keys)
         /\ dist.payload.cmake.keys = dist.payload.dart.keys
         /\ dist.payload.dart.feedSignature = "true"
         /\ dist.payload.cmake.validSignature = "false"

(* A tag on origin names a commit of main (git push --atomic).  An item added
   to the feed names a public release of its channel, with the bytes and the
   manifest everybody downloads from the releases page; a release has one item
   on a channel; and once a release has gone out, the latest item of the
   deployed feed verifies with the keys clients trust (inspect_feed_url, the
   daily probe).                                                             *)
FeedIsAboutReleases ==
  /\ TypeOK
  /\ \A v \in Versions : tags[v] # None =>
       tags[v].n \in DOMAIN main /\ main[tags[v].n] = tags[v].tree
  /\ \A i \in DOMAIN feed : feed[i] \notin FirstItems =>
       LET release == releases[feed[i].version.short] IN
       /\ release.state = "public"
       /\ feed[i].asset = release.setup.id
       /\ feed[i].manifest = release.manifest
       /\ release.prerelease = (feed[i].channel = "beta")
  /\ OneItemEach(feed)
  /\ pages # FirstFeed => InspectValid(pages, MaxItems, TrustedKeys)

(* A push of the feed leaves the items of the other releases as they are and
   in their order; the oldest may drop off the end.  Of a release it lists
   again it keeps the publication date, and a release run
   (--preserve-existing-rollout) the rollout too: only a maintainer's own run
   changes how many clients are offered it.                                  *)
PushKeepsWhatIsListed ==
  [][feed' # feed =>
       /\ LET others == Others(feed, context)
              kept == Tail(feed')
          IN Len(kept) <= Len(others) /\ kept = SubSeq(others, 1, Len(kept))
       /\ \A i \in DOMAIN feed, j \in DOMAIN feed' :
            /\ feed[i].version.short = feed'[j].version.short
            /\ _plug_channel(feed[i]) = _plug_channel(feed'[j])
            => /\ feed'[j].date = feed[i].date
               /\ job.preserve =>
                    _plug_rollout_percentage(feed'[j]) = _plug_rollout_percentage(feed[i])]_vars

MainMovedOn(v) == tags[v] # None /\ Last(main) # tags[v].tree

(* A publication that was cut off after its tag was pushed is finished by a
   later run, unless main has moved to other source meanwhile (tagged_source
   then refuses the version for good).  A tag is never taken back, so that
   again and again no publication is left unfinished says that each one ends. *)
InterruptedReleaseResumes ==
  []<>(\A v \in Versions :
         tags[v] # None => releases[v].state = "public" \/ MainMovedOn(v))

Listed(f, v) == \E i \in DOMAIN f : f[i].version.short = v /\ f[i] \notin FirstItems

(* A public release is in the deployed feed in the end, unless main moves to
   other source first, or its notes are cut at white space: then every feed
   job refuses the item it has just written.  A public release stays public,
   so that again and again none is missing says it of each of them.          *)
PublicReleaseIsDeployed ==
  []<>(\A v \in Versions :
         releases[v].state = "public" =>
           Listed(pages, v) \/ MainMovedOn(v) \/ releases[v].notes = "cut at a blank")
=============================================================================
