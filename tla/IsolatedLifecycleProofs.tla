----------------------- MODULE IsolatedLifecycleProofs -----------------------
(* The isolated Windows lifecycle, proved for any number of invocations of the
   two phases, of deaths and of changes. The invariant has three layers: what
   the stages of the fixture recorded of one another (FixtureInv), what each
   user's invocation has claimed, checked and written (UserInv), and what an
   administrator's invocation has brought about by the place it has reached
   (AdminInv). A step of one process is shown to leave the others' layers alone
   (AdminFrame, UserFrame) and to establish its own. Administrators' invocations
   may overlap: at most one of them ever gets past the data of the profile
   (AheadInv), and what the others may still do to the installation is only
   excluded for an invocation that nobody ran beside (Sole, Clean).          *)
EXTENDS IsolatedLifecycle, TLAPS

\* A leaf that names no prover is one for Zenon.
USE ZenonT(30)

-----------------------------------------------------------------------------
(* The fixture: what is recorded was there, and what is there only grows.  *)

AfterCompile == {"verifyBuild", "capture", "receipt", "loadReceipt", "payload", "package",
                 "verifyPackage", "legacy", "manifest", "done"}
AfterCapture == AfterCompile \ {"verifyBuild", "capture"}
AfterReceipt == AfterCapture \ {"receipt"}

Compiling == {"export", "bindRuntime", "compile", "verifyBuild", "capture", "receipt"}

BuilderPlaces == AfterCompile \union {"runtime", "application", "export", "bindRuntime", "compile", "failed"}

\* What an application is compiled from.
Inputs(d) == d["source"] \union (IF plan.runtime THEN d["runtime"] \union d["toolchain"] ELSE {})

IsManifest(m) ==
  /\ m = [payload |-> m.payload, installer |-> m.installer, legacy |-> m.legacy,
          application |-> m.application, revision |-> m.revision, saved |-> m.saved]
  /\ m.revision \in Nat

Saved == manifest # None /\ manifest.saved = TRUE

\* A manifest and one written over it.
Earlier(m, n) ==
  /\ IsManifest(m) /\ IsManifest(n)
  /\ m.payload = n.payload /\ m.installer = n.installer /\ m.legacy = n.legacy
  /\ m.application = n.application /\ m.saved = n.saved
  /\ m.revision <= n.revision

FixtureTypes ==
  /\ builder \in BuilderPlaces
  /\ DOMAIN disk = Artefacts
  /\ plan \in [runtime : BOOLEAN, application : BOOLEAN]
  /\ changes \in 0 .. MaxChanges
  /\ builder \in Compiling => plan.application

BundleOK ==
  plan.application /\ builder \in AfterCompile => disk["bundle"] \subseteq Inputs(disk)

PayloadOK ==
  plan.application /\ builder \in AfterCapture => disk["appPayload"] \ {"appPayload"} \subseteq Inputs(disk)

ReceiptOK ==
  receipt # None =>
    /\ builder \in AfterReceipt \union {"failed"}
    /\ receipt.runtime = plan.runtime /\ receipt.payload \subseteq Inputs(disk)

InstallerOK ==
  builder = "verifyPackage" => disk["installer"] \subseteq disk["payload"]

ManifestOK ==
  /\ builder \in {"legacy", "manifest", "done"} => manifest # None
  /\ manifest # None =>
       /\ builder \in {"legacy", "manifest", "done", "failed"}
       /\ IsManifest(manifest) /\ manifest.installer \subseteq disk["payload"]
       /\ manifest.saved \in BOOLEAN
       /\ manifest.saved = TRUE => builder = "done"

FixtureInv == FixtureTypes /\ BundleOK /\ PayloadOK /\ ReceiptOK /\ InstallerOK /\ ManifestOK

-----------------------------------------------------------------------------
(* The processes.                                                          *)

Trying == {"bind", "install", "provision", "handoff", "wait", "verify", "measure", "optionalRepair",
           "repairClient", "legacyHost", "refuseLegacy", "upgradeHost", "reinstall", "uninstall",
           "residual", "finalUninstall", "pass"}
Finally == {"registrations", "rebind", "write"}
AfterInstall == Trying \ {"bind", "install"}
AfterHandoff == AfterInstall \ {"provision", "handoff"}
AfterVerify == AfterHandoff \ {"wait", "verify"}
AfterMeasure == AfterVerify \ {"measure"}

UserPlaces == Ends \union CHECKS \union {"look", "claim", "bind", "rebind", "write", "publish"}
Working == CHECKS \union {"bind", "rebind", "write", "publish"}

IsMachine(m) ==
  /\ m = [app |-> m.app, client |-> m.client, host |-> m.host, core |-> m.core, package |-> m.package,
          profile |-> m.profile, vault |-> m.vault, downloads |-> m.downloads]
  /\ m.app \in {"none", "installed", "broken"} /\ m.host \in {"none", "current", "legacy"}

Reports == [status : {"none", "failed", "passed"}, checks : SUBSET CHECKS]

AdminPlaces == Ends \union Trying \union Finally

TypeInv ==
  /\ adminAt \in [Admins -> AdminPlaces]
  /\ userAt \in [Users -> UserPlaces]
  /\ report \in [Processes -> Reports]
  /\ DOMAIN handed = Processes /\ DOMAIN loaded = Processes
  /\ DOMAIN retained = Admins /\ DOMAIN snapshot = Admins /\ beside \in [Admins -> SUBSET Admins]
  /\ IsMachine(machine)
  /\ deaths \in 0 .. MaxDeaths

PackageInv ==
  machine.package # None => Saved /\ machine.package.content \subseteq disk["installer"]

HandoffInv ==
  /\ ready # None =>
       /\ ready = [phaseId |-> ready.phaseId, fixtureBinding |-> ready.fixtureBinding]
       /\ Saved /\ Earlier(ready.fixtureBinding, manifest)
  /\ claim # None => ready # None /\ claim = ready

\* A result, published or not, is of somebody who is done with the machine.
ResultOf(u, r) ==
  /\ userAt[u] \in {"publish", "over", "dead"}
  /\ report[u].status # "none" /\ r.checks = report[u].checks

Claimed(u) == report[u].status # "none"

UserOK(u) ==
  /\ userAt[u] \in Working => Claimed(u)
  /\ userAt[u] \in {"off", "look", "claim"} => ~Claimed(u)
  /\ Claimed(u) => claim # None /\ handed[u] = claim
  /\ ~Claimed(u) => report[u].checks = {}
  /\ handed[u] # None => ready # None /\ handed[u] = ready
  /\ userAt[u] = "claim" => handed[u] # None
  /\ userAt[u] # "off" =>
       ready # None /\ Earlier(ready.fixtureBinding, loaded[u]) /\ Earlier(loaded[u], manifest)
  /\ "vault" \in report[u].checks => machine.vault = [by |-> u]

OneClaims == \A u, v \in Users : Claimed(u) /\ Claimed(v) => u = v

ResultsOK ==
  /\ pending # None => \E u \in Users : ResultOf(u, pending)
  /\ result # None => \E u \in Users : ResultOf(u, result)

UserInv == (\A u \in Users : UserOK(u)) /\ OneClaims /\ ResultsOK

Handover(a) ==
  /\ ready # None /\ handed[a] = ready /\ ready.phaseId = a
  /\ Earlier(loaded[a], ready.fixtureBinding)
  /\ machine.package # None /\ machine.profile = "private"

Verified ==
  /\ claim # None /\ result # None
  /\ result.binding = ready /\ result.status = "passed" /\ result.checks = CHECKS

Removed == machine.app = "none" /\ machine.host = "none" /\ machine.downloads = FALSE

\* The fixture is the one that was handed over and that the standard user loaded.
Bound(a) ==
  /\ loaded[a] = ready.fixtureBinding
  /\ \A u \in Users : Claimed(u) => loaded[u] = loaded[a]

\* What a passed attempt leaves if nobody ran beside it.
Clean(a) ==
  /\ Removed
  /\ hostKeys = snapshot[a]
  /\ loaded[a].application # None => machine.package.content = {}

\* The invocations that got past the data of the profile.
Past == {"handoff"} \union AfterHandoff

Passed(a) == report[a].status = "passed"

Ahead(a) == adminAt[a] \in Past \/ Passed(a)

\* The data of the profile is provided once, so at most one invocation is ahead.
AheadInv ==
  /\ machine.profile = "none" => \A a \in Admins : ~Ahead(a)
  /\ \A a, b \in Admins : Ahead(a) /\ Ahead(b) => a = b

\* Invocations that are at work at the same time know of one another.
BesideInv ==
  /\ \A a \in Admins : a \notin beside[a]
  /\ \A a, b \in Admins : Active(a) /\ Active(b) /\ a # b => b \in beside[a]

\* What an invocation has brought about if nobody ran beside it.
Sole(a) ==
  /\ adminAt[a] = "pass" => Removed
  /\ adminAt[a] \in Finally /\ Passed(a) => Removed
  /\ adminAt[a] \in {"rebind", "write"} /\ Passed(a) => hostKeys = snapshot[a]
  /\ adminAt[a] = "write" /\ Passed(a) => Clean(a)

AdminOK(a) ==
  Active(a) =>
    /\ Saved /\ Earlier(loaded[a], manifest)
    /\ ended # None => ended.by \in beside[a]
    /\ adminAt[a] \in {"bind", "install"} /\ machine.package # None => machine.package.by \in beside[a]
    /\ adminAt[a] \in Trying => report[a].status = "failed"
    /\ adminAt[a] \in AfterInstall => machine.package # None
    /\ adminAt[a] = "handoff" => machine.profile = "private"
    /\ adminAt[a] \in AfterHandoff => Handover(a)
    /\ adminAt[a] \in AfterVerify => Verified
    /\ adminAt[a] \in AfterMeasure => retained[a].profile = "private"
    /\ adminAt[a] \in Finally /\ Passed(a) => Handover(a) /\ Verified
    /\ adminAt[a] = "write" /\ Passed(a) => Bound(a)
    /\ beside[a] = {} => Sole(a)

\* What PassedMeansComplete says of the attempt of a.
Complete(a) ==
  /\ adminAt[a] = "over" /\ Passed(a)
  /\ Handover(a) /\ Verified /\ Bound(a)
  /\ beside[a] = {} => Clean(a) /\ \A b \in Admins : ~Active(b)

EndOK ==
  ended # None /\ ended.status = "passed" =>
    /\ ended.by \in Admins /\ Complete(ended.by)
    /\ ended.applicationSourceVerified => loaded[ended.by].application # None

AdminInv == (\A a \in Admins : AdminOK(a)) /\ BesideInv /\ AheadInv /\ EndOK

LifecycleInv ==
  TypeInv /\ FixtureInv /\ PackageInv /\ HandoffInv /\ UserInv /\ AdminInv

-----------------------------------------------------------------------------
(* The fixture.                                                            *)

\* A record of a manifest, a handoff, a package or a result is not the absence of one.
LEMMA RecordsArePresent ==
  /\ \A p, i, l, a, r, s : [payload |-> p, installer |-> i, legacy |-> l, application |-> a,
                            revision |-> r, saved |-> s] # None
  /\ \A p, b : [phaseId |-> p, fixtureBinding |-> b] # None
  /\ \A c, b : [content |-> c, by |-> b] # None
  /\ \A b, s, v : [by |-> b, status |-> s, applicationSourceVerified |-> v] # None
  /\ \A b, s, c : [binding |-> b, status |-> s, checks |-> c] # None
<1>1. \A p, i, l, a, r, s : [payload |-> p, installer |-> i, legacy |-> l, application |-> a,
                            revision |-> r, saved |-> s] # None
  BY DEF None
<1>2. \A p, b : [phaseId |-> p, fixtureBinding |-> b] # None
  BY DEF None
<1>3. \A c, b : [content |-> c, by |-> b] # None
  BY DEF None
<1>4. \A b, s, v : [by |-> b, status |-> s, applicationSourceVerified |-> v] # None
  BY DEF None
<1>5. \A b, s, c : [binding |-> b, status |-> s, checks |-> c] # None
  BY DEF None
<1>. QED BY <1>1, <1>2, <1>3, <1>4, <1>5

\* A manifest is there.
LEMMA ManifestIsPresent == ASSUME NEW m, IsManifest(m) PROVE m # None
BY RecordsArePresent DEF IsManifest

\* What a build is made of before the first stage.
LEMMA FixtureStarts == ASSUME FixtureInit PROVE FixtureInv
<1>1. FixtureTypes
  BY SMT, ChangesAssumption DEF FixtureInit, FixtureTypes, BuilderPlaces, AfterCompile, Artefacts,
                            Compiling
<1>2. BundleOK /\ PayloadOK /\ ReceiptOK /\ InstallerOK /\ ManifestOK
  BY DEF FixtureInit, BundleOK, PayloadOK, ReceiptOK, InstallerOK, ManifestOK, AfterCompile, AfterCapture
<1>. QED BY <1>1, <1>2 DEF FixtureInv

\* What a change by something else does to the artefacts.
LEMMA ChangeGrows ==
  ASSUME FixtureTypes, NEW x \in Artefacts, Change(x)
  PROVE  /\ DOMAIN disk' = Artefacts
         /\ \A y \in Artefacts : disk[y] \subseteq disk'[y] /\ disk'[y] \subseteq disk[y] \union {y}
         /\ disk'["bundle"] = disk["bundle"]
         /\ manifest = None => disk'["installer"] = disk["installer"]
<1>1. DOMAIN disk = Artefacts /\ disk' = [disk EXCEPT ![x] = @ \union {x}]
  BY DEF FixtureTypes, Change
<1>2. x # "bundle" /\ (x = "installer" => manifest # None)
  BY DEF Change, Captured
<1>3. "bundle" \in Artefacts /\ "installer" \in Artefacts
  BY DEF Artefacts
<1>. QED BY <1>1, <1>2, <1>3

\* More of the inputs, more of what is made of them.
LEMMA InputsGrow ==
  ASSUME NEW d, NEW e, \A y \in Artefacts : d[y] \subseteq e[y]
  PROVE  Inputs(d) \subseteq Inputs(e)
<1>1. d["source"] \subseteq e["source"] /\ d["runtime"] \subseteq e["runtime"]
      /\ d["toolchain"] \subseteq e["toolchain"]
  BY DEF Artefacts
<1>. QED BY <1>1 DEF Inputs

\* A change keeps what the stages recorded.
LEMMA ChangeKeeps == ASSUME FixtureInv, NEW x \in Artefacts, Change(x) PROVE FixtureInv'
<1>. USE DEF FixtureInv
<1>1. /\ DOMAIN disk' = Artefacts
      /\ \A y \in Artefacts : disk[y] \subseteq disk'[y] /\ disk'[y] \subseteq disk[y] \union {y}
      /\ disk'["bundle"] = disk["bundle"]
      /\ manifest = None => disk'["installer"] = disk["installer"]
  BY ChangeGrows
<1>2. UNCHANGED <<builder, plan, receipt, manifest>> /\ changes < MaxChanges /\ changes' = changes + 1
  BY DEF Change
<1>3. Inputs(disk) \subseteq Inputs(disk')
  BY <1>1, InputsGrow
<1>4. Inputs(disk)' = Inputs(disk')
  BY <1>2 DEF Inputs
<1>5. FixtureTypes'
  BY SMT, <1>1, <1>2, ChangesAssumption DEF FixtureTypes
<1>6. BundleOK'
  BY <1>1, <1>2, <1>3, <1>4 DEF BundleOK
<1>7. PayloadOK'
  <2>1. disk'["appPayload"] \subseteq disk["appPayload"] \union {"appPayload"}
    BY <1>1 DEF Artefacts
  <2>. QED BY <2>1, <1>2, <1>3, <1>4 DEF PayloadOK
<1>8. ReceiptOK'
  BY <1>2, <1>3, <1>4 DEF ReceiptOK
<1>9. disk["payload"] \subseteq disk'["payload"]
  BY <1>1 DEF Artefacts
<1>10. InstallerOK'
  BY <1>1, <1>2, <1>9 DEF InstallerOK, ManifestOK
<1>11. ManifestOK'
  BY <1>2, <1>9 DEF ManifestOK
<1>. QED BY <1>5, <1>6, <1>7, <1>8, <1>10, <1>11

\* A manifest that something else wrote over the one of the build.
LEMMA RewriteKeeps ==
  ASSUME FixtureInv, RewriteManifest
  PROVE  FixtureInv' /\ Saved' /\ Earlier(manifest, manifest')
<1>. USE DEF FixtureInv
<1>1. /\ manifest # None /\ manifest.saved /\ IsManifest(manifest)
      /\ manifest' = [manifest EXCEPT !.revision = @ + 1]
      /\ UNCHANGED <<builder, plan, disk, receipt>> /\ changes < MaxChanges /\ changes' = changes + 1
  BY DEF RewriteManifest, ManifestOK
<1>2. manifest' = [payload |-> manifest.payload, installer |-> manifest.installer, legacy |-> manifest.legacy,
                   application |-> manifest.application, revision |-> manifest.revision + 1,
                   saved |-> manifest.saved]
  BY <1>1 DEF IsManifest
<1>3. IsManifest(manifest') /\ Earlier(manifest, manifest')
  <2>1. manifest.revision \in Nat
    BY <1>1 DEF IsManifest
  <2>2. /\ manifest'.payload = manifest.payload /\ manifest'.installer = manifest.installer
        /\ manifest'.legacy = manifest.legacy /\ manifest'.application = manifest.application
        /\ manifest'.saved = manifest.saved /\ manifest'.revision = manifest.revision + 1
    BY <1>2
  <2>3. manifest'.revision \in Nat /\ manifest.revision <= manifest'.revision
    BY SMT, <2>1, <2>2
  <2>4. IsManifest(manifest')
    BY <1>2, <2>2, <2>3 DEF IsManifest
  <2>. QED BY <1>1, <2>2, <2>3, <2>4 DEF Earlier
<1>4. manifest' # None
  BY <1>3, ManifestIsPresent
<1>5. FixtureTypes'
  BY SMT, <1>1, ChangesAssumption DEF FixtureTypes
<1>6. BundleOK' /\ PayloadOK' /\ ReceiptOK' /\ InstallerOK'
  BY <1>1 DEF BundleOK, PayloadOK, ReceiptOK, InstallerOK, Inputs
<1>7. ManifestOK'
  BY <1>1, <1>2, <1>3, <1>4 DEF ManifestOK
<1>8. Saved'
  BY <1>1, <1>2, <1>4 DEF Saved, ManifestOK
<1>. QED BY <1>3, <1>5, <1>6, <1>7, <1>8

\* A manifest, one written over it, and one written over that.
LEMMA EarlierChains ==
  ASSUME NEW l, NEW m, NEW n
  PROVE  /\ IsManifest(m) => Earlier(m, m)
         /\ Earlier(l, m) /\ Earlier(m, n) => Earlier(l, n)
         /\ Earlier(m, n) /\ Earlier(n, m) => m = n
<1>1. IsManifest(m) => Earlier(m, m)
  BY SMT DEF Earlier, IsManifest
<1>2. ASSUME Earlier(l, m), Earlier(m, n) PROVE Earlier(l, n)
  <2>1. l.revision \in Nat /\ m.revision \in Nat /\ n.revision \in Nat
    BY <1>2 DEF Earlier, IsManifest
  <2>2. l.revision <= n.revision
    BY SMT, <1>2, <2>1 DEF Earlier
  <2>. QED BY <1>2, <2>2 DEF Earlier
<1>3. ASSUME Earlier(m, n), Earlier(n, m) PROVE m = n
  <2>1. m.revision = n.revision
    BY SMT, <1>3 DEF Earlier, IsManifest
  <2>. QED BY <1>3, <2>1 DEF Earlier, IsManifest
<1>. QED BY <1>1, <1>2, <1>3

\* Stages that only check: the artefacts and the records stay.
LEMMA CheckKeeps ==
  ASSUME FixtureInv, NEW to, builder' = to, to \in BuilderPlaces, to \in Compiling => plan.application,
         UNCHANGED <<plan, disk, receipt, manifest, changes>>,
         \/ to = "failed" /\ builder # "done"
         \/ /\ to \in AfterCompile /\ plan.application => builder \in AfterCompile
            /\ to \in AfterCapture /\ plan.application => builder \in AfterCapture
            /\ builder \in AfterReceipt => to \in AfterReceipt
            /\ builder \notin {"failed", "legacy", "manifest", "done"}
            /\ to \notin {"verifyPackage", "legacy", "manifest", "done"}
  PROVE  FixtureInv'
<1>. USE DEF FixtureInv
<1>1. FixtureTypes'
  BY DEF FixtureTypes
<1>2. BundleOK' /\ PayloadOK'
  BY DEF BundleOK, PayloadOK, Inputs, AfterCompile, AfterCapture
<1>3. ReceiptOK'
  BY DEF ReceiptOK, Inputs
<1>4. InstallerOK' /\ ManifestOK'
  BY DEF InstallerOK, ManifestOK
<1>. QED BY <1>1, <1>2, <1>3, <1>4

\* Stages that write an artefact the application is not compiled from, or before it is.
LEMMA MakeKeeps ==
  ASSUME FixtureInv, NEW to, NEW x \in Artefacts, NEW c, builder' = to, to \in BuilderPlaces,
         to \in Compiling => plan.application,
         disk' = [disk EXCEPT ![x] = c], UNCHANGED <<plan, receipt, manifest, changes>>,
         \/ to \notin AfterCompile \union {"failed"} /\ builder \notin AfterReceipt \union {"failed"}
         \/ to = "verifyBuild" /\ builder = "compile" /\ x = "bundle" /\ c = Inputs(disk)
         \/ to = "receipt" /\ builder = "capture" /\ x = "appPayload" /\ c = disk["bundle"]
         \/ to = "package" /\ builder = "payload" /\ x = "payload"
         \/ to = "verifyPackage" /\ builder = "package" /\ x = "installer" /\ c = disk["payload"]
  PROVE  FixtureInv'
<1>. USE DEF FixtureInv
<1>1. FixtureTypes'
  BY DEF FixtureTypes
<1>2. \A y \in Artefacts : disk'[y] = IF y = x THEN c ELSE disk[y]
  BY DEF FixtureTypes
<1>3. /\ builder' = to
      /\ UNCHANGED <<plan, receipt, manifest, changes>>
      /\ \/ to \notin AfterCompile \union {"failed"} /\ builder \notin AfterReceipt \union {"failed"}
         \/ to = "verifyBuild" /\ builder = "compile" /\ x = "bundle" /\ c = Inputs(disk)
         \/ to = "receipt" /\ builder = "capture" /\ x = "appPayload" /\ c = disk["bundle"]
         \/ to = "package" /\ builder = "payload" /\ x = "payload"
         \/ to = "verifyPackage" /\ builder = "package" /\ x = "installer" /\ c = disk["payload"]
  OBVIOUS
<1>4. builder \notin {"failed", "legacy", "manifest", "done"}
  BY <1>3 DEF AfterReceipt, AfterCapture, AfterCompile
<1>5. manifest = None /\ manifest' = None
  BY <1>3, <1>4 DEF ManifestOK
<1>6. ManifestOK'
  BY <1>3, <1>5 DEF ManifestOK, AfterCompile
<1>7. CASE to \notin AfterCompile \union {"failed"} /\ builder \notin AfterReceipt \union {"failed"}
  <2>1. receipt' = None
    BY <1>3, <1>7 DEF ReceiptOK
  <2>2. to \notin AfterCapture /\ to # "verifyPackage"
    BY <1>7 DEF AfterCapture, AfterCompile
  <2>3. BundleOK' /\ PayloadOK' /\ ReceiptOK' /\ InstallerOK'
    BY <1>3, <1>7, <2>1, <2>2 DEF BundleOK, PayloadOK, ReceiptOK, InstallerOK
  <2>. QED BY <1>1, <1>6, <2>3
<1>8. CASE x \in {"bundle", "appPayload", "payload", "installer"}
  <2>1. disk'["source"] = disk["source"] /\ disk'["runtime"] = disk["runtime"]
        /\ disk'["toolchain"] = disk["toolchain"]
    BY <1>2, <1>8 DEF Artefacts
  <2>2. Inputs(disk)' = Inputs(disk)
    BY <1>3, <2>1 DEF Inputs
  <2>3. disk'["bundle"] = (IF x = "bundle" THEN c ELSE disk["bundle"])
        /\ disk'["appPayload"] = (IF x = "appPayload" THEN c ELSE disk["appPayload"])
        /\ disk'["installer"] = (IF x = "installer" THEN c ELSE disk["installer"])
        /\ disk'["payload"] = (IF x = "payload" THEN c ELSE disk["payload"])
    BY <1>2 DEF Artefacts
  <2>4. CASE to = "verifyBuild" /\ builder = "compile" /\ x = "bundle" /\ c = Inputs(disk)
    <3>1. BundleOK' /\ InstallerOK'
      BY <1>3, <2>2, <2>3, <2>4 DEF BundleOK, InstallerOK
    <3>2. PayloadOK' /\ ReceiptOK'
      BY <1>3, <2>4 DEF PayloadOK, ReceiptOK, AfterCapture, AfterReceipt, AfterCompile
    <3>. QED BY <1>1, <1>6, <3>1, <3>2
  <2>5. CASE to = "receipt" /\ builder = "capture" /\ x = "appPayload" /\ c = disk["bundle"]
    <3>1. BundleOK' /\ InstallerOK'
      BY <1>3, <2>2, <2>3, <2>5 DEF BundleOK, InstallerOK, AfterCompile
    <3>2. PayloadOK' /\ ReceiptOK'
      BY <1>3, <2>2, <2>3, <2>5 DEF PayloadOK, BundleOK, ReceiptOK, AfterCapture, AfterReceipt, AfterCompile
    <3>. QED BY <1>1, <1>6, <3>1, <3>2
  <2>6. CASE to = "package" /\ builder = "payload" /\ x = "payload"
    <3>1. BundleOK' /\ InstallerOK'
      BY <1>3, <2>2, <2>3, <2>6 DEF BundleOK, InstallerOK, AfterCompile
    <3>2. PayloadOK' /\ ReceiptOK'
      BY <1>3, <2>2, <2>3, <2>6 DEF PayloadOK, ReceiptOK, AfterCapture, AfterReceipt, AfterCompile
    <3>. QED BY <1>1, <1>6, <3>1, <3>2
  <2>7. CASE to = "verifyPackage" /\ builder = "package" /\ x = "installer" /\ c = disk["payload"]
    <3>1. BundleOK' /\ InstallerOK'
      BY <1>3, <2>2, <2>3, <2>7 DEF BundleOK, InstallerOK, AfterCompile
    <3>2. PayloadOK' /\ ReceiptOK'
      <4>1. builder \in AfterReceipt /\ builder' \in AfterReceipt /\ AfterReceipt \subseteq AfterCapture
        BY <1>3, <2>7 DEF AfterCapture, AfterReceipt, AfterCompile
      <4>2. PayloadOK'
        BY <1>3, <2>2, <2>3, <2>7, <4>1 DEF PayloadOK
      <4>3. ReceiptOK'
        BY <1>3, <2>2, <2>7, <4>1 DEF ReceiptOK
      <4>. QED BY <4>2, <4>3
    <3>. QED BY <1>1, <1>6, <3>1, <3>2
  <2>. QED BY <1>3, <1>7, <2>4, <2>5, <2>6, <2>7
<1>. QED BY <1>3, <1>7, <1>8

\* Every stage of the builds, and a build that is cut off.
LEMMA BuildKeeps == ASSUME FixtureInv, BuildStep PROVE FixtureInv'
<1>. DEFINE places == {"runtime", "application", "export", "bindRuntime", "compile", "verifyBuild", "capture",
                       "receipt", "loadReceipt", "payload", "package", "verifyPackage", "legacy", "manifest",
                       "done", "failed"}
<1>. USE DEF At, Goto
<1>0. AfterReceipt = {"loadReceipt", "payload", "package", "verifyPackage", "legacy", "manifest", "done"}
      /\ AfterCapture = {"receipt", "loadReceipt", "payload", "package", "verifyPackage", "legacy",
                         "manifest", "done"}
      /\ BuilderPlaces = places
  BY DEF AfterReceipt, AfterCapture, AfterCompile, BuilderPlaces
<1>35. /\ Compiling = {"export", "bindRuntime", "compile", "verifyBuild", "capture", "receipt"}
       /\ builder \in Compiling => plan.application
  BY DEF Compiling, FixtureInv, FixtureTypes
<1>36. "application" \notin Compiling /\ "verifyPackage" \notin Compiling /\ "package" \notin Compiling
  BY <1>35
<1>1. CASE SkipRuntime \/ SkipApplication \/ LoadRuntime \/ VerifySourcesAgain \/ LoadReceipt
  <2>1. PICK from, to : /\ builder = from /\ builder' \in {to, "failed"}
                        /\ UNCHANGED <<plan, disk, receipt, manifest, changes>>
                        /\ \/ from = "runtime" /\ to = "application"
                           \/ from = "application" /\ to = "payload" /\ ~plan.application
                           \/ from = "application" /\ to = "export"
                           \/ from = "verifyBuild" /\ to = "capture"
                           \/ from = "loadReceipt" /\ to = "payload"
    BY <1>1 DEF SkipRuntime, SkipApplication, LoadRuntime, VerifySourcesAgain, LoadReceipt, Check
  <2>2. builder' \in BuilderPlaces /\ (builder' \in Compiling => plan.application)
    BY <1>0, <1>1, <2>1, <1>35 DEF LoadRuntime, Check, SkipRuntime, SkipApplication, VerifySourcesAgain, LoadReceipt
  <2>3. \/ builder' = "failed" /\ builder # "done"
        \/ /\ builder' \in AfterCompile /\ plan.application => builder \in AfterCompile
           /\ builder' \in AfterCapture /\ plan.application => builder \in AfterCapture
           /\ builder \in AfterReceipt => builder' \in AfterReceipt
           /\ builder \notin {"failed", "legacy", "manifest", "done"}
           /\ builder' \notin {"verifyPackage", "legacy", "manifest", "done"}
    BY <1>0, <2>1 DEF AfterCompile
  <2>. DEFINE to2 == builder'
  <2>4. to2 \in BuilderPlaces /\ builder' = to2 /\ (to2 \in Compiling => plan.application)
    BY <2>2
  <2>5. \/ to2 = "failed" /\ builder # "done"
        \/ /\ to2 \in AfterCompile /\ plan.application => builder \in AfterCompile
           /\ to2 \in AfterCapture /\ plan.application => builder \in AfterCapture
           /\ builder \in AfterReceipt => to2 \in AfterReceipt
           /\ builder \notin {"failed", "legacy", "manifest", "done"}
           /\ to2 \notin {"verifyPackage", "legacy", "manifest", "done"}
    BY <2>3
  <2>6. UNCHANGED <<plan, disk, receipt, manifest, changes>>
    BY <2>1
  <2>. HIDE DEF to2
  <2>. QED BY ONLY FixtureInv, <2>4, <2>5, <2>6, CheckKeeps
<1>2. CASE BuildFails
  BY SMT, <1>0, <1>35, <1>2, CheckKeeps DEF BuildFails
<1>3. CASE PrepareRuntime
  <2>1. builder = "runtime" /\ builder' = "application" /\ disk' = [disk EXCEPT !["runtime"] = Genuine]
        /\ UNCHANGED <<plan, receipt, manifest, changes>>
    BY <1>3 DEF PrepareRuntime, Make
  <2>2. "runtime" \in Artefacts /\ "application" \in BuilderPlaces
        /\ "application" \notin AfterCompile \union {"failed"} /\ builder \notin AfterReceipt \union {"failed"}
    BY <1>0, <2>1 DEF Artefacts, AfterCompile
  <2>. QED BY <2>1, <2>2, <1>36, MakeKeeps
<1>4. CASE ExportSource
  <2>1. builder = "export" /\ builder' = "bindRuntime"
        /\ disk' = [disk EXCEPT !["source"] = derived_bytes(export_archive)]
        /\ UNCHANGED <<plan, receipt, manifest, changes>>
    BY <1>4 DEF ExportSource, Make
  <2>2. "source" \in Artefacts /\ "bindRuntime" \in BuilderPlaces
        /\ "bindRuntime" \notin AfterCompile \union {"failed"} /\ builder \notin AfterReceipt \union {"failed"}
    BY <1>0, <2>1 DEF Artefacts, AfterCompile
  <2>. QED BY <2>1, <2>2, <1>35, MakeKeeps
<1>5. CASE BindRuntime
  <2>1. builder = "bindRuntime" /\ UNCHANGED <<plan, receipt, manifest, changes>>
    BY <1>5 DEF BindRuntime
  <2>2. \/ builder' = "compile" /\ disk' = [disk EXCEPT !["toolchain"] = Genuine]
        \/ builder' = "compile" /\ disk' = disk
        \/ builder' = "failed" /\ disk' = disk
    BY <1>5 DEF BindRuntime
  <2>3. /\ "toolchain" \in Artefacts /\ "compile" \in BuilderPlaces /\ "failed" \in BuilderPlaces
        /\ "compile" \notin AfterCompile \union {"failed"} /\ builder \notin AfterReceipt \union {"failed"}
        /\ "compile" \notin AfterCapture
    BY <1>0, <2>1 DEF Artefacts, AfterCompile
  <2>4. CASE builder' = "compile" /\ disk' = [disk EXCEPT !["toolchain"] = Genuine]
    BY <2>1, <2>3, <2>4, <1>35, MakeKeeps
  <2>5. CASE builder' = "compile" /\ disk' = disk
    BY SMT, <2>1, <2>3, <2>5, <1>35, CheckKeeps
  <2>6. CASE builder' = "failed" /\ disk' = disk
    BY <2>1, <2>3, <2>6, <1>35, CheckKeeps
  <2>. QED BY <2>2, <2>4, <2>5, <2>6
<1>6. CASE CompileApplication
  <2>1. builder = "compile" /\ builder' = "verifyBuild" /\ disk' = [disk EXCEPT !["bundle"] = Inputs(disk)]
        /\ UNCHANGED <<plan, receipt, manifest, changes>>
    BY <1>6 DEF CompileApplication, Make, Inputs
  <2>2. "bundle" \in Artefacts /\ "verifyBuild" \in BuilderPlaces
    BY <1>0 DEF Artefacts
  <2>. QED BY <2>1, <2>2, <1>35, MakeKeeps
<1>7. CASE CaptureApplication
  <2>1. builder = "capture" /\ builder' = "receipt" /\ disk' = [disk EXCEPT !["appPayload"] = disk["bundle"]]
        /\ UNCHANGED <<plan, receipt, manifest, changes>>
    BY <1>7 DEF CaptureApplication, Make
  <2>2. "appPayload" \in Artefacts /\ "receipt" \in BuilderPlaces
    BY <1>0 DEF Artefacts
  <2>. QED BY <2>1, <2>2, <1>35, MakeKeeps
<1>8. CASE CompilePackage
  <2>1. builder = "package" /\ builder' = "verifyPackage"
        /\ disk' = [disk EXCEPT !["installer"] = disk["payload"]]
        /\ UNCHANGED <<plan, receipt, manifest, changes>>
    BY <1>8 DEF CompilePackage, Make
  <2>2. "installer" \in Artefacts /\ "verifyPackage" \in BuilderPlaces
    BY <1>0 DEF Artefacts
  <2>. QED BY <2>1, <2>2, <1>36, MakeKeeps
<1>9. CASE CapturePayload
  <2>1. builder = "payload" /\ UNCHANGED <<plan, receipt, manifest, changes>>
    BY <1>9 DEF CapturePayload
  <2>2. \/ builder' = "package" /\ \E c : disk' = [disk EXCEPT !["payload"] = c]
        \/ builder' = "failed" /\ disk' = disk
    BY <1>9 DEF CapturePayload
  <2>3. "payload" \in Artefacts /\ "package" \in BuilderPlaces /\ "failed" \in BuilderPlaces
    BY <1>0 DEF Artefacts
  <2>4. CASE builder' = "package" /\ \E c : disk' = [disk EXCEPT !["payload"] = c]
    <3>1. PICK c : disk' = [disk EXCEPT !["payload"] = c]
      BY <2>4
    <3>. QED BY <2>1, <2>3, <2>4, <3>1, <1>36, MakeKeeps
  <2>5. CASE builder' = "failed" /\ disk' = disk
    BY SMT, <2>1, <2>3, <2>5, <1>35, CheckKeeps
  <2>. QED BY <2>2, <2>4, <2>5
<1>. USE DEF FixtureInv
<1>10. CASE WriteReceipt
  <2>1. builder = "receipt" /\ builder' = "loadReceipt" /\ UNCHANGED <<plan, disk, manifest, changes>>
        /\ receipt' = [runtime |-> plan.runtime, payload |-> disk["appPayload"] \ {"appPayload"}]
    BY <1>10 DEF WriteReceipt
  <2>2. receipt'.runtime = plan.runtime /\ receipt'.payload = disk["appPayload"] \ {"appPayload"}
    BY <2>1
  <2>3. plan.application => disk["appPayload"] \ {"appPayload"} \subseteq Inputs(disk)
    BY <1>0, <2>1 DEF PayloadOK
  <2>4. plan.application
    BY <1>35, <2>1
  <2>5. FixtureTypes' /\ BundleOK' /\ PayloadOK'
    BY <1>0, <1>35, <2>1 DEF FixtureTypes, BundleOK, PayloadOK, Inputs, AfterCompile
  <2>6. ReceiptOK'
    BY <1>0, <2>1, <2>2, <2>3, <2>4 DEF ReceiptOK, Inputs
  <2>7. InstallerOK' /\ ManifestOK'
    BY <2>1 DEF InstallerOK, ManifestOK
  <2>. QED BY <2>5, <2>6, <2>7
<1>11. CASE VerifyPackage
  <2>1. builder = "verifyPackage" /\ UNCHANGED <<plan, disk, receipt, changes>>
    BY <1>11 DEF VerifyPackage
  <2>2. \/ /\ builder' = "legacy"
           /\ \E p, l, a : manifest' = [payload |-> p, installer |-> disk["installer"], legacy |-> l,
                                        application |-> a, revision |-> 0, saved |-> FALSE]
        \/ builder' = "failed" /\ manifest' = manifest
    BY <1>11 DEF VerifyPackage
  <2>3. CASE builder' = "failed" /\ manifest' = manifest
    BY SMT, <1>0, <2>1, <1>35, <2>3, CheckKeeps
  <2>4. CASE /\ builder' = "legacy"
             /\ \E p, l, a : manifest' = [payload |-> p, installer |-> disk["installer"], legacy |-> l,
                                          application |-> a, revision |-> 0, saved |-> FALSE]
    <3>1. PICK p, l, a : manifest' = [payload |-> p, installer |-> disk["installer"], legacy |-> l,
                                      application |-> a, revision |-> 0, saved |-> FALSE]
      BY <2>4
    <3>2. IsManifest(manifest') /\ manifest'.installer = disk["installer"] /\ manifest'.saved = FALSE
      BY <3>1 DEF IsManifest
    <3>3. manifest' # None
      BY <3>2, ManifestIsPresent
    <3>4. FixtureTypes' /\ BundleOK' /\ PayloadOK'
      BY <1>0, <1>35, <2>1, <2>4 DEF FixtureTypes, BundleOK, PayloadOK, Inputs, AfterCompile
    <3>5. ReceiptOK' /\ InstallerOK'
      BY <1>0, <2>1, <2>4 DEF ReceiptOK, InstallerOK, Inputs
    <3>6. ManifestOK'
      BY <2>1, <2>4, <3>2, <3>3 DEF ManifestOK, InstallerOK
    <3>. QED BY <3>4, <3>5, <3>6
  <2>. QED BY <2>2, <2>3, <2>4
<1>12. CASE BuildLegacySupervisor
  <2>1. builder = "legacy" /\ builder' = "manifest" /\ UNCHANGED <<plan, receipt, changes>>
        /\ disk' = [disk EXCEPT !["legacy"] = Genuine] /\ manifest' = [manifest EXCEPT !.legacy = Genuine]
    BY <1>12 DEF BuildLegacySupervisor
  <2>2. IsManifest(manifest) /\ manifest.installer \subseteq disk["payload"] /\ manifest.saved = FALSE
    BY <2>1 DEF ManifestOK
  <2>3. manifest' = [payload |-> manifest.payload, installer |-> manifest.installer, legacy |-> Genuine,
                     application |-> manifest.application, revision |-> manifest.revision,
                     saved |-> manifest.saved]
    BY <2>1, <2>2 DEF IsManifest
  <2>4. IsManifest(manifest') /\ manifest'.installer = manifest.installer /\ manifest'.saved = FALSE
    BY <2>2, <2>3 DEF IsManifest
  <2>5. manifest' # None
    BY <2>4, ManifestIsPresent
  <2>6. DOMAIN disk = Artefacts
    BY DEF FixtureTypes
  <2>7. /\ disk'["source"] = disk["source"] /\ disk'["runtime"] = disk["runtime"]
        /\ disk'["toolchain"] = disk["toolchain"] /\ disk'["bundle"] = disk["bundle"]
        /\ disk'["appPayload"] = disk["appPayload"] /\ disk'["payload"] = disk["payload"]
        /\ DOMAIN disk' = Artefacts
    BY <2>1, <2>6 DEF Artefacts
  <2>8. Inputs(disk)' = Inputs(disk)
    BY <2>1, <2>7 DEF Inputs
  <2>9. FixtureTypes' /\ BundleOK' /\ PayloadOK'
    BY <1>0, <1>35, <2>1, <2>7, <2>8 DEF FixtureTypes, BundleOK, PayloadOK, AfterCompile
  <2>10. ReceiptOK' /\ InstallerOK'
    BY <1>0, <2>1, <2>8 DEF ReceiptOK, InstallerOK
  <2>11. ManifestOK'
    BY <2>1, <2>2, <2>4, <2>5, <2>7 DEF ManifestOK
  <2>. QED BY <2>9, <2>10, <2>11
<1>13. CASE WriteManifest
  <2>1. builder = "manifest" /\ UNCHANGED <<plan, disk, receipt, changes>>
    BY <1>13 DEF WriteManifest
  <2>2. \/ builder' = "done" /\ manifest' = [manifest EXCEPT !.saved = TRUE]
        \/ builder' = "failed" /\ manifest' = manifest
    BY <1>13 DEF WriteManifest
  <2>3. CASE builder' = "failed" /\ manifest' = manifest
    BY SMT, <1>0, <2>1, <1>35, <2>3, CheckKeeps
  <2>4. CASE builder' = "done" /\ manifest' = [manifest EXCEPT !.saved = TRUE]
    <3>1. IsManifest(manifest) /\ manifest.installer \subseteq disk["payload"]
      BY <2>1 DEF ManifestOK
    <3>2. manifest' = [payload |-> manifest.payload, installer |-> manifest.installer, legacy |-> manifest.legacy,
                       application |-> manifest.application, revision |-> manifest.revision, saved |-> TRUE]
      BY <2>4, <3>1 DEF IsManifest
    <3>3. IsManifest(manifest') /\ manifest'.installer = manifest.installer /\ manifest'.saved = TRUE
      BY <3>1, <3>2 DEF IsManifest
    <3>4. manifest' # None
      BY <3>3, ManifestIsPresent
    <3>5. FixtureTypes' /\ BundleOK' /\ PayloadOK'
      BY <1>0, <1>35, <2>1, <2>4 DEF FixtureTypes, BundleOK, PayloadOK, Inputs, AfterCompile
    <3>6. ReceiptOK' /\ InstallerOK'
      BY <1>0, <2>1, <2>4 DEF ReceiptOK, InstallerOK, Inputs
    <3>7. ManifestOK'
      BY <2>1, <2>4, <3>1, <3>3, <3>4 DEF ManifestOK
    <3>. QED BY <3>5, <3>6, <3>7
  <2>. QED BY <2>2, <2>3, <2>4
<1>. QED BY <1>1, <1>2, <1>3, <1>4, <1>5, <1>6, <1>7, <1>8, <1>9, <1>10, <1>11, <1>12, <1>13 DEF BuildStep

\* Once the manifest is saved no stage is left, the artefacts only grow and a
\* manifest is written over the one before.
LEMMA SavedStays ==
  ASSUME FixtureInv, Saved, BuildStep \/ RewriteManifest \/ \E x \in Artefacts : Change(x)
  PROVE  /\ Saved' /\ Earlier(manifest, manifest')
         /\ disk["installer"] \subseteq disk'["installer"]
<1>1. builder = "done" /\ IsManifest(manifest) /\ FixtureTypes
  BY DEF FixtureInv, Saved, ManifestOK
<1>2. ~BuildStep
  <2>1. ~SkipRuntime /\ ~SkipApplication /\ ~LoadRuntime /\ ~VerifySourcesAgain /\ ~LoadReceipt
    BY <1>1 DEF SkipRuntime, SkipApplication, LoadRuntime, VerifySourcesAgain, LoadReceipt, Check, At
  <2>2. ~PrepareRuntime /\ ~ExportSource /\ ~CompileApplication /\ ~CaptureApplication /\ ~CompilePackage
    BY <1>1 DEF PrepareRuntime, ExportSource, CompileApplication, CaptureApplication, CompilePackage, Make, At
  <2>3. ~BindRuntime /\ ~WriteReceipt /\ ~CapturePayload /\ ~VerifyPackage /\ ~BuildLegacySupervisor
        /\ ~WriteManifest /\ ~BuildFails
    BY <1>1 DEF BindRuntime, WriteReceipt, CapturePayload, VerifyPackage, BuildLegacySupervisor,
                WriteManifest, BuildFails, At
  <2>. QED BY <2>1, <2>2, <2>3 DEF BuildStep
<1>3. CASE RewriteManifest
  BY <1>3, RewriteKeeps DEF RewriteManifest
<1>4. CASE \E x \in Artefacts : Change(x)
  <2>1. PICK x \in Artefacts : Change(x)
    BY <1>4
  <2>2. manifest' = manifest
    BY <2>1 DEF Change
  <2>3. Earlier(manifest, manifest)
    BY <1>1, EarlierChains
  <2>4. disk["installer"] \subseteq disk'["installer"]
    BY <1>1, <2>1, ChangeGrows DEF Artefacts
  <2>. QED BY <2>2, <2>3, <2>4 DEF Saved
<1>. QED BY <1>2, <1>3, <1>4

\* An application that verifies is made of its inputs alone, and so is the
\* installer of a fixture that verifies.
LEMMA VerifiedIsGenuine ==
  ASSUME FixtureInv, FixtureVerifies, manifest.application # None
  PROVE  disk["installer"] = {}
<1>1. /\ receipt # None /\ disk["source"] = {} /\ disk["payload"] = receipt.payload
      /\ receipt.runtime => disk["runtime"] = {} /\ disk["toolchain"] = {}
  BY DEF FixtureVerifies, PackageVerifies, load_application_build, verify_sources, derived_bytes,
         rewrite_native, export_archive, verify_runtime_reference, load_runtime, runtime_file, Genuine
<1>2. receipt.runtime = plan.runtime /\ receipt.payload \subseteq Inputs(disk)
  BY <1>1 DEF FixtureInv, ReceiptOK
<1>3. Inputs(disk) = {}
  BY <1>1, <1>2 DEF Inputs
<1>4. manifest.installer \subseteq disk["payload"] /\ disk["installer"] = manifest.installer
  BY DEF FixtureVerifies, FixtureInv, ManifestOK
<1>. QED BY <1>1, <1>2, <1>3, <1>4

-----------------------------------------------------------------------------
(* The processes: what a step of one of them leaves to the others.         *)

\* What a step may never do to what an attempt has written or installed.
OneAttemptStep ==
  /\ ready # None => ready' = ready
  /\ claim # None => claim' = claim
  /\ result # None => result' = result
  /\ ended # None /\ ended' # ended => ended.by \in beside[ended'.by]
  /\ machine.package # None /\ machine'.package # machine.package =>
       machine.package.by \in beside[machine'.package.by]

\* What a step of the administrator's invocation a may do to the machine.
MachineFrame(a) ==
  /\ IsMachine(machine') /\ machine'.vault = machine.vault
  /\ machine.package # None => machine'.package # None
  /\ machine'.package = machine.package \/ (machine'.package.by = a /\ adminAt[a] = "install")
  /\ machine'.package # None => Saved /\ machine'.package.content \subseteq disk["installer"]
  /\ machine'.profile = machine.profile \/ machine.profile = "none" \/ Ahead(a)
  /\ machine.profile # "none" => machine'.profile # "none"

\* What a step of a leaves to the other processes.
OthersFrame(a) ==
  /\ \A p \in Processes : p # a => report'[p] = report[p] /\ handed'[p] = handed[p] /\ loaded'[p] = loaded[p]
  /\ \A b \in Admins : b # a => retained'[b] = retained[b] /\ snapshot'[b] = snapshot[b]
  /\ \A b \in Admins : b # a => beside[b] \subseteq beside'[b]

\* A step of the administrator's invocation a, or that starts it.
AdminFrame(a, to) ==
  /\ to \in AdminPlaces /\ adminAt' = [adminAt EXCEPT ![a] = to]
  /\ UNCHANGED <<userAt, claim, pending, result, builder, plan, disk, receipt, manifest>>
  /\ changes' \in 0 .. MaxChanges /\ deaths' \in 0 .. MaxDeaths
  /\ report' \in [Processes -> Reports] /\ DOMAIN handed' = Processes /\ DOMAIN loaded' = Processes
  /\ DOMAIN retained' = Admins /\ DOMAIN snapshot' = Admins /\ beside' \in [Admins -> SUBSET Admins]
  /\ OthersFrame(a) /\ MachineFrame(a)
  /\ ready' = ready \/ (ready = None /\ ready' = Handoff(a) /\ Saved)
  /\ ended' = ended \/ (ended'.by = a /\ adminAt[a] = "write")
  /\ \/ Active(a)
     \/ adminAt[a] = "off" /\ UNCHANGED <<machine, ended, hostKeys>> /\ (to \in Ends \/ ended = None)

\* It gets ahead only where the data of the profile was not there.
AheadFrame(a) ==
  Ahead(a)' => machine'.profile # "none" /\ (Ahead(a) \/ machine.profile = "none")

\* The fixture is not touched by a process that only counts as a change.
LEMMA FixtureFrame ==
  ASSUME FixtureInv, UNCHANGED <<builder, plan, disk, receipt, manifest>>, changes' \in 0 .. MaxChanges
  PROVE  FixtureInv' /\ (Saved' <=> Saved)
BY SMT DEF FixtureInv, FixtureTypes, BundleOK, PayloadOK, ReceiptOK, InstallerOK, ManifestOK, Inputs, IsManifest,
       Saved

\* What a step of a leaves of the attempt of another administrator.
LEMMA OthersKeep ==
  ASSUME LifecycleInv, NEW a \in Admins, NEW to, AdminFrame(a, to), NEW b \in Admins, b # a
  PROVE  /\ adminAt'[b] = adminAt[b] /\ (Active(b)' <=> Active(b)) /\ (Passed(b)' <=> Passed(b))
         /\ (Ahead(b)' <=> Ahead(b))
         /\ report'[b] = report[b] /\ handed'[b] = handed[b] /\ loaded'[b] = loaded[b]
         /\ retained'[b] = retained[b] /\ snapshot'[b] = snapshot[b] /\ beside[b] \subseteq beside'[b]
         /\ Verified => Verified'
         /\ Ahead(b) => machine'.profile = machine.profile
         /\ Ahead(b) /\ Handover(b) => Handover(b)'
         /\ Handover(b) /\ Bound(b) => Bound(b)'
<1>1. TypeInv /\ AheadInv
  BY DEF LifecycleInv, AdminInv
<1>2. adminAt'[b] = adminAt[b]
  BY <1>1 DEF AdminFrame, TypeInv
<1>3. /\ report'[b] = report[b] /\ handed'[b] = handed[b] /\ loaded'[b] = loaded[b]
      /\ retained'[b] = retained[b] /\ snapshot'[b] = snapshot[b] /\ beside[b] \subseteq beside'[b]
  <2>1. b \in Processes
    BY DEF Processes
  <2>. QED BY <2>1 DEF AdminFrame, OthersFrame
<1>4. (Active(b)' <=> Active(b)) /\ (Passed(b)' <=> Passed(b))
  BY <1>2, <1>3 DEF Active, Passed
<1>5. Ahead(b)' <=> Ahead(b)
  BY <1>2, <1>4 DEF Ahead
<1>6. Ahead(b) => machine'.profile = machine.profile
  BY <1>1 DEF AheadInv, AdminFrame, MachineFrame
<1>7. ready # None => ready' = ready
  BY DEF AdminFrame
<1>8. Verified => Verified'
  <2>1. claim # None => ready # None
    BY DEF LifecycleInv, HandoffInv
  <2>. QED BY <1>7, <2>1 DEF AdminFrame, Verified
<1>9. Ahead(b) /\ Handover(b) => Handover(b)'
  <2>1. machine.package # None => machine'.package # None
    BY DEF AdminFrame, MachineFrame
  <2>. QED BY <1>3, <1>6, <1>7, <2>1 DEF Handover
<1>10. Handover(b) /\ Bound(b) => Bound(b)'
  <2>1. ASSUME NEW u \in Users PROVE loaded'[u] = loaded[u] /\ (Claimed(u)' <=> Claimed(u))
    <3>1. u \in Processes /\ u # a
      BY ProcessAssumption DEF Processes
    <3>. QED BY <3>1 DEF AdminFrame, OthersFrame, Claimed
  <2>. QED BY <1>3, <1>7, <2>1 DEF Bound, Handover
<1>. QED BY <1>2, <1>3, <1>4, <1>5, <1>6, <1>8, <1>9, <1>10

\* The administrators that are ahead after a step of one of them.
LEMMA AheadKeeps ==
  ASSUME LifecycleInv, NEW a \in Admins, NEW to, AdminFrame(a, to), AheadFrame(a)
  PROVE  AheadInv'
<1>1. AheadInv
  BY DEF LifecycleInv, AdminInv
<1>2. \A b \in Admins : b # a => (Ahead(b)' <=> Ahead(b))
  BY OthersKeep
<1>3. machine'.profile = "none" => machine.profile = "none"
  BY DEF AdminFrame, MachineFrame
<1>4. machine'.profile = "none" => \A b \in Admins : ~Ahead(b)'
  BY <1>1, <1>2, <1>3 DEF AheadInv, AheadFrame
<1>5. ASSUME NEW b \in Admins, NEW c \in Admins, Ahead(b)', Ahead(c)' PROVE b = c
  <2>1. ASSUME NEW d \in Admins, d # a, Ahead(d)', Ahead(a)' PROVE FALSE
    <3>1. Ahead(d) /\ machine.profile # "none"
      BY <1>1, <1>2, <2>1 DEF AheadInv
    <3>2. Ahead(a)
      BY <2>1, <3>1 DEF AheadFrame
    <3>. QED BY <1>1, <2>1, <3>1, <3>2 DEF AheadInv
  <2>2. CASE b = a \/ c = a
    BY <1>5, <2>1, <2>2
  <2>3. CASE b # a /\ c # a
    BY <1>1, <1>2, <1>5, <2>3 DEF AheadInv
  <2>. QED BY <2>2, <2>3
<1>. QED BY <1>4, <1>5 DEF AheadInv

\* What another administrator has brought about, after a step of one beside it.
LEMMA OtherAdminKeeps ==
  ASSUME LifecycleInv, NEW a \in Admins, NEW to, AdminFrame(a, to), BesideInv', NEW b \in Admins, b # a
  PROVE  AdminOK(b)'
<1>. SUFFICES ASSUME Active(b)' PROVE AdminOK(b)'
  BY DEF AdminOK
<1>1. /\ adminAt'[b] = adminAt[b] /\ Active(b) /\ (Passed(b)' <=> Passed(b))
      /\ report'[b] = report[b] /\ loaded'[b] = loaded[b]
      /\ retained'[b] = retained[b] /\ snapshot'[b] = snapshot[b] /\ beside[b] \subseteq beside'[b]
      /\ Verified => Verified'
  BY OthersKeep
<1>2. AdminOK(b) /\ BesideInv
  BY DEF LifecycleInv, AdminInv
<1>3. adminAt[b] \in Past \/ Passed(b) => Ahead(b)
  BY DEF Ahead
<1>4. Ahead(b) => machine'.profile = machine.profile /\ (Handover(b) => Handover(b)')
  BY OthersKeep
<1>5. Handover(b) /\ Bound(b) => Bound(b)'
  BY OthersKeep
<1>6. a \in beside'[b] \/ UNCHANGED <<machine, ended, hostKeys>>
  <2>1. CASE Active(a)
    BY <1>1, <1>2, <2>1 DEF BesideInv
  <2>2. CASE ~Active(a)
    BY <2>2 DEF AdminFrame
  <2>. QED BY <2>1, <2>2
<1>7. Saved' /\ Earlier(loaded'[b], manifest')
  BY <1>1, <1>2 DEF AdminOK, AdminFrame, Saved
<1>8. ended' # None => ended'.by \in beside'[b]
  <2>1. CASE ended' = ended
    BY <1>1, <1>2, <2>1 DEF AdminOK
  <2>2. CASE ended' # ended
    BY <1>6, <2>2 DEF AdminFrame
  <2>. QED BY <2>1, <2>2
<1>9. adminAt[b] \in {"bind", "install"} /\ machine'.package # None => machine'.package.by \in beside'[b]
  <2>1. CASE machine'.package = machine.package
    BY <1>1, <1>2, <2>1 DEF AdminOK
  <2>2. CASE machine'.package # machine.package
    BY <1>6, <2>2 DEF AdminFrame, MachineFrame
  <2>. QED BY <2>1, <2>2
<1>10. /\ adminAt[b] \in AfterInstall => machine'.package # None
       /\ adminAt[b] = "handoff" => machine'.profile = "private"
       /\ adminAt[b] \in AfterHandoff => Handover(b)'
       /\ adminAt[b] \in Finally /\ Passed(b) => Handover(b)' /\ Verified'
       /\ adminAt[b] \in AfterVerify => Verified'
  <2>1. machine.package # None => machine'.package # None
    BY DEF AdminFrame, MachineFrame
  <2>2. "handoff" \in Past /\ AfterHandoff \subseteq Past
    BY DEF Past
  <2>. QED BY <1>1, <1>2, <1>3, <1>4, <2>1, <2>2 DEF AdminOK
<1>11. adminAt[b] = "write" /\ Passed(b) => Bound(b)'
  <2>1. "write" \in Finally
    BY DEF Finally
  <2>. QED BY <1>1, <1>2, <1>5, <2>1 DEF AdminOK
<1>12. beside'[b] = {} => Sole(b)'
  <2>1. SUFFICES ASSUME beside'[b] = {} PROVE Sole(b)'
    OBVIOUS
  <2>2. beside[b] = {} /\ machine' = machine /\ hostKeys' = hostKeys
    BY <1>1, <1>6, <2>1
  <2>3. Sole(b)
    BY <1>1, <1>2, <2>2 DEF AdminOK
  <2>4. (Removed' <=> Removed) /\ (Clean(b)' <=> Clean(b))
    BY <1>1, <2>2 DEF Removed, Clean
  <2>. QED BY <1>1, <2>2, <2>3, <2>4 DEF Sole
<1>. QED BY <1>1, <1>2, <1>7, <1>8, <1>9, <1>10, <1>11, <1>12 DEF AdminOK

\* The result of an attempt, after a step of another one that does not write its own.
LEMMA EndKeeps ==
  ASSUME LifecycleInv, NEW a \in Admins, NEW to, AdminFrame(a, to), ended' = ended
  PROVE  EndOK'
<1>1. ASSUME NEW p \in Admins, Complete(p), ended # None
      PROVE  Complete(p)' /\ loaded'[p] = loaded[p]
  <2>2. adminAt[p] = "over" /\ Passed(p) /\ Handover(p) /\ Verified /\ Bound(p)
    BY <1>1 DEF Complete
  <2>3. p # a
    BY <2>2 DEF AdminFrame, Active, Ends
  <2>4. Ahead(p)
    BY <2>2 DEF Ahead
  <2>5. /\ adminAt'[p] = adminAt[p] /\ (Passed(p)' <=> Passed(p)) /\ loaded'[p] = loaded[p]
        /\ snapshot'[p] = snapshot[p] /\ beside[p] \subseteq beside'[p]
    BY <2>3, OthersKeep
  <2>6. Verified' /\ Handover(p)' /\ Bound(p)'
    BY <2>2, <2>3, <2>4, OthersKeep
  <2>7. beside'[p] = {} => Clean(p)' /\ \A b \in Admins : ~Active(b)'
    <3>1. SUFFICES ASSUME beside'[p] = {} PROVE Clean(p)' /\ \A b \in Admins : ~Active(b)'
      OBVIOUS
    <3>2. beside[p] = {}
      BY <2>5, <3>1
    <3>3. Clean(p) /\ \A b \in Admins : ~Active(b)
      BY <1>1, <3>2 DEF Complete
    <3>4. machine' = machine /\ hostKeys' = hostKeys /\ to \in Ends
      BY <1>1, <3>3 DEF AdminFrame
    <3>5. Clean(p)'
      BY <2>5, <3>3, <3>4 DEF Clean, Removed
    <3>6. adminAt'[a] = to
      BY DEF LifecycleInv, TypeInv, AdminFrame
    <3>7. \A b \in Admins : b # a => (Active(b)' <=> Active(b))
      BY OthersKeep
    <3>. QED BY <3>3, <3>4, <3>5, <3>6, <3>7 DEF Active
  <2>. QED BY <2>2, <2>5, <2>6, <2>7 DEF Complete
<1>2. EndOK
  BY DEF LifecycleInv, AdminInv
<1>. QED BY <1>1, <1>2 DEF EndOK

\* A step of the administrator keeps the invariant if it keeps what concerns itself.
LEMMA AdminFrameKeeps ==
  ASSUME LifecycleInv, NEW a \in Admins, NEW to, AdminFrame(a, to), AheadFrame(a),
         AdminOK(a)', BesideInv', ended' = ended \/ EndOK'
  PROVE  LifecycleInv' /\ OneAttemptStep
<1>1. TypeInv /\ FixtureInv /\ HandoffInv /\ UserInv /\ AdminInv
  BY DEF LifecycleInv
<1>2. FixtureInv' /\ (Saved' <=> Saved)
  BY <1>1, FixtureFrame DEF AdminFrame
<1>3. TypeInv'
  BY <1>1 DEF TypeInv, AdminFrame, MachineFrame
<1>4. PackageInv'
  BY <1>2 DEF PackageInv, AdminFrame, MachineFrame
<1>5. ready = None /\ ready' = Handoff(a) /\ Saved =>
        /\ ready' # None /\ ready'.fixtureBinding = manifest
        /\ ready' = [phaseId |-> ready'.phaseId, fixtureBinding |-> ready'.fixtureBinding]
  BY SMT, RecordsArePresent DEF Handoff
<1>6. Saved => IsManifest(manifest) /\ Earlier(manifest, manifest)
  BY <1>1, EarlierChains DEF FixtureInv, ManifestOK, Saved
<1>7. HandoffInv'
  <2>1. CASE ready' = ready
    BY <1>1, <1>2, <2>1 DEF HandoffInv, AdminFrame
  <2>2. CASE ready = None /\ ready' = Handoff(a) /\ Saved
    BY <1>1, <1>2, <1>5, <1>6, <2>2 DEF HandoffInv, AdminFrame
  <2>. QED BY <2>1, <2>2 DEF AdminFrame
<1>8. ASSUME NEW u \in Users
      PROVE  /\ report'[u] = report[u] /\ handed'[u] = handed[u] /\ loaded'[u] = loaded[u]
             /\ machine'.vault = machine.vault
             /\ UNCHANGED <<userAt, claim, manifest>>
  <2>1. u \in Processes /\ u # a
    BY ProcessAssumption DEF Processes
  <2>. QED BY <2>1 DEF AdminFrame, OthersFrame, MachineFrame
<1>9. ASSUME NEW u \in Users PROVE UserOK(u)' /\ (Claimed(u)' <=> Claimed(u))
  <2>1. UserOK(u)
    BY <1>1 DEF UserInv
  <2>2. Claimed(u)' <=> Claimed(u)
    BY <1>8 DEF Claimed
  <2>3. CASE ready' = ready
    BY <1>8, <2>1, <2>2, <2>3 DEF UserOK
  <2>4. CASE ready = None /\ ready' = Handoff(a) /\ Saved
    <3>1. claim = None /\ userAt[u] = "off" /\ handed[u] = None
      BY <1>1, <2>1, <2>4 DEF UserOK, HandoffInv
    <3>. QED BY <1>8, <2>1, <2>2, <2>4, <3>1 DEF UserOK
  <2>. QED BY <2>2, <2>3, <2>4 DEF AdminFrame
<1>10. OneClaims'
  BY <1>1, <1>9 DEF UserInv, OneClaims
<1>11. ResultsOK'
  <2>1. ASSUME NEW r, NEW u \in Users, ResultOf(u, r) PROVE ResultOf(u, r)'
    BY <1>8, <2>1 DEF ResultOf
  <2>2. pending' = pending /\ result' = result
    BY DEF AdminFrame
  <2>3. UNCHANGED userAt /\ \A u \in Users : report'[u] = report[u]
    BY <1>8 DEF AdminFrame
  <2>. QED BY SMT, <1>1, <2>1, <2>2, <2>3 DEF UserInv, ResultsOK, ResultOf
<1>12. EndOK'
  BY EndKeeps
<1>13. AdminInv'
  BY <1>12, OtherAdminKeeps, AheadKeeps DEF AdminInv
<1>14. OneAttemptStep
  <2>1. AdminOK(a)
    BY <1>1 DEF AdminInv
  <2>2. ready # None => ready' = ready
    BY DEF AdminFrame
  <2>3. ended' # ended => Active(a) /\ ended'.by = a
    BY DEF AdminFrame, Active, Ends
  <2>4. machine'.package # machine.package =>
          Active(a) /\ adminAt[a] \in {"bind", "install"} /\ machine'.package.by = a
    BY DEF AdminFrame, MachineFrame, Active, Ends
  <2>5. claim' = claim /\ result' = result
    BY DEF AdminFrame
  <2>. QED BY <2>1, <2>2, <2>3, <2>4, <2>5 DEF OneAttemptStep, AdminOK
<1>. QED BY <1>2, <1>3, <1>4, <1>7, <1>9, <1>10, <1>11, <1>13, <1>14 DEF LifecycleInv, UserInv

\* Where a user's invocation is done with the machine.
Written == {"publish", "over", "dead"}

\* A step of the user's invocation u, or that starts it.
UserFrame(u, to) ==
  /\ to \in UserPlaces /\ userAt' = [userAt EXCEPT ![u] = to]
  /\ UNCHANGED <<adminAt, retained, hostKeys, snapshot, beside, builder, plan, disk, receipt, manifest, changes, ready, ended>>
  /\ deaths' \in 0 .. MaxDeaths
  /\ report' \in [Processes -> Reports] /\ DOMAIN handed' = Processes /\ DOMAIN loaded' = Processes
  /\ \A p \in Processes : p # u => report'[p] = report[p] /\ handed'[p] = handed[p] /\ loaded'[p] = loaded[p]
  /\ \/ machine' = machine
     \/ userAt[u] = "vault" /\ machine' = [machine EXCEPT !.vault = [by |-> u]]
  /\ claim' = claim \/ (claim = None /\ ready # None /\ claim' = ready)
  /\ report'[u].status # "none" => Claimed(u) \/ claim = None
  /\ loaded'[u] = loaded[u] \/ userAt[u] = "off"
  /\ userAt[u] \in Written => to \in Written /\ report'[u] = report[u]
  /\ \/ pending' = pending \/ pending' = None
     \/ to = "publish" /\ report'[u].status # "none" /\ pending'.checks = report'[u].checks
  /\ result' = result \/ (result = None /\ result' = pending)

\* What a protected blob written by u does to the machine.
LEMMA VaultWritten ==
  ASSUME IsMachine(machine), NEW u, machine' = [machine EXCEPT !.vault = [by |-> u]]
  PROVE  /\ IsMachine(machine') /\ machine'.vault = [by |-> u]
         /\ machine'.app = machine.app /\ machine'.host = machine.host /\ machine'.package = machine.package
         /\ machine'.profile = machine.profile /\ machine'.downloads = machine.downloads
<1>1. machine' = [app |-> machine.app, client |-> machine.client, host |-> machine.host, core |-> machine.core,
                  package |-> machine.package, profile |-> machine.profile, vault |-> [by |-> u],
                  downloads |-> machine.downloads]
  BY DEF IsMachine
<1>. QED BY <1>1 DEF IsMachine

\* A step of a user keeps the invariant if it keeps what concerns itself.
LEMMA UserFrameKeeps ==
  ASSUME LifecycleInv, NEW u \in Users, NEW to, UserFrame(u, to), UserOK(u)'
  PROVE  LifecycleInv' /\ OneAttemptStep
<1>1. TypeInv /\ FixtureInv /\ PackageInv /\ HandoffInv /\ UserInv /\ AdminInv
  BY DEF LifecycleInv
<1>2. FixtureInv' /\ (Saved' <=> Saved)
  <2>1. changes' \in 0 .. MaxChanges
    BY <1>1 DEF UserFrame, FixtureInv, FixtureTypes
  <2>. QED BY <1>1, <2>1, FixtureFrame DEF UserFrame
<1>3. /\ IsMachine(machine')
      /\ machine'.app = machine.app /\ machine'.host = machine.host /\ machine'.package = machine.package
      /\ machine'.profile = machine.profile /\ machine'.downloads = machine.downloads
      /\ machine'.vault = machine.vault \/ (userAt[u] = "vault" /\ machine'.vault = [by |-> u])
  <2>1. IsMachine(machine)
    BY <1>1 DEF TypeInv
  <2>2. CASE machine' = machine
    BY <2>1, <2>2
  <2>3. CASE userAt[u] = "vault" /\ machine' = [machine EXCEPT !.vault = [by |-> u]]
    BY <2>1, <2>3, VaultWritten
  <2>. QED BY <2>2, <2>3 DEF UserFrame
<1>4. TypeInv'
  BY <1>1, <1>3 DEF TypeInv, UserFrame
<1>5. PackageInv'
  BY <1>1, <1>2, <1>3 DEF PackageInv, UserFrame
<1>6. HandoffInv'
  BY <1>1, <1>2 DEF HandoffInv, UserFrame
<1>7. UserOK(u) /\ OneClaims /\ ResultsOK
  BY <1>1 DEF UserInv
<1>8. ASSUME NEW v \in Users, v # u
      PROVE  /\ v \in Processes /\ report'[v] = report[v] /\ handed'[v] = handed[v]
             /\ loaded'[v] = loaded[v] /\ userAt'[v] = userAt[v]
             /\ UserOK(v)' /\ (Claimed(v)' <=> Claimed(v))
  <2>1. /\ v \in Processes /\ report'[v] = report[v] /\ handed'[v] = handed[v]
        /\ loaded'[v] = loaded[v] /\ userAt'[v] = userAt[v]
    BY <1>1, <1>8 DEF UserFrame, Processes, TypeInv
  <2>2. Claimed(v)' <=> Claimed(v)
    BY <2>1 DEF Claimed
  <2>3. UserOK(v)
    BY <1>1 DEF UserInv
  <2>4. "vault" \in report[v].checks => machine'.vault = machine.vault
    <3>1. userAt[u] = "vault" => Claimed(u)
      BY <1>7 DEF UserOK, Working, CHECKS
    <3>2. "vault" \in report[v].checks => Claimed(v)
      BY <2>3 DEF UserOK
    <3>. QED BY <1>3, <1>7, <1>8, <3>1, <3>2 DEF OneClaims
  <2>5. ready' = ready /\ manifest' = manifest /\ (claim # None => claim' = claim)
    BY DEF UserFrame
  <2>6. UserOK(v)'
    BY <2>1, <2>2, <2>3, <2>4, <2>5 DEF UserOK
  <2>. QED BY <2>1, <2>2, <2>6
<1>9. claim = None => ~Claimed(u) /\ \A v \in Users : ~Claimed(v)
  BY <1>1 DEF UserInv, UserOK
<1>10. claim # None => \A v \in Users : Claimed(v)' => Claimed(v) /\ loaded'[v] = loaded[v]
  <2>1. claim # None /\ Claimed(u)' => Claimed(u) /\ loaded'[u] = loaded[u]
    BY <1>7 DEF Claimed, UserFrame, UserOK
  <2>. QED BY <1>8, <2>1
<1>11. OneClaims'
  <2>1. CASE claim = None
    BY <1>8, <1>9, <2>1 DEF OneClaims
  <2>2. CASE claim # None
    BY <1>7, <1>10, <2>2 DEF OneClaims
  <2>. QED BY <2>1, <2>2
<1>12. ASSUME NEW v \in Users, NEW r, ResultOf(v, r)
       PROVE  userAt'[v] \in Written /\ report'[v].status # "none" /\ r.checks = report'[v].checks
  <2>1. CASE v = u
    BY <1>1, <1>12, <2>1 DEF ResultOf, UserFrame, Written, TypeInv
  <2>2. CASE v # u
    BY <1>8, <1>12, <2>2 DEF ResultOf, Written
  <2>. QED BY <2>1, <2>2
<1>13. ResultsOK'
  <2>1. ASSUME pending' # None PROVE \E v \in Users : ResultOf(v, pending)'
    <3>1. CASE pending' = pending
      <4>1. PICK v \in Users : ResultOf(v, pending)
        BY <1>7, <2>1, <3>1 DEF ResultsOK
      <4>2. userAt'[v] \in Written /\ report'[v].status # "none" /\ pending.checks = report'[v].checks
        BY <1>12, <4>1
      <4>. QED BY <3>1, <4>2 DEF ResultOf, Written
    <3>2. CASE to = "publish" /\ report'[u].status # "none" /\ pending'.checks = report'[u].checks
      BY <1>1, <3>2 DEF ResultOf, UserFrame, TypeInv
    <3>. QED BY <2>1, <3>1, <3>2 DEF UserFrame
  <2>2. ASSUME result' # None PROVE \E v \in Users : ResultOf(v, result)'
    <3>1. \E v \in Users : ResultOf(v, result')
      BY <1>7, <2>2 DEF ResultsOK, UserFrame
    <3>2. PICK v \in Users : ResultOf(v, result')
      BY <3>1
    <3>. DEFINE r == result'
    <3>3. userAt'[v] \in Written /\ report'[v].status # "none" /\ r.checks = report'[v].checks
      <4>1. ResultOf(v, r)
        BY <3>2
      <4>. HIDE DEF r
      <4>. QED BY <1>12, <4>1
    <3>. QED BY <3>3 DEF ResultOf, Written
  <2>. QED BY <2>1, <2>2 DEF ResultsOK
<1>14. UserInv'
  BY <1>8, <1>11, <1>13 DEF UserInv
<1>15. UNCHANGED <<adminAt, hostKeys, snapshot, beside, ended, retained, manifest, ready>>
  BY DEF UserFrame
<1>16. (Verified => Verified') /\ (Removed' <=> Removed)
  BY <1>3, <1>15 DEF Verified, Removed, UserFrame
<1>17. ASSUME NEW a \in Admins
       PROVE  /\ report'[a] = report[a] /\ handed'[a] = handed[a] /\ loaded'[a] = loaded[a]
              /\ (Active(a)' <=> Active(a)) /\ (Passed(a)' <=> Passed(a)) /\ (Ahead(a)' <=> Ahead(a))
              /\ Handover(a) => Handover(a)'
              /\ Verified /\ Bound(a) => Bound(a)'
              /\ Clean(a)' <=> Clean(a)
              /\ Sole(a)' <=> Sole(a)
  <2>1. a \in Processes /\ a # u
    BY ProcessAssumption DEF Processes
  <2>2. report'[a] = report[a] /\ handed'[a] = handed[a] /\ loaded'[a] = loaded[a]
    BY <2>1 DEF UserFrame
  <2>3. (Active(a)' <=> Active(a)) /\ (Passed(a)' <=> Passed(a))
    BY <1>15, <2>2 DEF Active, Passed
  <2>4. Ahead(a)' <=> Ahead(a)
    BY <1>15, <2>3 DEF Ahead
  <2>5. Handover(a) => Handover(a)'
    BY <1>3, <1>15, <2>2 DEF Handover
  <2>6. Verified /\ Bound(a) => Bound(a)'
    BY <1>10, <1>15, <2>2 DEF Bound, Verified
  <2>7. Clean(a)' <=> Clean(a)
    BY <1>3, <1>15, <1>16, <2>2 DEF Clean
  <2>8. Sole(a)' <=> Sole(a)
    BY <1>15, <1>16, <2>3, <2>7 DEF Sole
  <2>. QED BY <2>2, <2>3, <2>4, <2>5, <2>6, <2>7, <2>8
<1>18. ASSUME NEW a \in Admins PROVE AdminOK(a)'
  <2>1. AdminOK(a)
    BY <1>1 DEF AdminInv
  <2>2. "write" \in Finally
    BY DEF Finally
  <2>. QED BY <1>2, <1>3, <1>15, <1>16, <1>17, <2>1, <2>2 DEF AdminOK
<1>19. ASSUME NEW a \in Admins, Complete(a) PROVE Complete(a)'
  BY <1>15, <1>16, <1>17, <1>19 DEF Complete
<1>20. AdminInv'
  <2>1. BesideInv'
    BY <1>1, <1>15, <1>17 DEF AdminInv, BesideInv
  <2>2. AheadInv'
    BY <1>1, <1>3, <1>17 DEF AdminInv, AheadInv
  <2>3. EndOK'
    BY <1>1, <1>15, <1>17, <1>19 DEF AdminInv, EndOK
  <2>. QED BY <1>18, <2>1, <2>2, <2>3 DEF AdminInv
<1>21. OneAttemptStep
  BY <1>3 DEF OneAttemptStep, UserFrame
<1>. QED BY <1>2, <1>4, <1>5, <1>6, <1>14, <1>20, <1>21 DEF LifecycleInv

\* The stages of the fixture, and what something else does to it.
LEMMA FixtureStepKeeps == ASSUME LifecycleInv, FixtureStep PROVE LifecycleInv' /\ OneAttemptStep
<1>1. TypeInv /\ FixtureInv /\ PackageInv /\ HandoffInv /\ UserInv /\ AdminInv
  BY DEF LifecycleInv
<1>2. /\ BuildStep \/ RewriteManifest \/ \E x \in Artefacts : Change(x)
      /\ UNCHANGED <<ready, claim, pending, result, ended>>
      /\ UNCHANGED <<adminAt, userAt, report, handed, loaded, retained, machine, hostKeys, snapshot, beside, deaths>>
  BY DEF FixtureStep, handoffVars, lifecycleVars
<1>3. FixtureInv'
  BY <1>1, <1>2, BuildKeeps, RewriteKeeps, ChangeKeeps
<1>4. Saved => Saved' /\ Earlier(manifest, manifest') /\ disk["installer"] \subseteq disk'["installer"]
  BY <1>1, <1>2, SavedStays
<1>5. ASSUME NEW m, Earlier(m, manifest), Saved PROVE Earlier(m, manifest')
  <2>. DEFINE n == manifest'
  <2>1. Earlier(manifest, n)
    BY <1>4, <1>5
  <2>. HIDE DEF n
  <2>2. Earlier(m, n)
    BY <1>5, <2>1, EarlierChains
  <2>. QED BY <2>2 DEF n
<1>6. TypeInv'
  BY <1>1, <1>2 DEF TypeInv
<1>7. PackageInv'
  BY <1>1, <1>2, <1>4 DEF PackageInv
<1>8. HandoffInv'
  BY <1>1, <1>2, <1>4, <1>5 DEF HandoffInv
<1>9. ASSUME NEW u \in Users PROVE UserOK(u)' /\ (Claimed(u)' <=> Claimed(u))
  <2>1. UserOK(u)
    BY <1>1 DEF UserInv
  <2>2. Claimed(u)' <=> Claimed(u)
    BY <1>2 DEF Claimed
  <2>3. userAt[u] # "off" => Earlier(loaded[u], manifest')
    BY <1>1, <1>5, <2>1 DEF UserOK, HandoffInv
  <2>. QED BY <1>2, <2>1, <2>2, <2>3 DEF UserOK
<1>10. UserInv'
  BY <1>1, <1>2, <1>9 DEF UserInv, OneClaims, ResultsOK, ResultOf
<1>11. (Verified' <=> Verified) /\ (Removed' <=> Removed)
  BY <1>2 DEF Verified, Removed
<1>12. ASSUME NEW a \in Admins
       PROVE  /\ (Active(a)' <=> Active(a)) /\ (Passed(a)' <=> Passed(a)) /\ (Ahead(a)' <=> Ahead(a))
              /\ (Handover(a)' <=> Handover(a)) /\ (Bound(a)' <=> Bound(a))
              /\ (Clean(a)' <=> Clean(a)) /\ (Sole(a)' <=> Sole(a))
  <2>1. (Active(a)' <=> Active(a)) /\ (Passed(a)' <=> Passed(a)) /\ (Handover(a)' <=> Handover(a))
    BY <1>2 DEF Active, Passed, Handover
  <2>2. (Bound(a)' <=> Bound(a)) /\ (Clean(a)' <=> Clean(a))
    BY <1>2, <1>9, <1>11 DEF Bound, Clean
  <2>3. (Ahead(a)' <=> Ahead(a)) /\ (Sole(a)' <=> Sole(a))
    BY <1>2, <1>11, <2>1, <2>2 DEF Ahead, Sole
  <2>. QED BY <2>1, <2>2, <2>3
<1>13. ASSUME NEW a \in Admins PROVE AdminOK(a)' /\ (Complete(a)' <=> Complete(a))
  <2>1. AdminOK(a)
    BY <1>1 DEF AdminInv
  <2>2. Active(a) => Saved' /\ Earlier(loaded[a], manifest')
    BY <1>4, <1>5, <2>1 DEF AdminOK
  <2>3. AdminOK(a)'
    BY <1>2, <1>11, <1>12, <2>1, <2>2 DEF AdminOK
  <2>4. Complete(a)' <=> Complete(a)
    BY <1>2, <1>11, <1>12 DEF Complete
  <2>. QED BY <2>3, <2>4
<1>14. BesideInv' /\ AheadInv'
  BY <1>1, <1>2, <1>12 DEF AdminInv, BesideInv, AheadInv
<1>15. AdminInv'
  <2>1. EndOK'
    BY <1>1, <1>2, <1>13 DEF AdminInv, EndOK
  <2>. QED BY <1>13, <1>14, <2>1 DEF AdminInv
<1>16. OneAttemptStep
  BY <1>2 DEF OneAttemptStep
<1>. QED BY <1>3, <1>6, <1>7, <1>8, <1>10, <1>15, <1>16 DEF LifecycleInv

\* Something else touches the registrations of the agent on the machine.
LEMMA RegistrationsChangeKeeps ==
  ASSUME LifecycleInv, HostRegistrationsChange PROVE LifecycleInv' /\ OneAttemptStep
<1>1. PICK a \in Admins : Active(a) /\ adminAt[a] \notin {"rebind", "write"}
  BY DEF HostRegistrationsChange
<1>2. TypeInv /\ FixtureInv /\ AdminInv
  BY DEF LifecycleInv
<1>3. changes' \in 0 .. MaxChanges
  BY SMT, <1>2, ChangesAssumption DEF HostRegistrationsChange, FixtureInv, FixtureTypes
<1>4. UNCHANGED <<builder, plan, disk, receipt, manifest, ready, claim, pending, result, ended>>
      /\ UNCHANGED <<adminAt, userAt, report, handed, loaded, retained, machine, snapshot, beside, deaths>>
  BY DEF HostRegistrationsChange, handoffVars
<1>5. /\ (Saved' <=> Saved) /\ (Verified' <=> Verified) /\ (Removed' <=> Removed)
      /\ (Handover(a)' <=> Handover(a)) /\ (Passed(a)' <=> Passed(a))
      /\ \A b \in Admins : Active(b)' <=> Active(b)
  BY <1>4 DEF Saved, Verified, Removed, Handover, Active, Passed
<1>6. AheadFrame(a)
  <2>1. Ahead(a)' <=> Ahead(a)
    BY <1>4, <1>5 DEF Ahead
  <2>. QED BY <1>2, <1>4, <2>1 DEF AheadFrame, AdminInv, AheadInv
<1>7. BesideInv'
  BY <1>2, <1>4, <1>5 DEF AdminInv, BesideInv
<1>8. AdminOK(a)'
  <2>1. AdminOK(a)
    BY <1>2 DEF AdminInv
  <2>2. adminAt'[a] # "write" /\ adminAt'[a] # "rebind"
    BY <1>1, <1>4
  <2>3. Sole(a) => Sole(a)'
    BY <1>4, <1>5, <2>2 DEF Sole
  <2>. QED BY <1>4, <1>5, <2>1, <2>2, <2>3 DEF AdminOK
<1>9. AdminFrame(a, adminAt[a])
  <2>1. adminAt[a] \in AdminPlaces /\ adminAt' = [adminAt EXCEPT ![a] = adminAt[a]]
    BY <1>2, <1>4 DEF TypeInv
  <2>2. /\ deaths' \in 0 .. MaxDeaths /\ report' \in [Processes -> Reports] /\ DOMAIN handed' = Processes
        /\ DOMAIN loaded' = Processes /\ DOMAIN retained' = Admins /\ DOMAIN snapshot' = Admins
        /\ beside' \in [Admins -> SUBSET Admins]
    BY <1>2, <1>4 DEF TypeInv
  <2>3. MachineFrame(a)
    BY <1>2, <1>4 DEF LifecycleInv, TypeInv, PackageInv, MachineFrame
  <2>4. OthersFrame(a)
    BY <1>4 DEF OthersFrame
  <2>. QED BY <1>1, <1>3, <1>4, <2>1, <2>2, <2>3, <2>4 DEF AdminFrame
<1>10. ended' = ended
  BY <1>4
<1>. QED BY <1>6, <1>7, <1>8, <1>9, <1>10, AdminFrameKeeps

-----------------------------------------------------------------------------
(* The standard user's phase.                                              *)

\* A step of a user that only moves on, writes its result or dies.
LEMMA UserMovesOn ==
  ASSUME LifecycleInv, NEW u \in Users, NEW to,
         userAt[u] # "off", to \in UserPlaces \ {"off", "look", "claim"},
         to \in Working => userAt[u] \in Working,
         userAt[u] \in Written => to \in Written,
         userAt' = [userAt EXCEPT ![u] = to],
         UNCHANGED <<adminAt, retained, hostKeys, snapshot, beside, builder, plan, disk, receipt, manifest, changes, ready, ended>>,
         UNCHANGED <<report, handed, loaded, machine, claim>>,
         deaths' \in 0 .. MaxDeaths,
         \/ pending' = pending \/ pending' = None
         \/ to = "publish" /\ pending'.checks = report[u].checks,
         result' = result \/ (result = None /\ result' = pending)
  PROVE  LifecycleInv' /\ OneAttemptStep
<1>1. TypeInv /\ UserOK(u)
  BY DEF LifecycleInv, UserInv
<1>2. userAt'[u] = to
  BY <1>1 DEF TypeInv
<1>3. Claimed(u)' <=> Claimed(u)
  BY DEF Claimed
<1>4. to \in Working => Claimed(u)
  BY <1>1 DEF UserOK
<1>5. "publish" \in Working
  BY DEF Working
<1>6. UserOK(u)'
  BY <1>1, <1>2, <1>3, <1>4 DEF UserOK
<1>7. UserFrame(u, to)
  <2>1. report' \in [Processes -> Reports] /\ DOMAIN handed' = Processes /\ DOMAIN loaded' = Processes
    BY <1>1 DEF TypeInv
  <2>2. report'[u].status # "none" => Claimed(u) \/ claim = None
    BY DEF Claimed
  <2>3. \/ pending' = pending \/ pending' = None
        \/ to = "publish" /\ report'[u].status # "none" /\ pending'.checks = report'[u].checks
    BY <1>4, <1>5 DEF Claimed
  <2>. QED BY <2>1, <2>2, <2>3 DEF UserFrame
<1>. QED BY <1>6, <1>7, UserFrameKeeps

\* The phase is started.
LEMMA StartUserKeeps == ASSUME LifecycleInv, NEW u \in Users, StartUser(u) PROVE LifecycleInv' /\ OneAttemptStep
<1>1. TypeInv /\ FixtureInv /\ HandoffInv /\ UserOK(u)
  BY DEF LifecycleInv, UserInv
<1>. DEFINE to == IF FixtureVerifies THEN "look" ELSE "over"
<1>2. /\ ready # None /\ userAt[u] = "off" /\ userAt' = [userAt EXCEPT ![u] = to]
      /\ loaded' = [loaded EXCEPT ![u] = manifest]
      /\ UNCHANGED <<adminAt, report, handed, retained, machine, hostKeys, snapshot, beside, deaths>>
      /\ UNCHANGED <<builder, plan, disk, receipt, manifest, changes, ready, claim, pending, result, ended>>
  BY DEF StartUser, UserGoes, fixtureVars, handoffVars
<1>3. to \in {"look", "over"} /\ to \in UserPlaces /\ to \notin Working /\ to # "claim" /\ to # "off"
  BY DEF UserPlaces, Ends, Working, CHECKS
<1>. HIDE DEF to
<1>4. u \in Processes /\ userAt'[u] = to /\ loaded'[u] = manifest /\ DOMAIN loaded' = Processes
      /\ \A p \in Processes : p # u => loaded'[p] = loaded[p]
  BY <1>1, <1>2 DEF Processes, TypeInv
<1>5. Earlier(ready.fixtureBinding, manifest) /\ Earlier(manifest, manifest)
  BY <1>1, <1>2, EarlierChains DEF HandoffInv, FixtureInv, ManifestOK, Saved
<1>6. (Claimed(u)' <=> Claimed(u)) /\ ~Claimed(u)
  BY <1>1, <1>2 DEF Claimed, UserOK
<1>7. UserOK(u)'
  BY <1>1, <1>2, <1>3, <1>4, <1>5, <1>6 DEF UserOK
<1>8. UserFrame(u, to)
  <2>1. deaths' \in 0 .. MaxDeaths /\ report' \in [Processes -> Reports] /\ DOMAIN handed' = Processes
    BY <1>1, <1>2 DEF TypeInv
  <2>2. report'[u].status # "none" => Claimed(u) \/ claim = None
    BY <1>2 DEF Claimed
  <2>. QED BY <1>2, <1>3, <1>4, <2>1, <2>2 DEF UserFrame, Written
<1>. QED BY <1>7, <1>8, UserFrameKeeps

\* The handoff is found, or it is not.
LEMMA LookKeeps == ASSUME LifecycleInv, NEW u \in Users, LookForHandoff(u) PROVE LifecycleInv' /\ OneAttemptStep
<1>1. TypeInv /\ UserOK(u)
  BY DEF LifecycleInv, UserInv
<1>. DEFINE open == ended = None /\ result = None /\ HandoffMatches
            to == IF open THEN "claim" ELSE "over"
<1>2. /\ userAt[u] = "look" /\ userAt' = [userAt EXCEPT ![u] = to]
      /\ handed' = IF open THEN [handed EXCEPT ![u] = ready] ELSE handed
      /\ open => ready # None
      /\ UNCHANGED <<adminAt, report, loaded, retained, machine, hostKeys, snapshot, beside, deaths>>
      /\ UNCHANGED <<builder, plan, disk, receipt, manifest, changes, ready, claim, pending, result, ended>>
  BY DEF LookForHandoff, UserGoes, UserKeeps, fixtureVars, handoffVars, HandoffMatches
<1>3. /\ to \in UserPlaces /\ to \notin Working /\ to # "off" /\ to # "look"
      /\ to = "claim" <=> open
  BY DEF UserPlaces, Ends, Working, CHECKS
<1>. HIDE DEF to, open
<1>4. u \in Processes /\ userAt'[u] = to /\ DOMAIN handed' = Processes
      /\ (\A p \in Processes : p # u => handed'[p] = handed[p])
      /\ handed'[u] = (IF open THEN ready ELSE handed[u])
  BY <1>1, <1>2 DEF Processes, TypeInv
<1>6. (Claimed(u)' <=> Claimed(u)) /\ ~Claimed(u)
  BY <1>1, <1>2 DEF Claimed, UserOK
<1>7. UserOK(u)'
  BY <1>1, <1>2, <1>3, <1>4, <1>6 DEF UserOK
<1>8. UserFrame(u, to)
  <2>1. deaths' \in 0 .. MaxDeaths /\ report' \in [Processes -> Reports] /\ DOMAIN loaded' = Processes
    BY <1>1, <1>2 DEF TypeInv
  <2>2. report'[u].status # "none" => Claimed(u) \/ claim = None
    BY <1>2 DEF Claimed
  <2>. QED BY <1>2, <1>3, <1>4, <2>1, <2>2 DEF UserFrame, Written
<1>. QED BY <1>7, <1>8, UserFrameKeeps

\* The claim is created.
LEMMA ClaimKeeps == ASSUME LifecycleInv, NEW u \in Users, ClaimHandoff(u) PROVE LifecycleInv' /\ OneAttemptStep
<1>1. TypeInv /\ UserOK(u)
  BY DEF LifecycleInv, UserInv
<1>2. /\ userAt[u] = "claim" /\ userAt' = [userAt EXCEPT ![u] = "bind"]
      /\ claim = None /\ claim' = handed[u] /\ report' = [report EXCEPT ![u].status = "failed"]
      /\ UNCHANGED <<adminAt, handed, loaded, retained, machine, hostKeys, snapshot, beside, deaths>>
      /\ UNCHANGED <<builder, plan, disk, receipt, manifest, changes, ready, pending, result, ended>>
  BY DEF ClaimHandoff, CreateClaim, UserGoes, UserKeeps, fixtureVars
<1>3. ready # None /\ handed[u] = ready /\ claim' = ready
  BY <1>1, <1>2 DEF UserOK
<1>4. u \in Processes /\ userAt'[u] = "bind" /\ report[u] \in Reports
  BY <1>1, <1>2 DEF Processes, TypeInv
<1>5. report' \in [Processes -> Reports] /\ (\A p \in Processes : p # u => report'[p] = report[p])
      /\ report'[u].status = "failed" /\ report'[u].checks = report[u].checks
  BY <1>1, <1>2, <1>4 DEF TypeInv, Reports
<1>6. Claimed(u)' /\ ~Claimed(u)
  BY <1>1, <1>2, <1>5 DEF Claimed, UserOK
<1>7. UserOK(u)'
  BY <1>1, <1>2, <1>3, <1>4, <1>5, <1>6 DEF UserOK
<1>8. UserFrame(u, "bind")
  <2>1. deaths' \in 0 .. MaxDeaths /\ DOMAIN handed' = Processes /\ DOMAIN loaded' = Processes
    BY <1>1, <1>2 DEF TypeInv
  <2>2. "bind" \in UserPlaces
    BY DEF UserPlaces
  <2>. QED BY <1>2, <1>3, <1>4, <1>5, <2>1, <2>2 DEF UserFrame, Written
<1>. QED BY <1>7, <1>8, UserFrameKeeps

\* One group of checks holds, and the vault's writes the protected blob.
LEMMA ChecksKeep ==
  ASSUME LifecycleInv, NEW u \in Users, NEW group, NEW next, UserChecks(u, group, next),
         \/ group = "denials" /\ next = "vault"
         \/ group = "vault" /\ next = "staging"
         \/ group = "staging" /\ next = "rebind",
         \/ group # "vault" /\ machine' = machine
         \/ group = "vault" /\ machine' = [machine EXCEPT !.vault = [by |-> u]]
  PROVE  LifecycleInv' /\ OneAttemptStep
<1>1. TypeInv /\ UserOK(u)
  BY DEF LifecycleInv, UserInv
<1>2. /\ userAt[u] = group /\ userAt' = [userAt EXCEPT ![u] = next]
      /\ report' = [report EXCEPT ![u].checks = @ \union {group},
                                  ![u].status = IF next = "rebind" THEN "passed" ELSE @]
      /\ UNCHANGED <<adminAt, handed, loaded, retained, hostKeys, snapshot, beside, deaths>>
      /\ UNCHANGED <<builder, plan, disk, receipt, manifest, changes, ready, claim, pending, result, ended>>
  BY DEF UserChecks, UserGoes, UserKeeps, fixtureVars, handoffVars
<1>3. group \in CHECKS /\ group \in Working /\ next \in UserPlaces /\ next \in Working
      /\ next \notin {"off", "look", "claim"} /\ group \notin Written
  BY DEF CHECKS, Working, UserPlaces, Written
<1>4. u \in Processes /\ userAt'[u] = next /\ report[u] \in Reports
  BY <1>1, <1>2 DEF Processes, TypeInv
<1>5. Claimed(u)
  BY <1>1, <1>2, <1>3 DEF UserOK
<1>6. /\ report'[u].checks = report[u].checks \union {group}
      /\ report'[u].status = IF next = "rebind" THEN "passed" ELSE report[u].status
      /\ report'[u] \in Reports
      /\ report' \in [Processes -> Reports]
      /\ \A p \in Processes : p # u => report'[p] = report[p]
  <2>. DEFINE s == IF next = "rebind" THEN "passed" ELSE report[u].status
              r == [status |-> s, checks |-> report[u].checks \union {group}]
  <2>1. report[u] = [status |-> report[u].status, checks |-> report[u].checks]
        /\ report[u].status \in {"none", "failed", "passed"} /\ report[u].checks \subseteq CHECKS
    BY <1>4 DEF Reports
  <2>2. s \in {"none", "failed", "passed"}
    BY <2>1
  <2>. DEFINE q == [status |-> report[u].status, checks |-> report[u].checks \union {group}]
              f == [report EXCEPT ![u] = q]
  <2>6. DOMAIN report = Processes /\ f[u] = q /\ DOMAIN f = Processes
    BY <1>1, <1>4 DEF TypeInv
  <2>7. f = [report EXCEPT ![u].checks = @ \union {group}]
    BY <2>1, <2>6
  <2>8. report' = [f EXCEPT ![u].status = IF next = "rebind" THEN "passed" ELSE @]
    BY <1>2, <2>7
  <2>9. \A p \in Processes : p # u => f[p] = report[p]
    BY <2>6
  <2>10. q.status = report[u].status /\ [q EXCEPT !.status = s] = r
    BY SMT
  <2>. HIDE DEF f
  <2>3. report' = [f EXCEPT ![u] = [f[u] EXCEPT !.status = IF next = "rebind" THEN "passed" ELSE f[u].status]]
    BY <2>8
  <2>11. report' = [f EXCEPT ![u] = r]
    BY <2>3, <2>6, <2>10
  <2>. HIDE DEF s
  <2>4. r \in Reports /\ r.status = s /\ r.checks = report[u].checks \union {group}
    BY <1>3, <2>1, <2>2 DEF Reports
  <2>. HIDE DEF r
  <2>5. report' \in [Processes -> Reports] /\ report'[u] = r
        /\ \A p \in Processes : p # u => report'[p] = report[p]
    <3>1. f = [p \in Processes |-> f[p]]
      BY <1>1 DEF TypeInv, f
    <3>. QED BY <1>1, <1>4, <2>6, <2>9, <2>11, <2>4, <3>1 DEF TypeInv
  <2>. QED BY <2>4, <2>5 DEF s
<1>7. Claimed(u)'
  BY <1>5, <1>6 DEF Claimed
<1>8. "vault" \in report'[u].checks => machine'.vault = [by |-> u]
  <2>1. CASE group = "vault"
    BY <1>1, <2>1, VaultWritten DEF TypeInv
  <2>2. CASE group # "vault"
    BY <1>1, <1>6, <2>2 DEF UserOK
  <2>. QED BY <2>1, <2>2
<1>9. UserOK(u)'
  BY <1>1, <1>2, <1>3, <1>4, <1>5, <1>7, <1>8 DEF UserOK
<1>10. UserFrame(u, next)
  <2>1. deaths' \in 0 .. MaxDeaths /\ DOMAIN handed' = Processes /\ DOMAIN loaded' = Processes
    BY <1>1, <1>2 DEF TypeInv
  <2>2. machine' = machine \/ (userAt[u] = "vault" /\ machine' = [machine EXCEPT !.vault = [by |-> u]])
    BY <1>2
  <2>. QED BY <1>2, <1>3, <1>4, <1>5, <1>6, <2>1, <2>2 DEF UserFrame
<1>. QED BY <1>9, <1>10, UserFrameKeeps

\* The inputs are bound again at the end of the phase.
LEMMA UserRebindsKeeps ==
  ASSUME LifecycleInv, NEW u \in Users, UserRebindsInputs(u) PROVE LifecycleInv' /\ OneAttemptStep
<1>1. TypeInv /\ UserOK(u)
  BY DEF LifecycleInv, UserInv
<1>2. /\ userAt[u] = "rebind" /\ userAt' = [userAt EXCEPT ![u] = "write"]
      /\ report' = report \/ report' = [report EXCEPT ![u].status = "failed"]
      /\ UNCHANGED <<adminAt, handed, loaded, retained, machine, hostKeys, snapshot, beside, deaths>>
      /\ UNCHANGED <<builder, plan, disk, receipt, manifest, changes, ready, claim, pending, result, ended>>
  BY DEF UserRebindsInputs, UserGoes, UserKeeps, fixtureVars, handoffVars
<1>3. "rebind" \in Working /\ "write" \in UserPlaces /\ "rebind" \notin Written
  BY DEF Working, UserPlaces, Written
<1>4. u \in Processes /\ userAt'[u] = "write" /\ report[u] \in Reports
  BY <1>1, <1>2 DEF Processes, TypeInv
<1>5. Claimed(u)
  BY <1>1, <1>2, <1>3 DEF UserOK
<1>6. /\ report'[u].checks = report[u].checks
      /\ report'[u].status \in {report[u].status, "failed"}
      /\ report' \in [Processes -> Reports]
      /\ \A p \in Processes : p # u => report'[p] = report[p]
  <2>1. CASE report' = report
    BY <1>1, <2>1 DEF TypeInv
  <2>2. CASE report' = [report EXCEPT ![u].status = "failed"]
    BY <1>1, <1>4, <2>2 DEF TypeInv, Reports
  <2>. QED BY <1>2, <2>1, <2>2
<1>7. Claimed(u)'
  BY <1>5, <1>6 DEF Claimed
<1>8. UserOK(u)'
  BY <1>1, <1>2, <1>4, <1>5, <1>6, <1>7 DEF UserOK
<1>9. UserFrame(u, "write")
  <2>1. deaths' \in 0 .. MaxDeaths /\ DOMAIN handed' = Processes /\ DOMAIN loaded' = Processes
    BY <1>1, <1>2 DEF TypeInv
  <2>. QED BY <1>2, <1>3, <1>4, <1>5, <1>6, <2>1 DEF UserFrame
<1>. QED BY <1>8, <1>9, UserFrameKeeps

\* Every other step of the standard user's phase.
LEMMA UserKeepsInv ==
  ASSUME LifecycleInv, NEW u \in Users, StartUser(u) \/ UserStep(u) \/ UserCheckFails(u) \/ UserDies(u)
  PROVE  LifecycleInv' /\ OneAttemptStep
<1>. USE DEF UserGoes, UserKeeps, fixtureVars, handoffVars
<1>1. TypeInv
  BY DEF LifecycleInv
<1>2. deaths \in 0 .. MaxDeaths /\ userAt[u] \in UserPlaces
  BY <1>1 DEF TypeInv
<1>3. Working = {"denials", "vault", "staging", "bind", "rebind", "write", "publish"}
      /\ UserPlaces = {"off", "over", "dead", "denials", "vault", "staging", "look", "claim", "bind", "rebind",
                       "write", "publish"}
      /\ Written = {"publish", "over", "dead"} /\ CHECKS = {"denials", "vault", "staging"}
      /\ Ends = {"off", "over", "dead"}
  BY DEF Working, UserPlaces, Written, CHECKS, Ends
<1>4. CASE ClaimRefused(u)
  BY <1>2, <1>3, <1>4, UserMovesOn DEF ClaimRefused
<1>5. CASE UserBindsInputs(u)
  <2>1. userAt[u] = "bind" /\ \E to \in {"denials", "rebind"} : userAt' = [userAt EXCEPT ![u] = to]
    BY <1>5 DEF UserBindsInputs
  <2>2. PICK to \in {"denials", "rebind"} : userAt' = [userAt EXCEPT ![u] = to]
    BY <2>1
  <2>. QED BY <1>2, <1>3, <1>5, <2>1, <2>2, UserMovesOn DEF UserBindsInputs
<1>6. CASE UserCheckFails(u)
  BY <1>2, <1>3, <1>6, UserMovesOn DEF UserCheckFails
<1>7. CASE WritePending(u)
  <2>1. CASE result = None /\ pending = None
    <3>1. userAt[u] = "write" /\ userAt' = [userAt EXCEPT ![u] = "publish"] /\ pending'.checks = report[u].checks
      BY <1>7, <2>1 DEF WritePending
    <3>. QED BY <1>2, <1>3, <1>7, <3>1, UserMovesOn DEF WritePending
  <2>2. CASE ~(result = None /\ pending = None)
    <3>1. userAt[u] = "write" /\ userAt' = [userAt EXCEPT ![u] = "over"] /\ pending' = pending
      BY <1>7, <2>2 DEF WritePending
    <3>. QED BY <1>2, <1>3, <1>7, <3>1, UserMovesOn DEF WritePending
  <2>. QED BY <2>1, <2>2
<1>8. CASE PublishResult(u)
  <2>1. /\ userAt[u] = "publish" /\ userAt' = [userAt EXCEPT ![u] = "over"]
        /\ pending' = pending \/ pending' = None
        /\ result' = result \/ (result = None /\ result' = pending)
    BY <1>8 DEF PublishResult
  <2>. QED BY <1>2, <1>3, <1>8, <2>1, UserMovesOn DEF PublishResult
<1>9. CASE UserDies(u)
  <2>1. deaths' \in 0 .. MaxDeaths
    BY SMT, <1>2, <1>9, DeathsAssumption DEF UserDies
  <2>. QED BY <1>2, <1>3, <1>9, <2>1, UserMovesOn DEF UserDies
<1>10. CASE CheckDenials(u) \/ CheckVault(u) \/ CheckStaging(u)
  BY <1>10, ChecksKeep DEF CheckDenials, CheckVault, CheckStaging
<1>. QED BY <1>4, <1>5, <1>6, <1>7, <1>8, <1>9, <1>10, StartUserKeeps, LookKeeps, ClaimKeeps, UserRebindsKeeps
         DEF UserStep

-----------------------------------------------------------------------------
(* The administrator's phase.                                              *)

\* A machine given by its parts.
MachineOf(app, client, host, core, package, profile, vault, downloads) ==
  [app |-> app, client |-> client, host |-> host, core |-> core, package |-> package, profile |-> profile,
   vault |-> vault, downloads |-> downloads]

\* The parts of a machine given by them.
LEMMA MachineParts ==
  ASSUME NEW app \in {"none", "installed", "broken"}, NEW client, NEW host \in {"none", "current", "legacy"},
         NEW core, NEW package, NEW profile, NEW vault, NEW downloads,
         NEW m, m = MachineOf(app, client, host, core, package, profile, vault, downloads)
  PROVE  /\ IsMachine(m)
         /\ m.app = app /\ m.client = client /\ m.host = host /\ m.core = core /\ m.package = package
         /\ m.profile = profile /\ m.vault = vault /\ m.downloads = downloads
BY DEF MachineOf, IsMachine

\* The truth values, for a prover that does not look into them.
Yes == TRUE
No == FALSE

\* The machine with one of its parts replaced.
LEMMA MachineExcept ==
  ASSUME NEW app, NEW client, NEW host, NEW core, NEW package, NEW profile, NEW vault, NEW downloads,
         NEW m, m = MachineOf(app, client, host, core, package, profile, vault, downloads), NEW x
  PROVE  /\ [m EXCEPT !.app = x] = MachineOf(x, client, host, core, package, profile, vault, downloads)
         /\ [m EXCEPT !.client = x] = MachineOf(app, x, host, core, package, profile, vault, downloads)
         /\ [m EXCEPT !.host = x] = MachineOf(app, client, x, core, package, profile, vault, downloads)
         /\ [m EXCEPT !.core = x] = MachineOf(app, client, host, x, package, profile, vault, downloads)
         /\ [m EXCEPT !.package = x] = MachineOf(app, client, host, core, x, profile, vault, downloads)
         /\ [m EXCEPT !.profile = x] = MachineOf(app, client, host, core, package, x, vault, downloads)
         /\ [m EXCEPT !.downloads = x] = MachineOf(app, client, host, core, package, profile, vault, x)
BY SMT DEF MachineOf

\* The machine after an installation and after an uninstallation, by its parts.
LEMMA MachineAfter ==
  ASSUME IsMachine(machine)
  PROVE  /\ machine = MachineOf(machine.app, machine.client, machine.host, machine.core, machine.package,
                                machine.profile, machine.vault, machine.downloads)
         /\ Installed = MachineOf("installed", Yes, "current", "installed", machine.package, machine.profile,
                                  machine.vault, machine.downloads)
         /\ Uninstalled = MachineOf("none", No, "none", "none", machine.package, machine.profile,
                                    machine.vault, No)
         /\ [machine EXCEPT !.profile = "private", !.downloads = TRUE] =
              MachineOf(machine.app, machine.client, machine.host, machine.core, machine.package, "private",
                        machine.vault, Yes)
<1>1. machine = MachineOf(machine.app, machine.client, machine.host, machine.core, machine.package,
                          machine.profile, machine.vault, machine.downloads)
  BY DEF IsMachine, MachineOf
<1>. DEFINE app == machine.app      client == machine.client    host == machine.host
            core == machine.core    package == machine.package  profile == machine.profile
            vault == machine.vault  downloads == machine.downloads
            i1 == [machine EXCEPT !.app = "installed"]
            i2 == [i1 EXCEPT !.client = Yes]
            i3 == [i2 EXCEPT !.host = "current"]
            i4 == [i3 EXCEPT !.core = "installed"]
            u1 == [machine EXCEPT !.app = "none"]
            u2 == [u1 EXCEPT !.client = No]
            u3 == [u2 EXCEPT !.host = "none"]
            u4 == [u3 EXCEPT !.core = "none"]
            u5 == [u4 EXCEPT !.downloads = No]
            p1 == [machine EXCEPT !.profile = "private"]
            p2 == [p1 EXCEPT !.downloads = Yes]
<1>2. Installed = i4
  BY DEF Installed, Yes
<1>3. Uninstalled = u5
  BY DEF Uninstalled, No
<1>4. [machine EXCEPT !.profile = "private", !.downloads = TRUE] = p2
  BY DEF Yes
<1>5. machine = MachineOf(app, client, host, core, package, profile, vault, downloads)
  BY <1>1
<1>. HIDE DEF app, client, host, core, package, profile, vault, downloads, i1, i2, i3, i4, u1, u2, u3, u4, u5, p1, p2
<1>6. i4 = MachineOf("installed", Yes, "current", "installed", package, profile, vault, downloads)
  <2>1. i1 = MachineOf("installed", client, host, core, package, profile, vault, downloads)
    BY SMT, <1>5 DEF MachineOf, i1
  <2>2. i2 = MachineOf("installed", Yes, host, core, package, profile, vault, downloads)
    BY SMT, <2>1 DEF MachineOf, i2
  <2>3. i3 = MachineOf("installed", Yes, "current", core, package, profile, vault, downloads)
    BY SMT, <2>2 DEF MachineOf, i3
  <2>. QED BY SMT, <2>3 DEF MachineOf, i4
<1>7. u5 = MachineOf("none", No, "none", "none", package, profile, vault, No)
  <2>1. u1 = MachineOf("none", client, host, core, package, profile, vault, downloads)
    BY SMT, <1>5 DEF MachineOf, u1
  <2>2. u2 = MachineOf("none", No, host, core, package, profile, vault, downloads)
    BY SMT, <2>1 DEF MachineOf, u2
  <2>3. u3 = MachineOf("none", No, "none", core, package, profile, vault, downloads)
    BY SMT, <2>2 DEF MachineOf, u3
  <2>4. u4 = MachineOf("none", No, "none", "none", package, profile, vault, downloads)
    BY SMT, <2>3 DEF MachineOf, u4
  <2>. QED BY SMT, <2>4 DEF MachineOf, u5
<1>8. p2 = MachineOf(app, client, host, core, package, "private", vault, Yes)
  <2>1. p1 = MachineOf(app, client, host, core, package, "private", vault, downloads)
    BY SMT, <1>5 DEF MachineOf, p1
  <2>. QED BY SMT, <2>1 DEF MachineOf, p2
<1>9. Installed = MachineOf("installed", Yes, "current", "installed", machine.package, machine.profile,
                            machine.vault, machine.downloads)
  BY <1>2, <1>6 DEF package, profile, vault, downloads
<1>10. Uninstalled = MachineOf("none", No, "none", "none", machine.package, machine.profile, machine.vault, No)
  BY <1>3, <1>7 DEF package, profile, vault
<1>11. [machine EXCEPT !.profile = "private", !.downloads = TRUE] =
         MachineOf(machine.app, machine.client, machine.host, machine.core, machine.package, "private",
                   machine.vault, Yes)
  BY <1>4, <1>8 DEF app, client, host, core, package, vault
<1>. QED BY <1>1, <1>9, <1>10, <1>11

\* Where an invocation is ahead.
LEMMA Places ==
  /\ AfterMeasure \subseteq AfterVerify /\ AfterVerify \subseteq AfterHandoff /\ AfterHandoff \subseteq Past
  /\ AfterHandoff \subseteq AfterInstall /\ AfterInstall \subseteq Trying /\ "handoff" \in Past
  /\ "handoff" \notin AfterHandoff /\ "bind" \notin AfterInstall /\ "install" \notin AfterInstall
  /\ Trying \intersect Finally = {} /\ Trying \intersect Ends = {} /\ Finally \intersect Ends = {}
  /\ "registrations" \notin Past /\ "registrations" \notin Trying
  /\ "pass" \in AfterMeasure /\ "wait" \in AfterHandoff /\ "wait" \notin AfterVerify
  /\ Past \subseteq Trying /\ "bind" \notin Past /\ "bind" \in Trying
BY DEF Trying, Finally, Ends, AfterInstall, AfterHandoff, AfterVerify, AfterMeasure, Past

\* What a step in which nobody starts leaves of who knows of whom.
LEMMA BesideKeeps ==
  ASSUME LifecycleInv, NEW a \in Admins, NEW to, AdminFrame(a, to), Active(a), UNCHANGED beside
  PROVE  BesideInv'
<1>1. BesideInv
  BY DEF LifecycleInv, AdminInv
<1>2. \A b \in Admins : Active(b)' => Active(b)
  BY OthersKeep
<1>. QED BY <1>1, <1>2 DEF BesideInv

\* A step of the try block: it fails, or what it should have brought about holds.
LEMMA TryKeeps ==
  ASSUME LifecycleInv, NEW a \in Admins, NEW to,
         adminAt[a] \in Trying, to \in Trying \union {"registrations"},
         adminAt' = [adminAt EXCEPT ![a] = to],
         UNCHANGED <<userAt, report, handed, loaded, hostKeys, snapshot, beside, deaths>>,
         UNCHANGED <<builder, plan, disk, receipt, manifest, ready, claim, pending, result, ended>>,
         changes' \in 0 .. MaxChanges,
         DOMAIN retained' = Admins, \A b \in Admins : b # a => retained'[b] = retained[b],
         IsMachine(machine'), machine'.vault = machine.vault,
         machine.package # None => machine'.package # None,
         machine'.package = machine.package \/ (machine'.package.by = a /\ adminAt[a] = "install"),
         machine'.package # None => machine'.package.content \subseteq disk["installer"],
         machine'.profile = machine.profile \/ machine.profile = "none" \/ adminAt[a] \in Past,
         machine.profile # "none" => machine'.profile # "none",
         to # "bind",
         to = "install" => adminAt[a] = "bind",
         to \in AfterInstall => machine'.package # None,
         to = "handoff" => machine'.profile = "private" /\ machine.profile = "none",
         to \in AfterHandoff => adminAt[a] \in AfterHandoff /\ machine'.profile = "private",
         to \in AfterVerify => Verified,
         to \in AfterMeasure => retained'[a].profile = "private",
         to = "pass" => Removed'
  PROVE  LifecycleInv' /\ OneAttemptStep
<1>1. TypeInv /\ AdminOK(a)
  BY DEF LifecycleInv, AdminInv
<1>2. Active(a)
  BY DEF Active, Ends, Trying
<1>3. Saved /\ Earlier(loaded[a], manifest) /\ report[a].status = "failed"
      /\ (ended # None => ended.by \in beside[a])
  BY <1>1, <1>2 DEF AdminOK
<1>4. adminAt'[a] = to
  BY <1>1 DEF TypeInv
<1>5. to \notin Finally \/ to = "registrations"
  BY DEF Trying, Finally
<1>6. "registrations" \notin Trying /\ "registrations" \notin AfterInstall /\ "registrations" \notin AfterHandoff
      /\ "registrations" \notin AfterVerify /\ "registrations" \notin AfterMeasure
  BY DEF Trying, AfterInstall, AfterHandoff, AfterVerify, AfterMeasure
<1>7. Saved' /\ (Verified' <=> Verified)
  BY <1>3 DEF Saved, Verified
<1>8. to \in AfterHandoff => Handover(a)'
  <2>1. SUFFICES ASSUME to \in AfterHandoff PROVE Handover(a)'
    OBVIOUS
  <2>2. Handover(a)
    BY <1>1, <1>2, <2>1 DEF AdminOK
  <2>3. machine'.package # None /\ machine'.profile = "private"
    BY <2>1, Places
  <2>. QED BY <2>2, <2>3 DEF Handover
<1>9. to \notin {"rebind", "write"} /\ to # "bind"
  BY <1>5 DEF Finally
<1>10. ~Passed(a) /\ ~Passed(a)'
  BY <1>3 DEF Passed
<1>11. to \in {"bind", "install"} /\ machine'.package # None => machine'.package.by \in beside[a]
  BY <1>1, <1>2 DEF AdminOK
<1>12. Sole(a)'
  BY <1>4, <1>10 DEF Sole
<1>13. AdminOK(a)'
  BY <1>3, <1>4, <1>6, <1>7, <1>8, <1>9, <1>10, <1>11, <1>12 DEF AdminOK
<1>14. adminAt[a] \in Past => Ahead(a)
  BY DEF Ahead
<1>15. AdminFrame(a, to)
  <2>1. to \in AdminPlaces
    BY DEF AdminPlaces, Finally
  <2>2. deaths' \in 0 .. MaxDeaths /\ report' \in [Processes -> Reports] /\ DOMAIN handed' = Processes
        /\ DOMAIN loaded' = Processes /\ DOMAIN snapshot' = Admins /\ beside' \in [Admins -> SUBSET Admins]
    BY <1>1 DEF TypeInv
  <2>3. MachineFrame(a)
    BY <1>3, <1>14 DEF MachineFrame
  <2>4. OthersFrame(a)
    BY DEF OthersFrame
  <2>. QED BY <1>2, <2>1, <2>2, <2>3, <2>4 DEF AdminFrame
<1>16. AheadFrame(a)
  <2>1. Ahead(a)' => to \in Past
    BY <1>4, <1>10 DEF Ahead
  <2>2. to \in Past => machine'.profile = "private" /\ (adminAt[a] \in Past \/ machine.profile = "none")
    BY Places DEF Past
  <2>. QED BY <1>14, <2>1, <2>2 DEF AheadFrame
<1>17. BesideInv'
  BY <1>2, <1>15, BesideKeeps
<1>. QED BY <1>13, <1>15, <1>16, <1>17, AdminFrameKeeps

\* What the administrator's command leaves alone.
CommandFrame(a, to) ==
  /\ adminAt' = [adminAt EXCEPT ![a] = to]
  /\ UNCHANGED <<userAt, report, handed, loaded, hostKeys, snapshot, beside, deaths>>
  /\ UNCHANGED <<builder, plan, disk, receipt, manifest, ready, claim, pending, result, ended>>
  /\ changes' \in 0 .. MaxChanges

\* A command of the administrator after the digests were taken.
LEMMA CommandKeeps ==
  ASSUME LifecycleInv, NEW a \in Admins, NEW to, CommandFrame(a, to), UNCHANGED retained,
         adminAt[a] \in AfterMeasure, to \in AfterMeasure \union {"registrations"},
         IsMachine(machine'), machine'.vault = machine.vault, machine'.package = machine.package,
         machine'.profile # "none",
         to # "registrations" => machine'.profile = "private",
         to = "pass" => Removed'
  PROVE  LifecycleInv' /\ OneAttemptStep
<1>1. AfterMeasure \subseteq AfterVerify /\ AfterVerify \subseteq AfterHandoff /\ AfterHandoff \subseteq AfterInstall
      /\ AfterInstall \subseteq Trying /\ "bind" \notin AfterInstall /\ "install" \notin AfterInstall
      /\ AfterHandoff \subseteq Past
  BY Places
<1>2. AdminOK(a) /\ PackageInv /\ DOMAIN retained = Admins
  BY DEF LifecycleInv, AdminInv, TypeInv
<1>3. Active(a)
  BY <1>1 DEF Active, Ends, Trying
<1>4. Verified /\ retained[a].profile = "private" /\ machine.package # None
  BY <1>1, <1>2, <1>3 DEF AdminOK
<1>5. machine'.package.content \subseteq disk["installer"] /\ machine'.package # None
  BY <1>2, <1>4 DEF PackageInv
<1>6. "registrations" \notin AfterHandoff /\ to # "handoff" /\ to # "bind" /\ to # "install" /\ to \in Trying \union {"registrations"}
      /\ adminAt[a] \in Trying /\ adminAt[a] \in AfterHandoff
  BY <1>1 DEF AfterMeasure, AfterVerify, AfterHandoff, AfterInstall, Trying
<1>7. (to \in AfterHandoff => machine'.profile = "private") /\ adminAt[a] \in Past
  BY <1>1, <1>6
<1>8. retained'[a].profile = "private" /\ DOMAIN retained' = Admins
      /\ \A b \in Admins : b # a => retained'[b] = retained[b]
  BY <1>2, <1>4
<1>. QED BY <1>4, <1>5, <1>6, <1>7, <1>8, TryKeeps DEF CommandFrame

\* What AdminRuns does, whatever the command.
LEMMA RunsDo ==
  ASSUME LifecycleInv, NEW a, NEW from, NEW next, NEW after, NEW spoils, NEW good,
         AdminRuns(a, from, next, after, spoils, good)
  PROVE  /\ adminAt[a] = from /\ UNCHANGED retained
         /\ CommandFrame(a, IF good THEN next ELSE "registrations")
         /\ machine' = after \/ machine' \in spoils
<1>1. changes' \in 0 .. MaxChanges
  BY SMT, ChangesAssumption DEF AdminRuns, LifecycleInv, FixtureInv, FixtureTypes
<1>. QED BY <1>1 DEF AdminRuns, AdminGoes, AdminKeeps, CommandFrame, handoffVars

\* The commands between the digests and the first uninstallation.
LEMMA RepairsKeep ==
  ASSUME LifecycleInv, NEW a \in Admins,
         \/ OptionalRepair(a) \/ RepairClient(a) \/ StartLegacyHost(a) \/ LegacyRefused(a) \/ UpgradeHost(a)
  PROVE  LifecycleInv' /\ OneAttemptStep
<1>0. IsMachine(machine) /\ AdminOK(a) /\ changes \in 0 .. MaxChanges
  BY DEF LifecycleInv, TypeInv, AdminInv, FixtureInv, FixtureTypes
<1>. DEFINE app == machine.app      client == machine.client    host == machine.host
            core == machine.core    package == machine.package  profile == machine.profile
            vault == machine.vault  downloads == machine.downloads
<1>1. machine = MachineOf(app, client, host, core, package, profile, vault, downloads)
      /\ app \in {"none", "installed", "broken"} /\ host \in {"none", "current", "legacy"}
  BY <1>0, MachineAfter DEF IsMachine
<1>2. \E to \in AfterMeasure \union {"registrations"} :
        /\ adminAt[a] \in AfterMeasure /\ CommandFrame(a, to) /\ UNCHANGED retained /\ to # "pass"
        /\ \/ machine' = machine
           \/ machine' = [machine EXCEPT !.core = "replaced"]
           \/ machine' = [machine EXCEPT !.client = FALSE]
           \/ machine' = [machine EXCEPT !.host = "legacy"]
           \/ machine' = [machine EXCEPT !.host = "current"]
  <2>0. /\ "optionalRepair" \in AfterMeasure /\ "repairClient" \in AfterMeasure /\ "legacyHost" \in AfterMeasure
        /\ "refuseLegacy" \in AfterMeasure /\ "upgradeHost" \in AfterMeasure /\ "reinstall" \in AfterMeasure
    BY DEF AfterMeasure, AfterVerify, AfterHandoff, AfterInstall, Trying
  <2>1. CASE OptionalRepair(a)
    <3>1. /\ adminAt[a] = "optionalRepair" /\ UNCHANGED retained
          /\ \E to \in {"repairClient", "registrations"} : CommandFrame(a, to)
      BY <2>1, RunsDo DEF OptionalRepair
    <3>2. machine' = machine \/ machine' = [machine EXCEPT !.core = "replaced"]
      BY <2>1 DEF OptionalRepair, AdminRuns
    <3>. QED BY <2>0, <3>1, <3>2
  <2>2. CASE RepairClient(a)
    <3>1. /\ adminAt[a] = "repairClient" /\ UNCHANGED retained
          /\ \E to \in {"legacyHost", "registrations"} : CommandFrame(a, to)
      BY <2>2, RunsDo DEF RepairClient
    <3>2. machine' = machine \/ machine' = [machine EXCEPT !.client = FALSE]
      BY <2>2 DEF RepairClient, AdminRuns
    <3>. QED BY <2>0, <3>1, <3>2
  <2>3. CASE StartLegacyHost(a)
    BY <1>0, <2>0, <2>3 DEF StartLegacyHost, AdminGoes, AdminKeeps, CommandFrame, handoffVars, fixtureVars
  <2>4. CASE LegacyRefused(a)
    <3>1. /\ adminAt[a] = "refuseLegacy" /\ UNCHANGED retained
          /\ \E to \in {"upgradeHost", "registrations"} : CommandFrame(a, to)
      BY <2>4, RunsDo DEF LegacyRefused
    <3>2. machine' = machine \/ machine' = [machine EXCEPT !.host = "current"]
      BY <2>4 DEF LegacyRefused, AdminRuns
    <3>. QED BY <2>0, <3>1, <3>2
  <2>5. CASE UpgradeHost(a)
    <3>1. /\ adminAt[a] = "upgradeHost" /\ UNCHANGED retained
          /\ \E to \in {"reinstall", "registrations"} : CommandFrame(a, to)
      BY <2>5, RunsDo DEF UpgradeHost
    <3>2. machine' = [machine EXCEPT !.host = "current"] \/ machine' = machine
      BY <2>5 DEF UpgradeHost, AdminRuns
    <3>. QED BY <2>0, <3>1, <3>2
  <2>. QED BY <2>1, <2>2, <2>3, <2>4, <2>5
<1>3. PICK to \in AfterMeasure \union {"registrations"} :
        /\ adminAt[a] \in AfterMeasure /\ CommandFrame(a, to) /\ UNCHANGED retained /\ to # "pass"
        /\ \/ machine' = machine
           \/ machine' = [machine EXCEPT !.core = "replaced"]
           \/ machine' = [machine EXCEPT !.client = FALSE]
           \/ machine' = [machine EXCEPT !.host = "legacy"]
           \/ machine' = [machine EXCEPT !.host = "current"]
  BY <1>2
<1>4. profile = "private"
  <2>1. Active(a) /\ adminAt[a] \in AfterHandoff
    BY <1>3 DEF Active, Ends, AfterMeasure, AfterVerify, AfterHandoff, AfterInstall, Trying
  <2>. QED BY <1>0, <2>1 DEF AdminOK, Handover
<1>5. IsMachine(machine') /\ machine'.vault = vault /\ machine'.package = package /\ machine'.profile = profile
  <2>. DEFINE f == [machine EXCEPT !.client = No]
  <2>1. /\ \/ machine' = machine \/ machine' = f
           \/ machine' = [machine EXCEPT !.core = "replaced"]
           \/ machine' = [machine EXCEPT !.host = "legacy"]
           \/ machine' = [machine EXCEPT !.host = "current"]
    BY <1>3 DEF No
  <2>. HIDE DEF app, client, host, core, package, profile, vault, downloads
  <2>2. CASE machine' = machine
    BY SMT, <1>1, <2>2, MachineParts
  <2>3. CASE machine' = f
    <3>1. machine' = MachineOf(app, No, host, core, package, profile, vault, downloads)
      BY <1>1, <2>3 DEF MachineOf
    <3>. QED BY SMT, <1>1, <3>1, MachineParts
  <2>4. CASE machine' = [machine EXCEPT !.core = "replaced"]
    <3>1. machine' = MachineOf(app, client, host, "replaced", package, profile, vault, downloads)
      BY <1>1, <2>4 DEF MachineOf
    <3>. QED BY SMT, <1>1, <3>1, MachineParts
  <2>5. CASE machine' = [machine EXCEPT !.host = "legacy"]
    <3>1. machine' = MachineOf(app, client, "legacy", core, package, profile, vault, downloads)
      BY <1>1, <2>5 DEF MachineOf
    <3>. QED BY SMT, <1>1, <3>1, MachineParts
  <2>6. CASE machine' = [machine EXCEPT !.host = "current"]
    <3>1. machine' = MachineOf(app, client, "current", core, package, profile, vault, downloads)
      BY <1>1, <2>6 DEF MachineOf
    <3>. QED BY SMT, <1>1, <3>1, MachineParts
  <2>. QED BY <2>1, <2>2, <2>3, <2>4, <2>5, <2>6
<1>. QED BY <1>3, <1>4, <1>5, CommandKeeps

\* The reinstallations and the uninstallations, and whether profile and vault are kept.
LEMMA RemovalsKeep ==
  ASSUME LifecycleInv, NEW a \in Admins,
         Reinstall(a) \/ Uninstall(a) \/ ReinstallResidual(a) \/ FinalUninstall(a)
  PROVE  LifecycleInv' /\ OneAttemptStep
<1>0. IsMachine(machine) /\ AdminOK(a)
  BY DEF LifecycleInv, TypeInv, AdminInv
<1>. DEFINE app == machine.app      client == machine.client    host == machine.host
            core == machine.core    package == machine.package  profile == machine.profile
            vault == machine.vault  downloads == machine.downloads
<1>1. /\ machine = MachineOf(app, client, host, core, package, profile, vault, downloads)
      /\ app \in {"none", "installed", "broken"} /\ host \in {"none", "current", "legacy"}
      /\ Installed = MachineOf("installed", Yes, "current", "installed", package, profile, vault, downloads)
      /\ Uninstalled = MachineOf("none", No, "none", "none", package, profile, vault, No)
  BY <1>0, MachineAfter DEF IsMachine
<1>2. /\ "reinstall" \in AfterMeasure /\ "uninstall" \in AfterMeasure /\ "residual" \in AfterMeasure
      /\ "finalUninstall" \in AfterMeasure /\ "pass" \in AfterMeasure
  BY DEF AfterMeasure, AfterVerify, AfterHandoff, AfterInstall, Trying
<1>3. adminAt[a] \in AfterMeasure => profile = "private" /\ retained[a].profile = "private"
  <2>1. SUFFICES ASSUME adminAt[a] \in AfterMeasure PROVE profile = "private" /\ retained[a].profile = "private"
    OBVIOUS
  <2>2. Active(a) /\ adminAt[a] \in AfterHandoff
    BY <2>1 DEF Active, Ends, AfterMeasure, AfterVerify, AfterHandoff, AfterInstall, Trying
  <2>. QED BY <1>0, <2>1, <2>2 DEF AdminOK, Handover
<1>. HIDE DEF app, client, host, core, package, profile, vault, downloads
<1>4. /\ Altered(machine) = MachineOf(app, client, host, core, package, "altered", vault, downloads)
      /\ Altered(Uninstalled) = MachineOf("none", No, "none", "none", package, "altered", vault, No)
      /\ [Installed EXCEPT !.app = "broken"] =
           MachineOf("broken", Yes, "current", "installed", package, profile, vault, downloads)
      /\ [Uninstalled EXCEPT !.app = "broken"] =
           MachineOf("broken", No, "none", "none", package, profile, vault, No)
      /\ [Uninstalled EXCEPT !.downloads = machine.downloads] =
           MachineOf("none", No, "none", "none", package, profile, vault, downloads)
  <2>1. Altered(machine) = MachineOf(app, client, host, core, package, "altered", vault, downloads)
    BY SMT, <1>1 DEF Altered, MachineOf
  <2>2. Altered(Uninstalled) = MachineOf("none", No, "none", "none", package, "altered", vault, No)
    BY SMT, <1>1 DEF Altered, MachineOf
  <2>3. [Installed EXCEPT !.app = "broken"] =
           MachineOf("broken", Yes, "current", "installed", package, profile, vault, downloads)
    BY SMT, <1>1 DEF MachineOf
  <2>4. [Uninstalled EXCEPT !.app = "broken"] =
           MachineOf("broken", No, "none", "none", package, profile, vault, No)
    BY SMT, <1>1 DEF MachineOf
  <2>5. [Uninstalled EXCEPT !.downloads = machine.downloads] =
           MachineOf("none", No, "none", "none", package, profile, vault, downloads)
    BY SMT, <1>1 DEF MachineOf, downloads
  <2>. QED BY <2>1, <2>2, <2>3, <2>4, <2>5
<1>5. CASE Reinstall(a)
  <2>1. /\ adminAt[a] = "reinstall" /\ UNCHANGED retained
        /\ CommandFrame(a, IF Kept(a, machine') THEN "uninstall" ELSE "registrations")
        /\ machine' = machine \/ machine' \in {Altered(machine)}
    BY <1>5, RunsDo DEF Reinstall
  <2>2. IsMachine(machine') /\ machine'.vault = vault /\ machine'.package = package /\ machine'.profile # "none"
    <3>1. CASE machine' = machine
      BY <1>0, <1>2, <1>3, <2>1, <3>1 DEF vault, package, profile
    <3>2. CASE machine' = MachineOf(app, client, host, core, package, "altered", vault, downloads)
      <4>1. app \in {"none", "installed", "broken"} /\ host \in {"none", "current", "legacy"}
        BY <1>1
      <4>. QED BY <3>2, <4>1 DEF MachineOf, IsMachine
    <3>. QED BY <1>4, <2>1, <3>1, <3>2
  <2>3. CASE Kept(a, machine')
    <3>1. CommandFrame(a, "uninstall") /\ machine'.profile = "private"
      BY <1>2, <1>3, <2>1, <2>3 DEF Kept
    <3>. QED BY <1>2, <2>1, <2>2, <3>1, CommandKeeps DEF vault, package
  <2>4. CASE ~Kept(a, machine')
    <3>1. CommandFrame(a, "registrations")
      BY <2>1, <2>4
    <3>. QED BY <1>2, <2>1, <2>2, <3>1, CommandKeeps DEF vault, package
  <2>. QED BY <2>3, <2>4
<1>6. CASE Uninstall(a)
  <2>. DEFINE good == machine'.app = "none" /\ ~machine'.downloads /\ Kept(a, machine')
  <2>1. /\ adminAt[a] = "uninstall" /\ UNCHANGED retained
        /\ CommandFrame(a, IF good THEN "residual" ELSE "registrations")
        /\ \/ machine' = Uninstalled
           \/ machine' \in Leftovers \union {[Uninstalled EXCEPT !.downloads = machine.downloads]}
    BY <1>6, RunsDo DEF Uninstall
  <2>2. \/ machine' = Uninstalled \/ machine' = [Uninstalled EXCEPT !.app = "broken"]
        \/ machine' = Altered(Uninstalled) \/ machine' = [Uninstalled EXCEPT !.downloads = machine.downloads]
    BY <2>1 DEF Leftovers
  <2>7. profile = "private"
    BY <1>2, <1>3, <2>1
  <2>8. machine'.profile = profile \/ machine'.profile = "altered"
    BY SMT, <1>1, <1>4, <2>2, MachineParts
  <2>9. IsMachine(machine') /\ machine'.vault = vault /\ machine'.package = package
    BY SMT, <1>1, <1>4, <2>2, MachineParts
  <2>3. IsMachine(machine') /\ machine'.vault = vault /\ machine'.package = package /\ machine'.profile # "none"
    BY <2>7, <2>8, <2>9
  <2>4. CASE good
    <3>1. CommandFrame(a, "residual") /\ machine'.profile = "private"
      BY <1>2, <1>3, <2>1, <2>4 DEF Kept
    <3>. QED BY <1>2, <2>1, <2>3, <3>1, CommandKeeps DEF vault, package
  <2>5. CASE ~good
    <3>1. CommandFrame(a, "registrations")
      BY <2>1, <2>5
    <3>. QED BY <1>2, <2>1, <2>3, <3>1, CommandKeeps DEF vault, package
  <2>. QED BY <2>4, <2>5
<1>7. CASE ReinstallResidual(a)
  <2>. DEFINE broken == {[Installed EXCEPT !.app = "broken"]}
              good == machine'.app = "installed"
  <2>0. AdminRuns(a, "residual", "finalUninstall", Installed, broken, good)
    BY <1>7 DEF ReinstallResidual
  <2>9. machine' \in broken => machine' = [Installed EXCEPT !.app = "broken"]
    OBVIOUS
  <2>. HIDE DEF broken, good
  <2>1. /\ adminAt[a] = "residual" /\ UNCHANGED retained
        /\ CommandFrame(a, IF good THEN "finalUninstall" ELSE "registrations")
        /\ machine' = Installed \/ machine' \in broken
    BY <2>0, RunsDo
  <2>2. \/ machine' = MachineOf("installed", Yes, "current", "installed", package, profile, vault, downloads)
        \/ machine' = MachineOf("broken", Yes, "current", "installed", package, profile, vault, downloads)
    BY <1>1, <1>4, <2>9, <2>1
  <2>3. IsMachine(machine') /\ machine'.vault = vault /\ machine'.package = package /\ machine'.profile = profile
    <3>1. CASE machine' = MachineOf("installed", Yes, "current", "installed", package, profile, vault, downloads)
      BY SMT, <3>1, MachineParts
    <3>2. CASE machine' = MachineOf("broken", Yes, "current", "installed", package, profile, vault, downloads)
      BY SMT, <3>2, MachineParts
    <3>. QED BY <2>2, <3>1, <3>2
  <2>4. profile = "private"
    BY <1>2, <1>3, <2>1
  <2>5. CASE good
    <3>1. CommandFrame(a, "finalUninstall")
      BY <2>1, <2>5
    <3>. QED BY <1>2, <2>1, <2>3, <2>4, <3>1, CommandKeeps DEF vault, package
  <2>6. CASE ~good
    <3>1. CommandFrame(a, "registrations")
      BY <2>1, <2>6
    <3>. QED BY <1>2, <2>1, <2>3, <2>4, <3>1, CommandKeeps DEF vault, package
  <2>. QED BY <2>5, <2>6
<1>8. CASE FinalUninstall(a)
  <2>. DEFINE good == machine'.app = "none" /\ Kept(a, machine')
  <2>1. /\ adminAt[a] = "finalUninstall" /\ UNCHANGED retained
        /\ CommandFrame(a, IF good THEN "pass" ELSE "registrations")
        /\ machine' = Uninstalled \/ machine' \in Leftovers
    BY <1>8, RunsDo DEF FinalUninstall
  <2>2. machine' = Uninstalled \/ machine' = [Uninstalled EXCEPT !.app = "broken"] \/ machine' = Altered(Uninstalled)
    BY <2>1 DEF Leftovers
  <2>7. profile = "private"
    BY <1>2, <1>3, <2>1
  <2>8. machine'.profile = profile \/ machine'.profile = "altered"
    <3>1. \/ machine' = MachineOf("none", No, "none", "none", package, profile, vault, No)
          \/ machine' = MachineOf("broken", No, "none", "none", package, profile, vault, No)
          \/ machine' = MachineOf("none", No, "none", "none", package, "altered", vault, No)
      BY <1>1, <1>4, <2>2
    <3>. QED BY SMT, <3>1 DEF MachineOf
  <2>9. /\ IsMachine(machine') /\ machine'.vault = vault /\ machine'.package = package
        /\ machine'.host = "none" /\ machine'.downloads = No
    BY SMT, <1>1, <1>4, <2>2, MachineParts
  <2>3. /\ IsMachine(machine') /\ machine'.vault = vault /\ machine'.package = package
        /\ machine'.host = "none" /\ machine'.downloads = No /\ machine'.profile # "none"
    BY <2>7, <2>8, <2>9
  <2>4. CASE good
    <3>1. CommandFrame(a, "pass") /\ machine'.profile = "private"
      BY <1>2, <1>3, <2>1, <2>4 DEF Kept
    <3>2. Removed'
      BY <2>3, <2>4 DEF Removed, No
    <3>. QED BY <1>2, <2>1, <2>3, <3>1, <3>2, CommandKeeps DEF vault, package
  <2>5. CASE ~good
    <3>1. CommandFrame(a, "registrations")
      BY <2>1, <2>5
    <3>. QED BY <1>2, <2>1, <2>3, <3>1, CommandKeeps DEF vault, package
  <2>. QED BY <2>4, <2>5
<1>. QED BY <1>5, <1>6, <1>7, <1>8

\* The steps of the try block that do not touch the machine.
LEMMA ChecksOfAdminKeep ==
  ASSUME LifecycleInv, NEW a \in Admins,
         \/ BindInputs(a) \/ ResultArrives(a) \/ WaitTimesOut(a) \/ VerifyStandardResult(a) \/ TakeDigests(a)
         \/ AdminCommandFails(a)
  PROVE  LifecycleInv' /\ OneAttemptStep
<1>. USE DEF AdminCheck, AdminGoes, AdminKeeps, fixtureVars, handoffVars
<1>1. TypeInv /\ FixtureInv /\ PackageInv /\ HandoffInv /\ AdminOK(a)
  BY DEF LifecycleInv, AdminInv
<1>2. IsMachine(machine) /\ changes \in 0 .. MaxChanges /\ adminAt[a] \in AdminPlaces /\ DOMAIN retained = Admins
  BY <1>1 DEF TypeInv, FixtureInv, FixtureTypes
<1>3. machine.package # None => machine.package.content \subseteq disk["installer"]
  BY <1>1 DEF PackageInv
<1>4. /\ Trying = {"bind", "install", "provision", "handoff", "wait", "verify", "measure", "optionalRepair",
                   "repairClient", "legacyHost", "refuseLegacy", "upgradeHost", "reinstall", "uninstall",
                   "residual", "finalUninstall", "pass"}
      /\ Finally = {"registrations", "rebind", "write"} /\ Ends = {"off", "over", "dead"}
      /\ AfterInstall = {"provision", "handoff", "wait", "verify", "measure", "optionalRepair",
                   "repairClient", "legacyHost", "refuseLegacy", "upgradeHost", "reinstall", "uninstall",
                   "residual", "finalUninstall", "pass"}
      /\ AfterHandoff = {"wait", "verify", "measure", "optionalRepair",
                   "repairClient", "legacyHost", "refuseLegacy", "upgradeHost", "reinstall", "uninstall",
                   "residual", "finalUninstall", "pass"}
      /\ AfterVerify = {"measure", "optionalRepair",
                   "repairClient", "legacyHost", "refuseLegacy", "upgradeHost", "reinstall", "uninstall",
                   "residual", "finalUninstall", "pass"}
      /\ AfterMeasure = {"optionalRepair",
                   "repairClient", "legacyHost", "refuseLegacy", "upgradeHost", "reinstall", "uninstall",
                   "residual", "finalUninstall", "pass"}
  BY DEF Trying, Finally, Ends, AfterInstall, AfterHandoff, AfterVerify, AfterMeasure
<1>5. adminAt[a] \in Trying => Active(a)
  BY <1>4 DEF Active
<1>6. ASSUME adminAt[a] \in Trying, adminAt' = [adminAt EXCEPT ![a] = "registrations"],
             UNCHANGED <<userAt, report, handed, loaded, hostKeys, snapshot, beside, deaths, machine, changes>>,
             UNCHANGED <<builder, plan, disk, receipt, manifest, ready, claim, pending, result, ended>>,
             DOMAIN retained' = Admins, \A b \in Admins : b # a => retained'[b] = retained[b]
      PROVE  LifecycleInv' /\ OneAttemptStep
  <2>1. "registrations" \notin AfterInstall \union AfterHandoff \union AfterVerify \union AfterMeasure
    BY <1>4
  <2>. QED BY <1>2, <1>3, <1>6, <2>1, TryKeeps
<1>7. CASE BindInputs(a)
  <2>1. CASE ~InputBindingHolds(a)
    BY <1>2, <1>4, <1>6, <1>7, <2>1 DEF BindInputs
  <2>2. CASE InputBindingHolds(a)
    <3>1. adminAt[a] = "bind" /\ adminAt' = [adminAt EXCEPT ![a] = "install"]
      BY <1>7, <2>2 DEF BindInputs
    <3>3. "install" \notin AfterInstall \union AfterHandoff \union AfterVerify \union AfterMeasure
      BY <1>4
    <3>. QED BY <1>2, <1>3, <1>4, <1>7, <3>1, <3>3, TryKeeps DEF BindInputs
  <2>. QED BY <2>1, <2>2
<1>8. CASE ResultArrives(a)
  <2>1. adminAt[a] = "wait" /\ adminAt' = [adminAt EXCEPT ![a] = "verify"]
    BY <1>8 DEF ResultArrives
  <2>2. machine.package # None /\ machine.profile = "private"
    BY <1>1, <1>4, <1>5, <2>1 DEF AdminOK, Handover
  <2>3. "verify" \notin AfterVerify \union AfterMeasure
    BY <1>4
  <2>. QED BY <1>2, <1>3, <1>4, <1>8, <2>1, <2>2, <2>3, TryKeeps DEF ResultArrives
<1>9. CASE WaitTimesOut(a)
  BY <1>2, <1>4, <1>6, <1>9 DEF WaitTimesOut
<1>10. CASE VerifyStandardResult(a)
  <2>1. CASE ~VerifyResult(handed[a])
    BY <1>2, <1>4, <1>6, <1>10, <2>1 DEF VerifyStandardResult
  <2>2. CASE VerifyResult(handed[a])
    <3>1. adminAt[a] = "verify" /\ adminAt' = [adminAt EXCEPT ![a] = "measure"]
      BY <1>10, <2>2 DEF VerifyStandardResult
    <3>2. machine.package # None /\ machine.profile = "private" /\ ready # None /\ handed[a] = ready
      BY <1>1, <1>4, <1>5, <3>1 DEF AdminOK, Handover
    <3>3. ready = [phaseId |-> ready.phaseId, fixtureBinding |-> ready.fixtureBinding]
      BY <1>1, <3>2 DEF HandoffInv
    <3>4. ResultBinding(handed[a]) = ready
      BY <3>2, <3>3 DEF ResultBinding
    <3>5. Verified
      BY <2>2, <3>2, <3>4 DEF VerifyResult, Verified
    <3>6. "measure" \notin AfterMeasure
      BY <1>4
    <3>. QED BY <1>2, <1>3, <1>4, <1>10, <3>1, <3>2, <3>5, <3>6, TryKeeps DEF VerifyStandardResult
  <2>. QED BY <2>1, <2>2
<1>11. CASE TakeDigests(a)
  <2>0. /\ retained' = [retained EXCEPT ![a] = [profile |-> machine.profile, vault |-> machine.vault]]
        /\ DOMAIN retained' = Admins /\ \A b \in Admins : b # a => retained'[b] = retained[b]
    BY <1>2, <1>11 DEF TakeDigests
  <2>1. CASE machine.vault = None
    BY <1>4, <1>6, <1>11, <2>0, <2>1 DEF TakeDigests
  <2>2. CASE machine.vault # None
    <3>1. adminAt[a] = "measure" /\ adminAt' = [adminAt EXCEPT ![a] = "optionalRepair"]
      BY <1>11, <2>2 DEF TakeDigests
    <3>2. machine.package # None /\ machine.profile = "private" /\ Verified
      BY <1>1, <1>4, <1>5, <3>1 DEF AdminOK, Handover
    <3>3. retained'[a].profile = "private"
      BY <1>2, <2>0, <3>2
    <3>4. /\ UNCHANGED <<userAt, report, handed, loaded, hostKeys, snapshot, beside, deaths>>
          /\ UNCHANGED <<machine, changes>>
          /\ UNCHANGED <<builder, plan, disk, receipt, manifest, ready, claim, pending, result, ended>>
      BY <1>11 DEF TakeDigests
    <3>5. adminAt[a] \in Trying /\ adminAt[a] \in AfterHandoff /\ "optionalRepair" \in Trying
      BY <1>4, <3>1
    <3>6. /\ changes' \in 0 .. MaxChanges /\ IsMachine(machine') /\ machine'.vault = machine.vault
          /\ machine'.package = machine.package /\ machine'.package # None
          /\ machine'.package.content \subseteq disk["installer"] /\ machine'.profile = "private"
      BY <1>2, <1>3, <3>2, <3>4
    <3>7. PICK to : to = "optionalRepair"
      OBVIOUS
    <3>8. to \in Trying /\ to # "bind" /\ to # "install" /\ to # "handoff" /\ to # "pass" /\ adminAt' = [adminAt EXCEPT ![a] = to]
      BY <3>1, <3>5, <3>7
    <3>. QED BY <2>0, <3>2, <3>3, <3>4, <3>5, <3>6, <3>8, TryKeeps
  <2>. QED BY <2>1, <2>2
<1>12. CASE AdminCommandFails(a)
  <2>1. adminAt[a] \in Trying
    BY <1>2, <1>4, <1>12 DEF AdminCommandFails, AdminPlaces
  <2>. QED BY <1>2, <1>6, <1>12, <2>1 DEF AdminCommandFails
<1>. QED BY <1>7, <1>8, <1>9, <1>10, <1>11, <1>12

\* The installation, and the data of the profile.
LEMMA InstallKeeps ==
  ASSUME LifecycleInv, NEW a \in Admins, CleanInstall(a) \/ ProvisionData(a)
  PROVE  LifecycleInv' /\ OneAttemptStep
<1>0. IsMachine(machine) /\ AdminOK(a) /\ PackageInv /\ changes \in 0 .. MaxChanges /\ DOMAIN retained = Admins
  BY DEF LifecycleInv, TypeInv, AdminInv, FixtureInv, FixtureTypes
<1>. DEFINE app == machine.app      client == machine.client    host == machine.host
            core == machine.core    package == machine.package  profile == machine.profile
            vault == machine.vault  downloads == machine.downloads
            new == [content |-> disk["installer"], by |-> a]
<1>1. /\ app \in {"none", "installed", "broken"} /\ host \in {"none", "current", "legacy"}
      /\ Installed = MachineOf("installed", Yes, "current", "installed", package, profile, vault, downloads)
      /\ [machine EXCEPT !.profile = "private", !.downloads = TRUE] =
           MachineOf(app, client, host, core, package, "private", vault, Yes)
  BY <1>0, MachineAfter DEF IsMachine
<1>2. new # None /\ new.content = disk["installer"] /\ new.by = a
  BY RecordsArePresent
<1>3. /\ {"install", "provision", "handoff"} \subseteq Trying /\ {"provision", "handoff"} \subseteq AfterInstall
      /\ \A x \in {"provision", "handoff", "registrations"} :
           x \notin AfterHandoff /\ x \notin AfterVerify /\ x \notin AfterMeasure /\ x # "pass"
      /\ "registrations" \notin AfterInstall /\ Ends = {"off", "over", "dead"}
  BY DEF Trying, AfterInstall, AfterHandoff, AfterVerify, AfterMeasure, Ends
<1>4. CASE CleanInstall(a)
  <2>. DEFINE first == [Installed EXCEPT !.package = [content |-> disk.installer, by |-> a]]
              broken == {[first EXCEPT !.app = "broken"]}
              good == machine'.app = "installed"
  <2>1. AdminRuns(a, "install", "provision", first, broken, good)
    BY <1>4 DEF CleanInstall
  <2>2. first = [Installed EXCEPT !.package = new]
    OBVIOUS
  <2>3. machine' \in broken => machine' = [first EXCEPT !.app = "broken"]
    OBVIOUS
  <2>. HIDE DEF app, client, host, core, package, profile, vault, downloads, new, first
  <2>4. first = MachineOf("installed", Yes, "current", "installed", new, profile, vault, downloads)
    BY <1>1, <2>2 DEF MachineOf
  <2>5. [first EXCEPT !.app = "broken"] =
          MachineOf("broken", Yes, "current", "installed", new, profile, vault, downloads)
    BY SMT, <2>4 DEF MachineOf
  <2>. HIDE DEF broken, good
  <2>6. /\ adminAt[a] = "install" /\ UNCHANGED retained
        /\ CommandFrame(a, IF good THEN "provision" ELSE "registrations")
        /\ machine' = first \/ machine' \in broken
    BY <2>1, RunsDo
  <2>7. \/ machine' = MachineOf("installed", Yes, "current", "installed", new, profile, vault, downloads)
        \/ machine' = MachineOf("broken", Yes, "current", "installed", new, profile, vault, downloads)
    BY <2>3, <2>4, <2>5, <2>6
  <2>8. IsMachine(machine') /\ machine'.vault = vault /\ machine'.package = new /\ machine'.profile = profile
    <3>1. CASE machine' = MachineOf("installed", Yes, "current", "installed", new, profile, vault, downloads)
      BY SMTT(20), <3>1, MachineParts
    <3>2. CASE machine' = MachineOf("broken", Yes, "current", "installed", new, profile, vault, downloads)
      BY SMT, <3>2, MachineParts
    <3>. QED BY <2>7, <3>1, <3>2
  <2>9. machine'.vault = machine.vault /\ machine'.package # None /\ machine'.package.by = a
        /\ machine'.package.content \subseteq disk["installer"] /\ machine'.profile = machine.profile
    BY <1>2, <2>8 DEF vault, profile
  <2>10. DOMAIN retained' = Admins /\ \A b \in Admins : b # a => retained'[b] = retained[b]
    BY <1>0, <2>6
  <2>11. PICK to \in {"provision", "registrations"} : CommandFrame(a, to)
    BY <2>6
  <2>12. to # "bind" /\ to # "install" /\ to # "handoff"
    BY <2>11
  <2>. QED BY <1>3, <2>6, <2>8, <2>9, <2>10, <2>11, <2>12, TryKeeps DEF CommandFrame
<1>5. CASE ProvisionData(a)
  <2>0. /\ adminAt[a] = "provision" /\ UNCHANGED retained
        /\ CommandFrame(a, IF machine.profile = "none" THEN "handoff" ELSE "registrations")
        /\ machine' = IF machine.profile = "none"
                      THEN [machine EXCEPT !.profile = "private", !.downloads = TRUE] ELSE machine
    BY <1>0, <1>5 DEF ProvisionData, AdminGoes, AdminKeeps, CommandFrame, fixtureVars, handoffVars
  <2>7. DOMAIN retained' = Admins /\ \A b \in Admins : b # a => retained'[b] = retained[b]
    BY <1>0, <2>0
  <2>8. CASE machine.profile # "none"
    <3>1. CommandFrame(a, "registrations") /\ machine' = machine
      BY <2>0, <2>8
    <3>2. machine.package # None => machine.package.content \subseteq disk["installer"]
      BY <1>0 DEF PackageInv
    <3>. QED BY <1>0, <1>3, <2>0, <2>7, <3>1, <3>2, TryKeeps DEF CommandFrame
  <2>. SUFFICES ASSUME machine.profile = "none" PROVE LifecycleInv' /\ OneAttemptStep
    BY <2>8
  <2>1. /\ adminAt[a] = "provision" /\ CommandFrame(a, "handoff")
        /\ machine' = [machine EXCEPT !.profile = "private", !.downloads = TRUE]
    BY <2>0
  <2>2. machine' = MachineOf(app, client, host, core, package, "private", vault, Yes)
    BY <1>1, <2>1
  <2>3. machine.package # None
    BY <1>0, <1>3, <2>1 DEF AdminOK, Active
  <2>. HIDE DEF app, client, host, core, package, profile, vault, downloads
  <2>4. IsMachine(machine') /\ machine'.vault = vault /\ machine'.package = package /\ machine'.profile = "private"
    BY SMT, <1>1, <2>2, MachineParts
  <2>5. machine'.vault = machine.vault /\ machine'.package = machine.package
    BY <2>4 DEF vault, package
  <2>6. machine.package.content \subseteq disk["installer"]
    BY <1>0, <2>3 DEF PackageInv
  <2>. QED BY <1>3, <2>1, <2>3, <2>4, <2>5, <2>6, <2>7, TryKeeps DEF CommandFrame
<1>. QED BY <1>4, <1>5

\* An invocation that does not touch the machine gets ahead of nobody.
LEMMA QuietAhead ==
  ASSUME LifecycleInv, NEW a \in Admins, machine' = machine, Ahead(a)' => Ahead(a)
  PROVE  AheadFrame(a)
BY DEF LifecycleInv, AdminInv, AheadInv, AheadFrame

\* The handoff is created.
LEMMA HandoffKeeps ==
  ASSUME LifecycleInv, NEW a \in Admins, CreateHandoff(a) PROVE LifecycleInv' /\ OneAttemptStep
<1>1. TypeInv /\ FixtureInv /\ PackageInv /\ AdminInv /\ AdminOK(a)
  BY DEF LifecycleInv, AdminInv
<1>2. /\ adminAt[a] = "handoff"
      /\ adminAt' = [adminAt EXCEPT ![a] = IF AssertFresh THEN "wait" ELSE "registrations"]
      /\ UNCHANGED <<userAt, report, loaded, hostKeys, snapshot, beside, deaths, retained, machine>>
      /\ UNCHANGED <<builder, plan, disk, receipt, manifest, changes, claim, pending, result, ended>>
      /\ AssertFresh => ready' = Handoff(a) /\ handed' = [handed EXCEPT ![a] = Handoff(a)]
      /\ ~AssertFresh => ready' = ready /\ handed' = handed
  BY DEF CreateHandoff, AdminGoes, fixtureVars
<1>3. /\ "handoff" \in Trying /\ "handoff" \in AfterInstall /\ "handoff" \notin Ends /\ "wait" \in Trying
      /\ "wait" \in AfterInstall /\ "wait" \in AfterHandoff
      /\ "wait" \notin AfterVerify \union AfterMeasure \union Finally
      /\ "registrations" \notin Trying \union AfterInstall \union AfterHandoff \union AfterVerify
                                \union AfterMeasure
  BY DEF Trying, AfterInstall, AfterHandoff, AfterVerify, AfterMeasure, Ends, Finally
<1>4. Active(a) /\ Ahead(a)
  BY <1>2, <1>3 DEF Active, Ahead, Past
<1>5. Saved /\ Earlier(loaded[a], manifest) /\ report[a].status = "failed"
      /\ machine.package # None /\ (ended # None => ended.by \in beside[a])
  BY <1>1, <1>2, <1>3, <1>4 DEF AdminOK
<1>6. Saved' /\ ~Passed(a)'
  BY <1>2, <1>5 DEF Saved, Passed
<1>7. IsMachine(machine) /\ changes \in 0 .. MaxChanges /\ deaths \in 0 .. MaxDeaths /\ a \in Processes
  BY <1>1 DEF TypeInv, FixtureInv, FixtureTypes, Processes
<1>8. machine.profile = "private"
  BY <1>1, <1>2, <1>4 DEF AdminOK
<1>9. \A p \in Processes : p # a => handed'[p] = handed[p]
  BY <1>1, <1>2 DEF TypeInv
<1>10. DOMAIN handed' = Processes
  BY <1>1, <1>2 DEF TypeInv
<1>11. AheadFrame(a)
  BY <1>2, <1>4, QuietAhead
<1>12. \A to \in AdminPlaces : adminAt' = [adminAt EXCEPT ![a] = to] => AdminFrame(a, to)
  <2>1. report' \in [Processes -> Reports] /\ DOMAIN loaded' = Processes /\ DOMAIN retained' = Admins
        /\ DOMAIN snapshot' = Admins /\ beside' \in [Admins -> SUBSET Admins]
    BY <1>1, <1>2 DEF TypeInv
  <2>2. ready' = ready \/ (ready = None /\ ready' = Handoff(a) /\ Saved)
    BY <1>2, <1>5 DEF AssertFresh
  <2>3. machine.package.content \subseteq disk["installer"]
    BY <1>1, <1>5 DEF PackageInv
  <2>4. MachineFrame(a)
    BY <1>2, <1>5, <1>7, <2>3 DEF MachineFrame
  <2>5. OthersFrame(a)
    BY <1>2, <1>9 DEF OthersFrame
  <2>. QED BY <1>2, <1>4, <1>7, <1>10, <2>1, <2>2, <2>4, <2>5 DEF AdminFrame
<1>13. ended' = ended /\ UNCHANGED beside
  BY <1>2
<1>14. CASE AssertFresh
  <2>1. adminAt' = [adminAt EXCEPT ![a] = "wait"] /\ adminAt'[a] = "wait"
    BY <1>1, <1>2, <1>14 DEF TypeInv
  <2>2. ready' # None /\ ready'.phaseId = a /\ ready'.fixtureBinding = manifest
    <3>1. ready' = [phaseId |-> a, fixtureBinding |-> manifest]
      BY <1>2, <1>14 DEF Handoff
    <3>2. ready' # None
      BY <3>1, RecordsArePresent
    <3>. QED BY <3>1, <3>2
  <2>3. handed'[a] = ready'
    BY <1>1, <1>2, <1>7, <1>14 DEF TypeInv
  <2>4. Handover(a)'
    BY <1>2, <1>5, <1>8, <2>2, <2>3 DEF Handover
  <2>5. Sole(a)'
    BY <1>3, <1>6, <2>1 DEF Sole
  <2>6. AdminOK(a)'
    BY <1>2, <1>3, <1>5, <1>6, <2>1, <2>4, <2>5 DEF AdminOK
  <2>7. AdminFrame(a, "wait")
    BY <1>3, <1>12, <2>1 DEF AdminPlaces
  <2>. QED BY <1>4, <1>11, <1>13, <2>6, <2>7, BesideKeeps, AdminFrameKeeps
<1>15. CASE ~AssertFresh
  <2>1. adminAt' = [adminAt EXCEPT ![a] = "registrations"] /\ adminAt'[a] = "registrations"
    BY <1>1, <1>2, <1>15 DEF TypeInv
  <2>2. Sole(a)'
    BY <1>6, <2>1 DEF Sole
  <2>3. AdminOK(a)'
    BY <1>2, <1>3, <1>5, <1>6, <2>1, <2>2 DEF AdminOK
  <2>4. AdminFrame(a, "registrations")
    BY <1>12, <2>1 DEF AdminPlaces, Finally
  <2>. QED BY <1>4, <1>11, <1>13, <2>3, <2>4, BesideKeeps, AdminFrameKeeps
<1>. QED BY <1>14, <1>15

\* A step of the administrator that only concerns its own result.
LEMMA QuietFrame ==
  ASSUME LifecycleInv, NEW a \in Admins, NEW to \in AdminPlaces,
         adminAt' = [adminAt EXCEPT ![a] = to],
         UNCHANGED <<userAt, handed, machine, hostKeys, retained, builder, plan, disk, receipt, manifest, changes>>,
         UNCHANGED <<ready, claim, pending, result>>,
         deaths' \in 0 .. MaxDeaths,
         report' = report \/ \E s \in {"failed", "passed"} : report' = [report EXCEPT ![a].status = s],
         loaded' = loaded \/ loaded' = [loaded EXCEPT ![a] = manifest],
         snapshot' = snapshot \/ snapshot' = [snapshot EXCEPT ![a] = hostKeys],
         beside' \in [Admins -> SUBSET Admins], \A b \in Admins : b # a => beside[b] \subseteq beside'[b],
         ended' = ended \/ (ended'.by = a /\ adminAt[a] = "write"),
         Active(a) \/ (adminAt[a] = "off" /\ ended' = ended /\ (to \in Ends \/ ended = None))
  PROVE  AdminFrame(a, to)
<1>1. TypeInv /\ FixtureInv /\ PackageInv
  BY DEF LifecycleInv
<1>2. a \in Processes /\ report[a] \in Reports
  BY <1>1 DEF TypeInv, Processes
<1>3. report' \in [Processes -> Reports] /\ \A p \in Processes : p # a => report'[p] = report[p]
  <2>1. CASE report' = report
    BY <1>1, <2>1 DEF TypeInv
  <2>2. ASSUME NEW s \in {"failed", "passed"}, report' = [report EXCEPT ![a].status = s]
        PROVE  report' \in [Processes -> Reports] /\ \A p \in Processes : p # a => report'[p] = report[p]
    BY <1>1, <1>2, <2>2 DEF TypeInv, Reports
  <2>. QED BY <2>1, <2>2
<1>4. DOMAIN loaded' = Processes /\ \A p \in Processes : p # a => loaded'[p] = loaded[p]
  BY <1>1 DEF TypeInv
<1>5. DOMAIN snapshot' = Admins /\ \A b \in Admins : b # a => snapshot'[b] = snapshot[b]
  BY <1>1 DEF TypeInv
<1>6. IsMachine(machine') /\ DOMAIN handed' = Processes /\ DOMAIN retained' = Admins /\ changes' \in 0 .. MaxChanges
  BY <1>1 DEF TypeInv, FixtureInv, FixtureTypes
<1>7. MachineFrame(a)
  BY <1>1, <1>6 DEF PackageInv, MachineFrame
<1>8. OthersFrame(a)
  BY <1>3, <1>4, <1>5 DEF OthersFrame
<1>. QED BY <1>3, <1>4, <1>5, <1>6, <1>7, <1>8 DEF AdminFrame

\* The phase is started, or refuses a namespace that was used.
LEMMA StartKeeps ==
  ASSUME LifecycleInv, NEW a \in Admins, StartAdministrator(a) PROVE LifecycleInv' /\ OneAttemptStep
<1>1. TypeInv /\ FixtureInv /\ AdminInv /\ BesideInv
  BY DEF LifecycleInv, AdminInv
<1>2. /\ adminAt[a] = "off"
      /\ UNCHANGED <<userAt, handed, retained, machine, hostKeys, deaths>>
      /\ UNCHANGED <<builder, plan, disk, receipt, manifest, changes, ready, claim, pending, result, ended>>
  BY DEF StartAdministrator, fixtureVars, handoffVars
<1>3. deaths' \in 0 .. MaxDeaths
  BY <1>1, <1>2 DEF TypeInv
<1>4. "bind" \in AdminPlaces /\ "over" \in AdminPlaces /\ "over" \in Ends /\ "off" \in Ends /\ "over" \notin Past
      /\ "bind" \notin AfterInstall \union AfterHandoff \union AfterVerify \union AfterMeasure \union Finally
      /\ "bind" \notin Past
  BY DEF AdminPlaces, Ends, Trying, Finally, AfterInstall, AfterHandoff, AfterVerify, AfterMeasure, Past
<1>5. CASE FixtureVerifies /\ NamespaceIsFree
  <2>1. /\ adminAt' = [adminAt EXCEPT ![a] = "bind"] /\ report' = [report EXCEPT ![a].status = "failed"]
        /\ loaded' = [loaded EXCEPT ![a] = manifest] /\ snapshot' = [snapshot EXCEPT ![a] = hostKeys]
        /\ beside' = [b \in Admins |-> IF b = a THEN {c \in Admins : Active(c)}
                                       ELSE IF Active(b) THEN beside[b] \union {a} ELSE beside[b]]
    BY <1>5 DEF StartAdministrator
  <2>2. a \in Processes /\ report[a] \in Reports
    BY <1>1 DEF TypeInv, Processes
  <2>3. adminAt'[a] = "bind" /\ report'[a].status = "failed" /\ loaded'[a] = manifest
    BY <1>1, <2>1, <2>2 DEF TypeInv, Reports
  <2>4. ended = None /\ machine.package = None /\ manifest # None /\ manifest.saved
    BY <1>5 DEF NamespaceIsFree, FixtureVerifies
  <2>5. Saved /\ Earlier(manifest, manifest)
    BY <1>1, <2>4, EarlierChains DEF Saved, FixtureInv, ManifestOK
  <2>6. Saved' /\ manifest' = manifest /\ ~Passed(a)'
    BY <1>2, <2>3, <2>5 DEF Saved, Passed
  <2>7. Sole(a)'
    BY <1>4, <2>3, <2>6 DEF Sole
  <2>8. AdminOK(a)'
    BY <1>2, <1>4, <2>3, <2>4, <2>5, <2>6, <2>7 DEF AdminOK
  <2>9. /\ beside'[a] = {c \in Admins : Active(c)}
        /\ \A b \in Admins : b # a /\ Active(b) => beside'[b] = beside[b] \union {a}
        /\ \A b \in Admins : b # a /\ ~Active(b) => beside'[b] = beside[b]
    BY <2>1
  <2>10. beside' \in [Admins -> SUBSET Admins] /\ \A b \in Admins : b # a => beside[b] \subseteq beside'[b]
    <3>1. \A b \in Admins : beside[b] \in SUBSET Admins
      BY <1>1 DEF TypeInv
    <3>2. \A b \in Admins : beside'[b] \in SUBSET Admins
      BY <2>9, <3>1
    <3>. QED BY <2>1, <2>9, <3>2
  <2>11. ~Active(a) /\ \A b \in Admins : b # a => (Active(b)' <=> Active(b))
    BY <1>1, <1>2, <1>4, <2>1 DEF Active, TypeInv
  <2>12. BesideInv'
    <3>1. \A b \in Admins : b \notin beside'[b]
      BY <1>1, <2>9, <2>11 DEF BesideInv
    <3>2. ASSUME NEW b \in Admins, NEW c \in Admins, Active(b)', Active(c)', b # c PROVE c \in beside'[b]
      <4>1. CASE b = a
        BY <2>9, <2>11, <3>2, <4>1
      <4>2. CASE b # a /\ c = a
        BY <2>9, <2>11, <3>2, <4>2
      <4>3. CASE b # a /\ c # a
        BY <1>1, <2>9, <2>11, <3>2, <4>3 DEF BesideInv
      <4>. QED BY <4>1, <4>2, <4>3
    <3>. QED BY <3>1, <3>2 DEF BesideInv
  <2>13. AheadFrame(a)
    <3>1. ~Ahead(a)'
      BY <1>4, <2>3, <2>6 DEF Ahead
    <3>. QED BY <3>1 DEF AheadFrame
  <2>14. AdminFrame(a, "bind")
    BY <1>2, <1>3, <1>4, <2>1, <2>4, <2>10, QuietFrame
  <2>. QED BY <1>2, <2>8, <2>12, <2>13, <2>14, AdminFrameKeeps
<1>6. CASE ~(FixtureVerifies /\ NamespaceIsFree)
  <2>1. adminAt' = [adminAt EXCEPT ![a] = "over"] /\ UNCHANGED <<report, loaded, snapshot, beside>>
    BY <1>6 DEF StartAdministrator
  <2>2. adminAt'[a] = "over" /\ ~Active(a)'
    BY <1>1, <1>4, <2>1 DEF TypeInv, Active
  <2>3. AdminOK(a)'
    BY <2>2 DEF AdminOK
  <2>4. BesideInv'
    <3>1. \A b \in Admins : Active(b)' => Active(b)
      BY <1>1, <2>1, <2>2 DEF Active, TypeInv
    <3>. QED BY <1>1, <2>1, <3>1 DEF BesideInv
  <2>5. AheadFrame(a)
    <3>1. Ahead(a)' => Ahead(a)
      BY <1>4, <2>1, <2>2 DEF Ahead, Passed
    <3>. QED BY <1>2, <3>1, QuietAhead
  <2>6. beside' \in [Admins -> SUBSET Admins]
    BY <1>1, <2>1 DEF TypeInv
  <2>7. AdminFrame(a, "over")
    BY <1>2, <1>3, <1>4, <2>1, <2>6, QuietFrame
  <2>. QED BY <1>2, <2>3, <2>4, <2>5, <2>7, AdminFrameKeeps
<1>. QED BY <1>5, <1>6

\* The administrator's process dies.
LEMMA AdminDiesKeeps ==
  ASSUME LifecycleInv, NEW a \in Admins, AdminDies(a) PROVE LifecycleInv' /\ OneAttemptStep
<1>1. TypeInv
  BY DEF LifecycleInv
<1>2. /\ Active(a) /\ adminAt' = [adminAt EXCEPT ![a] = "dead"] /\ deaths < MaxDeaths /\ deaths' = deaths + 1
      /\ UNCHANGED <<userAt, report, handed, loaded, retained, machine, hostKeys, snapshot, beside>>
      /\ UNCHANGED <<builder, plan, disk, receipt, manifest, changes, ready, claim, pending, result, ended>>
  BY DEF AdminDies, fixtureVars, handoffVars
<1>3. deaths' \in 0 .. MaxDeaths
  BY SMT, <1>1, <1>2, DeathsAssumption DEF TypeInv
<1>4. adminAt'[a] = "dead" /\ "dead" \in Ends /\ "dead" \in AdminPlaces /\ "dead" \notin Past
  BY <1>1, <1>2 DEF TypeInv, Ends, AdminPlaces, Past, AfterHandoff, AfterInstall, Trying
<1>5. AdminOK(a)'
  BY <1>4 DEF AdminOK, Active
<1>6. AheadFrame(a)
  <2>1. Ahead(a)' => Ahead(a)
    BY <1>2, <1>4 DEF Ahead, Passed
  <2>. QED BY <1>2, <2>1, QuietAhead
<1>7. beside' \in [Admins -> SUBSET Admins]
  BY <1>1, <1>2 DEF TypeInv
<1>8. AdminFrame(a, "dead")
  BY <1>2, <1>3, <1>4, <1>7, QuietFrame
<1>. QED BY <1>2, <1>5, <1>6, <1>8, BesideKeeps, AdminFrameKeeps

\* The end of the try block and the three steps of the finally block.
LEMMA FinallyKeeps ==
  ASSUME LifecycleInv, NEW a \in Admins,
         Pass(a) \/ CheckRegistrations(a) \/ RebindInputs(a) \/ WriteLifecycleResult(a)
  PROVE  LifecycleInv' /\ OneAttemptStep
<1>. USE DEF fixtureVars, handoffVars
<1>1. TypeInv /\ FixtureInv /\ PackageInv /\ HandoffInv /\ UserInv /\ AdminInv /\ BesideInv /\ AdminOK(a)
  BY DEF LifecycleInv, AdminInv
<1>2. /\ UNCHANGED <<userAt, handed, loaded, hostKeys, snapshot, beside, deaths, retained, machine>>
      /\ UNCHANGED <<builder, plan, disk, receipt, manifest, changes, ready, claim, pending, result>>
  BY DEF Pass, CheckRegistrations, RebindInputs, FinallyChecks, WriteLifecycleResult
<1>3. /\ \A x \in {"registrations", "rebind", "write"} :
           x \notin Trying \union AfterInstall \union AfterHandoff \union AfterVerify \union AfterMeasure
             \union {"bind", "install", "handoff", "pass"}
      /\ Finally = {"registrations", "rebind", "write"} /\ Finally \subseteq AdminPlaces
      /\ "over" \in AdminPlaces /\ Ends = {"off", "over", "dead"}
      /\ "pass" \in AfterHandoff /\ "pass" \in AfterVerify /\ "pass" \in Trying /\ "pass" \in Past
      /\ \A x \in {"registrations", "rebind", "write", "over"} : x \notin Past
  BY DEF Trying, Finally, AfterInstall, AfterHandoff, AfterVerify, AfterMeasure, AdminPlaces, Ends, Past
<1>4. adminAt[a] \in {"pass", "registrations", "rebind", "write"} /\ Active(a)
  BY <1>3 DEF Pass, AdminGoes, CheckRegistrations, RebindInputs, FinallyChecks, WriteLifecycleResult, Active
<1>5. Saved /\ Earlier(loaded[a], manifest) /\ (ended # None => ended.by \in beside[a])
  BY <1>1, <1>4 DEF AdminOK
<1>6. a \in Processes /\ report[a] \in Reports /\ deaths' \in 0 .. MaxDeaths
      /\ beside' \in [Admins -> SUBSET Admins]
  BY <1>1, <1>2 DEF TypeInv, Processes
<1>7. /\ Saved' /\ (Verified' <=> Verified) /\ (Removed' <=> Removed) /\ (Handover(a)' <=> Handover(a))
      /\ (Clean(a)' <=> Clean(a))
  BY <1>2, <1>5 DEF Saved, Verified, Removed, Handover, Clean
<1>8. \A u \in Users : (report' = report \/ \E s \in {"failed", "passed"} : report' = [report EXCEPT ![a].status = s])
                         => (Claimed(u)' <=> Claimed(u))
  <2>1. \A u \in Users : u # a /\ u \in Processes
    BY ProcessAssumption DEF Processes
  <2>. QED BY <1>1, <2>1 DEF Claimed, TypeInv
<1>9. CASE Pass(a)
  <2>1. /\ adminAt[a] = "pass" /\ adminAt' = [adminAt EXCEPT ![a] = "registrations"]
        /\ report' = [report EXCEPT ![a].status = "passed"] /\ ended' = ended
    BY <1>9 DEF Pass, AdminGoes
  <2>2. adminAt'[a] = "registrations"
    BY <1>1, <2>1 DEF TypeInv
  <2>3. Handover(a) /\ Verified /\ (beside[a] = {} => Removed)
    BY <1>1, <1>3, <1>4, <2>1 DEF AdminOK, Sole
  <2>4. beside'[a] = {} => Sole(a)'
    BY <1>2, <1>3, <1>7, <2>2, <2>3 DEF Sole
  <2>5. AdminOK(a)'
    BY <1>2, <1>3, <1>5, <1>7, <2>1, <2>2, <2>3, <2>4 DEF AdminOK
  <2>6. AdminFrame(a, "registrations")
    BY <1>2, <1>3, <1>4, <1>6, <2>1, QuietFrame
  <2>7. AheadFrame(a)
    BY <1>2, <1>3, <2>1, QuietAhead DEF Ahead
  <2>. QED BY <1>2, <1>4, <2>1, <2>5, <2>6, <2>7, BesideKeeps, AdminFrameKeeps
<1>10. ASSUME NEW to \in {"rebind", "write"}, adminAt[a] \in {"registrations", "rebind"},
              adminAt' = [adminAt EXCEPT ![a] = to], ended' = ended,
              report' = report \/ report' = [report EXCEPT ![a].status = "failed"],
              report' = report /\ Passed(a) =>
                /\ beside[a] = {} => hostKeys = snapshot[a] /\ (to = "write" => Clean(a))
                /\ to = "write" => Bound(a)'
       PROVE  LifecycleInv' /\ OneAttemptStep
  <2>1. adminAt'[a] = to
    BY <1>1, <1>10 DEF TypeInv
  <2>2. Passed(a)' => report' = report /\ Passed(a)
    BY <1>1, <1>6, <1>10 DEF TypeInv, Reports, Passed
  <2>3. Passed(a) => Handover(a) /\ Verified /\ (beside[a] = {} => Removed)
    BY <1>1, <1>3, <1>4, <1>10 DEF AdminOK, Sole
  <2>4. beside'[a] = {} => Sole(a)'
    BY <1>2, <1>3, <1>7, <1>10, <2>1, <2>2, <2>3 DEF Sole
  <2>5. AdminOK(a)'
    BY <1>2, <1>3, <1>5, <1>7, <1>10, <2>1, <2>2, <2>3, <2>4 DEF AdminOK
  <2>6. AdminFrame(a, to)
    BY <1>2, <1>3, <1>4, <1>6, <1>10, QuietFrame
  <2>7. AheadFrame(a)
    <3>1. Ahead(a)' => Ahead(a)
      BY <1>3, <2>1, <2>2 DEF Ahead
    <3>. QED BY <1>2, <3>1, QuietAhead
  <2>. QED BY <1>2, <1>4, <1>10, <2>5, <2>6, <2>7, BesideKeeps, AdminFrameKeeps
<1>11. CASE CheckRegistrations(a)
  <2>1. /\ adminAt[a] = "registrations" /\ adminAt' = [adminAt EXCEPT ![a] = "rebind"] /\ ended' = ended
        /\ report' = IF hostKeys = snapshot[a] THEN report ELSE [report EXCEPT ![a].status = "failed"]
    BY <1>11 DEF CheckRegistrations, FinallyChecks
  <2>2. report' = report /\ Passed(a) => hostKeys = snapshot[a]
    <3>1. SUFFICES ASSUME report' = report, Passed(a), hostKeys # snapshot[a]
                   PROVE  FALSE
      OBVIOUS
    <3>2. report'[a].status = "failed"
      BY <1>1, <1>6, <2>1, <3>1 DEF TypeInv, Reports
    <3>. QED BY <3>1, <3>2 DEF Passed
  <2>. QED BY <1>10, <2>1, <2>2
<1>12. CASE RebindInputs(a)
  <2>1. /\ adminAt[a] = "rebind" /\ adminAt' = [adminAt EXCEPT ![a] = "write"] /\ ended' = ended
        /\ report' = IF InputBindingHolds(a) THEN report ELSE [report EXCEPT ![a].status = "failed"]
    BY <1>12 DEF RebindInputs, FinallyChecks
  <2>2. ASSUME report' = report, Passed(a)
        PROVE  Bound(a)' /\ (beside[a] = {} => hostKeys = snapshot[a] /\ Clean(a))
    <3>1. InputBindingHolds(a)
      <4>1. SUFFICES ASSUME ~InputBindingHolds(a) PROVE FALSE
        OBVIOUS
      <4>2. report'[a].status = "failed"
        BY <1>1, <1>6, <2>1, <4>1 DEF TypeInv, Reports
      <4>. QED BY <2>2, <4>2 DEF Passed
    <3>2. Handover(a) /\ Verified /\ (beside[a] = {} => Removed /\ hostKeys = snapshot[a])
      BY <1>1, <1>3, <1>4, <2>1, <2>2 DEF AdminOK, Sole
    <3>3. loaded[a] = manifest /\ FixtureVerifies
      BY <3>1 DEF InputBindingHolds
    <3>4. Earlier(loaded[a], ready.fixtureBinding) /\ Earlier(ready.fixtureBinding, loaded[a])
      BY <1>1, <3>2, <3>3 DEF Handover, HandoffInv
    <3>5. loaded[a] = ready.fixtureBinding
      BY <3>4, EarlierChains
    <3>6. ASSUME NEW u \in Users, Claimed(u) PROVE loaded[u] = loaded[a]
      <4>1. Earlier(loaded[a], loaded[u]) /\ Earlier(loaded[u], loaded[a])
        BY <1>1, <3>3, <3>5, <3>6 DEF UserInv, UserOK
      <4>. QED BY <4>1, EarlierChains
    <3>7. loaded[a].application # None => machine.package.content = {}
      <4>1. SUFFICES ASSUME loaded[a].application # None PROVE machine.package.content = {}
        OBVIOUS
      <4>2. disk["installer"] = {}
        BY <1>1, <3>3, <4>1, VerifiedIsGenuine
      <4>3. machine.package.content \subseteq disk["installer"]
        BY <1>1, <3>2 DEF PackageInv, Handover
      <4>. QED BY <4>2, <4>3
    <3>8. Bound(a)'
      BY <1>2, <1>8, <2>2, <3>5, <3>6 DEF Bound
    <3>. QED BY <3>2, <3>7, <3>8 DEF Clean
  <2>. QED BY <1>10, <2>1, <2>2
<1>13. CASE WriteLifecycleResult(a)
  <2>1. /\ adminAt[a] = "write" /\ adminAt' = [adminAt EXCEPT ![a] = "over"] /\ report' = report
        /\ ended' = [by |-> a, status |-> report[a].status,
                     applicationSourceVerified |-> loaded[a].application # None]
    BY <1>13 DEF WriteLifecycleResult
  <2>2. adminAt'[a] = "over" /\ ~Active(a)'
    BY <1>1, <1>3, <2>1 DEF TypeInv, Active
  <2>3. AdminOK(a)'
    BY <2>2 DEF AdminOK
  <2>4. Passed(a)' <=> Passed(a)
    BY <2>1 DEF Passed
  <2>5. Passed(a) => Handover(a) /\ Verified /\ Bound(a) /\ (beside[a] = {} => Clean(a))
    BY <1>1, <1>3, <1>4, <2>1 DEF AdminOK, Sole
  <2>6. Bound(a) => Bound(a)'
    BY <1>2, <1>8, <2>1 DEF Bound
  <2>7. beside[a] = {} => \A b \in Admins : ~Active(b)'
    <3>1. \A b \in Admins : b # a => (Active(b)' <=> Active(b))
      BY <1>1, <2>1 DEF Active, TypeInv
    <3>. QED BY <1>1, <1>4, <2>2, <3>1 DEF BesideInv
  <2>8. Passed(a) => Complete(a)'
    BY <1>2, <1>7, <2>2, <2>4, <2>5, <2>6, <2>7 DEF Complete
  <2>9. ended'.by = a /\ ended'.status = report[a].status
        /\ (ended'.applicationSourceVerified <=> loaded[a].application # None)
    BY <2>1
  <2>10. EndOK'
    BY <1>2, <2>8, <2>9 DEF EndOK, Passed
  <2>11. AdminFrame(a, "over")
    BY <1>2, <1>3, <1>4, <1>6, <2>1, <2>9, QuietFrame
  <2>12. AheadFrame(a)
    <3>1. Ahead(a)' => Ahead(a)
      BY <1>3, <2>2, <2>4 DEF Ahead
    <3>. QED BY <1>2, <3>1, QuietAhead
  <2>. QED BY <1>2, <1>4, <2>3, <2>10, <2>11, <2>12, BesideKeeps, AdminFrameKeeps
<1>. QED BY <1>9, <1>11, <1>12, <1>13

-----------------------------------------------------------------------------
(* The theorems.                                                           *)

\* Before anything was built or started.
LEMMA LifecycleStarts == ASSUME Init PROVE LifecycleInv
<1>. USE DEF Init, HandoffInit
<1>1. FixtureInv
  BY FixtureStarts
<1>2. TypeInv
  <2>1. IsMachine(machine)
    <3>1. machine = MachineOf("none", No, "none", "none", None, "none", None, No)
      BY DEF CleanMachine, MachineOf, No
    <3>. QED BY SMT, <3>1, MachineParts
  <2>2. report \in [Processes -> Reports]
    BY DEF NoReport, Reports
  <2>3. deaths \in 0 .. MaxDeaths
    BY SMT, DeathsAssumption
  <2>4. adminAt \in [Admins -> AdminPlaces] /\ userAt \in [Users -> UserPlaces]
    BY DEF AdminPlaces, UserPlaces, Ends
  <2>. QED BY <2>1, <2>2, <2>3, <2>4 DEF TypeInv
<1>3. PackageInv /\ HandoffInv
  BY DEF PackageInv, HandoffInv, CleanMachine
<1>4. ASSUME NEW u \in Users PROVE UserOK(u) /\ ~Claimed(u)
  <2>1. u \in Processes
    BY DEF Processes
  <2>2. report[u].status = "none" /\ report[u].checks = {} /\ userAt[u] = "off" /\ handed[u] = None
    BY <2>1 DEF NoReport
  <2>. QED BY <2>2 DEF UserOK, Claimed, Working, CHECKS
<1>5. UserInv
  BY <1>4 DEF UserInv, OneClaims, ResultsOK
<1>6. AdminInv
  <2>1. ASSUME NEW a \in Admins PROVE ~Active(a) /\ ~Ahead(a) /\ beside[a] = {}
    <3>1. a \in Processes /\ adminAt[a] = "off" /\ beside[a] = {}
      BY DEF Processes
    <3>2. report[a].status = "none"
      BY <3>1 DEF NoReport
    <3>. QED BY <3>1, <3>2 DEF Active, Ends, Ahead, Passed, Past, AfterHandoff, AfterInstall, Trying
  <2>2. ended = None
    OBVIOUS
  <2>. QED BY <2>1, <2>2 DEF AdminInv, AdminOK, EndOK, BesideInv, AheadInv
<1>. QED BY <1>1, <1>2, <1>3, <1>5, <1>6 DEF LifecycleInv

\* Every step keeps the invariant, and what an attempt has written or installed.
LEMMA LifecycleSteps ==
  ASSUME LifecycleInv, [Next]_vars
  PROVE  LifecycleInv' /\ (Next => OneAttemptStep) /\ (vars' = vars => OneAttemptStep)
<1>1. ASSUME UNCHANGED vars PROVE LifecycleInv' /\ OneAttemptStep
  <2>1. /\ UNCHANGED <<builder, plan, disk, receipt, manifest, changes>>
        /\ UNCHANGED <<ready, claim, pending, result, ended>>
        /\ UNCHANGED <<adminAt, userAt, report, handed, loaded, retained, machine, hostKeys, snapshot, beside, deaths>>
    BY <1>1 DEF vars, fixtureVars, handoffVars, lifecycleVars
  <2>2. TypeInv' /\ FixtureInv'
    BY <2>1 DEF LifecycleInv, TypeInv, FixtureInv, FixtureTypes, BundleOK, PayloadOK, ReceiptOK, InstallerOK,
                ManifestOK, Inputs
  <2>3. PackageInv' /\ HandoffInv'
    BY <2>1 DEF LifecycleInv, PackageInv, HandoffInv, Saved
  <2>4. UserInv'
    BY SMT, <2>1 DEF LifecycleInv, UserInv, UserOK, OneClaims, ResultsOK, ResultOf, Claimed
  <2>5. (Saved' <=> Saved) /\ (Verified' <=> Verified) /\ (Removed' <=> Removed)
        /\ (\A a \in Admins : (Handover(a)' <=> Handover(a)) /\ (Active(a)' <=> Active(a))
                              /\ (Passed(a)' <=> Passed(a)))
        /\ (\A u \in Users : Claimed(u)' <=> Claimed(u))
    BY <2>1 DEF Saved, Verified, Removed, Handover, Active, Passed, Claimed
  <2>6. \A a \in Admins : (Bound(a)' <=> Bound(a)) /\ (Clean(a)' <=> Clean(a)) /\ (Ahead(a)' <=> Ahead(a))
    BY <2>1, <2>5 DEF Bound, Clean, Ahead
  <2>7. AdminInv
    BY DEF LifecycleInv
  <2>8. ASSUME NEW a \in Admins PROVE AdminOK(a)' /\ (Complete(a)' <=> Complete(a))
    <3>1. Sole(a)' <=> Sole(a)
      BY <2>1, <2>5, <2>6 DEF Sole
    <3>2. AdminOK(a)
      BY <2>7 DEF AdminInv
    <3>3. AdminOK(a)'
      BY <2>1, <2>5, <2>6, <3>1, <3>2 DEF AdminOK
    <3>4. Complete(a)' <=> Complete(a)
      BY <2>1, <2>5, <2>6 DEF Complete
    <3>. QED BY <3>3, <3>4
  <2>9. AdminInv'
    <3>1. BesideInv' /\ AheadInv'
      BY <2>1, <2>5, <2>6, <2>7 DEF AdminInv, BesideInv, AheadInv
    <3>2. EndOK'
      BY <2>1, <2>7, <2>8 DEF AdminInv, EndOK
    <3>. QED BY <2>8, <3>1, <3>2 DEF AdminInv
  <2>10. OneAttemptStep
    BY <2>1 DEF OneAttemptStep
  <2>. QED BY <2>2, <2>3, <2>4, <2>9, <2>10 DEF LifecycleInv
<1>2. ASSUME NEW a \in Admins, AdminStep(a) PROVE LifecycleInv' /\ OneAttemptStep
  BY <1>2, ChecksOfAdminKeep, InstallKeeps, HandoffKeeps, RepairsKeep, RemovalsKeep, FinallyKeeps
     DEF AdminStep
<1>3. ASSUME NEW a \in Admins, StartAdministrator(a) \/ AdminStep(a) \/ AdminCommandFails(a) \/ AdminDies(a)
      PROVE  LifecycleInv' /\ OneAttemptStep
  BY <1>2, <1>3, StartKeeps, ChecksOfAdminKeep, AdminDiesKeeps
<1>4. ASSUME Next PROVE LifecycleInv' /\ OneAttemptStep
  BY <1>3, <1>4, FixtureStepKeeps, UserKeepsInv, RegistrationsChangeKeeps DEF Next
<1>. QED BY <1>1, <1>4

\* The invariant holds in every reachable state of the isolated lifecycle.
THEOREM LifecycleInvHolds == Spec => []LifecycleInv
<1>1. Init => LifecycleInv
  BY LifecycleStarts
<1>2. LifecycleInv /\ [Next]_vars => LifecycleInv'
  BY LifecycleSteps
<1>. QED BY <1>1, <1>2, PTL DEF Spec

\* claim_handoff: at most one invocation of the standard user's phase ever gets
\* past the claim, for any number of invocations, deaths and changes.
THEOREM OneStandardPhaseHolds == Spec => []OneStandardPhase
<1>1. LifecycleInv => OneStandardPhase
  <2>1. SUFFICES ASSUME LifecycleInv PROVE OneStandardPhase
    OBVIOUS
  <2>2. TypeInv /\ FixtureTypes /\ OneClaims
    BY <2>1 DEF LifecycleInv, FixtureInv, UserInv
  <2>3. builder \in {"runtime", "application", "export", "bindRuntime", "compile", "verifyBuild", "capture",
                  "receipt", "loadReceipt", "payload", "package", "verifyPackage", "legacy", "manifest",
                  "done", "failed"}
    BY <2>2 DEF FixtureTypes, BuilderPlaces, AfterCompile
  <2>4. \A p \in Processes : report[p].status \in {"none", "failed", "passed"} /\ report[p].checks \subseteq CHECKS
    BY <2>2 DEF TypeInv, Reports
  <2>5. /\ machine.app \in {"none", "installed", "broken"} /\ machine.host \in {"none", "current", "legacy"}
        /\ changes \in 0 .. MaxChanges /\ deaths \in 0 .. MaxDeaths
    BY <2>2 DEF TypeInv, FixtureTypes, IsMachine
  <2>6. adminAt \in [Admins -> Ends \union
                   {"bind", "install", "provision", "handoff", "wait", "verify", "measure", "optionalRepair",
                    "repairClient", "legacyHost", "refuseLegacy", "upgradeHost", "reinstall", "uninstall",
                    "residual", "finalUninstall", "pass", "registrations", "rebind", "write"}]
    <3>1. AdminPlaces = Ends \union
                   {"bind", "install", "provision", "handoff", "wait", "verify", "measure", "optionalRepair",
                    "repairClient", "legacyHost", "refuseLegacy", "upgradeHost", "reinstall", "uninstall",
                    "residual", "finalUninstall", "pass", "registrations", "rebind", "write"}
      BY DEF AdminPlaces, Trying, Finally
    <3>. QED BY <2>2, <3>1 DEF TypeInv
  <2>7. userAt \in [Users -> Ends \union CHECKS \union {"look", "claim", "bind", "rebind", "write", "publish"}]
    BY <2>2 DEF TypeInv, UserPlaces
  <2>8. TypeOK
    BY <2>3, <2>4, <2>5, <2>6, <2>7 DEF TypeOK
  <2>. QED BY <2>2, <2>8 DEF OneStandardPhase, OneClaims, Claimed
<1>. QED BY <1>1, LifecycleInvHolds, PTL

\* administrator_phase: a result that says passed stands for a complete attempt,
\* for any number of invocations, deaths and changes, also where administrators'
\* invocations overlap; what is left on the machine is only claimed of an attempt
\* that no other ran beside.
THEOREM PassedMeansCompleteHolds == Spec => []PassedMeansComplete
<1>1. LifecycleInv => PassedMeansComplete
  <2>1. SUFFICES ASSUME LifecycleInv, ended # None, ended.status = "passed"
                 PROVE  /\ ready # None /\ ready.phaseId = ended.by /\ ready.fixtureBinding = loaded[ended.by]
                        /\ claim = ready
                        /\ result # None /\ result.binding = ready
                        /\ result.status = "passed" /\ result.checks = CHECKS
                        /\ \E u \in Users : /\ machine.vault = [by |-> u] /\ handed[u] = claim
                                            /\ loaded[u] = loaded[ended.by]
                        /\ machine.profile = "private"
                        /\ beside[ended.by] = {} =>
                             /\ machine.app = "none" /\ machine.host = "none" /\ ~machine.downloads
                             /\ hostKeys = snapshot[ended.by]
                             /\ ended.applicationSourceVerified => machine.package.content = Genuine
    BY DEF PassedMeansComplete
  <2>. DEFINE a == ended.by
  <2>2. a \in Admins /\ Complete(a) /\ (ended.applicationSourceVerified => loaded[a].application # None)
    BY <2>1 DEF LifecycleInv, AdminInv, EndOK
  <2>. HIDE DEF a
  <2>3. Handover(a) /\ Verified /\ Bound(a) /\ (beside[a] = {} => Clean(a))
    BY <2>2 DEF Complete
  <2>4. claim = ready
    BY <2>1, <2>3 DEF LifecycleInv, HandoffInv, Verified
  <2>5. PICK u \in Users : ResultOf(u, result)
    BY <2>1, <2>3 DEF LifecycleInv, UserInv, ResultsOK, Verified
  <2>6. Claimed(u) /\ report[u].checks = CHECKS
    BY <2>3, <2>5 DEF ResultOf, Claimed, Verified
  <2>7. "vault" \in report[u].checks
    BY <2>6 DEF CHECKS
  <2>8. machine.vault = [by |-> u] /\ handed[u] = claim
    BY <2>1, <2>6, <2>7 DEF LifecycleInv, UserInv, UserOK
  <2>9. loaded[u] = loaded[a] /\ loaded[a] = ready.fixtureBinding
    BY <2>3, <2>6 DEF Bound
  <2>10. beside[a] = {} =>
           /\ machine.app = "none" /\ machine.host = "none" /\ ~machine.downloads
           /\ hostKeys = snapshot[a]
           /\ ended.applicationSourceVerified => machine.package.content = Genuine
    BY <2>2, <2>3 DEF Clean, Removed, Genuine
  <2>11. ready # None /\ ready.phaseId = a /\ machine.profile = "private"
    BY <2>3 DEF Handover
  <2>12. result # None /\ result.binding = ready /\ result.status = "passed" /\ result.checks = CHECKS
    BY <2>3 DEF Verified
  <2>13. \E v \in Users : machine.vault = [by |-> v] /\ handed[v] = claim /\ loaded[v] = loaded[a]
    BY <2>8, <2>9
  <2>. QED BY <2>4, <2>9, <2>10, <2>11, <2>12, <2>13 DEF a
<1>. QED BY <1>1, LifecycleInvHolds, PTL

\* "One-attempt coordination evidence": what the phases hand over is never
\* replaced or taken away, and the installation and the result of an attempt
\* only by one that ran beside it, for any number of invocations, deaths and
\* changes.
THEOREM OneAttemptHolds == Spec => OneAttempt
<1>1. LifecycleInv /\ [Next]_vars => [OneAttemptStep]_vars
  BY LifecycleSteps
<1>2. [OneAttemptStep]_vars =>
        [/\ ready # None => ready' = ready
         /\ claim # None => claim' = claim
         /\ result # None => result' = result
         /\ ended # None /\ ended' # ended => ended.by \in beside[ended'.by]
         /\ machine.package # None /\ machine'.package # machine.package =>
              machine.package.by \in beside[machine'.package.by]]_vars
  BY DEF OneAttemptStep
<1>. QED BY <1>1, <1>2, LifecycleInvHolds, PTL DEF Spec, OneAttempt
=============================================================================
