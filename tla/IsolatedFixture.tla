-------------------------- MODULE IsolatedFixture --------------------------
(* How the inputs of the isolated Windows lifecycle come about: a private C++
   runtime (isolated_runtime.py), an application built from one commit
   (build_isolated_application.py) and a fixture that packages it with a
   historical supervisor (isolated_windows_fixture.py). Every stage verifies
   what the stage before recorded.

   Content is modelled by what is foreign to it: the artefacts that something
   else had changed before, or after, they went into it. {} is content made of
   the commit, the signed runtime and the fixture's tools alone. A digest tells
   two contents apart exactly when they differ. A change is for good.
   "operational" in a content means that it still names the identity of the
   production application.                                                   *)
EXTENDS Naturals, Sequences

CONSTANT MaxChanges   \* changes by something else, and misdeeds of the installer

ASSUME ChangesAssumption == MaxChanges \in Nat

VARIABLES
  builder,   \* where the builds are
  plan,      \* [runtime, application]: whether the optional stages are used
  disk,      \* content of every artefact
  receipt,   \* application-build.json, what it records
  manifest,  \* what fixture.json records, and whether it is on disk
  changes    \* changes so far

fixtureVars == <<builder, plan, disk, receipt, manifest, changes>>

None == [none |-> TRUE]

Absent == {"absent"}

Genuine == {}

(* The Release bundle of the working copy, about which nothing is known. *)
Unproven == {"working copy", "operational"}

Artefacts == {"runtime", "toolchain", "source", "bundle", "appPayload", "payload", "installer", "legacy"}

FixtureInit ==
  /\ builder = "runtime"
  /\ plan \in {[runtime |-> r, application |-> a] : r, a \in BOOLEAN}
  /\ plan.runtime => plan.application
  /\ disk = [a \in Artefacts |-> Absent]
  /\ receipt = None
  /\ manifest = None
  /\ changes = 0

----------------------------------------------------------------------------
(* What the verifications compute. *)

(* The files of the commit, every one compared with its Git blob. *)
export_archive == {"operational"}

rewrite_native(content) == content \ {"operational"}

derived_bytes(content) == rewrite_native(content)

(* The recorded files, and each derived again from the commit *)
verify_sources == disk.source = derived_bytes(export_archive)

(* Digest, machine type, signature and version of a file of the runtime *)
runtime_file(content) == content = Genuine

load_runtime == runtime_file(disk.runtime)

verify_runtime_reference == load_runtime /\ disk.toolchain = Genuine

load_application_build ==
  /\ receipt # None
  /\ verify_sources
  /\ receipt.runtime => verify_runtime_reference /\ "runtime" \notin receipt.payload
  /\ disk.appPayload = receipt.payload

(* verify_application_package: apart from the tools that are built again. *)
PackageVerifies(reference, payload) ==
  /\ load_application_build
  /\ receipt = reference
  /\ payload = receipt.payload

(* load_fixture *)
FixtureVerifies ==
  /\ manifest # None /\ manifest.saved
  /\ disk.installer = manifest.installer
  /\ disk.legacy = manifest.legacy
  /\ disk.payload = manifest.payload
  /\ manifest.application # None => PackageVerifies(manifest.application, disk.payload)

----------------------------------------------------------------------------
(* The builds, one after the other. A step whose check fails, or that is cut
   off, ends them; an output directory is never used again.                  *)

At(step) == builder = step

Goto(step) == builder' = step

Check(from, to, ok) ==
  /\ At(from)
  /\ Goto(IF ok THEN to ELSE "failed")
  /\ UNCHANGED <<plan, disk, receipt, manifest, changes>>

Make(from, to, artefact, content) ==
  /\ At(from)
  /\ Goto(to)
  /\ disk' = [disk EXCEPT ![artefact] = content]
  /\ UNCHANGED <<plan, receipt, manifest, changes>>

SkipRuntime == ~plan.runtime /\ Check("runtime", "application", TRUE)

PrepareRuntime == plan.runtime /\ Make("runtime", "application", "runtime", Genuine)

SkipApplication == ~plan.application /\ Check("application", "payload", TRUE)

LoadRuntime ==
  plan.application /\ Check("application", "export", plan.runtime => load_runtime)

ExportSource == Make("export", "bindRuntime", "source", derived_bytes(export_archive))

(* verify_sources, bind_runtime with the toolchain file it writes, and
   verify_sources again after pub get                                        *)
BindRuntime ==
  /\ At("bindRuntime")
  /\ IF verify_sources /\ (plan.runtime => load_runtime)
     THEN /\ disk' = IF plan.runtime THEN [disk EXCEPT !.toolchain = Genuine] ELSE disk
          /\ Goto("compile")
     ELSE Goto("failed") /\ UNCHANGED disk
  /\ UNCHANGED <<plan, receipt, manifest, changes>>

CompileApplication ==
  Make("compile", "verifyBuild", "bundle",
       disk.source \union (IF plan.runtime THEN disk.runtime \union disk.toolchain ELSE {}))

VerifySourcesAgain == Check("verifyBuild", "capture", verify_sources)

CaptureApplication == Make("capture", "receipt", "appPayload", disk.bundle)

(* What capture_payload and bind_runtime saw, not what is there by now. *)
WriteReceipt ==
  /\ At("receipt")
  /\ receipt' = [runtime |-> plan.runtime, payload |-> disk.appPayload \ {"appPayload"}]
  /\ Goto("loadReceipt")
  /\ UNCHANGED <<plan, disk, manifest, changes>>

LoadReceipt == Check("loadReceipt", "payload", load_application_build)

rewrite_installer(content) == content \ {"operational"}

assert_isolated_sources(tools, script) == "operational" \notin tools \union script

(* build_fixture up to capture_payload: the application, and the tools of the
   updater, compiled from sources that name the fixture's identity alone.    *)
CapturePayload ==
  LET source == IF plan.application THEN disk.source ELSE Unproven
      app == IF plan.application THEN disk.appPayload ELSE Unproven
      tools == rewrite_native(source)
  IN
  /\ At("payload")
  /\ IF /\ plan.application => load_application_build
        /\ assert_isolated_sources(tools, rewrite_installer(source))
     THEN disk' = [disk EXCEPT !.payload = app \union tools] /\ Goto("package")
     ELSE Goto("failed") /\ UNCHANGED disk
  /\ UNCHANGED <<plan, receipt, manifest, changes>>

CompilePackage == Make("package", "verifyPackage", "installer", disk.payload)

(* verify_payload, the state that will be written, verify_application_package *)
VerifyPackage ==
  /\ At("verifyPackage")
  /\ IF "payload" \notin disk.payload /\ (plan.application => PackageVerifies(receipt, disk.payload))
     THEN /\ manifest' = [payload |-> disk.payload, installer |-> disk.installer, legacy |-> Absent,
                          application |-> IF plan.application THEN receipt ELSE None,
                          revision |-> 0, saved |-> FALSE]
          /\ Goto("legacy")
     ELSE Goto("failed") /\ UNCHANGED manifest
  /\ UNCHANGED <<plan, disk, receipt, changes>>

BuildLegacySupervisor ==
  /\ At("legacy")
  /\ disk' = [disk EXCEPT !.legacy = Genuine]
  /\ manifest' = [manifest EXCEPT !.legacy = Genuine]
  /\ Goto("manifest")
  /\ UNCHANGED <<plan, receipt, changes>>

WriteManifest ==
  /\ At("manifest")
  /\ IF disk.payload = manifest.payload /\ (plan.application => PackageVerifies(receipt, disk.payload))
     THEN manifest' = [manifest EXCEPT !.saved = TRUE] /\ Goto("done")
     ELSE Goto("failed") /\ UNCHANGED manifest
  /\ UNCHANGED <<plan, disk, receipt, changes>>

BuildFails ==
  /\ builder \notin {"done", "failed"}
  /\ Goto("failed")
  /\ UNCHANGED <<plan, disk, receipt, manifest, changes>>

BuildStep ==
  \/ SkipRuntime \/ PrepareRuntime
  \/ SkipApplication \/ LoadRuntime \/ ExportSource \/ BindRuntime \/ CompileApplication
  \/ VerifySourcesAgain \/ CaptureApplication \/ WriteReceipt \/ LoadReceipt
  \/ CapturePayload \/ CompilePackage \/ VerifyPackage \/ BuildLegacySupervisor \/ WriteManifest
  \/ BuildFails

(* Something else changes an artefact whose digest has been taken. What the
   compilers have written and nothing has hashed yet is nobody's to verify.  *)
Captured(artefact) ==
  /\ disk[artefact] # Absent
  /\ artefact # "bundle"
  /\ artefact = "installer" => manifest # None

Change(artefact) ==
  /\ Captured(artefact)
  /\ changes < MaxChanges
  /\ changes' = changes + 1
  /\ disk' = [disk EXCEPT ![artefact] = @ \union {artefact}]
  /\ UNCHANGED <<builder, plan, receipt, manifest>>

(* fixture.json is written again, with another revision of the historical
   sources: it verifies by itself, and is not the one that was loaded.       *)
RewriteManifest ==
  /\ manifest # None /\ manifest.saved
  /\ changes < MaxChanges
  /\ changes' = changes + 1
  /\ manifest' = [manifest EXCEPT !.revision = @ + 1]
  /\ UNCHANGED <<builder, plan, disk, receipt>>

=============================================================================
