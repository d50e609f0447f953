-------------------------- MODULE ReleaseContract --------------------------
(* What a reader of the releases page may rely on, whatever the release jobs
   go through: a version gets one source commit, then a draft nobody sees,
   then, once, an installer and a manifest that belong to that commit. From
   then on neither changes.                                                  *)
CONSTANTS Releasable, NoSource, NothingShown

VARIABLES
  source,   \* the commit the version's tag names
  phase,    \* "absent", "draft", "public"
  shown     \* the public installer and manifest

contractVars == <<source, phase, shown>>

Init ==
  /\ source = [v \in Releasable |-> NoSource]
  /\ phase = [v \in Releasable |-> "absent"]
  /\ shown = [v \in Releasable |-> NothingShown]

(* The pair is one build of the tagged commit, described by its manifest. *)
BelongTogether(pair, commit, version) ==
  /\ pair.manifest.payload.commit = commit
  /\ pair.manifest.payload.installer = pair.setup.id
  /\ pair.setup.payload.app = commit.tree
  /\ pair.setup.name = version
  /\ pair.manifest.payload.version = pair.setup.worker
  /\ pair.manifest.payload.channel = pair.setup.channel

FixSource(v) ==
  /\ source[v] = NoSource
  /\ source'[v] # NoSource
  /\ source' = [source EXCEPT ![v] = source'[v]]
  /\ UNCHANGED <<phase, shown>>

OpenDraft(v) ==
  /\ source[v] # NoSource
  /\ phase[v] = "absent"
  /\ phase' = [phase EXCEPT ![v] = "draft"]
  /\ UNCHANGED <<source, shown>>

Show(v) ==
  /\ phase[v] = "draft"
  /\ phase' = [phase EXCEPT ![v] = "public"]
  /\ BelongTogether(shown'[v], source[v], v)
  /\ shown' = [shown EXCEPT ![v] = shown'[v]]
  /\ UNCHANGED source

Next == \E v \in Releasable : FixSource(v) \/ OpenDraft(v) \/ Show(v)

Spec == Init /\ [][Next]_contractVars
=============================================================================
