-------------------------- MODULE LifecycleHandoff --------------------------
(* lifecycle_handoff.py: the files through which the administrator's phase
   hands over to the standard user's phase, once. Each file is absent (None)
   or holds what was written. READY, CLAIM and RESULT.tmp are opened for
   exclusive creation; the rename to RESULT refuses an existing target.      *)
EXTENDS IsolatedFixture

VARIABLES
  ready, claim, pending, result,   \* READY, CLAIM, RESULT.tmp, RESULT
  ended                            \* lifecycle-result.json

handoffVars == <<ready, claim, pending, result, ended>>

HandoffInit ==
  /\ ready = None /\ claim = None /\ pending = None /\ result = None
  /\ ended = None

CHECKS == {"denials", "vault", "staging"}

AssertFresh == ready = None /\ claim = None /\ pending = None /\ result = None

Handoff(phaseId) == [phaseId |-> phaseId, fixtureBinding |-> manifest]

(* Faulty: takes over a claim that is there. *)
ClaimAnyway(handoff) == claim' = handoff /\ UNCHANGED <<ready, pending, result, ended>>

(* open("x") of CLAIM, once the tests before it have passed. *)
CreateClaim(handoff) ==
  /\ claim = None
  /\ claim' = handoff
  /\ UNCHANGED <<ready, pending, result, ended>>

HandoffMatches == ready # None /\ ready.fixtureBinding = manifest

ResultBinding(handoff) == [phaseId |-> handoff.phaseId, fixtureBinding |-> handoff.fixtureBinding]

VerifyResult(handoff) ==
  /\ handoff.fixtureBinding = manifest
  /\ claim = handoff
  /\ result # None
  /\ result.binding = ResultBinding(handoff)
  /\ result.status = "passed"
  /\ result.checks = CHECKS
=============================================================================
