------------------------ MODULE MCUpdateMaintenance ------------------------
(* Instances of UpdateMaintenance for TLC. *)
EXTENDS UpdateMaintenance, TLC

CONSTANTS query, call, session

WorkKind == (query :> "queue") @@ (call :> "gated") @@ (session :> "session")

=============================================================================
