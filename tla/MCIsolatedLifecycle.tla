------------------------ MODULE MCIsolatedLifecycle ------------------------
(* The isolated Windows lifecycle for TLC: two attempts of the administrator,
   which may overlap; and either two invocations of the standard user's phase
   and one process that dies, or one invocation and one change by something
   else.                                                                     *)
EXTENDS IsolatedLifecycle

CONSTANTS u1, u2

OneMishap == changes = 0 \/ (deaths = 0 /\ userAt[u2] = "off")

MCNext == Next /\ OneMishap'

MCSpec == Init /\ [][MCNext]_vars /\ Progress
=============================================================================
