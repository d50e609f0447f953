------------------- MODULE MCDirectOdbcConnectionLimiter -------------------
(* An instance of DirectOdbcConnectionLimiter for TLC: operations of three *)
(* classes compete for one, two or four connections.  Two of them share a  *)
(* class cap of one or two, and a limit of one puts three in the global    *)
(* line.                                                                   *)
EXTENDS DirectOdbcConnectionLimiter, TLC

CONSTANTS s1, s2, b1, g1

MixClassOf == (s1 :> "streaming") @@ (s2 :> "streaming") @@ (b1 :> "bulk") @@ (g1 :> "general")
=============================================================================
