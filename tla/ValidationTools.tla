--------------------------- MODULE ValidationTools ---------------------------
(***************************************************************************)
(* The tools that produce evidence about a build outside the release       *)
(* workflow: the ODBC gates on a developer checkout, the repair of an      *)
(* existing installation on a host in use, the installation lifecycle on a *)
(* disposable machine, and the performance baseline.  They run on          *)
(* different machines, or touch different files, so a behaviour is a       *)
(* behaviour of one of them, chosen once.                                  *)
(***************************************************************************)
EXTENDS OdbcGates, ExistingInstallation, DisposableInstallation, BenchmarkBaseline

VARIABLE site      \* which machine the behaviour is about

vars == <<site, odbcVars, repairVars, disposableVars, baselineVars>>

Init ==
    /\ site \in {"checkout", "host in use", "disposable machine", "measuring machine"}
    /\ OdbcInit /\ RepairInit /\ DisposableInit /\ BaselineInit

CheckoutStep ==
    site = "checkout" /\ OdbcNext /\ UNCHANGED <<site, repairVars, disposableVars, baselineVars>>
HostStep ==
    site = "host in use" /\ RepairNext /\ UNCHANGED <<site, odbcVars, disposableVars, baselineVars>>
DisposableStep ==
    site = "disposable machine" /\ DisposableNext /\ UNCHANGED <<site, odbcVars, repairVars, baselineVars>>
MeasuringStep ==
    site = "measuring machine" /\ BaselineNext
        /\ UNCHANGED <<site, odbcVars, repairVars, disposableVars>>

Next == CheckoutStep \/ HostStep \/ DisposableStep \/ MeasuringStep

Spec == Init /\ [][Next]_vars
=============================================================================
