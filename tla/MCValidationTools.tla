-------------------------- MODULE MCValidationTools --------------------------
(* Two runs of the ODBC tools over one checkout, with command lines that   *)
(* reach every step, and the reports that tell the gates apart; a host     *)
(* repaired twice; a disposable machine used twice; two summaries, so that *)
(* one can be promoted and the other compared with it.                     *)
EXTENDS ValidationTools, TLC

Symmetry == Permutations(Runs)

Row(elapsed, rate, samples, fallbacks) ==
    [elapsed |-> elapsed, rate |-> rate, samples |-> samples, fallbacks |-> fallbacks,
     sound |-> TRUE]

AsyncReport(columnar, compressed, samples) ==
    [mode |-> "async", header |-> TRUE, repeats |-> samples, metrics |-> TRUE,
     rows |-> [s \in AsyncScenarios |->
        Row(CASE s = "workerCount=4" -> 13
              [] s = "workerCount=4 columnar" -> columnar
              [] s = "workerCount=4 columnar compressed" -> compressed
              [] OTHER -> 20, 1, samples, 0)]]
StreamingReport(buffer, batched) ==
    [mode |-> "streaming", header |-> TRUE, repeats |-> 9, metrics |-> TRUE,
     rows |-> [s \in StreamingScenarios |->
        Row(10, IF s = "streamQueryBuffer" THEN buffer ELSE batched, 9, 0)]]

\* 13 / 10 is exactly the 1.30 of the gate, 13 / 11 is below it; 20 / 10 is
\* exactly its 2.00.
MCReports ==
    [m \in {"async", "streaming"} |->
        IF m = "async"
        THEN {AsyncReport(11, 10, 9), AsyncReport(11, 11, 9), AsyncReport(10, 10, 3)}
        ELSE {StreamingReport(10, 20), StreamingReport(10, 19)}]

Command(script, asked, environ, dotenv) ==
    [tool |-> script, asked |-> asked, environ |-> environ, dotenv |-> dotenv]
Dsn == [NothingSet EXCEPT !.dsn = <<"dsn">>]
Always == {"odbc_fast_runtime", "odbc_pool_modes_launcher"}

\* The gate with a DSN and a .env that would switch its thresholds off, the
\* gate without a DSN, a validation with a threshold that is refused, and a
\* validation with one that comes from the .env.
MCOptions ==
    {Command("gate", Always \cup {"benchmark_gate"}, Dsn,
             [NothingSet EXCEPT !.gates = <<"0">>]),
     Command("gate", Always \cup {"dart_analyze", "odbc_unit_tests",
                                 "operational_validation", "benchmark_gate"},
             NothingSet, NothingSet),
     Command("validation", {"OdbcRuntime", "Preflight", "Smoke", "Burst",
                            "DriverMatrixBenchmark", "StreamingBenchmark"},
             [Dsn EXCEPT !.gates = <<"1">>, !.streaming = <<0>>], NothingSet),
     Command("validation", {"OdbcRuntime", "Benchmark", "StreamingBenchmark"},
             Dsn, [Dsn EXCEPT !.columnar = <<130>>])}

\* A run of the transport suite alone, one with a suite that is skipped next
\* to it, and one of a suite that does not report its p95.  A p95 of 100 may grow to 105, and 106 is too much.
MCSelections ==
    {<<[id |-> "transport", enabled |-> TRUE]>>,
     <<[id |-> "transport", enabled |-> TRUE], [id |-> "json", enabled |-> FALSE]>>,
     <<[id |-> "json", enabled |-> TRUE]>>}
Transport(p95) == [status |-> "pass", metrics |-> [p95_us |-> p95, wall_ms |-> 100]]
MCOutcomes ==
    [id \in {"transport", "json"} |->
        IF id = "transport" THEN {Transport(100), Transport(106)}
        ELSE {[status |-> "pass", metrics |-> [wall_ms |-> 100]]}]
MCRequired == [id \in {"transport", "json"} |-> {"p95_us"}]
MCSections ==
    {[control |-> "pass", forward |-> "pass", reverse |-> "pass"],
     [control |-> "fail", forward |-> "pass", reverse |-> "pass"]}
=============================================================================
