--------------------------- MODULE NativeBenchmark ---------------------------
(***************************************************************************)
(* What the ODBC benchmark tools read in the log of a native benchmark and *)
(* the verdict they give (tool/py/benchmark_common.py,                     *)
(* tool/py/odbc_benchmark_gate.py, tool/py/odbc_benchmark_runner.py and    *)
(* tool/benchmarks/run_benchmark_suite.py).                                *)
(*                                                                         *)
(* A log is the sequence of the JSON objects printed to it, oldest first;  *)
(* every other line is left out.  A report is                              *)
(*   mode     "async" or "streaming", from its "benchmark" key;            *)
(*   header   harness version, workload, row count and warm-up are the     *)
(*            expected ones;                                               *)
(*   repeats  how many samples each scenario claims;                       *)
(*   metrics  every metric the suite requires is there and is a number;    *)
(*   rows     scenario |-> its row: elapsed (ms), rate (rows per second),  *)
(*            samples, fallbacks, and sound, which stands for the checks   *)
(*            on row counts, timeouts, encodings and chunk sizes.          *)
(* A threshold is in hundredths, and an environment setting is <<>> when   *)
(* it is unset and <<value>> when it is set.                               *)
(***************************************************************************)
EXTENDS Naturals, Sequences, FiniteSets

AsyncScenarios ==
    {"workerCount=1", "workerCount=4", "workerCount=4 columnar",
     "workerCount=4 columnar compressed", "native pool", "prepared reuse"}
StreamingScenarios == {"streamQueryBuffer", "streamQueryBatched"}
ExpectedScenarios(mode) ==
    IF mode = "async" THEN AsyncScenarios ELSE StreamingScenarios

\* The object the validity checks read: the last one of the log.
extract_json_object_from_output(log) == log[Len(log)]

\* The rows the gates read: those of the first report of the mode.
FirstRows(log, mode) ==
    LET found == {i \in 1..Len(log) : log[i].mode = mode}
    IN  IF found = {} THEN <<>>
        ELSE log[CHOOSE i \in found : \A j \in found : i <= j].rows
parse_async_benchmark_scenarios(log) == FirstRows(log, "async")
parse_streaming_benchmark_scenarios(log) == FirstRows(log, "streaming")

valid_native_benchmark_report(log, mode) ==
    /\ log # <<>>
    /\ LET report == extract_json_object_from_output(log)
       IN  /\ report.mode = mode
           /\ report.header
           /\ report.repeats \in {3, 9}
           /\ DOMAIN report.rows = ExpectedScenarios(mode)
           /\ \A s \in DOMAIN report.rows :
                 /\ report.rows[s].samples = report.repeats
                 /\ report.rows[s].sound
                 /\ report.rows[s].elapsed > 0
                 /\ mode = "async" => report.rows[s].fallbacks = 0

-----------------------------------------------------------------------------
(* The two gates.  0 lets the run through, 2 is inconclusive, 3 fails it;   *)
(* a threshold that is not a positive number is Refused: SystemExit(2)     *)
(* leaves the whole benchmark tool at once.                                *)

Refused == 9

_benchmark_gates_enabled(env) == env.gates = <<"1">>

\* The setting if there is one, otherwise the default of an enforced gate.
_read_positive_float_env(setting, env, default) ==
    IF setting # <<>> THEN setting
    ELSE IF _benchmark_gates_enabled(env) THEN <<default>> ELSE <<>>

\* A missing measurement fails an enforced gate and is inconclusive otherwise.
MissingMeasurement(env) == IF _benchmark_gates_enabled(env) THEN 3 ELSE 2

\* Whether _columnar_speedup, 0 for a duration that is not positive, reaches
\* the minimum.
_columnar_speedup(rowMajor, encoded, minimum) ==
    encoded > 0 /\ 100 * rowMajor >= minimum * encoded

TotalFallbacks(rows) ==
    Cardinality(UNION {{<<s, n>> : n \in 1..rows[s].fallbacks} : s \in DOMAIN rows})

enforce_async_benchmark_gates(rows, env) ==
    LET maximum == IF env.fallbacks = <<>> THEN 0 ELSE env.fallbacks[1]
        minimum == _read_positive_float_env(env.columnar, env, 130)
        encoded == {"workerCount=4 columnar", "workerCount=4 columnar compressed"}
                       \cap DOMAIN rows
    IN  IF rows = <<>> THEN IF _benchmark_gates_enabled(env) THEN 3 ELSE 0
        ELSE IF TotalFallbacks(rows) > maximum THEN 3
        ELSE IF minimum = <<>> THEN 0
        ELSE IF minimum[1] = 0 THEN Refused
        ELSE IF "workerCount=4" \notin DOMAIN rows \/ encoded = {}
             THEN MissingMeasurement(env)
        ELSE IF \E s \in encoded : _columnar_speedup(rows["workerCount=4"].elapsed,
                                                     rows[s].elapsed, minimum[1])
             THEN 0 ELSE 3

enforce_streaming_benchmark_gates(rows, env) ==
    LET minimum == _read_positive_float_env(env.streaming, env, 200)
    IN  IF minimum = <<>> THEN 0
        ELSE IF minimum[1] = 0 THEN Refused
        ELSE IF ~(StreamingScenarios \subseteq DOMAIN rows) THEN MissingMeasurement(env)
        ELSE IF rows["streamQueryBuffer"].rate = 0 THEN 3
        ELSE IF 100 * rows["streamQueryBatched"].rate
                    >= minimum[1] * rows["streamQueryBuffer"].rate
             THEN 0 ELSE 3

-----------------------------------------------------------------------------
(* run_odbc_async_benchmark and run_odbc_streaming_benchmark, from the end *)
(* of the benchmark on: the log is read back, judged and gated.            *)

FullReport(log, mode) ==
    /\ valid_native_benchmark_report(log, mode)
    /\ extract_json_object_from_output(log).repeats = 9

run_odbc_async_benchmark(log, env, exitCode) ==
    LET rows == parse_async_benchmark_scenarios(log)
        gate == enforce_async_benchmark_gates(rows, env)
    IN  IF exitCode # 0 THEN exitCode
        ELSE IF ~FullReport(log, "async") THEN 2
        ELSE IF gate # 0 THEN gate
        ELSE IF ~(AsyncScenarios \subseteq DOMAIN rows) THEN 2
        ELSE 0

run_odbc_streaming_benchmark(log, env, exitCode) ==
    LET rows == parse_streaming_benchmark_scenarios(log)
    IN  IF exitCode # 0 THEN exitCode
        ELSE IF ~FullReport(log, "streaming") THEN 2
        ELSE enforce_streaming_benchmark_gates(rows, env)

RunnerExit(log, mode, env, exitCode) ==
    IF mode = "async" THEN run_odbc_async_benchmark(log, env, exitCode)
                      ELSE run_odbc_streaming_benchmark(log, env, exitCode)

-----------------------------------------------------------------------------
(* The suite: what run_benchmark_suite makes of the suites it ran, as      *)
(* [mode |-> [code, metrics]] over the suites that were not skipped.       *)

SuiteStatus(suite) ==
    CASE suite.code = 0 -> IF suite.metrics THEN "pass" ELSE "inconclusive"
      [] suite.code = 2 -> "inconclusive"
      [] OTHER -> "fail"

SuiteExit(suites, env) ==
    LET Some(status) == \E m \in DOMAIN suites : SuiteStatus(suites[m]) = status
        asyncPassed == "async" \in DOMAIN suites /\ SuiteStatus(suites["async"]) = "pass"
    IN  CASE \E m \in DOMAIN suites : suites[m].code = 3 -> 3
          [] OTHER ->
                IF env.columnar # <<>> /\ ~asyncPassed THEN 2
                ELSE IF Some("fail") THEN 1
                ELSE IF ~Some("pass") \/ Some("inconclusive") THEN 2
                ELSE 0
=============================================================================
