------------------------------ MODULE OdbcGates ------------------------------
(***************************************************************************)
(* The two tools that vouch for the ODBC stack before a release:           *)
(* tool/odbc/run_odbc_release_gate.py ("gate"), which runs every step and  *)
(* fails if one did, and tool/odbc/run_odbc_operational_validation.py      *)
(* ("validation"), which stops at the first failure and always leaves a    *)
(* worksheet.  Several runs of them may overlap or follow one another on   *)
(* one checkout: their benchmark logs have fixed paths, one per tool and   *)
(* mode, and the worksheets are written to one --output-path.              *)
(*                                                                         *)
(* A step is a child process with an exit code.  The steps that benchmark  *)
(* are opened up: the log is emptied, the native benchmark appends its     *)
(* report when it ends, and the log is read back and judged.               *)
(***************************************************************************)
EXTENDS NativeBenchmark, FiniteSetsExt

CONSTANTS
    Runs,             \* runs of the tools
    Options,          \* [tool, asked, environ, dotenv]: command lines, environments
                      \*   and .env files
    Reports           \* mode -> the reports a native benchmark may print

BenchmarkModes == {"async", "streaming"}
Tools == {"gate", "validation"}

GateSteps ==
    <<"dart_analyze", "odbc_unit_tests", "odbc_fast_runtime",
      "odbc_pool_modes_launcher", "operational_validation", "benchmark_gate">>
ValidationSteps ==
    <<"OdbcRuntime", "Preflight", "Smoke", "Burst", "Benchmark",
      "StreamingBenchmark", "DriverMatrixBenchmark">>
AllSteps(tool) == IF tool = "gate" THEN GateSteps ELSE ValidationSteps
StepNames(tool) == {AllSteps(tool)[i] : i \in DOMAIN AllSteps(tool)}

\* Each tool has steps that no option leaves out.
ASSUME OptionsAssumption ==
    \A o \in Options :
        /\ o.tool \in Tools
        /\ o.asked # {} /\ \A s \in o.asked : s \in StepNames(o.tool)

VARIABLES
    run,              \* Runs -> the state of the process
    logs,             \* <<tool, mode>> -> the benchmark log
    worksheet,        \* the operational validation report on disk
    written           \* Runs -> mode -> the reports its log received between
                      \*   emptying it and judging it

odbcVars == <<run, logs, worksheet, written>>

\* An environment is a record of settings: gates, columnar, streaming and
\* fallbacks for the gates, dsn for the data source.  The .env file only
\* fills in what the environment leaves unset.
NothingSet == [gates |-> <<>>, columnar |-> <<>>, streaming |-> <<>>,
               fallbacks |-> <<>>, dsn |-> <<>>]
import_dotenv_if_present(environ, dotenv) ==
    [key \in DOMAIN environ |-> IF environ[key] # <<>> THEN environ[key] ELSE dotenv[key]]

odbc_dsn_configured(env) == env.dsn # <<>>

\* The benchmarks a step runs: the suite skips both when no DSN is configured.
ModesOf(step, env) ==
    CASE step = "Benchmark" -> <<"async">>
      [] step = "StreamingBenchmark" -> <<"streaming">>
      [] step = "benchmark_gate" -> IF odbc_dsn_configured(env)
                                     THEN <<"async", "streaming">> ELSE <<>>
      [] OTHER -> <<>>
Benchmarks(step) == step \in {"Benchmark", "StreamingBenchmark", "benchmark_gate"}

\* The gate exports BENCHMARK_ENFORCE_ODBC_GATES=1 before its last step.
StepEnvironment(p) ==
    IF p.tool = "gate" THEN [p.env EXCEPT !.gates = <<"1">>] ELSE p.env

NotStarted ==
    [tool |-> "gate", asked |-> {}, env |-> NothingSet, at |-> 1,
     phase |-> "step", child |-> 0, codes |-> <<>>, suites |-> <<>>, exit |-> "idle"]
NothingWritten == [m \in BenchmarkModes |-> {}]
NoWorksheet == [run |-> "none", status |-> <<>>]

OdbcInit ==
    /\ run = [r \in Runs |-> NotStarted]
    /\ logs = [path \in Tools \X BenchmarkModes |-> <<>>]
    /\ worksheet = NoWorksheet
    /\ written = [r \in Runs |-> NothingWritten]

\* The places in the script of the steps that were asked for.
Plan(p) == {i \in DOMAIN AllSteps(p.tool) : AllSteps(p.tool)[i] \in p.asked}
Later(p) == {i \in Plan(p) : i > p.at}
Step(p) == AllSteps(p.tool)[p.at]
Running(p) == p.exit = "running"
ModeAt(p) == ModesOf(Step(p), p.env)[Cardinality(DOMAIN p.suites) + 1]

-----------------------------------------------------------------------------
(* Starting, finishing a step and ending.                                  *)

StartTool(r, o) ==
    /\ run[r].exit = "idle"
    /\ run' = [run EXCEPT ![r] = [NotStarted EXCEPT
                !.tool = o.tool, !.asked = o.asked, !.at = Min(Plan(o)), !.exit = "running",
                !.env = import_dotenv_if_present(o.environ, o.dotenv)]]
    /\ UNCHANGED <<logs, worksheet, written>>

\* A step succeeds exactly if its command exits with 0.
invoke_step(code) == code = 0

\* The status the worksheet shows for each step.
build_validation_report(p) ==
    [s \in StepNames("validation") |->
        IF s \in DOMAIN p.codes THEN IF invoke_step(p.codes[s]) THEN "passed" ELSE "failed"
        ELSE IF s \in p.asked THEN "pending"
        ELSE IF s = "Preflight" THEN "skipped" ELSE "not requested"]

\* A process that is gone leaves its exit code; what a successful one did is
\* kept for the properties.
Gone(p, exit) ==
    IF exit = "0" THEN [p EXCEPT !.exit = exit]
    ELSE [NotStarted EXCEPT !.tool = p.tool, !.exit = exit]

\* What main leaves behind when p is over, whatever made it end.
Leave(r, p, failed) ==
    /\ run' = [run EXCEPT ![r] = Gone(p, IF failed THEN "1" ELSE "0")]
    /\ written' = IF failed THEN [written EXCEPT ![r] = NothingWritten] ELSE written
    /\ worksheet' = IF p.tool = "validation"
                    THEN [run |-> r, status |-> build_validation_report(p)]
                    ELSE worksheet

Failed(p) == \E s \in DOMAIN p.codes : p.codes[s] # 0

\* The gate runs on after a failure, the validation stops (RuntimeError).
FinishStep(r, code) ==
    LET s == Step(run[r])
        p == [run[r] EXCEPT !.codes = [t \in DOMAIN @ \cup {s} |->
                                          IF t = s THEN code ELSE @[t]],
                            !.suites = <<>>, !.phase = "step", !.child = 0]
        over == Later(p) = {} \/ (p.tool = "validation" /\ ~invoke_step(code))
    IN  IF over THEN Leave(r, p, Failed(p))
        ELSE /\ run' = [run EXCEPT ![r] = [p EXCEPT !.at = Min(Later(p))]]
             /\ UNCHANGED <<worksheet, written>>

-----------------------------------------------------------------------------
(* The steps that only have an exit code.                                  *)

\* The gate starts the validation with --output-directory, an option its
\* parser does not have: argparse leaves with 2.  A benchmark suite with
\* every suite skipped is inconclusive.
PlainCodes(p) ==
    CASE Step(p) = "operational_validation" -> {2}
      [] Step(p) = "benchmark_gate" -> {SuiteExit(<<>>, StepEnvironment(p))}
      [] OTHER -> {0, 1}

RunStep(r) ==
    /\ Running(run[r]) /\ ModesOf(Step(run[r]), run[r].env) = <<>>
    /\ \E code \in PlainCodes(run[r]) : FinishStep(r, code)
    /\ UNCHANGED logs

\* The child cannot be started (its executable is missing): OSError passes
\* the handlers, the validation's finally still writes the worksheet.
StepRaises(r) ==
    /\ Running(run[r]) /\ ~Benchmarks(Step(run[r]))
    /\ Leave(r, run[r], TRUE)
    /\ UNCHANGED logs

-----------------------------------------------------------------------------
(* The steps that benchmark, one mode after the other.                     *)

Benchmarking(r, phase) ==
    /\ Running(run[r]) /\ run[r].phase = phase
    /\ ModesOf(Step(run[r]), run[r].env) # <<>>
LogOf(r) == <<run[r].tool, ModeAt(run[r])>>
AwaitsReport(r, path) ==
    (Benchmarking(r, "measure") \/ Benchmarking(r, "judge")) /\ LogOf(r) = path

\* A faulty variant: the log of the previous benchmark is kept.
KeepBenchmarkLog(r) ==
    /\ Benchmarking(r, "step")
    /\ written' = [written EXCEPT ![r][ModeAt(run[r])] = {}]
    /\ run' = [run EXCEPT ![r].phase = "measure"]
    /\ UNCHANGED <<logs, worksheet>>

_reset_benchmark_log(r) ==
    /\ Benchmarking(r, "step")
    /\ logs' = [logs EXCEPT ![LogOf(r)] = <<>>]
    /\ written' = [written EXCEPT ![r][ModeAt(run[r])] = {}]
    /\ run' = [run EXCEPT ![r].phase = "measure"]
    /\ UNCHANGED worksheet

\* run_streaming: the benchmark ends, printed is <<>> or its one report.
Measure(r) ==
    /\ Benchmarking(r, "measure")
    /\ \E code \in {0, 1}, printed \in {<<>>} \cup {<<q>> : q \in Reports[ModeAt(run[r])]} :
          /\ logs' = [logs EXCEPT ![LogOf(r)] = @ \o printed]
          /\ written' = [q \in Runs |->
                IF AwaitsReport(q, LogOf(r))
                THEN [written[q] EXCEPT ![ModeAt(run[r])] =
                        @ \cup {printed[i] : i \in DOMAIN printed}]
                ELSE written[q]]
          /\ run' = [run EXCEPT ![r].phase = "judge", ![r].child = code]
    /\ UNCHANGED worksheet

\* run_odbc_suite reads the report once more and has no answer to a log
\* without one; a refused threshold leaves the tool too.
Judge(r) ==
    LET p == run[r]
        log == logs[LogOf(r)]
        env == StepEnvironment(p)
        code == RunnerExit(log, ModeAt(p), env, p.child)
        suites == [m \in DOMAIN p.suites \cup {ModeAt(p)} |->
                      IF m = ModeAt(p)
                      THEN [code |-> code, metrics |-> extract_json_object_from_output(log).metrics]
                      ELSE p.suites[m]]
        verdict == CASE code = Refused -> 2
                     [] code # Refused /\ p.tool = "validation" -> code
                     [] OTHER -> IF log = <<>> THEN 1 ELSE SuiteExit(suites, env)
        more == /\ p.tool = "gate" /\ code # Refused /\ log # <<>>
                /\ DOMAIN suites # BenchmarkModes
    IN  /\ Benchmarking(r, "judge")
        /\ IF ~more THEN FinishStep(r, verdict)
           ELSE /\ run' = [run EXCEPT ![r].suites = suites, ![r].phase = "step",
                                      ![r].child = 0]
                /\ UNCHANGED <<worksheet, written>>
        /\ UNCHANGED logs

\* The process is killed: no handler runs.
Kill(r) ==
    /\ Running(run[r])
    /\ run' = [run EXCEPT ![r] = Gone(@, "killed")]
    /\ written' = [written EXCEPT ![r] = NothingWritten]
    /\ UNCHANGED <<logs, worksheet>>

OdbcNext ==
    \E r \in Runs :
        \/ \E o \in Options : StartTool(r, o)
        \/ RunStep(r) \/ StepRaises(r)
        \/ _reset_benchmark_log(r) \/ Measure(r) \/ Judge(r)
        \/ Kill(r)

OdbcSpec == OdbcInit /\ [][OdbcNext]_odbcVars

-----------------------------------------------------------------------------
OdbcTypeOK ==
    /\ \A r \in Runs :
          /\ run[r].tool \in Tools
          /\ run[r].exit \in {"idle", "running", "0", "1", "killed"}
          /\ run[r].phase \in {"step", "measure", "judge"}
          /\ Running(run[r]) => run[r].at \in Plan(run[r])
          /\ DOMAIN run[r].codes \subseteq run[r].asked
          /\ DOMAIN run[r].suites \subseteq BenchmarkModes
    /\ worksheet # NoWorksheet => worksheet.run \in Runs

\* A report that was taken in full: nine clean samples of every scenario.
Complete(q, mode) == FullReport(<<q>>, mode)

\* A report that reaches the threshold in force, if one is.
ReachesThreshold(q, mode, env) ==
    IF mode = "async"
    THEN LET minimum == IF env.columnar # <<>> THEN env.columnar[1] ELSE 130
         IN  (env.columnar = <<>> /\ env.gates # <<"1">>)
                \/ \E s \in {"workerCount=4 columnar", "workerCount=4 columnar compressed"} :
                      /\ s \in DOMAIN q.rows
                      /\ 100 * q.rows["workerCount=4"].elapsed >= minimum * q.rows[s].elapsed
    ELSE LET minimum == IF env.streaming # <<>> THEN env.streaming[1] ELSE 200
         IN  (env.streaming = <<>> /\ env.gates # <<"1">>)
                \/ 100 * q.rows["streamQueryBatched"].rate
                      >= minimum * q.rows["streamQueryBuffer"].rate

\* A tool that exits with 0 ran every step it was asked for and each of them
\* succeeded.  Every benchmark among them printed, after this run emptied the
\* log, a complete report, and a report that reaches the threshold the tool
\* enforces: 1.30 and 2.00 under the release gate unless configured, in
\* whatever order the runs sharing the log emptied, filled and read it
\* (run_odbc_release_gate.py:159-166, odbc_benchmark_runner.py:99-111).
\* The worksheet on disk agrees with the exit code of the validation that
\* wrote it: all steps passed or were not wanted exactly if it exited with 0,
\* also when a child could not be started; and a validation that was not
\* killed left one (run_odbc_operational_validation.py:466-478).
PassIsEarned ==
    /\ OdbcTypeOK
    /\ \A r \in Runs : run[r].exit = "0" =>
          LET p == run[r]
          IN  /\ \A s \in p.asked : s \in DOMAIN p.codes /\ p.codes[s] = 0
              /\ "benchmark_gate" \in p.asked => p.env.dsn # <<>>
              /\ \A s \in p.asked : \A i \in DOMAIN ModesOf(s, p.env) :
                    LET mode == ModesOf(s, p.env)[i]
                    IN  /\ \E q \in written[r][mode] : Complete(q, mode)
                        /\ \E q \in written[r][mode] :
                              ReachesThreshold(q, mode, StepEnvironment(p))
    /\ worksheet # NoWorksheet =>
          (run[worksheet.run].exit = "0" <=>
              \A s \in DOMAIN worksheet.status :
                  worksheet.status[s] \in {"passed", "skipped", "not requested"})
    /\ \A r \in Runs :
          run[r].tool = "validation" /\ run[r].exit \in {"0", "1"} => worksheet # NoWorksheet
=============================================================================
