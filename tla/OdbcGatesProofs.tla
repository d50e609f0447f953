--------------------------- MODULE OdbcGatesProofs ---------------------------
(***************************************************************************)
(* A passed release gate or operational validation was earned, for any     *)
(* options and any reports, with several runs at once over the same logs.  *)
(*                                                                         *)
(* The verdict is written at the end of a run, so PassIsEarned is not      *)
(* inductive.  OdbcInv says that a code of 0 was earned when it was given, *)
(* that the codes are those of the steps before the present one, and that  *)
(* a run that waits for a report knows all its log holds, whichever run    *)
(* printed it (Known).                                                     *)
(***************************************************************************)
EXTENDS OdbcGates, QueueLemmas, TLAPS

\* A leaf that names no prover is one for Zenon.
USE ZenonT(30)

\* A run is a record of nine fields.
IsRun(p) ==
    p = [tool |-> p.tool, asked |-> p.asked, env |-> p.env, at |-> p.at, phase |-> p.phase,
         child |-> p.child, codes |-> p.codes, suites |-> p.suites, exit |-> p.exit]

\* A complete report and one that reaches the threshold were printed.
Earned(p, w, mode) ==
    /\ \E q \in w[mode] : Complete(q, mode)
    /\ \E q \in w[mode] : ReachesThreshold(q, mode, StepEnvironment(p))

\* The benchmarks a step judges.
ModeSet(s, env) == {ModesOf(s, env)[i] : i \in DOMAIN ModesOf(s, env)}

\* What a code of 0 of step s says of the reports w printed for the run.
StepEarned(p, w, s) ==
    /\ s = "benchmark_gate" => p.env.dsn # <<>>
    /\ \A mode \in ModeSet(s, p.env) : Earned(p, w, mode)

\* The types of the fields of a run.
Typed(p) ==
    /\ IsRun(p)
    /\ p.tool \in Tools
    /\ p.exit \in {"idle", "running", "0", "1", "killed"}
    /\ p.phase \in {"step", "measure", "judge"}
    /\ p.asked \subseteq StepNames(p.tool)
    /\ DOMAIN p.codes \subseteq p.asked
    /\ DOMAIN p.suites \subseteq BenchmarkModes

\* The codes are those of the steps before the present one.
Stands(p) ==
    /\ p.at \in Plan(p)
    /\ \A i \in Plan(p) : i < p.at <=> AllSteps(p.tool)[i] \in DOMAIN p.codes
    /\ p.tool = "validation" => \A s \in DOMAIN p.codes : p.codes[s] = 0
    /\ \/ DOMAIN p.suites = {}
       \/ DOMAIN p.suites = {"async"} /\ Step(p) = "benchmark_gate" /\ p.env.dsn # <<>>

\* A run that is under way or has passed has earned its codes of 0.
RunOK(p, w) ==
    /\ Typed(p)
    /\ DOMAIN w = BenchmarkModes
    /\ p.exit = "running" => Stands(p) /\ \A m \in DOMAIN p.suites : p.suites[m].code = 0 => Earned(p, w, m)
    /\ p.exit \in {"running", "0"} => \A s \in DOMAIN p.codes : p.codes[s] = 0 => StepEarned(p, w, s)
    /\ p.exit = "0" => \A s \in p.asked : s \in DOMAIN p.codes /\ p.codes[s] = 0

\* Logs are sequences of reports that somebody printed.
LogsOK ==
    /\ DOMAIN logs = Tools \X BenchmarkModes
    /\ \A t \in Tools, m \in BenchmarkModes : logs[<<t, m>>] \in Seq(Reports[m])

\* A run that waits for the report of its benchmark knows all the log holds.
Known ==
    \A r \in Runs, t \in Tools, m \in BenchmarkModes :
        AwaitsReport(r, <<t, m>>) =>
            \A i \in 1..Len(logs[<<t, m>>]) : logs[<<t, m>>][i] \in written[r][m]

AllPassed(status) == \A s \in DOMAIN status : status[s] \in {"passed", "skipped", "not requested"}

\* The worksheet is of a run that ended, and says how.
WorksheetOK ==
    /\ worksheet # NoWorksheet =>
          /\ worksheet.run \in Runs
          /\ run[worksheet.run].exit \in {"0", "1"}
          /\ run[worksheet.run].exit = "0" <=> AllPassed(worksheet.status)
    /\ \A r \in Runs :
          run[r].tool = "validation" /\ run[r].exit \in {"0", "1"} => worksheet # NoWorksheet

\* The inductive invariant.
OdbcInv ==
    /\ DOMAIN run = Runs /\ DOMAIN written = Runs
    /\ \A r \in Runs : RunOK(run[r], written[r])
    /\ LogsOK /\ Known /\ WorksheetOK

-----------------------------------------------------------------------------
(* The steps and their benchmarks.                                         *)

\* The steps of the release gate.
LEMMA GateTable ==
  /\ DOMAIN GateSteps = 1..6
  /\ GateSteps[1] = "dart_analyze" /\ GateSteps[2] = "odbc_unit_tests"
  /\ GateSteps[3] = "odbc_fast_runtime" /\ GateSteps[4] = "odbc_pool_modes_launcher"
  /\ GateSteps[5] = "operational_validation" /\ GateSteps[6] = "benchmark_gate"
  BY SMT DEF GateSteps

\* The steps of the operational validation.
LEMMA ValidationTable ==
  /\ DOMAIN ValidationSteps = 1..7
  /\ ValidationSteps[1] = "OdbcRuntime" /\ ValidationSteps[2] = "Preflight"
  /\ ValidationSteps[3] = "Smoke" /\ ValidationSteps[4] = "Burst"
  /\ ValidationSteps[5] = "Benchmark" /\ ValidationSteps[6] = "StreamingBenchmark"
  /\ ValidationSteps[7] = "DriverMatrixBenchmark"
  BY SMT DEF ValidationSteps

\* No step comes twice, and the places are numbers.
LEMMA StepsOnce ==
  ASSUME NEW t \in Tools
  PROVE  /\ DOMAIN AllSteps(t) \subseteq 1..7
         /\ \A i, j \in DOMAIN AllSteps(t) : AllSteps(t)[i] = AllSteps(t)[j] => i = j
<1>1. CASE t = "gate"
  <2>1. AllSteps(t) = GateSteps
    BY <1>1 DEF AllSteps
  <2>2. 1..6 = {1, 2, 3, 4, 5, 6} /\ 1..6 \subseteq 1..7
    BY SMT
  <2> QED
    BY SMT, <2>1, <2>2, GateTable
<1>2. CASE t = "validation"
  <2>1. AllSteps(t) = ValidationSteps
    BY <1>2 DEF AllSteps
  <2>2. 1..7 = {1, 2, 3, 4, 5, 6, 7}
    BY SMT
  <2> QED
    BY SMT, <2>1, <2>2, ValidationTable
<1> QED
  BY <1>1, <1>2 DEF Tools

\* The names of the steps of each tool.
LEMMA NamesOf ==
  /\ StepNames("gate") = {"dart_analyze", "odbc_unit_tests", "odbc_fast_runtime",
        "odbc_pool_modes_launcher", "operational_validation", "benchmark_gate"}
  /\ StepNames("validation") = {"OdbcRuntime", "Preflight", "Smoke", "Burst", "Benchmark",
        "StreamingBenchmark", "DriverMatrixBenchmark"}
<1>1. 1..6 = {1, 2, 3, 4, 5, 6} /\ 1..7 = {1, 2, 3, 4, 5, 6, 7}
  BY SMT
<1>2. AllSteps("gate") = GateSteps /\ AllSteps("validation") = ValidationSteps
  BY DEF AllSteps
<1>3. StepNames("gate") = {GateSteps[i] : i \in {1, 2, 3, 4, 5, 6}}
  BY <1>1, <1>2, GateTable DEF StepNames
<1>4. StepNames("validation") = {ValidationSteps[i] : i \in {1, 2, 3, 4, 5, 6, 7}}
  BY <1>1, <1>2, ValidationTable DEF StepNames
<1> QED
  BY SMT, <1>3, <1>4, GateTable, ValidationTable

\* The benchmarks of each step, as a sequence
LEMMA ModesTable ==
  ASSUME NEW env
  PROVE  /\ ModesOf("Benchmark", env) = <<"async">>
         /\ ModesOf("StreamingBenchmark", env) = <<"streaming">>
         /\ env.dsn # <<>> => ModesOf("benchmark_gate", env) = <<"async", "streaming">>
         /\ env.dsn = <<>> => ModesOf("benchmark_gate", env) = <<>>
         /\ \A s : ~Benchmarks(s) => ModesOf(s, env) = <<>>
  BY DEF ModesOf, Benchmarks, odbc_dsn_configured

\* and as a set.
LEMMA ModeSetTable ==
  ASSUME NEW env
  PROVE  /\ ModeSet("Benchmark", env) = {"async"}
         /\ ModeSet("StreamingBenchmark", env) = {"streaming"}
         /\ env.dsn # <<>> => ModeSet("benchmark_gate", env) = {"async", "streaming"}
         /\ env.dsn = <<>> => ModeSet("benchmark_gate", env) = {}
         /\ \A s : ~Benchmarks(s) => ModeSet(s, env) = {}
<1>1. /\ {<<"async">>[i] : i \in DOMAIN <<"async">>} = {"async"}
      /\ {<<"streaming">>[i] : i \in DOMAIN <<"streaming">>} = {"streaming"}
  BY SMT
<1>0. {<<>>[i] : i \in DOMAIN <<>>} = {}
  BY SMT
<1>2. {<<"async", "streaming">>[i] : i \in DOMAIN <<"async", "streaming">>} = {"async", "streaming"}
  <2>1. DOMAIN <<"async", "streaming">> = {1, 2}
    BY SMT
  <2> QED
    BY SMT, <2>1
<1>3. ModeSet("Benchmark", env) = {"async"} /\ ModeSet("StreamingBenchmark", env) = {"streaming"}
  <2>1. ModesOf("Benchmark", env) = <<"async">> /\ ModesOf("StreamingBenchmark", env) = <<"streaming">>
    BY ModesTable
  <2> QED
    BY <1>1, <2>1 DEF ModeSet
<1>4. env.dsn # <<>> => ModeSet("benchmark_gate", env) = {"async", "streaming"}
  BY <1>2, ModesTable DEF ModeSet
<1>5. env.dsn = <<>> => ModeSet("benchmark_gate", env) = {}
  <2>1. env.dsn = <<>> => ModesOf("benchmark_gate", env) = <<>>
    BY ModesTable
  <2> QED
    BY <1>0, <2>1 DEF ModeSet
<1>6. ASSUME NEW s, ~Benchmarks(s) PROVE ModeSet(s, env) = {}
  <2>1. ModesOf(s, env) = <<>>
    BY <1>6, ModesTable
  <2> QED
    BY <1>0, <2>1 DEF ModeSet
<1> QED
  BY <1>3, <1>4, <1>5, <1>6

\* Two steps of a tool never run the same benchmark.
LEMMA ModesApart ==
  ASSUME NEW t \in Tools, NEW s \in StepNames(t), NEW u \in StepNames(t), s # u, NEW env,
         NEW m \in ModeSet(s, env), m \in ModeSet(u, env)
  PROVE  FALSE
<1>1. Benchmarks(s) /\ Benchmarks(u)
  BY ModeSetTable
<1>2. CASE t = "gate"
  BY <1>1, <1>2, NamesOf DEF Benchmarks
<1>3. CASE t = "validation"
  <2>1. s \in {"Benchmark", "StreamingBenchmark"} /\ u \in {"Benchmark", "StreamingBenchmark"}
    BY <1>1, <1>3, NamesOf DEF Benchmarks
  <2> QED
    BY SMTT(20), <2>1, ModeSetTable
<1> QED
  BY <1>2, <1>3 DEF Tools

\* A run stands at a step that was asked for and has no code yet.
LEMMA StepAsked ==
  ASSUME NEW p, Typed(p), Stands(p)
  PROVE  /\ Step(p) \in p.asked /\ Step(p) \in StepNames(p.tool)
         /\ Step(p) \notin DOMAIN p.codes
<1>1. p.at \in Plan(p) /\ p.tool \in Tools
  BY DEF Stands, Typed
<1>2. p.at \in 1..7
  BY <1>1, StepsOnce DEF Plan
<1>3. ~(p.at < p.at)
  BY SMT, <1>2
<1> QED
  BY <1>1, <1>3 DEF Stands, Typed, Plan, Step

\* The benchmark under way is one of the step, and none that was judged.
LEMMA ModeAtTable ==
  ASSUME NEW p, Typed(p), Stands(p), ModesOf(Step(p), p.env) # <<>>
  PROVE  /\ ModeAt(p) \in BenchmarkModes
         /\ ModeAt(p) \in ModeSet(Step(p), p.env)
         /\ ModeAt(p) \notin DOMAIN p.suites
         /\ p.tool = "validation" => ModeSet(Step(p), p.env) = {ModeAt(p)}
         /\ p.tool = "gate" => /\ Step(p) = "benchmark_gate" /\ p.env.dsn # <<>>
                               /\ \/ DOMAIN p.suites \cup {ModeAt(p)} = BenchmarkModes
                                  \/ ModeAt(p) = "async" /\ DOMAIN p.suites = {}
<1>1. Step(p) \in StepNames(p.tool) /\ p.tool \in Tools
  BY StepAsked DEF Typed
<1>2. Benchmarks(Step(p))
  BY ModesTable
<1>3. Cardinality({}) = 0 /\ Cardinality({"async"}) = 1
  BY FS_EmptySet, FS_Singleton
<1>4. <<"async">>[0 + 1] = "async" /\ <<"streaming">>[0 + 1] = "streaming"
      /\ <<"async", "streaming">>[0 + 1] = "async" /\ <<"async", "streaming">>[1 + 1] = "streaming"
  BY SMT
<1>5. DOMAIN p.suites = {} \/ (DOMAIN p.suites = {"async"} /\ Step(p) = "benchmark_gate")
  BY DEF Stands
<1>6. CASE p.tool = "validation"
  <2>1. Step(p) \in {"Benchmark", "StreamingBenchmark"}
    BY <1>1, <1>2, <1>6, NamesOf DEF Benchmarks
  <2>2. DOMAIN p.suites = {}
    BY <1>5, <2>1
  <2>3. CASE Step(p) = "Benchmark"
    <3>1. ModeAt(p) = "async" /\ ModeSet(Step(p), p.env) = {"async"}
      BY <1>3, <1>4, <2>2, <2>3, ModesTable, ModeSetTable DEF ModeAt
    <3> QED
      BY <1>6, <2>2, <3>1 DEF BenchmarkModes
  <2>4. CASE Step(p) = "StreamingBenchmark"
    <3>1. ModeAt(p) = "streaming" /\ ModeSet(Step(p), p.env) = {"streaming"}
      BY <1>3, <1>4, <2>2, <2>4, ModesTable, ModeSetTable DEF ModeAt
    <3> QED
      BY <1>6, <2>2, <3>1 DEF BenchmarkModes
  <2> QED
    BY <2>1, <2>3, <2>4
<1>7. CASE p.tool = "gate"
  <2>1. Step(p) = "benchmark_gate"
    BY <1>1, <1>2, <1>7, NamesOf DEF Benchmarks
  <2>2. p.env.dsn # <<>>
    BY <2>1, ModesTable
  <2>3. ModesOf(Step(p), p.env) = <<"async", "streaming">>
        /\ ModeSet(Step(p), p.env) = {"async", "streaming"}
    BY <2>1, <2>2, ModesTable, ModeSetTable
  <2>4. CASE DOMAIN p.suites = {}
    <3>1. ModeAt(p) = "async"
      BY <1>3, <1>4, <2>3, <2>4 DEF ModeAt
    <3> QED
      BY <1>7, <2>1, <2>2, <2>3, <2>4, <3>1 DEF BenchmarkModes
  <2>5. CASE DOMAIN p.suites = {"async"}
    <3>1. ModeAt(p) = "streaming"
      BY <1>3, <1>4, <2>3, <2>5 DEF ModeAt
    <3>2. DOMAIN p.suites \cup {ModeAt(p)} = BenchmarkModes /\ ModeAt(p) \notin DOMAIN p.suites
      BY <2>5, <3>1 DEF BenchmarkModes
    <3>3. ModeAt(p) \in BenchmarkModes /\ ModeAt(p) \in ModeSet(Step(p), p.env)
      BY <2>3, <3>1 DEF BenchmarkModes
    <3>4. p.tool # "validation"
      BY <1>7
    <3> QED
      BY <2>1, <2>2, <3>2, <3>3, <3>4
  <2> QED
    BY <1>5, <2>4, <2>5
<1> QED
  BY <1>1, <1>6, <1>7 DEF Tools

-----------------------------------------------------------------------------
(* A verdict of 0 over a log is earned by reports of that log.             *)

\* The rows that are judged are those of a report of the log.
LEMMA FirstRowsReported ==
  ASSUME NEW R, NEW log \in Seq(R), NEW mode, FirstRows(log, mode) # <<>>
  PROVE  \E i \in 1..Len(log) : FirstRows(log, mode) = log[i].rows
<1> DEFINE found == {i \in 1..Len(log) : log[i].mode = mode}
<1>1. found # {} /\ FirstRows(log, mode) = log[CHOOSE i \in found : \A j \in found : i <= j].rows
  BY DEF FirstRows
<1>2. found \in SUBSET Nat
  BY SMT
<1>3. \E i \in found : \A j \in found : i <= j
  BY <1>1, <1>2, LeastNumber
<1>4. (CHOOSE i \in found : \A j \in found : i <= j) \in found
  BY <1>3
<1> QED
  BY <1>1, <1>4

\* The encoded scenario s is as much faster as env asks.
FastEnough(rows, env, s) ==
    /\ s \in {"workerCount=4 columnar", "workerCount=4 columnar compressed"}
    /\ s \in DOMAIN rows
    /\ 100 * rows["workerCount=4"].elapsed
          >= (IF env.columnar # <<>> THEN env.columnar[1] ELSE 130) * rows[s].elapsed

\* The asynchronous gate passes rows that reach the threshold in force,
LEMMA AsyncGatePassed ==
  ASSUME NEW rows, NEW env, rows # <<>>, enforce_async_benchmark_gates(rows, env) = 0
  PROVE  \/ env.columnar = <<>> /\ env.gates # <<"1">>
         \/ \E s : FastEnough(rows, env, s)
<1> DEFINE minimum == _read_positive_float_env(env.columnar, env, 130)
           encoded == {"workerCount=4 columnar", "workerCount=4 columnar compressed"} \cap DOMAIN rows
<1>1. MissingMeasurement(env) # 0 /\ Refused # 0
  BY SMT DEF MissingMeasurement, Refused
<1>2. \/ minimum = <<>>
      \/ \E s \in encoded : _columnar_speedup(rows["workerCount=4"].elapsed, rows[s].elapsed, minimum[1])
  <2> DEFINE maximum == IF env.fallbacks = <<>> THEN 0 ELSE env.fallbacks[1]
  <2>1. (IF TotalFallbacks(rows) > maximum THEN 3
         ELSE IF minimum = <<>> THEN 0
         ELSE IF minimum[1] = 0 THEN Refused
         ELSE IF "workerCount=4" \notin DOMAIN rows \/ encoded = {} THEN MissingMeasurement(env)
         ELSE IF \E s \in encoded : _columnar_speedup(rows["workerCount=4"].elapsed,
                                                      rows[s].elapsed, minimum[1])
              THEN 0 ELSE 3) = 0
    BY DEF enforce_async_benchmark_gates
  <2> HIDE DEF minimum, encoded, maximum
  <2> QED
    BY SMT, <1>1, <2>1
<1>3. CASE minimum = <<>>
  <2>1. env.columnar = <<>>
    BY <1>3 DEF _read_positive_float_env
  <2>2. <<130>> # <<>>
    OBVIOUS
  <2>3. env.gates # <<"1">>
    BY <1>3, <2>1, <2>2 DEF _read_positive_float_env, _benchmark_gates_enabled
  <2> QED
    BY <2>1, <2>3
<1>4. CASE minimum # <<>>
  <2>1. minimum[1] = IF env.columnar # <<>> THEN env.columnar[1] ELSE 130
    <3>1. <<130>>[1] = 130
      OBVIOUS
    <3> QED
      BY <1>4, <3>1 DEF _read_positive_float_env
  <2>2. PICK s \in encoded : _columnar_speedup(rows["workerCount=4"].elapsed, rows[s].elapsed, minimum[1])
    BY <1>2, <1>4
  <2>3. 100 * rows["workerCount=4"].elapsed >= minimum[1] * rows[s].elapsed
    BY <2>2 DEF _columnar_speedup
  <2>4. FastEnough(rows, env, s)
    BY <2>1, <2>2, <2>3 DEF FastEnough
  <2> QED
    BY <2>4
<1> QED
  BY <1>3, <1>4

\* and so does the streaming gate.
LEMMA StreamingGatePassed ==
  ASSUME NEW rows, NEW env, enforce_streaming_benchmark_gates(rows, env) = 0
  PROVE  \/ env.streaming = <<>> /\ env.gates # <<"1">>
         \/ /\ rows # <<>>
            /\ 100 * rows["streamQueryBatched"].rate
                  >= (IF env.streaming # <<>> THEN env.streaming[1] ELSE 200)
                        * rows["streamQueryBuffer"].rate
<1> DEFINE minimum == _read_positive_float_env(env.streaming, env, 200)
<1>1. MissingMeasurement(env) # 0 /\ Refused # 0
  BY SMT DEF MissingMeasurement, Refused
<1>2. \/ minimum = <<>>
      \/ /\ StreamingScenarios \subseteq DOMAIN rows
         /\ 100 * rows["streamQueryBatched"].rate >= minimum[1] * rows["streamQueryBuffer"].rate
  <2>1. (IF minimum = <<>> THEN 0
         ELSE IF minimum[1] = 0 THEN Refused
         ELSE IF ~(StreamingScenarios \subseteq DOMAIN rows) THEN MissingMeasurement(env)
         ELSE IF rows["streamQueryBuffer"].rate = 0 THEN 3
         ELSE IF 100 * rows["streamQueryBatched"].rate >= minimum[1] * rows["streamQueryBuffer"].rate
              THEN 0 ELSE 3) = 0
    BY DEF enforce_streaming_benchmark_gates
  <2> HIDE DEF minimum
  <2> QED
    BY SMT, <1>1, <2>1
<1>3. CASE minimum = <<>>
  <2>1. env.streaming = <<>>
    BY <1>3 DEF _read_positive_float_env
  <2>2. <<200>> # <<>>
    OBVIOUS
  <2>3. env.gates # <<"1">>
    BY <1>3, <2>1, <2>2 DEF _read_positive_float_env, _benchmark_gates_enabled
  <2> QED
    BY <2>1, <2>3
<1>4. CASE minimum # <<>>
  <2>1. minimum[1] = IF env.streaming # <<>> THEN env.streaming[1] ELSE 200
    <3>1. <<200>>[1] = 200
      OBVIOUS
    <3> QED
      BY <1>4, <3>1 DEF _read_positive_float_env
  <2>2. rows # <<>>
    <3>1. StreamingScenarios \subseteq DOMAIN rows
      BY <1>2, <1>4
    <3>2. DOMAIN <<>> = {} /\ StreamingScenarios # {}
      BY SMT DEF StreamingScenarios
    <3> QED
      BY <3>1, <3>2
  <2> HIDE DEF minimum
  <2> QED
    BY <1>2, <1>4, <2>1, <2>2
<1> QED
  BY <1>3, <1>4

\* A full log ends with a complete report.
LEMMA LastIsComplete ==
  ASSUME NEW R, NEW log \in Seq(R), NEW mode, FullReport(log, mode)
  PROVE  Len(log) \in 1..Len(log) /\ Complete(log[Len(log)], mode)
<1>1. log # <<>>
  BY DEF FullReport, valid_native_benchmark_report
<1>2. Len(log) \in 1..Len(log)
  BY SMT, <1>1
<1> DEFINE q == log[Len(log)]
<1>3. extract_json_object_from_output(<<q>>) = q /\ <<q>> # <<>>
  BY DEF extract_json_object_from_output
<1>4. extract_json_object_from_output(log) = q
  BY DEF extract_json_object_from_output
<1> HIDE DEF q
<1>5. Complete(q, mode)
  BY <1>3, <1>4 DEF Complete, FullReport, valid_native_benchmark_report
<1> QED
  BY <1>2, <1>5 DEF q

\* The runner's 0 is earned.
LEMMA VerdictEarned ==
  ASSUME NEW R, NEW log \in Seq(R), NEW mode \in BenchmarkModes, NEW env, NEW exitCode,
         RunnerExit(log, mode, env, exitCode) = 0,
         NEW W, \A i \in 1..Len(log) : log[i] \in W
  PROVE  /\ \E q \in W : Complete(q, mode)
         /\ \E q \in W : ReachesThreshold(q, mode, env)
<1>1. CASE mode = "async"
  <2> DEFINE rows == parse_async_benchmark_scenarios(log)
             gate == enforce_async_benchmark_gates(rows, env)
  <2>1. FullReport(log, "async") /\ gate = 0 /\ AsyncScenarios \subseteq DOMAIN rows
    <3>1. (IF exitCode # 0 THEN exitCode
           ELSE IF ~FullReport(log, "async") THEN 2
           ELSE IF gate # 0 THEN gate
           ELSE IF ~(AsyncScenarios \subseteq DOMAIN rows) THEN 2
           ELSE 0) = 0
      BY <1>1 DEF RunnerExit, run_odbc_async_benchmark
    <3> HIDE DEF rows, gate
    <3> QED
      BY SMT, <3>1
  <2>2. rows # <<>>
    <3>1. DOMAIN <<>> = {} /\ AsyncScenarios # {}
      BY SMT DEF AsyncScenarios
    <3> QED
      BY <2>1, <3>1
  <2>3. rows = FirstRows(log, "async")
    BY DEF parse_async_benchmark_scenarios
  <2>4. PICK i \in 1..Len(log) : rows = log[i].rows
    BY <2>2, <2>3, FirstRowsReported
  <2>5. ReachesThreshold(log[i], "async", env)
    <3>1. (env.columnar = <<>> /\ env.gates # <<"1">>) \/ \E s : FastEnough(rows, env, s)
      BY <2>1, <2>2, AsyncGatePassed
    <3> HIDE DEF rows
    <3>2. log[i].rows = rows
      BY <2>4
    <3>3. CASE env.columnar = <<>> /\ env.gates # <<"1">>
      BY <3>3 DEF ReachesThreshold
    <3>4. CASE \E s : FastEnough(rows, env, s)
      <4>1. PICK s : FastEnough(rows, env, s)
        BY <3>4
      <4> QED
        BY <3>2, <4>1 DEF ReachesThreshold, FastEnough
    <3> QED
      BY <3>1, <3>3, <3>4
  <2> QED
    BY <1>1, <2>1, <2>4, <2>5, LastIsComplete
<1>2. CASE mode = "streaming"
  <2> DEFINE rows == parse_streaming_benchmark_scenarios(log)
  <2>1. FullReport(log, "streaming") /\ enforce_streaming_benchmark_gates(rows, env) = 0
    <3>1. (IF exitCode # 0 THEN exitCode
           ELSE IF ~FullReport(log, "streaming") THEN 2
           ELSE enforce_streaming_benchmark_gates(rows, env)) = 0
      BY <1>2 DEF RunnerExit, run_odbc_streaming_benchmark
    <3> HIDE DEF rows
    <3> QED
      BY SMT, <3>1
  <2>2. Len(log) \in 1..Len(log) /\ Complete(log[Len(log)], "streaming")
    BY <2>1, LastIsComplete
  <2>3. rows = FirstRows(log, "streaming")
    BY DEF parse_streaming_benchmark_scenarios
  <2> HIDE DEF rows
  <2>4. CASE env.streaming = <<>> /\ env.gates # <<"1">>
    <3>1. ReachesThreshold(log[Len(log)], "streaming", env)
      BY <2>4 DEF ReachesThreshold
    <3> QED
      BY <1>2, <2>2, <3>1
  <2>5. CASE /\ rows # <<>>
             /\ 100 * rows["streamQueryBatched"].rate
                  >= (IF env.streaming # <<>> THEN env.streaming[1] ELSE 200)
                        * rows["streamQueryBuffer"].rate
    <3>1. PICK i \in 1..Len(log) : rows = log[i].rows
      BY <2>3, <2>5, FirstRowsReported
    <3>2. ReachesThreshold(log[i], "streaming", env)
      BY <2>5, <3>1 DEF ReachesThreshold
    <3> QED
      BY <1>2, <2>2, <3>1, <3>2
  <2> QED
    BY SMT, <2>1, <2>4, <2>5, StreamingGatePassed
<1> QED
  BY <1>1, <1>2 DEF BenchmarkModes

\* The suite's 0 means that every benchmark of it was accepted.
LEMMA SuitePassed ==
  ASSUME NEW suites, NEW env, SuiteExit(suites, env) = 0
  PROVE  DOMAIN suites # {} /\ \A m \in DOMAIN suites : suites[m].code = 0
<1> DEFINE Some(status) == \E m \in DOMAIN suites : SuiteStatus(suites[m]) = status
           asyncPassed == "async" \in DOMAIN suites /\ SuiteStatus(suites["async"]) = "pass"
<1>1. Some("pass") /\ ~Some("fail") /\ ~Some("inconclusive")
  <2>1. (CASE \E m \in DOMAIN suites : suites[m].code = 3 -> 3
           [] OTHER ->
                IF env.columnar # <<>> /\ ~asyncPassed THEN 2
                ELSE IF Some("fail") THEN 1
                ELSE IF ~Some("pass") \/ Some("inconclusive") THEN 2
                ELSE 0) = 0
    BY DEF SuiteExit
  <2> HIDE DEF Some, asyncPassed
  <2> QED
    BY SMT, <2>1
<1>2. \A m \in DOMAIN suites : SuiteStatus(suites[m]) \in {"pass", "fail", "inconclusive"}
  BY DEF SuiteStatus
<1>3. \A m \in DOMAIN suites : SuiteStatus(suites[m]) = "pass"
  BY <1>1, <1>2
<1>4. ASSUME NEW m \in DOMAIN suites PROVE suites[m].code = 0
  BY <1>3 DEF SuiteStatus
<1> QED
  BY <1>1, <1>4

\* A benchmark suite without suites does not pass.
LEMMA NoSuitePasses == ASSUME NEW env PROVE SuiteExit(<<>>, env) # 0
<1>1. DOMAIN <<>> = {}
  BY SMT
<1> QED
  BY <1>1, SuitePassed

-----------------------------------------------------------------------------
(* What an operation does to its own run.                                  *)

\* The least element of a set of numbers.
LEMMA MinOf ==
  ASSUME NEW S \in SUBSET Nat, S # {}
  PROVE  Min(S) \in S /\ \A j \in S : Min(S) <= j
  BY LeastNumber DEF Min

\* Places in a script are numbers.
LEMMA PlanNumbers ==
  ASSUME NEW p, p.tool \in Tools
  PROVE  Plan(p) \in SUBSET Nat /\ Later(p) \in SUBSET Nat
  BY SMT, StepsOnce DEF Plan, Later

\* A run that starts stands at its first step.
LEMMA RunStarts ==
  ASSUME NEW o \in Options, NEW w, DOMAIN w = BenchmarkModes, NEW p,
         p = [NotStarted EXCEPT
                !.tool = o.tool, !.asked = o.asked, !.at = Min(Plan(o)), !.exit = "running",
                !.env = import_dotenv_if_present(o.environ, o.dotenv)]
  PROVE  RunOK(p, w) /\ p.phase = "step" /\ p.exit = "running"
<1>1. /\ p.tool = o.tool /\ p.asked = o.asked /\ p.at = Min(Plan(o)) /\ p.exit = "running"
      /\ p.phase = "step" /\ p.codes = <<>> /\ p.suites = <<>> /\ IsRun(p)
  BY DEF NotStarted, IsRun
<1>2. DOMAIN <<>> = {}
  BY SMT
<1>3. o.tool \in Tools /\ o.asked # {} /\ o.asked \subseteq StepNames(o.tool)
  BY OptionsAssumption
<1>4. Plan(p) = Plan(o)
  BY <1>1 DEF Plan
<1>5. Plan(o) # {} /\ Plan(o) \in SUBSET Nat
  <2>1. PICK s \in o.asked : s \in StepNames(o.tool)
    BY <1>3
  <2>2. PICK i \in DOMAIN AllSteps(o.tool) : AllSteps(o.tool)[i] = s
    BY <2>1 DEF StepNames
  <2>3. i \in Plan(o)
    BY <2>1, <2>2 DEF Plan
  <2> QED
    BY <1>3, <2>3, PlanNumbers
<1>6. p.at \in Plan(p) /\ \A i \in Plan(p) : ~(i < p.at)
  <2>1. Min(Plan(o)) \in Plan(o) /\ \A j \in Plan(o) : Min(Plan(o)) <= j
    BY <1>5, MinOf
  <2> QED
    BY SMTT(20), <1>1, <1>4, <1>5, <2>1
<1>7. Typed(p)
  BY <1>1, <1>2, <1>3 DEF Typed
<1>8. Stands(p)
  BY <1>1, <1>2, <1>6 DEF Stands
<1> QED
  BY <1>1, <1>2, <1>7, <1>8 DEF RunOK

\* A run that failed or was killed leaves nothing but its exit.
LEMMA RunIsGone ==
  ASSUME NEW p, p.tool \in Tools, NEW exit \in {"1", "killed"}
  PROVE  RunOK(Gone(p, exit), NothingWritten) /\ Gone(p, exit).exit = exit
         /\ Gone(p, exit).tool = p.tool
<1> DEFINE g == Gone(p, exit)
<1>1. /\ g.tool = p.tool /\ g.exit = exit /\ g.asked = {} /\ g.phase = "step"
      /\ g.codes = <<>> /\ g.suites = <<>> /\ IsRun(g)
  BY DEF Gone, NotStarted, IsRun
<1>2. DOMAIN <<>> = {}
  BY SMT
<1>3. DOMAIN NothingWritten = BenchmarkModes
  BY DEF NothingWritten
<1> HIDE DEF g
<1>4. Typed(g)
  BY <1>1, <1>2 DEF Typed
<1>5. RunOK(g, NothingWritten)
  BY <1>1, <1>3, <1>4 DEF RunOK
<1> QED
  BY <1>1, <1>5 DEF g

\* The run after its step ended with a code.
Finished(p, code) ==
    [p EXCEPT !.codes = [t \in DOMAIN @ \cup {Step(p)} |-> IF t = Step(p) THEN code ELSE @[t]],
              !.suites = <<>>, !.phase = "step", !.child = 0]

\* f is the run p once its step has ended with code.
StepEnded(p, code, f) ==
    /\ IsRun(f)
    /\ f.tool = p.tool /\ f.asked = p.asked /\ f.env = p.env /\ f.at = p.at
    /\ f.phase = "step" /\ f.suites = <<>> /\ f.exit = p.exit
    /\ f.codes = [t \in DOMAIN p.codes \cup {Step(p)} |-> IF t = Step(p) THEN code ELSE p.codes[t]]

\* What a run is when its step has ended,
LEMMA FinishedFields ==
  ASSUME NEW p, IsRun(p), NEW code
  PROVE  StepEnded(p, code, Finished(p, code))
<1> DEFINE c == [t \in DOMAIN p.codes \cup {Step(p)} |-> IF t = Step(p) THEN code ELSE p.codes[t]]
<1>1. Finished(p, code) = [p EXCEPT !.codes = c, !.suites = <<>>, !.phase = "step", !.child = 0]
  BY DEF Finished
<1> HIDE DEF c
<1>2. Finished(p, code) = [tool |-> p.tool, asked |-> p.asked, env |-> p.env, at |-> p.at,
         phase |-> "step", child |-> 0, codes |-> c, suites |-> <<>>, exit |-> p.exit]
  BY <1>1 DEF IsRun
<1> QED
  BY SMT, <1>2 DEF StepEnded, IsRun, c

\* A finished step has its code, the others keep theirs.
LEMMA FinishedCodes ==
  ASSUME NEW p, Typed(p), Stands(p), NEW code, NEW f, f = Finished(p, code)
  PROVE  /\ Plan(f) = Plan(p) /\ Later(f) = Later(p) /\ StepEnvironment(f) = StepEnvironment(p)
         /\ Typed(f) /\ DOMAIN f.suites = {}
         /\ DOMAIN f.codes = DOMAIN p.codes \cup {Step(p)}
         /\ f.codes[Step(p)] = code
         /\ \A s \in DOMAIN p.codes : s # Step(p) /\ f.codes[s] = p.codes[s]
         /\ \A i \in Plan(p) : i < p.at \/ i = p.at <=> AllSteps(p.tool)[i] \in DOMAIN f.codes
<1>1. /\ IsRun(f)
      /\ f.tool = p.tool /\ f.asked = p.asked /\ f.env = p.env /\ f.at = p.at
      /\ f.phase = "step" /\ f.suites = <<>> /\ f.exit = p.exit
      /\ f.codes = [t \in DOMAIN p.codes \cup {Step(p)} |-> IF t = Step(p) THEN code ELSE p.codes[t]]
  <2>1. StepEnded(p, code, f)
    BY FinishedFields DEF Typed
  <2> QED
    BY <2>1 DEF StepEnded
<1>2. Step(p) \in p.asked /\ Step(p) \notin DOMAIN p.codes
  BY StepAsked
<1>3. Plan(f) = Plan(p) /\ Later(f) = Later(p) /\ StepEnvironment(f) = StepEnvironment(p)
  BY <1>1 DEF Plan, Later, StepEnvironment
<1>4. /\ DOMAIN f.codes = DOMAIN p.codes \cup {Step(p)} /\ f.codes[Step(p)] = code
      /\ \A s \in DOMAIN p.codes : s # Step(p) /\ f.codes[s] = p.codes[s]
  BY <1>1, <1>2
<1>5. DOMAIN f.suites = {}
  BY SMT, <1>1
<1>6. Typed(f)
  BY <1>1, <1>2, <1>4, <1>5 DEF Typed
<1>7. \A i \in Plan(p) : i < p.at \/ i = p.at <=> AllSteps(p.tool)[i] \in DOMAIN f.codes
  <2>1. \A i, j \in Plan(p) : AllSteps(p.tool)[i] = AllSteps(p.tool)[j] => i = j
    BY StepsOnce DEF Typed, Plan
  <2>2. p.at \in Plan(p) /\ \A i \in Plan(p) : i < p.at <=> AllSteps(p.tool)[i] \in DOMAIN p.codes
    BY DEF Stands
  <2> QED
    BY <1>4, <2>1, <2>2 DEF Step
<1> QED
  BY <1>3, <1>4, <1>5, <1>6, <1>7

\* and that the codes of its steps are earned.
LEMMA FinishedEarned ==
  ASSUME NEW p, NEW w, RunOK(p, w), p.exit = "running", NEW code,
         code = 0 => StepEarned(p, w, Step(p)), NEW f, f = Finished(p, code)
  PROVE  \A s \in DOMAIN f.codes : f.codes[s] = 0 => StepEarned(f, w, s)
<1>1. Typed(p) /\ Stands(p)
  BY DEF RunOK
<1>2. /\ StepEnvironment(f) = StepEnvironment(p)
      /\ DOMAIN f.codes = DOMAIN p.codes \cup {Step(p)}
      /\ f.codes[Step(p)] = code
      /\ \A s \in DOMAIN p.codes : s # Step(p) /\ f.codes[s] = p.codes[s]
  BY SMT, <1>1, FinishedCodes
<1>3. f.env = p.env
  <2>1. StepEnded(p, code, f)
    BY <1>1, FinishedFields DEF Typed
  <2> QED
    BY <2>1 DEF StepEnded
<1>4. \A s : StepEarned(p, w, s) => StepEarned(f, w, s)
  BY <1>2, <1>3 DEF StepEarned, Earned
<1>5. \A s \in DOMAIN p.codes : p.codes[s] = 0 => StepEarned(p, w, s)
  BY DEF RunOK
<1> QED
  BY <1>2, <1>4, <1>5

\* It may go on with its next step,
LEMMA RunGoesOn ==
  ASSUME NEW p, NEW w, RunOK(p, w), p.exit = "running", NEW code,
         code = 0 => StepEarned(p, w, Step(p)),
         p.tool = "validation" => code = 0,
         NEW f, f = Finished(p, code), Later(f) # {}
  PROVE  LET g == [f EXCEPT !.at = Min(Later(f))]
         IN  RunOK(g, w) /\ g.exit = "running" /\ g.phase = "step" /\ g.tool = p.tool
<1> DEFINE at == Min(Later(f))
           g == [f EXCEPT !.at = at]
<1>1. Typed(p) /\ Stands(p) /\ DOMAIN w = BenchmarkModes
  BY DEF RunOK
<1>2. /\ Plan(f) = Plan(p) /\ Later(f) = Later(p) /\ StepEnvironment(f) = StepEnvironment(p)
      /\ Typed(f) /\ DOMAIN f.suites = {}
      /\ DOMAIN f.codes = DOMAIN p.codes \cup {Step(p)}
      /\ f.codes[Step(p)] = code
      /\ \A s \in DOMAIN p.codes : s # Step(p) /\ f.codes[s] = p.codes[s]
      /\ \A i \in Plan(p) : i < p.at \/ i = p.at <=> AllSteps(p.tool)[i] \in DOMAIN f.codes
  BY SMTT(20), <1>1, FinishedCodes
<1>3. f.tool = p.tool /\ f.exit = "running" /\ f.phase = "step" /\ f.at = p.at /\ IsRun(f)
  <2>1. StepEnded(p, code, f)
    BY <1>1, FinishedFields DEF Typed
  <2> QED
    BY <2>1 DEF StepEnded
<1>4. /\ at \in Plan(p) /\ at > p.at /\ \A j \in Plan(p) : j > p.at => at <= j
      /\ Plan(p) \in SUBSET Nat
  <2>1. f.tool \in Tools
    BY <1>2 DEF Typed
  <2>2. Later(f) \in SUBSET Nat /\ Plan(f) \in SUBSET Nat
    BY <2>1, PlanNumbers
  <2>3. at \in Later(f) /\ \A j \in Later(f) : at <= j
    BY <2>2, MinOf
  <2> QED
    BY <1>2, <1>3, <2>2, <2>3 DEF Later
<1> HIDE DEF at
<1>5. /\ g.tool = f.tool /\ g.asked = f.asked /\ g.env = f.env /\ g.at = at /\ g.phase = f.phase
      /\ g.codes = f.codes /\ g.suites = f.suites /\ g.exit = f.exit /\ IsRun(g)
  BY SMT, <1>3 DEF IsRun
<1> HIDE DEF g
<1>6. Typed(g)
  BY <1>2, <1>5 DEF Typed
<1>7. Plan(g) = Plan(p) /\ AllSteps(g.tool) = AllSteps(p.tool)
  BY <1>2, <1>3, <1>5 DEF Plan
<1>8. \A i \in Plan(p) : i < at <=> AllSteps(p.tool)[i] \in DOMAIN g.codes
  <2>1. \A i \in Plan(p) : i < at <=> i < p.at \/ i = p.at
    BY SMTT(20), <1>1, <1>4 DEF Stands
  <2> QED
    BY <1>2, <1>5, <2>1
<1>9. p.tool = "validation" => \A s \in DOMAIN g.codes : g.codes[s] = 0
  BY SMTT(20), <1>1, <1>2, <1>5 DEF Stands
<1>10. Stands(g)
  BY <1>2, <1>3, <1>4, <1>5, <1>7, <1>8, <1>9 DEF Stands
<1>11. \A s \in DOMAIN g.codes : g.codes[s] = 0 => StepEarned(g, w, s)
  <2>1. \A s \in DOMAIN f.codes : f.codes[s] = 0 => StepEarned(f, w, s)
    BY FinishedEarned
  <2>2. \A s : StepEarned(f, w, s) => StepEarned(g, w, s)
    BY <1>5 DEF StepEarned, Earned, StepEnvironment
  <2> QED
    BY <1>5, <2>1, <2>2
<1>12. RunOK(g, w)
  BY <1>1, <1>2, <1>3, <1>5, <1>6, <1>10, <1>11 DEF RunOK
<1> QED
  BY <1>3, <1>5, <1>12 DEF g, at

\* A run whose last step ended without a failure has done all it was asked.
LEMMA AllDone ==
  ASSUME NEW p, Typed(p), Stands(p), NEW code, NEW f, f = Finished(p, code), Later(f) = {}
  PROVE  \A s \in p.asked : s \in DOMAIN f.codes
<1> SUFFICES ASSUME NEW s \in p.asked PROVE s \in DOMAIN f.codes
  OBVIOUS
<1>1. /\ Plan(f) = Plan(p) /\ Later(f) = Later(p)
      /\ \A i \in Plan(p) : i < p.at \/ i = p.at <=> AllSteps(p.tool)[i] \in DOMAIN f.codes
  BY SMTT(20), FinishedCodes
<1>2. PICK i \in Plan(p) : AllSteps(p.tool)[i] = s
  BY DEF Typed, StepNames, Plan
<1>3. Plan(p) \in SUBSET Nat /\ p.at \in Plan(p)
  BY PlanNumbers DEF Typed, Stands
<1>4. ~(i > p.at)
  BY <1>1, <1>2 DEF Later
<1>5. i < p.at \/ i = p.at
  BY SMTT(20), <1>2, <1>3, <1>4
<1> QED
  BY <1>1, <1>2, <1>5

\* or pass when there is none.
LEMMA RunPasses ==
  ASSUME NEW p, NEW w, RunOK(p, w), p.exit = "running", NEW code,
         code = 0 => StepEarned(p, w, Step(p)),
         NEW f, f = Finished(p, code), Later(f) = {}, ~Failed(f)
  PROVE  LET g == Gone(f, "0")
         IN  RunOK(g, w) /\ g.exit = "0" /\ g.tool = p.tool
<1> DEFINE g == Gone(f, "0")
<1>1. Typed(p) /\ Stands(p) /\ DOMAIN w = BenchmarkModes
  BY DEF RunOK
<1>2. Typed(f) /\ IsRun(f) /\ f.tool = p.tool /\ f.asked = p.asked
  <2>1. Typed(f)
    BY <1>1, FinishedCodes
  <2>2. IsRun(f) /\ f.tool = p.tool /\ f.asked = p.asked
    <3>1. StepEnded(p, code, f)
      BY <1>1, FinishedFields DEF Typed
    <3> QED
      BY <3>1 DEF StepEnded
  <2> QED
    BY <2>1, <2>2
<1>3. \A s \in f.asked : s \in DOMAIN f.codes /\ f.codes[s] = 0
  BY <1>1, <1>2, AllDone DEF Failed
<1>4. /\ g.tool = f.tool /\ g.asked = f.asked /\ g.env = f.env /\ g.at = f.at /\ g.phase = f.phase
      /\ g.codes = f.codes /\ g.suites = f.suites /\ g.exit = "0" /\ IsRun(g)
  BY <1>2 DEF IsRun, Gone
<1> HIDE DEF g
<1>5. Typed(g)
  BY <1>2, <1>4 DEF Typed
<1>6. \A s \in DOMAIN g.codes : g.codes[s] = 0 => StepEarned(g, w, s)
  <2>1. \A s \in DOMAIN f.codes : f.codes[s] = 0 => StepEarned(f, w, s)
    BY FinishedEarned
  <2>2. \A s : StepEarned(f, w, s) => StepEarned(g, w, s)
    BY <1>4 DEF StepEarned, Earned, StepEnvironment
  <2> QED
    BY <1>4, <2>1, <2>2
<1>7. RunOK(g, w)
  BY <1>1, <1>3, <1>4, <1>5, <1>6 DEF RunOK
<1> QED
  BY <1>2, <1>4, <1>7 DEF g

\* More reports take nothing away from what was earned.
LEMMA EarnedGrows ==
  ASSUME NEW p, NEW w, NEW v, NEW m, w[m] \subseteq v[m], Earned(p, w, m)
  PROVE  Earned(p, v, m)
  BY DEF Earned

\* A run in another phase of its benchmark.
Phased(p, suites, phase, child) ==
    [p EXCEPT !.suites = suites, !.phase = phase, !.child = child]

\* The run goes to the next phase of its benchmark.
LEMMA PhaseFields ==
  ASSUME NEW p, Typed(p), NEW phase \in {"step", "measure", "judge"}, NEW child, NEW suites, NEW g,
         g = Phased(p, suites, phase, child)
  PROVE  /\ IsRun(g) /\ g.tool = p.tool /\ g.asked = p.asked /\ g.env = p.env /\ g.at = p.at
         /\ g.codes = p.codes /\ g.exit = p.exit /\ g.phase = phase /\ g.suites = suites
         /\ Plan(g) = Plan(p) /\ Step(g) = Step(p) /\ StepEnvironment(g) = StepEnvironment(p)
<1>1. g = [tool |-> p.tool, asked |-> p.asked, env |-> p.env, at |-> p.at, phase |-> phase,
           child |-> child, codes |-> p.codes, suites |-> suites, exit |-> p.exit]
  BY DEF Typed, IsRun, Phased
<1>2. /\ IsRun(g) /\ g.tool = p.tool /\ g.asked = p.asked /\ g.env = p.env /\ g.at = p.at
      /\ g.codes = p.codes /\ g.exit = p.exit /\ g.phase = phase /\ g.suites = suites
  BY SMTT(20), <1>1 DEF IsRun
<1> QED
  BY <1>2 DEF Plan, Step, StepEnvironment

\* A run that changes its phase, or what it has written, keeps what it earned
\* as long as the benchmarks it has judged keep their reports.
LEMMA RunContinues ==
  ASSUME NEW p, NEW w, RunOK(p, w), p.exit = "running", NEW v, DOMAIN v = BenchmarkModes,
         \A s \in DOMAIN p.codes : \A m \in ModeSet(s, p.env) : w[m] \subseteq v[m],
         NEW g, IsRun(g), g.tool = p.tool, g.asked = p.asked, g.env = p.env, g.at = p.at,
         g.codes = p.codes, g.exit = p.exit, g.phase \in {"step", "measure", "judge"},
         Plan(g) = Plan(p), Step(g) = Step(p), StepEnvironment(g) = StepEnvironment(p),
         \/ DOMAIN g.suites = {}
         \/ DOMAIN g.suites = {"async"} /\ Step(g) = "benchmark_gate" /\ g.env.dsn # <<>>,
         \A m \in DOMAIN g.suites : g.suites[m].code = 0 => Earned(p, v, m)
  PROVE  RunOK(g, v)
<1>1. Typed(p) /\ Stands(p)
  BY DEF RunOK
<1>2. DOMAIN g.suites \subseteq BenchmarkModes
  BY DEF BenchmarkModes
<1>3. Typed(g)
  BY <1>1, <1>2 DEF Typed
<1>4. Stands(g)
  BY <1>1 DEF Stands
<1>5. \A m : Earned(p, v, m) => Earned(g, v, m)
  BY DEF Earned
<1>6. ASSUME NEW s \in DOMAIN g.codes, g.codes[s] = 0 PROVE StepEarned(g, v, s)
  <2>1. StepEarned(p, w, s)
    BY <1>6 DEF RunOK
  <2>2. \A m \in ModeSet(s, p.env) : Earned(p, v, m)
    BY <1>6, <2>1, EarnedGrows DEF StepEarned
  <2> QED
    BY <1>5, <2>1, <2>2 DEF StepEarned
<1> QED
  BY <1>3, <1>4, <1>5, <1>6 DEF RunOK

\* The benchmark under way is none that a finished step needs.
LEMMA OtherSteps ==
  ASSUME NEW p, Typed(p), Stands(p), ModesOf(Step(p), p.env) # <<>>,
         NEW s \in DOMAIN p.codes
  PROVE  ModeAt(p) \notin ModeSet(s, p.env)
<1>1. s \in StepNames(p.tool) /\ Step(p) \in StepNames(p.tool) /\ s # Step(p) /\ p.tool \in Tools
  BY StepAsked DEF Typed
<1>2. ModeAt(p) \in ModeSet(Step(p), p.env)
  BY ModeAtTable
<1> QED
  BY <1>1, <1>2, ModesApart

-----------------------------------------------------------------------------
(* The worksheet.                                                          *)

\* The worksheet of a validation that is over shows whether it failed;
LEMMA SheetOfFinished ==
  ASSUME NEW p, Typed(p), Stands(p), p.tool = "validation", NEW code, NEW f, f = Finished(p, code),
         Later(f) = {} \/ code # 0
  PROVE  AllPassed(build_validation_report(f)) <=> ~Failed(f)
<1>1. DOMAIN f.codes = DOMAIN p.codes \cup {Step(p)} /\ f.codes[Step(p)] = code /\ Typed(f)
  BY SMT, FinishedCodes
<1>2. f.asked = p.asked /\ f.tool = p.tool
  <2>1. StepEnded(p, code, f)
    BY FinishedFields DEF Typed
  <2> QED
    BY <2>1 DEF StepEnded
<1>3. f.asked \subseteq StepNames("validation") /\ DOMAIN f.codes \subseteq f.asked
  BY <1>1, <1>2 DEF Typed
<1> DEFINE sheet == build_validation_report(f)
<1>4. DOMAIN sheet = StepNames("validation")
  BY DEF build_validation_report
<1>5. ASSUME Failed(f) PROVE ~AllPassed(sheet)
  <2>1. PICK s \in DOMAIN f.codes : f.codes[s] # 0
    BY <1>5 DEF Failed
  <2>2. s \in DOMAIN sheet /\ sheet[s] = "failed"
    BY <1>3, <2>1 DEF build_validation_report, invoke_step
  <2> QED
    BY <2>2 DEF AllPassed
<1>6. ASSUME ~Failed(f) PROVE AllPassed(sheet)
  <2>1. Later(f) = {}
    BY <1>1, <1>6 DEF Failed
  <2>2. \A s \in f.asked : s \in DOMAIN f.codes /\ f.codes[s] = 0
    BY <1>2, <1>6, <2>1, AllDone DEF Failed
  <2>3. ASSUME NEW s \in StepNames("validation")
        PROVE  sheet[s] \in {"passed", "skipped", "not requested"}
    BY <1>3, <2>2 DEF build_validation_report, invoke_step
  <2> QED
    BY <1>4, <2>3 DEF AllPassed
<1> QED
  BY <1>5, <1>6

\* one whose child could not be started shows a pending step;
LEMMA SheetOfRaised ==
  ASSUME NEW p, Typed(p), Stands(p), p.tool = "validation"
  PROVE  ~AllPassed(build_validation_report(p))
<1>1. Step(p) \in p.asked /\ Step(p) \in StepNames("validation") /\ Step(p) \notin DOMAIN p.codes
  BY StepAsked
<1>2. Step(p) \in DOMAIN build_validation_report(p)
      /\ build_validation_report(p)[Step(p)] = "pending"
  BY <1>1 DEF build_validation_report
<1> QED
  BY <1>2 DEF AllPassed

\* and either is a worksheet.
LEMMA SheetIsWritten ==
  ASSUME NEW p, NEW r
  PROVE  [run |-> r, status |-> build_validation_report(p)] # NoWorksheet
<1>1. "Smoke" \in DOMAIN build_validation_report(p)
  BY NamesOf DEF build_validation_report
<1>2. DOMAIN <<>> = {}
  BY SMT
<1>3. build_validation_report(p) # <<>>
  BY <1>1, <1>2
<1> QED
  BY <1>3 DEF NoWorksheet

-----------------------------------------------------------------------------
(* What an operation does to the others.                                   *)

Awaits(p, path) ==
    /\ p.exit = "running" /\ p.phase \in {"measure", "judge"}
    /\ ModesOf(Step(p), p.env) # <<>> /\ <<p.tool, ModeAt(p)>> = path

\* Whether a run waits for a report depends on the run alone.
LEMMA AwaitsIt ==
  \A r, path : /\ AwaitsReport(r, path) <=> Awaits(run[r], path)
               /\ AwaitsReport(r, path)' <=> Awaits(run'[r], path')
  BY SMT DEF AwaitsReport, Benchmarking, LogOf, Running, Awaits, Step, ModeAt

\* Run r becomes p with w written, and nothing else changes.
Becomes(r, p, w) ==
    /\ DOMAIN run' = Runs /\ DOMAIN written' = Runs
    /\ run'[r] = p /\ written'[r] = w
    /\ \A q \in Runs \ {r} : run'[q] = run[q] /\ written'[q] = written[q]

\* The other runs are as they were,
LEMMA OtherRunsKept ==
  ASSUME OdbcInv, NEW r \in Runs, NEW p, NEW w, Becomes(r, p, w), RunOK(p, w)
  PROVE  \A q \in Runs : RunOK(run'[q], written'[q])
  BY DEF OdbcInv, Becomes

\* and they know what their logs hold.
LEMMA KnownKept ==
  ASSUME OdbcInv, NEW r \in Runs, NEW p, NEW w, Becomes(r, p, w), UNCHANGED logs,
         \A t \in Tools, m \in BenchmarkModes : Awaits(p, <<t, m>>) =>
             \A i \in 1..Len(logs[<<t, m>>]) : logs[<<t, m>>][i] \in w[m]
  PROVE  LogsOK' /\ Known'
<1>1. LogsOK'
  BY DEF OdbcInv, LogsOK
<1>2. Known'
  <2> SUFFICES ASSUME NEW q \in Runs, NEW t \in Tools, NEW m \in BenchmarkModes,
                      Awaits(run'[q], <<t, m>>), NEW i \in 1..Len(logs[<<t, m>>])
               PROVE  logs[<<t, m>>][i] \in written'[q][m]
    BY AwaitsIt DEF Known
  <2>1. CASE q = r
    BY <2>1 DEF Becomes
  <2>2. CASE q # r
    <3>1. run'[q] = run[q] /\ written'[q] = written[q]
      BY <2>2 DEF Becomes
    <3> QED
      BY <3>1, AwaitsIt DEF OdbcInv, Known
  <2> QED
    BY <2>1, <2>2
<1> QED
  BY <1>1, <1>2

\* A run that is under way, or is not, and does not end with a code.
LEMMA Proceeds ==
  ASSUME OdbcInv, NEW r \in Runs, NEW p, NEW w, Becomes(r, p, w), RunOK(p, w),
         UNCHANGED <<logs, worksheet>>, run[r].exit \in {"idle", "running"},
         p.exit \in {"running", "killed"},
         \A t \in Tools, m \in BenchmarkModes : Awaits(p, <<t, m>>) =>
             \A i \in 1..Len(logs[<<t, m>>]) : logs[<<t, m>>][i] \in w[m]
  PROVE  OdbcInv'
<1>1. \A q \in Runs : RunOK(run'[q], written'[q])
  BY OtherRunsKept
<1>2. LogsOK' /\ Known'
  BY KnownKept
<1>3. WorksheetOK'
  <2>1. worksheet # NoWorksheet =>
          /\ worksheet.run \in Runs
          /\ run'[worksheet.run].exit \in {"0", "1"}
          /\ run'[worksheet.run].exit = "0" <=> AllPassed(worksheet.status)
    BY DEF OdbcInv, WorksheetOK, Becomes
  <2>2. ASSUME NEW q \in Runs, run'[q].tool = "validation", run'[q].exit \in {"0", "1"}
        PROVE  worksheet # NoWorksheet
    BY <2>2 DEF OdbcInv, WorksheetOK, Becomes
  <2> QED
    BY <2>1, <2>2 DEF WorksheetOK, AllPassed
<1>4. DOMAIN run' = Runs /\ DOMAIN written' = Runs
  BY DEF Becomes
<1>5. \A q \in Runs : RunOK(run[q], written[q])'
  BY <1>1 DEF RunOK, Typed, Stands, IsRun, StepEarned, Earned, Plan, Step, StepEnvironment, Complete,
     ReachesThreshold, ModeSet
<1> QED
  BY <1>2, <1>3, <1>4, <1>5 DEF OdbcInv

\* A run leaves with a code, and the validation leaves its worksheet.
LEMMA Leaves ==
  ASSUME OdbcInv, NEW r \in Runs, run[r].exit = "running", NEW p, p.tool = run[r].tool,
         NEW failed \in BOOLEAN, Leave(r, p, failed), UNCHANGED logs,
         ~failed => RunOK(Gone(p, "0"), written[r]) /\ Gone(p, "0").exit = "0"
                    /\ Gone(p, "0").tool = p.tool,
         p.tool = "validation" => (AllPassed(build_validation_report(p)) <=> ~failed)
  PROVE  OdbcInv'
<1> DEFINE exit == IF failed THEN "1" ELSE "0"
           w == IF failed THEN NothingWritten ELSE written[r]
           g == Gone(p, exit)
<1>1. p.tool \in Tools /\ DOMAIN run = Runs /\ DOMAIN written = Runs
  BY DEF OdbcInv, RunOK, Typed
<1>2. RunOK(g, w) /\ g.exit = exit /\ g.tool = p.tool
  BY <1>1, RunIsGone
<1>3. Becomes(r, g, w)
  BY <1>1 DEF Leave, Becomes
<1> HIDE DEF g, w
<1>4. \A q \in Runs : RunOK(run'[q], written'[q])
  BY <1>2, <1>3, OtherRunsKept
<1>5. g.exit # "running" /\ g.exit \in {"0", "1"}
  BY <1>2
<1>6. LogsOK' /\ Known'
  BY <1>3, <1>5, KnownKept DEF Awaits
<1>7. WorksheetOK'
  <2>1. CASE p.tool = "validation"
    <3>1. worksheet' = [run |-> r, status |-> build_validation_report(p)]
      BY <2>1 DEF Leave
    <3>2. worksheet' # NoWorksheet
      BY <3>1, SheetIsWritten
    <3>3. run'[r].exit = exit
      BY <1>2, <1>3 DEF Becomes
    <3>4. exit = "0" <=> AllPassed(worksheet'.status)
      BY <2>1, <3>1
    <3>5. exit \in {"0", "1"} /\ worksheet'.run = r
      BY <3>1
    <3> QED
      BY <3>2, <3>3, <3>4, <3>5 DEF WorksheetOK, AllPassed
  <2>2. CASE p.tool # "validation"
    <3>1. worksheet' = worksheet
      BY <2>2 DEF Leave
    <3>2. worksheet # NoWorksheet =>
            /\ worksheet.run \in Runs
            /\ run'[worksheet.run].exit \in {"0", "1"}
            /\ run'[worksheet.run].exit = "0" <=> AllPassed(worksheet.status)
      BY <1>3 DEF OdbcInv, WorksheetOK, Becomes
    <3>3. ASSUME NEW q \in Runs, run'[q].tool = "validation", run'[q].exit \in {"0", "1"}
          PROVE  worksheet # NoWorksheet
      BY <1>2, <1>3, <2>2, <3>3 DEF OdbcInv, WorksheetOK, Becomes
    <3> QED
      BY <3>1, <3>2, <3>3 DEF WorksheetOK, AllPassed
  <2> QED
    BY <2>1, <2>2
<1>8. DOMAIN run' = Runs /\ DOMAIN written' = Runs
  BY <1>3 DEF Becomes
<1>9. \A q \in Runs : RunOK(run[q], written[q])'
  BY <1>4 DEF RunOK, Typed, Stands, IsRun, StepEarned, Earned, Plan, Step, StepEnvironment, Complete,
     ReachesThreshold, ModeSet
<1> QED
  BY <1>6, <1>7, <1>8, <1>9 DEF OdbcInv

\* A step ends with a code that is earned if it is 0.
LEMMA FinishStepOK ==
  ASSUME OdbcInv, NEW r \in Runs, run[r].exit = "running", NEW code,
         code = 0 => StepEarned(run[r], written[r], Step(run[r])),
         FinishStep(r, code), UNCHANGED logs
  PROVE  OdbcInv'
<1> DEFINE p == run[r]
           f == Finished(p, code)
<1>1. RunOK(p, written[r]) /\ Typed(p) /\ Stands(p) /\ DOMAIN run = Runs /\ DOMAIN written = Runs
  BY DEF OdbcInv, RunOK
<1>2. f.tool = p.tool /\ f.codes = [t \in DOMAIN p.codes \cup {Step(p)} |->
                                        IF t = Step(p) THEN code ELSE p.codes[t]]
  <2>1. StepEnded(p, code, f)
    BY <1>1, FinishedFields DEF Typed
  <2> QED
    BY <2>1 DEF StepEnded
<1>3. IF Later(f) = {} \/ (f.tool = "validation" /\ ~invoke_step(code)) THEN Leave(r, f, Failed(f))
      ELSE /\ run' = [run EXCEPT ![r] = [f EXCEPT !.at = Min(Later(f))]]
           /\ UNCHANGED <<worksheet, written>>
  BY DEF FinishStep, Finished
<1>4. CASE Later(f) = {} \/ (f.tool = "validation" /\ ~invoke_step(code))
  <2>1. Leave(r, f, Failed(f))
    BY <1>3, <1>4
  <2>2. code # 0 => Failed(f)
    BY <1>2 DEF Failed
  <2>3. ~Failed(f) => Later(f) = {}
    BY <1>4, <2>2 DEF invoke_step
  <2>4. ~Failed(f) => RunOK(Gone(f, "0"), written[r]) /\ Gone(f, "0").exit = "0"
                      /\ Gone(f, "0").tool = f.tool
    <3> HIDE DEF p, f
    <3> SUFFICES ASSUME ~Failed(f) PROVE RunOK(Gone(f, "0"), written[r]) /\ Gone(f, "0").exit = "0"
                                         /\ Gone(f, "0").tool = f.tool
      OBVIOUS
    <3>1. p.exit = "running" /\ (code = 0 => StepEarned(p, written[r], Step(p)))
      BY DEF p
    <3>2. f = Finished(p, code)
      BY DEF f
    <3> QED
      BY SMTT(20), <1>1, <1>2, <2>3, <3>1, <3>2, RunPasses
  <2>5. f.tool = "validation" => (AllPassed(build_validation_report(f)) <=> ~Failed(f))
    <3>1. f.tool = "validation" => Later(f) = {} \/ code # 0
      BY <1>4 DEF invoke_step
    <3> QED
      BY <1>1, <1>2, <3>1, SheetOfFinished
  <2>6. Failed(f) \in BOOLEAN
    BY DEF Failed
  <2> HIDE DEF f
  <2> QED
    BY <1>2, <2>1, <2>4, <2>5, <2>6, Leaves
<1>5. CASE ~(Later(f) = {} \/ (f.tool = "validation" /\ ~invoke_step(code)))
  <2> DEFINE g == [f EXCEPT !.at = Min(Later(f))]
  <2>1. run' = [run EXCEPT ![r] = g] /\ UNCHANGED <<worksheet, written>>
    BY <1>3, <1>5
  <2>2. Later(f) # {} /\ (p.tool = "validation" => code = 0)
    BY <1>2, <1>5 DEF invoke_step
  <2>3. RunOK(g, written[r]) /\ g.exit = "running" /\ g.phase = "step"
    BY SMTT(20), <1>1, <2>2, RunGoesOn
  <2> HIDE DEF g
  <2>4. Becomes(r, g, written[r])
    BY <1>1, <2>1 DEF Becomes
  <2> QED
    BY <2>1, <2>3, <2>4, Proceeds DEF Awaits
<1> QED
  BY <1>4, <1>5

-----------------------------------------------------------------------------
(* The operations, one by one.                                             *)

\* StartTool keeps the invariant.
LEMMA StartToolOK ==
  ASSUME OdbcInv, NEW r \in Runs, NEW o \in Options, StartTool(r, o)
  PROVE  OdbcInv'
<1> DEFINE p == [NotStarted EXCEPT
                !.tool = o.tool, !.asked = o.asked, !.at = Min(Plan(o)), !.exit = "running",
                !.env = import_dotenv_if_present(o.environ, o.dotenv)]
<1>1. run[r].exit = "idle" /\ run' = [run EXCEPT ![r] = p] /\ UNCHANGED <<logs, worksheet, written>>
  BY DEF StartTool
<1>2. RunOK(p, written[r]) /\ p.phase = "step" /\ p.exit = "running"
  <2>1. DOMAIN written[r] = BenchmarkModes
    BY DEF OdbcInv, RunOK
  <2> QED
    BY <2>1, RunStarts
<1> HIDE DEF p
<1>3. Becomes(r, p, written[r])
  BY <1>1 DEF OdbcInv, Becomes
<1> QED
  BY <1>1, <1>2, <1>3, Proceeds DEF Awaits

\* RunStep keeps the invariant.
LEMMA RunStepOK ==
  ASSUME OdbcInv, NEW r \in Runs, RunStep(r)
  PROVE  OdbcInv'
<1>1. PICK code \in PlainCodes(run[r]) : FinishStep(r, code)
  BY DEF RunStep
<1>2. run[r].exit = "running" /\ ModesOf(Step(run[r]), run[r].env) = <<>> /\ UNCHANGED logs
  BY DEF RunStep, Running
<1>3. Typed(run[r]) /\ Stands(run[r])
  BY <1>2 DEF OdbcInv, RunOK
<1>4. code = 0 => Step(run[r]) # "benchmark_gate"
  BY NoSuitePasses DEF PlainCodes
<1>5. ModeSet(Step(run[r]), run[r].env) = {}
  BY SMT, <1>2 DEF ModeSet
<1>6. code = 0 => StepEarned(run[r], written[r], Step(run[r]))
  BY <1>4, <1>5 DEF StepEarned
<1> QED
  BY <1>1, <1>2, <1>6, FinishStepOK

\* StepRaises keeps the invariant.
LEMMA StepRaisesOK ==
  ASSUME OdbcInv, NEW r \in Runs, StepRaises(r)
  PROVE  OdbcInv'
<1>1. run[r].exit = "running" /\ Leave(r, run[r], TRUE) /\ UNCHANGED logs
  BY DEF StepRaises, Running
<1>2. Typed(run[r]) /\ Stands(run[r])
  BY <1>1 DEF OdbcInv, RunOK
<1>3. run[r].tool = "validation" => ~AllPassed(build_validation_report(run[r]))
  BY <1>2, SheetOfRaised
<1> QED
  BY <1>1, <1>3, Leaves

\* Kill keeps the invariant.
LEMMA KillOK ==
  ASSUME OdbcInv, NEW r \in Runs, Kill(r)
  PROVE  OdbcInv'
<1> DEFINE p == Gone(run[r], "killed")
<1>1. /\ run[r].exit = "running" /\ run' = [run EXCEPT ![r] = p]
      /\ written' = [written EXCEPT ![r] = NothingWritten] /\ UNCHANGED <<logs, worksheet>>
  BY DEF Kill, Running
<1>2. run[r].tool \in Tools
  BY DEF OdbcInv, RunOK, Typed
<1>3. RunOK(p, NothingWritten) /\ p.exit = "killed"
  BY <1>2, RunIsGone
<1> HIDE DEF p
<1>4. Becomes(r, p, NothingWritten)
  BY <1>1 DEF OdbcInv, Becomes
<1> QED
  BY <1>1, <1>3, <1>4, Proceeds DEF Awaits

\* A step only runs the two benchmarks.
LEMMA ModeSetModes ==
  ASSUME NEW s, NEW env
  PROVE  ModeSet(s, env) \subseteq BenchmarkModes
<1>1. CASE s = "benchmark_gate"
  <2>1. env.dsn = <<>> => ModeSet(s, env) = {}
    BY <1>1, ModeSetTable
  <2>2. env.dsn # <<>> => ModeSet(s, env) = {"async", "streaming"}
    BY <1>1, ModeSetTable
  <2> QED
    BY <2>1, <2>2 DEF BenchmarkModes
<1>2. CASE s \in {"Benchmark", "StreamingBenchmark"}
  BY <1>2, ModeSetTable DEF BenchmarkModes
<1>3. CASE ~Benchmarks(s)
  <2>1. ModesOf(s, env) = <<>>
    BY <1>3, ModesTable
  <2> QED
    BY SMTT(20), <2>1 DEF ModeSet
<1> QED
  BY <1>1, <1>2, <1>3 DEF Benchmarks

\* What a run printed may grow.
LEMMA RunGrows ==
  ASSUME NEW p, NEW w, NEW v, RunOK(p, w), DOMAIN v = BenchmarkModes,
         \A m \in BenchmarkModes : w[m] \subseteq v[m]
  PROVE  RunOK(p, v)
<1>1. ASSUME NEW s PROVE ModeSet(s, p.env) \subseteq BenchmarkModes
  BY ModeSetModes
<1>2. ASSUME NEW m \in BenchmarkModes, Earned(p, w, m) PROVE Earned(p, v, m)
  BY <1>2, EarnedGrows
<1>3. ASSUME NEW s, StepEarned(p, w, s) PROVE StepEarned(p, v, s)
  BY <1>1, <1>2, <1>3 DEF StepEarned
<1>4. DOMAIN p.suites \subseteq BenchmarkModes
  BY DEF RunOK, Typed
<1> QED
  BY <1>2, <1>3, <1>4 DEF RunOK

\* The worksheet stands as long as the runs that ended do.
LEMMA WorksheetKept ==
  ASSUME OdbcInv, UNCHANGED worksheet,
         \A q \in Runs : run'[q].exit = run[q].exit /\ run'[q].tool = run[q].tool
  PROVE  WorksheetOK'
<1>1. worksheet # NoWorksheet =>
        /\ worksheet.run \in Runs
        /\ run'[worksheet.run].exit \in {"0", "1"}
        /\ run'[worksheet.run].exit = "0" <=> AllPassed(worksheet.status)
  BY DEF OdbcInv, WorksheetOK
<1>2. ASSUME NEW q \in Runs, run'[q].tool = "validation", run'[q].exit \in {"0", "1"}
      PROVE  worksheet # NoWorksheet
  BY <1>2 DEF OdbcInv, WorksheetOK
<1> QED
  BY <1>1, <1>2 DEF WorksheetOK, AllPassed

\* The fields of a run that goes to another phase of its benchmark.
LEMMA PhaseRun ==
  ASSUME NEW p, NEW w, RunOK(p, w), p.exit = "running", NEW v, DOMAIN v = BenchmarkModes,
         \A m \in BenchmarkModes : w[m] \subseteq v[m] \/ (m = ModeAt(p) /\ ModesOf(Step(p), p.env) # <<>>),
         NEW phase \in {"step", "measure", "judge"}, NEW child,
         NEW g, g = Phased(p, p.suites, phase, child)
  PROVE  /\ RunOK(g, v) /\ g.exit = p.exit /\ g.tool = p.tool /\ g.phase = phase
         /\ Step(g) = Step(p) /\ g.env = p.env /\ ModeAt(g) = ModeAt(p)
<1>1. Typed(p) /\ Stands(p)
  BY DEF RunOK
<1>2. /\ IsRun(g) /\ g.tool = p.tool /\ g.asked = p.asked /\ g.env = p.env /\ g.at = p.at
      /\ g.codes = p.codes /\ g.exit = p.exit /\ g.phase = phase /\ g.suites = p.suites
      /\ Plan(g) = Plan(p) /\ Step(g) = Step(p) /\ StepEnvironment(g) = StepEnvironment(p)
  BY SMTT(20), <1>1, PhaseFields
<1>3. \A s \in DOMAIN p.codes : \A m \in ModeSet(s, p.env) : w[m] \subseteq v[m]
  <2> SUFFICES ASSUME NEW s \in DOMAIN p.codes, NEW m \in ModeSet(s, p.env)
               PROVE  w[m] \subseteq v[m]
    OBVIOUS
  <2>1. m \in BenchmarkModes
    BY ModeSetModes
  <2> QED
    BY <1>1, <2>1, OtherSteps
<1>4. \A m \in DOMAIN p.suites : p.suites[m].code = 0 => Earned(p, v, m)
  <2> SUFFICES ASSUME NEW m \in DOMAIN p.suites, p.suites[m].code = 0
               PROVE  Earned(p, v, m)
    OBVIOUS
  <2>1. Earned(p, w, m) /\ m \in BenchmarkModes
    BY <1>1 DEF RunOK, Typed
  <2>2. w[m] \subseteq v[m]
    BY <1>1, <2>1, ModeAtTable
  <2> QED
    BY <2>1, <2>2, EarnedGrows
<1>5. \/ DOMAIN p.suites = {}
      \/ DOMAIN p.suites = {"async"} /\ Step(p) = "benchmark_gate" /\ p.env.dsn # <<>>
  BY <1>1 DEF Stands
<1>6. RunOK(g, v)
  BY <1>2, <1>3, <1>4, <1>5, RunContinues
<1>7. ModeAt(g) = ModeAt(p)
  BY <1>2 DEF ModeAt
<1> QED
  BY <1>2, <1>6, <1>7

\* Emptying a log keeps the invariant.
LEMMA ResetOK ==
  ASSUME OdbcInv, NEW r \in Runs, _reset_benchmark_log(r)
  PROVE  OdbcInv'
<1> DEFINE p == run[r]
           mode == ModeAt(p)
           v == [written[r] EXCEPT ![mode] = {}]
           g == Phased(p, p.suites, "measure", p.child)
<1>1. /\ p.exit = "running" /\ p.phase = "step" /\ ModesOf(Step(p), p.env) # <<>>
      /\ logs' = [logs EXCEPT ![<<p.tool, mode>>] = <<>>]
      /\ written' = [written EXCEPT ![r] = v]
      /\ run' = [run EXCEPT ![r] = [p EXCEPT !.phase = "measure"]]
      /\ UNCHANGED worksheet
  BY DEF _reset_benchmark_log, Benchmarking, Running, LogOf
<1>2. RunOK(p, written[r]) /\ Typed(p) /\ Stands(p) /\ DOMAIN run = Runs /\ DOMAIN written = Runs
      /\ DOMAIN written[r] = BenchmarkModes
  BY <1>1 DEF OdbcInv, RunOK
<1>3. mode \in BenchmarkModes /\ p.tool \in Tools
  BY <1>1, <1>2, ModeAtTable DEF Typed
<1>4. [p EXCEPT !.phase = "measure"] = g
  BY <1>2 DEF Typed, IsRun, Phased
<1>5. /\ DOMAIN v = BenchmarkModes /\ v[mode] = {}
      /\ \A m \in BenchmarkModes \ {mode} : v[m] = written[r][m]
  BY <1>2, <1>3
<1>6. /\ RunOK(g, v) /\ g.exit = p.exit /\ g.tool = p.tool /\ g.phase = "measure"
      /\ Step(g) = Step(p) /\ g.env = p.env /\ ModeAt(g) = mode
  <2> HIDE DEF p, v, g
  <2>1. \A m \in BenchmarkModes : written[r][m] \subseteq v[m] \/ (m = ModeAt(p) /\ ModesOf(Step(p), p.env) # <<>>)
    BY <1>1, <1>5
  <2>2. g = Phased(p, p.suites, "measure", p.child) /\ mode = ModeAt(p)
    BY DEF g
  <2> HIDE DEF mode
  <2> QED
    BY SMTT(20), <1>1, <1>2, <1>5, <2>1, <2>2, PhaseRun
<1>7. Becomes(r, g, v)
  BY <1>1, <1>2, <1>4 DEF Becomes
<1> HIDE DEF g, v, mode, p
<1>8. \A q \in Runs : RunOK(run'[q], written'[q])
  BY <1>6, <1>7, OtherRunsKept
<1>9. LogsOK'
  <2>1. LogsOK
    BY DEF OdbcInv
  <2>2. \A t \in Tools, m \in BenchmarkModes : logs'[<<t, m>>] \in {logs[<<t, m>>], <<>>}
    BY <1>1, <2>1 DEF LogsOK
  <2>3. \A S : <<>> \in Seq(S)
    BY SMT
  <2> QED
    BY <1>1, <2>1, <2>2, <2>3 DEF LogsOK
<1>10. Known'
  <2> SUFFICES ASSUME NEW q \in Runs, NEW t \in Tools, NEW m \in BenchmarkModes,
                      Awaits(run'[q], <<t, m>>), NEW i \in 1..Len(logs'[<<t, m>>])
               PROVE  logs'[<<t, m>>][i] \in written'[q][m]
    BY AwaitsIt DEF Known
  <2>1. <<t, m>> # <<p.tool, mode>>
    <3> SUFFICES ASSUME <<t, m>> = <<p.tool, mode>> PROVE FALSE
      OBVIOUS
    <3>1. logs'[<<t, m>>] = <<>>
      BY <1>1, <1>3 DEF OdbcInv, LogsOK
    <3> QED
      BY SMTT(20), <3>1
  <2>2. logs'[<<t, m>>] = logs[<<t, m>>]
    BY <1>1, <2>1 DEF OdbcInv, LogsOK
  <2>3. q # r
    BY <1>6, <1>7, <2>1 DEF Awaits, Becomes
  <2>4. run'[q] = run[q] /\ written'[q] = written[q]
    BY <1>7, <2>3 DEF Becomes
  <2> QED
    BY <2>2, <2>4, AwaitsIt DEF OdbcInv, Known
<1>11. WorksheetOK'
  <2>1. \A q \in Runs : run'[q].exit = run[q].exit /\ run'[q].tool = run[q].tool
    BY <1>6, <1>7 DEF Becomes, p
  <2> QED
    BY <1>1, <2>1, WorksheetKept
<1>12. \A q \in Runs : RunOK(run[q], written[q])'
  BY <1>8 DEF RunOK, Typed, Stands, IsRun, StepEarned, Earned, Plan, Step, StepEnvironment, Complete,
     ReachesThreshold, ModeSet
<1> QED
  BY <1>7, <1>9, <1>10, <1>11, <1>12 DEF OdbcInv, Becomes

\* One report is a sequence of reports.
LEMMA OneReport ==
  ASSUME NEW S, NEW q \in S
  PROVE  <<q>> \in Seq(S)
  BY SMT

\* Measure keeps the invariant.
LEMMA MeasureOK ==
  ASSUME OdbcInv, NEW r \in Runs, Measure(r)
  PROVE  OdbcInv'
<1> DEFINE p == run[r]
           mode == ModeAt(p)
           path == <<p.tool, mode>>
<1>1. p.exit = "running" /\ p.phase = "measure" /\ ModesOf(Step(p), p.env) # <<>> /\ UNCHANGED worksheet
  BY DEF Measure, Benchmarking, Running
<1>2. PICK code \in {0, 1}, printed \in {<<>>} \cup {<<q>> : q \in Reports[mode]} :
        /\ logs' = [logs EXCEPT ![path] = @ \o printed]
        /\ written' = [q \in Runs |->
              IF AwaitsReport(q, path)
              THEN [written[q] EXCEPT ![mode] = @ \cup {printed[i] : i \in DOMAIN printed}]
              ELSE written[q]]
        /\ run' = [run EXCEPT ![r].phase = "judge", ![r].child = code]
  BY DEF Measure, LogOf
<1> DEFINE new == {printed[i] : i \in DOMAIN printed}
           g == Phased(p, p.suites, "judge", code)
<1>3. RunOK(p, written[r]) /\ Typed(p) /\ Stands(p) /\ DOMAIN run = Runs /\ DOMAIN written = Runs
  BY <1>1 DEF OdbcInv, RunOK
<1>4. mode \in BenchmarkModes /\ p.tool \in Tools
  BY <1>1, <1>3, ModeAtTable DEF Typed
<1>5. run' = [run EXCEPT ![r] = g]
  <2>1. run' = [run EXCEPT ![r] = [p EXCEPT !.phase = "judge", !.child = code]]
    BY <1>2
  <2>2. [p EXCEPT !.phase = "judge", !.child = code] = g
    BY <1>3 DEF Typed, IsRun, Phased
  <2> QED
    BY <2>1, <2>2
<1>6. printed \in Seq(Reports[mode]) /\ printed \in Seq(new)
  <2>1. CASE printed = <<>>
    BY SMT, <2>1
  <2>2. CASE printed \in {<<q>> : q \in Reports[mode]}
    <3>1. PICK q \in Reports[mode] : printed = <<q>>
      BY <2>2
    <3>2. q \in new
      <4>1. <<q>>[1] = q /\ 1 \in DOMAIN <<q>>
        BY SMT
      <4> QED
        BY <3>1, <4>1
    <3> HIDE DEF new, mode
    <3>3. <<q>> \in Seq(Reports[mode]) /\ <<q>> \in Seq(new)
      BY <3>2, OneReport
    <3> QED
      BY <3>1, <3>3
  <2> QED
    BY <2>1, <2>2
<1>7. AwaitsReport(r, path)
  BY <1>1, AwaitsIt DEF Awaits
<1> HIDE DEF p, mode, path, new, g
<1>8. /\ DOMAIN written' = Runs /\ DOMAIN run' = Runs
      /\ \A q \in Runs \ {r} : run'[q] = run[q]
      /\ run'[r] = g
  BY <1>2, <1>3, <1>5
<1>9. ASSUME NEW q \in Runs
      PROVE  /\ DOMAIN written'[q] = BenchmarkModes
             /\ \A m \in BenchmarkModes : written[q][m] \subseteq written'[q][m]
             /\ AwaitsReport(q, path) => new \subseteq written'[q][mode]
  <2>1. DOMAIN written[q] = BenchmarkModes
    BY DEF OdbcInv, RunOK
  <2>2. CASE AwaitsReport(q, path)
    <3>1. written'[q] = [written[q] EXCEPT ![mode] = @ \cup new]
      BY <1>2, <2>2 DEF new
    <3> QED
      BY <1>4, <2>1, <3>1
  <2>3. CASE ~AwaitsReport(q, path)
    <3>1. written'[q] = written[q]
      BY <1>2, <2>3
    <3> QED
      BY <2>1, <2>3, <3>1
  <2> QED
    BY <2>2, <2>3
<1>10. /\ RunOK(g, written'[r]) /\ g.exit = p.exit /\ g.tool = p.tool /\ g.phase = "judge"
       /\ Step(g) = Step(p) /\ g.env = p.env /\ ModeAt(g) = ModeAt(p)
  <2> DEFINE v == written'[r]
             w == written[r]
  <2>1. g = Phased(p, p.suites, "judge", code)
    BY DEF g
  <2>2. RunOK(p, w) /\ DOMAIN v = BenchmarkModes /\ \A m \in BenchmarkModes : w[m] \subseteq v[m]
    BY <1>3, <1>9
  <2> HIDE DEF v, w
  <2>3. /\ RunOK(g, v) /\ g.exit = p.exit /\ g.tool = p.tool /\ g.phase = "judge"
        /\ Step(g) = Step(p) /\ g.env = p.env /\ ModeAt(g) = ModeAt(p)
    BY SMTT(20), <1>1, <2>1, <2>2, PhaseRun
  <2> QED
    BY <2>3 DEF v
<1>11. \A q \in Runs : RunOK(run'[q], written'[q])
  <2> SUFFICES ASSUME NEW q \in Runs PROVE RunOK(run'[q], written'[q])
    OBVIOUS
  <2>1. CASE q = r
    BY <1>8, <1>10, <2>1
  <2>2. CASE q # r
    <3>1. RunOK(run[q], written[q]) /\ run'[q] = run[q]
      BY <1>8, <2>2 DEF OdbcInv
    <3> QED
      BY <1>9, <3>1, RunGrows
  <2> QED
    BY <2>1, <2>2
<1>12. ASSUME NEW q \in Runs, NEW other, Awaits(run'[q], other)
       PROVE  AwaitsReport(q, other)
  <2>1. CASE q = r
    BY <1>1, <1>8, <1>10, <1>12, <2>1, AwaitsIt DEF Awaits, p
  <2>2. CASE q # r
    BY <1>8, <1>12, <2>2, AwaitsIt
  <2> QED
    BY <2>1, <2>2
<1>13. LogsOK
  BY DEF OdbcInv
<1>14. path \in DOMAIN logs /\ logs[path] \in Seq(Reports[mode])
  BY <1>4, <1>13 DEF LogsOK, path
<1>15. ASSUME NEW t \in Tools, NEW m \in BenchmarkModes
       PROVE  /\ <<t, m>> = path => m = mode /\ logs'[<<t, m>>] = logs[path] \o printed
              /\ <<t, m>> # path => logs'[<<t, m>>] = logs[<<t, m>>]
  <2>1. <<t, m>> = path => m = mode
    BY DEF path
  <2>2. <<t, m>> \in DOMAIN logs
    BY <1>13 DEF LogsOK
  <2> QED
    BY <1>2, <1>14, <2>1, <2>2
<1>16. LogsOK'
  <2>1. logs[path] \o printed \in Seq(Reports[mode])
    BY SMTT(20), <1>6, <1>14
  <2>2. DOMAIN logs' = Tools \X BenchmarkModes
    BY <1>2, <1>13 DEF LogsOK
  <2>3. \A t \in Tools, m \in BenchmarkModes : logs'[<<t, m>>] \in Seq(Reports[m])
    BY <1>13, <1>15, <2>1 DEF LogsOK
  <2> QED
    BY <2>2, <2>3 DEF LogsOK
<1>17. Known'
  <2> SUFFICES ASSUME NEW q \in Runs, NEW t \in Tools, NEW m \in BenchmarkModes,
                      Awaits(run'[q], <<t, m>>), NEW i \in 1..Len(logs'[<<t, m>>])
               PROVE  logs'[<<t, m>>][i] \in written'[q][m]
    BY AwaitsIt DEF Known
  <2>1. AwaitsReport(q, <<t, m>>)
    BY <1>12
  <2>2. \A j \in 1..Len(logs[<<t, m>>]) : logs[<<t, m>>][j] \in written'[q][m]
    BY <1>9, <2>1 DEF OdbcInv, Known
  <2>3. CASE <<t, m>> # path
    BY <1>15, <2>2, <2>3
  <2>4. CASE <<t, m>> = path
    <3>1. m = mode /\ logs'[<<t, m>>] = logs[path] \o printed
      BY <1>15, <2>4
    <3>2. new \subseteq written'[q][m]
      BY <1>9, <2>1, <2>4, <3>1
    <3>3. CASE i \in 1..Len(logs[path])
      <4>1. (logs[path] \o printed)[i] = logs[path][i]
        BY SMTT(20), <1>6, <1>14, <3>3
      <4> QED
        BY <2>2, <2>4, <3>1, <3>3, <4>1
    <3>4. CASE i \notin 1..Len(logs[path])
      <4>1. i \in 1..(Len(logs[path]) + Len(printed))
        BY SMTT(20), <1>6, <1>14, <3>1
      <4>2. (logs[path] \o printed)[i] \in new
        BY SMTT(20), <1>6, <1>14, <3>4, <4>1
      <4> QED
        BY <3>1, <3>2, <4>2
    <3> QED
      BY <3>3, <3>4
  <2> QED
    BY <2>3, <2>4
<1>18. WorksheetOK'
  <2>1. \A q \in Runs : run'[q].exit = run[q].exit /\ run'[q].tool = run[q].tool
    BY <1>8, <1>10 DEF p
  <2> QED
    BY <1>1, <2>1, WorksheetKept
<1>19. \A q \in Runs : RunOK(run[q], written[q])'
  BY <1>11 DEF RunOK, Typed, Stands, IsRun, StepEarned, Earned, Plan, Step, StepEnvironment, Complete,
     ReachesThreshold, ModeSet
<1> QED
  BY <1>8, <1>16, <1>17, <1>18, <1>19 DEF OdbcInv

\* Judge keeps the invariant.
LEMMA JudgeOK ==
  ASSUME OdbcInv, NEW r \in Runs, Judge(r)
  PROVE  OdbcInv'
<1> DEFINE p == run[r]
           mode == ModeAt(p)
           log == logs[<<p.tool, mode>>]
           env == StepEnvironment(p)
           code == RunnerExit(log, mode, env, p.child)
           suites == [m \in DOMAIN p.suites \cup {mode} |->
                        IF m = mode
                        THEN [code |-> code, metrics |-> extract_json_object_from_output(log).metrics]
                        ELSE p.suites[m]]
           verdict == CASE code = Refused -> 2
                        [] code # Refused /\ p.tool = "validation" -> code
                        [] OTHER -> IF log = <<>> THEN 1 ELSE SuiteExit(suites, env)
           more == /\ p.tool = "gate" /\ code # Refused /\ log # <<>>
                   /\ DOMAIN suites # BenchmarkModes
           w == written[r]
<1>1. p.exit = "running" /\ p.phase = "judge" /\ ModesOf(Step(p), p.env) # <<>> /\ UNCHANGED logs
  BY DEF Judge, Benchmarking, Running
<1>2. IF ~more THEN FinishStep(r, verdict)
      ELSE /\ run' = [run EXCEPT ![r].suites = suites, ![r].phase = "step", ![r].child = 0]
           /\ UNCHANGED <<worksheet, written>>
  BY DEF Judge, LogOf
<1>3. RunOK(p, w) /\ Typed(p) /\ Stands(p) /\ DOMAIN run = Runs /\ DOMAIN written = Runs
      /\ DOMAIN w = BenchmarkModes
  BY <1>1 DEF OdbcInv, RunOK
<1>4. /\ mode \in BenchmarkModes /\ mode \notin DOMAIN p.suites
      /\ p.tool = "validation" => ModeSet(Step(p), p.env) = {mode}
      /\ p.tool = "gate" => /\ Step(p) = "benchmark_gate" /\ p.env.dsn # <<>>
                            /\ \/ DOMAIN p.suites \cup {mode} = BenchmarkModes
                               \/ mode = "async" /\ DOMAIN p.suites = {}
  BY <1>1, <1>3, ModeAtTable
<1>5. p.tool \in Tools
  BY <1>3 DEF Typed
<1>6. log \in Seq(Reports[mode]) /\ \A i \in 1..Len(log) : log[i] \in w[mode]
  <2>1. AwaitsReport(r, <<p.tool, mode>>)
    BY <1>1, AwaitsIt DEF Awaits
  <2> HIDE DEF mode
  <2> QED
    BY <1>4, <1>5, <2>1 DEF OdbcInv, LogsOK, Known
<1>7. code = 0 => Earned(p, w, mode)
  <2> DEFINE R == Reports[mode]
             W == w[mode]
  <2>1. log \in Seq(R) /\ \A i \in 1..Len(log) : log[i] \in W
    BY <1>6
  <2> HIDE DEF R, W, log, mode, env
  <2>2. code = 0 => /\ \E q \in W : Complete(q, mode)
                    /\ \E q \in W : ReachesThreshold(q, mode, env)
    BY <1>4, <2>1, VerdictEarned
  <2> QED
    BY <2>2 DEF W, env, Earned
<1> HIDE DEF code, env, log
<1>8. /\ DOMAIN suites = DOMAIN p.suites \cup {mode} /\ suites[mode].code = code
      /\ \A m \in DOMAIN p.suites : suites[m] = p.suites[m]
  BY <1>4
<1> HIDE DEF suites, mode
<1>9. \A m \in DOMAIN suites : suites[m].code = 0 => Earned(p, w, m)
  BY <1>1, <1>3, <1>7, <1>8 DEF RunOK
<1>10. CASE ~more
  <2>1. FinishStep(r, verdict)
    BY <1>2, <1>10
  <2>2. verdict = 0 => StepEarned(p, w, Step(p))
    <3> SUFFICES ASSUME verdict = 0 PROVE StepEarned(p, w, Step(p))
      OBVIOUS
    <3>1. CASE p.tool = "validation"
      <4>1. code = 0
        BY SMTT(20), <3>1
      <4>2. Step(p) # "benchmark_gate"
        BY <1>3, <3>1, StepAsked, NamesOf
      <4> QED
        BY <1>4, <1>7, <3>1, <4>1, <4>2 DEF StepEarned
    <3>2. CASE p.tool = "gate"
      <4>1. code # Refused /\ log # <<>> /\ SuiteExit(suites, env) = 0
        BY SMTT(20), <3>2
      <4>2. DOMAIN suites = BenchmarkModes
        BY <1>10, <3>2, <4>1
      <4>3. \A m \in BenchmarkModes : Earned(p, w, m)
        BY <1>9, <4>1, <4>2, SuitePassed
      <4>4. ModeSet(Step(p), p.env) \subseteq BenchmarkModes
        BY ModeSetModes
      <4> QED
        BY <1>4, <3>2, <4>3, <4>4 DEF StepEarned
    <3> QED
      BY <1>5, <3>1, <3>2 DEF Tools
  <2> HIDE DEF verdict
  <2> QED
    BY <1>1, <2>1, <2>2, FinishStepOK
<1>11. CASE more
  <2> DEFINE g == Phased(p, suites, "step", 0)
  <2>1. run' = [run EXCEPT ![r] = [p EXCEPT !.suites = suites, !.phase = "step", !.child = 0]]
        /\ UNCHANGED <<worksheet, written>>
    BY <1>2, <1>11
  <2>2. run' = [run EXCEPT ![r] = g]
    BY <2>1 DEF Phased
  <2> HIDE DEF p
  <2>3. /\ IsRun(g) /\ g.tool = p.tool /\ g.asked = p.asked /\ g.env = p.env /\ g.at = p.at
        /\ g.codes = p.codes /\ g.exit = p.exit /\ g.phase = "step" /\ g.suites = suites
        /\ Plan(g) = Plan(p) /\ Step(g) = Step(p) /\ StepEnvironment(g) = StepEnvironment(p)
    <3>1. Typed(p)
      BY <1>3
    <3> QED
      BY SMTT(20), <3>1, PhaseFields
  <2>4. DOMAIN suites = {"async"} /\ Step(p) = "benchmark_gate" /\ p.env.dsn # <<>>
    BY <1>4, <1>8, <1>11
  <2> HIDE DEF g, w
  <2>5. RunOK(g, w)
    BY <1>1, <1>3, <1>9, <2>3, <2>4, RunContinues
  <2>6. Becomes(r, g, w)
    BY <1>3, <2>1, <2>2 DEF Becomes, w
  <2>7. g.exit = "running" /\ run[r].exit = "running" /\ g.phase = "step"
    BY <1>1, <2>3 DEF p
  <2> QED
    BY <1>1, <2>1, <2>5, <2>6, <2>7, Proceeds DEF Awaits
<1> QED
  BY <1>10, <1>11

-----------------------------------------------------------------------------
(* All behaviours.                                                         *)

\* The invariant holds in the beginning.
LEMMA OdbcInitOK == OdbcInit => OdbcInv
<1> SUFFICES ASSUME OdbcInit PROVE OdbcInv
  OBVIOUS
<1>1. IsRun(NotStarted) /\ NotStarted.tool = "gate" /\ NotStarted.exit = "idle"
      /\ NotStarted.asked = {} /\ NotStarted.codes = <<>> /\ NotStarted.suites = <<>>
      /\ NotStarted.phase = "step"
  BY DEF IsRun, NotStarted
<1>2. RunOK(NotStarted, NothingWritten)
  BY SMT, <1>1 DEF RunOK, Typed, Tools, NothingWritten
<1>3. \A r \in Runs : run[r] = NotStarted /\ written[r] = NothingWritten
  BY DEF OdbcInit
<1>4. LogsOK
  <2>1. \A S : <<>> \in Seq(S)
    BY SMT
  <2>2. \A t \in Tools, m \in BenchmarkModes : logs[<<t, m>>] = <<>>
    BY DEF OdbcInit
  <2> QED
    BY <2>1, <2>2 DEF OdbcInit, LogsOK
<1>5. Known
  BY <1>1, <1>3, AwaitsIt DEF Known, Awaits
<1>6. WorksheetOK
  BY <1>1, <1>3 DEF OdbcInit, WorksheetOK
<1> QED
  BY <1>2, <1>3, <1>4, <1>5, <1>6 DEF OdbcInv, OdbcInit

\* So does a step of somebody else.
LEMMA OdbcStutters ==
  ASSUME OdbcInv, UNCHANGED odbcVars
  PROVE  OdbcInv'
<1>1. run' = run /\ logs' = logs /\ worksheet' = worksheet /\ written' = written
  BY DEF odbcVars
<1>2. LogsOK' /\ Known'
  BY <1>1, AwaitsIt DEF OdbcInv, LogsOK, Known
<1>3. WorksheetOK'
  BY <1>1, WorksheetKept
<1>4. \A q \in Runs : RunOK(run'[q], written'[q])
  BY <1>1 DEF OdbcInv
<1>5. \A q \in Runs : RunOK(run[q], written[q])'
  BY <1>4 DEF RunOK, Typed, Stands, IsRun, StepEarned, Earned, Plan, Step, StepEnvironment, Complete,
     ReachesThreshold, ModeSet
<1> QED
  BY <1>1, <1>2, <1>3, <1>5 DEF OdbcInv

\* Every step keeps the invariant.
LEMMA OdbcNextOK == OdbcInv /\ [OdbcNext]_odbcVars => OdbcInv'
<1> SUFFICES ASSUME OdbcInv, [OdbcNext]_odbcVars PROVE OdbcInv'
  OBVIOUS
<1>1. CASE UNCHANGED odbcVars
  BY <1>1, OdbcStutters
<1>2. CASE OdbcNext
  <2>1. PICK r \in Runs :
          \/ \E o \in Options : StartTool(r, o)
          \/ RunStep(r) \/ StepRaises(r)
          \/ _reset_benchmark_log(r) \/ Measure(r) \/ Judge(r)
          \/ Kill(r)
    BY <1>2 DEF OdbcNext
  <2> QED
    BY <2>1, StartToolOK, RunStepOK, StepRaisesOK, ResetOK, MeasureOK, JudgeOK, KillOK
<1> QED
  BY <1>1, <1>2

\* The invariant implies the property.
LEMMA InvEarned == OdbcInv => PassIsEarned
<1> SUFFICES ASSUME OdbcInv PROVE PassIsEarned
  OBVIOUS
<1>1. OdbcTypeOK
  BY DEF OdbcInv, RunOK, Typed, Stands, Running, WorksheetOK, OdbcTypeOK
<1>2. ASSUME NEW r \in Runs, run[r].exit = "0"
      PROVE  /\ \A s \in run[r].asked : s \in DOMAIN run[r].codes /\ run[r].codes[s] = 0
             /\ "benchmark_gate" \in run[r].asked => run[r].env.dsn # <<>>
             /\ \A s \in run[r].asked : \A i \in DOMAIN ModesOf(s, run[r].env) :
                   Earned(run[r], written[r], ModesOf(s, run[r].env)[i])
  <2>1. \A s \in run[r].asked : s \in DOMAIN run[r].codes /\ run[r].codes[s] = 0
    BY <1>2 DEF OdbcInv, RunOK
  <2>2. \A s \in run[r].asked : StepEarned(run[r], written[r], s)
    BY <1>2, <2>1 DEF OdbcInv, RunOK
  <2> QED
    BY <2>1, <2>2 DEF StepEarned, ModeSet
<1>3. /\ worksheet # NoWorksheet =>
            (run[worksheet.run].exit = "0" <=> AllPassed(worksheet.status))
      /\ \A r \in Runs :
            run[r].tool = "validation" /\ run[r].exit \in {"0", "1"} => worksheet # NoWorksheet
  BY DEF OdbcInv, WorksheetOK
<1> QED
  BY <1>1, <1>2, <1>3 DEF PassIsEarned, Earned, AllPassed

\* Whatever command lines, environments and reports there are, and however
\* many runs overlap on one checkout: a tool that exits with 0 ran every step
\* it was asked for, every benchmark among them printed, since this run
\* emptied its log, a complete report and one that reaches the threshold, and
\* the worksheet on disk agrees with the exit code of the validation that
\* wrote it (run_odbc_release_gate.py, run_odbc_operational_validation.py).
THEOREM PassEarned == OdbcSpec => []PassIsEarned
<1>1. OdbcInit => OdbcInv
  BY OdbcInitOK
<1>2. OdbcInv /\ [OdbcNext]_odbcVars => OdbcInv'
  BY OdbcNextOK
<1>3. OdbcInv => PassIsEarned
  BY InvEarned
<1> QED
  BY <1>1, <1>2, <1>3, PTL DEF OdbcSpec

=============================================================================
