-------------------------- MODULE BenchmarkBaseline --------------------------
(***************************************************************************)
(* How measurements become the committed performance baseline: a           *)
(* controlled comparison of the candidate with a base checkout             *)
(* (run_transport_comparison.py), a run of the suites that may attach it   *)
(* (run_benchmark_suite.py), a comparison with the baseline                *)
(* (compare_benchmark_summary.py) and the promotion of a run               *)
(* (promote_benchmark_baseline.py).  The decisions are those of            *)
(* tool/py/benchmark_common.py.  Somebody works on the checkout meanwhile. *)
(*                                                                         *)
(* Sources, harness and machine are numbers, and a change gives one that   *)
(* was not there before.  A summary is what summary.json tells apart.      *)
(***************************************************************************)
EXTENDS Naturals, Sequences, FiniteSets

CONSTANTS
    Selections,       \* the plans of a run: sequences of [id, enabled]
    Outcomes,         \* suite -> what measuring it may give: [status, metrics]
    Required,         \* suite -> the metrics it has to report
    Sections,         \* [control, forward, reverse]: results of a comparison
    MaxSummaries,     \* runs of the suites that leave a summary
    MaxConditions     \* changes to sources, harness and machine

ASSUME ConditionsAssumption == MaxConditions \in Nat
ASSUME SummariesAssumption == MaxSummaries \in Nat
\* A plan is of suites that run_benchmark_suite.py knows the metrics of.
ASSUME SelectionsAssumption ==
    \A selection \in Selections : selection \in Seq([id : DOMAIN Required, enabled : BOOLEAN])

VARIABLES
    conditions,       \* [source, harness, machine]
    transport,        \* the controlled comparison under way
    report,           \* comparison.json
    suite,            \* the run of the suites under way
    summaries,        \* the summaries on disk, by run id
    baseline,         \* benchmarks/baseline/summary.json
    verdict           \* the last comparison with the baseline

baselineVars == <<conditions, transport, report, suite, summaries, baseline, verdict>>

NoSource == MaxConditions + 1
NoSections == [control |-> "pending", forward |-> "pending", reverse |-> "pending"]
Inconclusive == [status |-> "inconclusive", candidate |-> NoSource,
                 sections |-> NoSections, measured |-> {}]
NoTransport == [step |-> "idle", candidate |-> NoSource, harness |-> 0, measured |-> {}]
NoSuite == [step |-> "idle", plan |-> <<>>, results |-> <<>>]
NoVerdict == [code |-> 2, current |-> 0, against |-> <<>>]

\* A summary of the first schema, as the repository has it: no identities and
\* no qualification.  <<>> is a file that was cut off.
Legacy == [schema |-> 1, source |-> NoSource, machine |-> 0,
           suites |-> [id \in DOMAIN Required |->
              [status |-> "pass", metrics |-> [key \in Required[id] |-> 100], identity |-> <<>>]],
           qualification |-> "none", comparison |-> Inconclusive]
Torn == <<>>

BaselineInit ==
    /\ conditions = [source |-> 0, harness |-> 0, machine |-> 0]
    /\ transport = NoTransport
    /\ report = Inconclusive
    /\ suite = NoSuite
    /\ summaries = <<>>
    /\ baseline = <<Legacy>>
    /\ verdict = NoVerdict

ChangeConditions(what) ==
    /\ conditions.source + conditions.harness + conditions.machine < MaxConditions
    /\ conditions' = [conditions EXCEPT ![what] = @ + 1]
    /\ UNCHANGED <<transport, report, suite, summaries, baseline, verdict>>

-----------------------------------------------------------------------------
(* The controlled comparison.                                              *)

collect_source_identity == conditions.source

approved_controlled_comparison(r) ==
    /\ r.status = "pass"
    /\ \A s \in DOMAIN r.sections : r.sections[s] = "pass"

\* "control" stands for the identical-code control in both directions.
qualify(sections) ==
    IF sections.control # "pass" THEN "inconclusive"
    ELSE IF "pending" \in {sections.forward, sections.reverse} THEN "inconclusive"
    ELSE IF "fail" \in {sections.forward, sections.reverse} THEN "fail" ELSE "pass"

\* comparison.json says at once that a measurement is in progress.
StartComparison ==
    /\ transport.step = "idle"
    /\ report' = Inconclusive
    /\ transport' = [NoTransport EXCEPT !.step = "identify", !.harness = conditions.harness]
    /\ UNCHANGED <<conditions, suite, summaries, baseline, verdict>>

IdentifyCandidate ==
    /\ transport.step = "identify"
    /\ transport' = [transport EXCEPT !.step = "forward", !.candidate = collect_source_identity]
    /\ UNCHANGED <<conditions, report, suite, summaries, baseline, verdict>>

\* The candidate is measured forward, in reverse and for its heap.
run_measurement ==
    /\ transport.step \in {"forward", "reverse", "diagnostics"}
    /\ transport' = [transport EXCEPT
          !.step = CASE @ = "forward" -> "reverse"
                     [] @ = "reverse" -> "diagnostics"
                     [] OTHER -> "report",
          !.measured = @ \cup {conditions.source}]
    /\ UNCHANGED <<conditions, report, suite, summaries, baseline, verdict>>

\* A comparison during which the sources or the harness changed is inconclusive.
WriteComparison(sections) ==
    /\ transport.step = "report"
    /\ report' = [status |-> IF \/ transport.candidate # collect_source_identity
                               \/ transport.harness # conditions.harness
                            THEN "inconclusive" ELSE qualify(sections),
                  candidate |-> transport.candidate,
                  sections |-> sections, measured |-> transport.measured]
    /\ transport' = NoTransport
    /\ UNCHANGED <<conditions, suite, summaries, baseline, verdict>>

\* A measurement fails: the report has a reason and no candidate.
ComparisonFails ==
    /\ transport.step # "idle"
    /\ report' = Inconclusive
    /\ transport' = NoTransport
    /\ UNCHANGED <<conditions, suite, summaries, baseline, verdict>>

-----------------------------------------------------------------------------
(* A run of the suites.                                                    *)

StartSuiteRun(selection) ==
    /\ suite.step = "idle"
    /\ Len(summaries) < MaxSummaries
    /\ suite' = [NoSuite EXCEPT !.step = "measuring", !.plan = selection]
    /\ UNCHANGED <<conditions, transport, report, summaries, baseline, verdict>>

MeasureSuite ==
    /\ suite.step = "measuring"
    /\ suite.plan # <<>>
    /\ LET next == Head(suite.plan)
           Recorded(outcome) ==
               [id \in DOMAIN suite.results \cup {next.id} |->
                   IF id = next.id THEN outcome ELSE suite.results[id]]
       IN  \E outcome \in IF next.enabled THEN Outcomes[next.id]
                          ELSE {[status |-> "skipped", metrics |-> <<>>]} :
               suite' = [suite EXCEPT !.plan = Tail(@), !.results = Recorded(outcome)]
    /\ UNCHANGED <<conditions, transport, report, summaries, baseline, verdict>>

complete_suite_metrics(id, metrics) ==
    DOMAIN metrics # {} /\ Required[id] \subseteq DOMAIN metrics

\* The identity of a suite that was measured, <<>> for one that was skipped.
Summarised(id, result) ==
    LET status == IF result.status = "pass" /\ ~complete_suite_metrics(id, result.metrics)
                  THEN "inconclusive" ELSE result.status
    IN  [status |-> status, metrics |-> result.metrics,
         identity |-> IF status = "skipped" THEN <<>> ELSE <<conditions.harness>>]

Qualification(suites) ==
    LET Some(status) == \E id \in DOMAIN suites : suites[id].status = status
    IN  IF Some("fail") THEN "fail"
        ELSE IF ~Some("pass") \/ Some("inconclusive") THEN "inconclusive" ELSE "pass"

\* Faulty: does not ask which source was compared.
AttachedUnmatched(source) ==
    IF report.status = "pass" /\ ~approved_controlled_comparison(report) THEN Inconclusive
    ELSE report

AttachedComparison(source) ==
    IF report.candidate # source THEN Inconclusive
    ELSE IF report.status = "pass" /\ ~approved_controlled_comparison(report) THEN Inconclusive
    ELSE report

\* Commit and digest; the branch and the dirty flag decide nothing.
collect_git_metadata == collect_source_identity
collect_machine_metadata == conditions.machine

\* The source a summary names is the one found when every suite is through.
WriteSummary(attach) ==
    /\ suite.step = "measuring"
    /\ suite.plan = <<>>
    /\ LET suites == [id \in DOMAIN suite.results |-> Summarised(id, suite.results[id])]
       IN  summaries' = Append(summaries,
              [schema |-> 2, source |-> collect_git_metadata, machine |-> collect_machine_metadata,
               suites |-> suites, qualification |-> Qualification(suites),
               comparison |-> IF attach THEN AttachedComparison(collect_git_metadata)
                              ELSE Inconclusive])
    /\ suite' = NoSuite
    /\ UNCHANGED <<conditions, transport, report, baseline, verdict>>

SuiteRunStops ==
    /\ suite.step = "measuring"
    /\ suite' = NoSuite
    /\ UNCHANGED <<conditions, transport, report, summaries, baseline, verdict>>

-----------------------------------------------------------------------------
(* Comparison with the baseline, and promotion.                            *)

\* The suites of both summaries that cannot be compared.
incompatible_benchmark_suite_reasons(b, c) ==
    {id \in DOMAIN b.suites \cap DOMAIN c.suites :
        \/ <<>> \in {b.suites[id].identity, c.suites[id].identity}
        \/ b.suites[id].identity # c.suites[id].identity
        \/ b.machine # c.machine}

metric_metadata(key) ==
    CASE key \in {"p95_us", "elapsed_ms"} -> [category |-> "latency", direction |-> "lower"]
      [] key = "queries_per_sec" -> [category |-> "throughput", direction |-> "higher"]
      [] key = "heap_growth" -> [category |-> "memory", direction |-> "lower"]
      [] OTHER -> [category |-> "configuration", direction |-> "none"]

metric_lower_is_better(key) == metric_metadata(key).direction # "higher"

\* <<suite, metric>> -> value, over the performance metrics of the suites that passed.
flatten_suite_metrics(summary, excluded) ==
    LET kept == {id \in DOMAIN summary.suites \ excluded : summary.suites[id].status = "pass"}
        Performance(id) == {key \in DOMAIN summary.suites[id].metrics :
                               metric_metadata(key).category # "configuration"}
    IN  [m \in UNION {{id} \X Performance(id) : id \in kept} |-> summary.suites[m[1]].metrics[m[2]]]

\* In per cent: the default of --threshold, and the caps of single metrics.
Threshold == 20
Limit(key) ==
    CASE key = "p95_us" -> 5
      [] metric_metadata(key).category = "throughput" -> 15
      [] key = "heap_growth" -> 10
      [] OTHER -> Threshold

Regression(key, before, after) ==
    IF metric_lower_is_better(key) THEN 100 * after > before * (100 + Limit(key))
    ELSE 100 * after < before * (100 - Limit(key))

Regressions(before, after) ==
    {m \in DOMAIN before \cap DOMAIN after : Regression(m[2], before[m], after[m])}

Qualified(c) ==
    /\ c.qualification = "pass"
    /\ approved_controlled_comparison(c.comparison)
    /\ c.comparison.candidate = c.source

CompareExit(b, c, qualified) ==
    LET excluded == incompatible_benchmark_suite_reasons(b, c)
        before == flatten_suite_metrics(b, excluded)
        after == flatten_suite_metrics(c, excluded)
    IN  IF \/ DOMAIN before \cap DOMAIN after = {}
           \/ excluded # {}
           \/ DOMAIN before # DOMAIN after
           \/ \E id \in DOMAIN c.suites : c.suites[id].status \notin {"pass", "skipped"}
           \/ ~qualified
        THEN 2
        ELSE IF Regressions(before, after) # {} THEN 1 ELSE 0

\* load_summary raises on a file that is not a summary, and nothing catches it.
load_summary(file) == file # Torn

CompareWith(i, Exit(_, _)) ==
    /\ verdict' = [code |-> IF load_summary(baseline) THEN Exit(baseline[1], summaries[i]) ELSE 1,
                   current |-> i, against |-> baseline]
    /\ UNCHANGED <<conditions, transport, report, suite, summaries, baseline>>

\* Faulty: does not ask for a controlled comparison.
CompareUnqualified(i) == CompareWith(i, LAMBDA b, c : CompareExit(b, c, TRUE))

CompareSummary(i) == CompareWith(i, LAMBDA b, c : CompareExit(b, c, Qualified(c)))

Promotable(s) ==
    LET measured == {id \in DOMAIN s.suites : s.suites[id].status # "skipped"}
    IN  /\ s.schema = 2
        /\ Qualified(s)
        /\ measured # {}
        /\ \A id \in measured : /\ s.suites[id].status = "pass"
                                 /\ complete_suite_metrics(id, s.suites[id].metrics)
                                 /\ s.suites[id].identity # <<>>
        /\ DOMAIN flatten_suite_metrics(s, {}) # {}

\* The file is written in place: the process may die in the middle of it.
write_json(summary, survives) == IF survives THEN <<summary>> ELSE Torn

promote_summary(i, survives) ==
    /\ Promotable(summaries[i])
    /\ baseline' = write_json(summaries[i], survives)
    /\ UNCHANGED <<conditions, transport, report, suite, summaries, verdict>>

-----------------------------------------------------------------------------
BaselineNext ==
    \/ \E what \in {"source", "harness", "machine"} : ChangeConditions(what)
    \/ StartComparison \/ IdentifyCandidate \/ run_measurement \/ ComparisonFails
    \/ \E sections \in Sections : WriteComparison(sections)
    \/ \E selection \in Selections : StartSuiteRun(selection)
    \/ MeasureSuite \/ SuiteRunStops
    \/ \E attach \in BOOLEAN : WriteSummary(attach)
    \/ \E i \in 1..Len(summaries) :
           \/ CompareSummary(i)
           \/ \E survives \in BOOLEAN : promote_summary(i, survives)

BaselineSpec == BaselineInit /\ [][BaselineNext]_baselineVars

Summaries == {summaries[i] : i \in 1..Len(summaries)} \cup {baseline[i] : i \in 1..Len(baseline)}

BaselineTypeOK ==
    /\ conditions \in [{"source", "harness", "machine"} -> 0..MaxConditions]
    /\ transport.step \in {"idle", "identify", "forward", "reverse", "diagnostics", "report"}
    /\ transport.measured \subseteq 0..MaxConditions
    /\ report.status \in {"pass", "fail", "inconclusive"}
    /\ report.candidate \in 0..NoSource
    /\ suite.step \in {"idle", "measuring"}
    /\ DOMAIN suite.results \subseteq DOMAIN Required
    /\ Len(summaries) <= MaxSummaries
    /\ Len(baseline) <= 1
    /\ verdict.code \in 0..2 /\ verdict.current \in 0..Len(summaries)

(* Whatever was edited, and whenever: a summary whose controlled comparison  *)
(* is approved, the baseline above all, names a source, and every            *)
(* measurement of that comparison was of this source and of no other         *)
(* (run_transport_comparison.py looks at the sources before and after,       *)
(* run_benchmark_suite.py and promote_benchmark_baseline.py match them).     *)
ApprovedMeansMeasured ==
    \A s \in Summaries :
        approved_controlled_comparison(s.comparison) =>
            /\ s.comparison.candidate = s.source
            /\ s.comparison.measured = {s.source}

(* When the comparison with the baseline ends with 0, it compared like with  *)
(* like, every performance metric of both, and the run it accepts is one     *)
(* that the promotion accepts (compare_benchmark_summary.py against          *)
(* promote_benchmark_baseline.py, which decide on their own).                *)
PassedComparisonIsConclusive ==
    /\ BaselineTypeOK
    /\ verdict.code = 0 =>
          LET b == verdict.against[1]  c == summaries[verdict.current]
          IN  /\ Promotable(c)
              /\ b.machine = c.machine
              /\ \A id \in DOMAIN c.suites \cap DOMAIN b.suites :
                    b.suites[id].identity = c.suites[id].identity
              /\ DOMAIN flatten_suite_metrics(b, {}) = DOMAIN flatten_suite_metrics(c, {})
=============================================================================
