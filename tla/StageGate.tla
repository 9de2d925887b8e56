----------------------------- MODULE StageGate -----------------------------
(***************************************************************************)
(* The gate of signoff.py as operators: what it makes of the results of a  *)
(* stage, of the tool logs, of the coverage reports and of the waivers.    *)
(* They are functions of what is on disk when they are evaluated.          *)
(*                                                                         *)
(* A result is [name, passed, log], log being the name of a log file.      *)
(* Blockers and waivers, texts in the code, are sets of tags.              *)
(***************************************************************************)
EXTENDS Integers, FiniteSets, SimLog

CONSTANTS
  MinPassed,    \* STAGE_MIN_PASSED: the stages that have one -> how many
  MaxFailPct,   \* MAX_STAGE_FAIL_RATE_FOR_WAIVER, in percent
  MinPassRate,  \* --min-pass-rate, in percent
  Thresholds,   \* metric -> least coverage, 0 for none
  Policy        \* what evaluate_signoff is told of test lists and waivers

ASSUME MinPassedAssumption == \A s \in DOMAIN MinPassed : MinPassed[s] \in Nat \ {0}
ASSUME PercentAssumption == MaxFailPct \in 0..100 /\ MinPassRate \in 0..100
ASSUME ThresholdsAssumption == \A m \in DOMAIN Thresholds : Thresholds[m] \in 0..100
ASSUME PolicyAssumption ==
  /\ Policy.waiverErrors \in BOOLEAN    \* validate_waiver_schema found one
  /\ Policy.cosimReason \in BOOLEAN     \* a test list has a cosim_reason
  /\ Policy.failOnDisabled \in BOOLEAN  \* no --no-fail-on-cosim-disabled
  /\ Policy.failOnSkipped \in BOOLEAN   \* no --no-fail-on-skip-in-signoff
  /\ Policy.cosimAll \in BOOLEAN        \* --require-cosim-all-tests
  /\ {Policy.disabled, Policy.skipped, Policy.waived} \subseteq SUBSET STRING

TagIf(condition, tag) == IF condition THEN {tag} ELSE {}

-----------------------------------------------------------------------------
(***************************************************************************)
(* load_stage_summary and collect_stage                                    *)
(***************************************************************************)
\* refresh_failure_classification: the log as it is now decides, without the
\* return code of the simulation and whatever the runner said.
Refreshed(result, disk) ==
  IF result.log \notin DOMAIN disk THEN result
  ELSE IF ~disk[result.log].exists THEN result
  ELSE [result EXCEPT !.passed = CheckLog(disk[result.log], FALSE, FALSE).passed]

Refresh(results, disk) == {Refreshed(r, disk) : r \in results}

Passing(results) == {r \in results : r.passed}
Failing(results) == {r \in results : ~r.passed}

StageResult(stage, exit, total, passed, failed, tests, status, blockers, waivers) ==
  [stage |-> stage, exit |-> exit, total |-> total, passed |-> passed,
   failed |-> failed, tests |-> tests, status |-> status,
   blockers |-> blockers, waivers |-> waivers]

StatusOf(blockers) == IF blockers = {} THEN "PASS" ELSE "FAIL"

ThresholdMet(stage, total, passed, failed) ==
  /\ stage \in DOMAIN MinPassed
  /\ total > 0
  /\ passed >= MinPassed[stage]
  /\ 100 * failed <= MaxFailPct * total

\* With enough passing tests the exit code of the runner and the failing tests
\* are noted as waived, and the status is what remains.
CollectStage(stage, results, exit, warned) ==
  LET total == Cardinality(results)
      passed == Cardinality(Passing(results))
      failed == total - passed
      found == TagIf(exit # 0, "exit code") \union TagIf(total = 0, "no results")
               \union TagIf(failed > 0, "failed") \union TagIf(warned, "warnings")
      waivers == IF ThresholdMet(stage, total, passed, failed)
                   THEN found \intersect {"exit code", "failed"} ELSE {}
  IN  StageResult(stage, exit, total, passed, failed, results,
                  StatusOf(found \ waivers), found \ waivers, waivers)

-----------------------------------------------------------------------------
(***************************************************************************)
(* The stages that have no report: their newest log is read, the exit code *)
(* of their command is not (exit is 0 in the result).                      *)
(***************************************************************************)
ToolResult(stage, total, passed, failed, status, blockers) ==
  StageResult(stage, 0, total, passed, failed, {}, status, blockers, {})

\* lint/build exists, and how many errors the files in it count.
CollectLint(evidence) ==
  IF ~evidence.dir THEN ToolResult("lint", 0, 0, 0, "FAIL", {"not run"})
  ELSE IF evidence.errors = 0 THEN ToolResult("lint", 1, 1, 0, "PASS", {})
  ELSE ToolResult("lint", 1, 0, 1, "FAIL", {"errors"})

\* The last assertion summary of the newest prove log, or zeros.
CollectFormal(evidence) ==
  LET blockers == TagIf(evidence.total = 0, "no results")
                  \union TagIf(evidence.failed > 0, "failed")
  IN  ToolResult("formal", evidence.total, evidence.passed, evidence.failed,
                 StatusOf(blockers), blockers)

\* evaluate_lec_blocklevel: beyond the second threshold the outcome is the same.
LecBlockLevel(evidence) ==
  IF evidence.failing > 0 THEN "FAIL"
  ELSE IF evidence.unverified <= 5 THEN "PASS" ELSE "WAIVE_TOOL_LIMITED"

\* The final LEC log (known: --lec-known-limited), or the block-level summary,
\* which does not count aborted points.
CollectSyn(evidence) ==
  LET total == evidence.passing + evidence.failing + evidence.unverified
                 + (IF evidence.block THEN 0 ELSE evidence.aborted)
      succeeded == evidence.verification = "SUCCEEDED" /\ evidence.failing = 0
      limited == evidence.known /\ ~succeeded /\ ~evidence.trueBug
      status == IF evidence.block THEN LecBlockLevel(evidence)
                ELSE IF succeeded THEN "PASS"
                ELSE IF limited THEN "WAIVE_TOOL_LIMITED" ELSE "FAIL"
      blockers == IF evidence.block \/ limited
                    THEN TagIf(status # "PASS", "LEC note")
                    ELSE TagIf(evidence.verification = "FAILED", "LEC failed")
                         \union TagIf(evidence.unverified > 0, "unverified")
  IN  ToolResult("syn", total, evidence.passing, evidence.failing, status, blockers)

CollectTool(stage, evidence) ==
  CASE stage = "lint" -> CollectLint(evidence)
    [] stage = "formal" -> CollectFormal(evidence)
    [] stage = "syn" -> CollectSyn(evidence)

-----------------------------------------------------------------------------
(***************************************************************************)
(* evaluate_coverage: reports is a set of parsed files, each a function    *)
(* from the metrics it names to a percentage.  The best value of each      *)
(* metric counts, whatever file it comes from; without an overall value    *)
(* their mean, rounded down here, stands for it.                           *)
(***************************************************************************)
Metrics(reports) ==
  LET named == UNION {DOMAIN r : r \in reports}
      values(m) == {r[m] : r \in {q \in reports : m \in DOMAIN q}}
  IN  [m \in named |-> CHOOSE v \in values(m) : \A w \in values(m) : w <= v]

MetricsTotal(metrics) ==
  LET total[left \in SUBSET DOMAIN metrics] ==
        IF left = {} THEN 0
        ELSE LET m == CHOOSE m \in left : TRUE IN metrics[m] + total[left \ {m}]
  IN  total[DOMAIN metrics]

WithOverall(metrics) ==
  IF "overall" \in DOMAIN metrics \/ DOMAIN metrics = {} THEN metrics
  ELSE [m \in DOMAIN metrics \union {"overall"} |->
          IF m # "overall" THEN metrics[m]
          ELSE MetricsTotal(metrics) \div Cardinality(DOMAIN metrics)]

MetricMissed(metrics, m) ==
  Thresholds[m] > 0 /\ (m \notin DOMAIN metrics \/ metrics[m] < Thresholds[m])

\* reports is empty when nothing asks for coverage and no path is given; required
\* is set in the full profile and without --no-require-coverage.
EvaluateCoverage(reports, required) ==
  LET asked == required \/ \E m \in DOMAIN Thresholds : Thresholds[m] > 0
      metrics == WithOverall(Metrics(reports))
  IN  IF \/ asked /\ DOMAIN metrics = {}
         \/ \E m \in DOMAIN Thresholds : MetricMissed(metrics, m)
        THEN "FAIL"
      ELSE IF ~asked /\ DOMAIN metrics = {} THEN "SKIP" ELSE "PASS"

-----------------------------------------------------------------------------
(***************************************************************************)
(* evaluate_signoff                                                        *)
(***************************************************************************)
Waived(result) == result.status = "WAIVE_TOOL_LIMITED"

RateMissed(result) ==
  /\ ~(result.stage = "formal" /\ result.failed = 0)
  /\ ~(result.stage \in DOMAIN MinPassed /\ result.passed >= MinPassed[result.stage])
  /\ \/ result.total = 0 /\ MinPassRate > 0
     \/ 100 * result.passed < MinPassRate * result.total

StageBlocks(result) ==
  ~Waived(result) /\ (result.status # "PASS" \/ RateMissed(result))

\* load_waiver_set, when validate_waiver_schema found no error.
WaivedTests == IF Policy.waiverErrors THEN {} ELSE Policy.waived

PolicyBlocks ==
  \/ Policy.cosimReason
  \/ (Policy.failOnDisabled \/ Policy.failOnSkipped) /\ Policy.waiverErrors
  \/ Policy.failOnDisabled /\ ~(Policy.disabled \subseteq WaivedTests)
  \/ Policy.failOnSkipped /\ ~(Policy.skipped \subseteq WaivedTests)
  \/ Policy.cosimAll /\ Policy.disabled # {}

\* results: the results of the stages; coverage: of EvaluateCoverage.
EvaluateSignoff(results, coverage, precheckPassed) ==
  LET blockers == TagIf(~precheckPassed, "precheck")
                  \union TagIf(results = {}, "no stages")
                  \union {r.stage : r \in {q \in results : StageBlocks(q)}}
                  \union TagIf(coverage = "FAIL", "coverage")
                  \union TagIf(PolicyBlocks, "policy")
  IN  [status |-> IF blockers # {} THEN "FAIL"
                  ELSE IF \E r \in results : Waived(r) THEN "PASS_WITH_WAIVERS"
                  ELSE "PASS",
       blockers |-> blockers]
=============================================================================
