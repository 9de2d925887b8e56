------------------------------ MODULE SignOff ------------------------------
(***************************************************************************)
(* signoff.py: an invocation runs the stages one after the other, collects *)
(* what each left, merges coverage, evaluates the gates and writes         *)
(* signoff_status.json and signoff_report.md.  A later invocation on the   *)
(* same output directory finds the logs, pickles and reports of the        *)
(* earlier ones, and so does the gate when a stage was killed.             *)
(*                                                                         *)
(* The runners are modelled by what they leave behind (run_regress.py in   *)
(* full in Regression, the compliance stage in Compliance).  Files carry   *)
(* the number of the invocation that wrote them (0: no file).              *)
(***************************************************************************)
EXTENDS StageGate, Sequences

CONSTANTS
  StageList,    \* the stages of the profile, in order
  Kind,         \* stage -> "regress", "csr" or "tool"
  TestsOf,      \* stage -> its tests
  SimLogs,      \* sets of lines a simulation may print
  ToolOutcomes, \* tool stage -> the evidence its command may leave
  CovOutcomes,  \* what a coverage report may say: metric -> percentage
  PoolSize,     \* entries of the test lists
  Unlisted,     \* a directed test on disk is in no test list
  Elsewhere,    \* the coverage reports found outside the merged directory
  Parallel,     \* --parallel: simulations at one time
  Options,      \* the command lines to choose from
  MaxOrphans,   \* bound: simulations that outlive their runner at one time
  MaxRuns       \* bound: invocations on one output directory

StageNames == {StageList[i] : i \in DOMAIN StageList}
ToolStages == {s \in StageNames : Kind[s] = "tool"}
TestStages == StageNames \ ToolStages
Tests == UNION {TestsOf[s] : s \in TestStages}

ASSUME StagesAssumption ==
  /\ StageList \in Seq(StageNames)
  /\ Kind \in [StageNames -> {"regress", "csr", "tool"}]
  /\ ToolStages = DOMAIN ToolOutcomes /\ ToolStages \subseteq {"lint", "formal", "syn"}
  /\ \A s \in TestStages : IsFiniteSet(TestsOf[s])
  /\ \A s, t \in TestStages : s # t => TestsOf[s] \intersect TestsOf[t] = {}
  /\ "process" \notin Tests
  /\ SimLogs \subseteq SUBSET LineKinds
  /\ PoolSize \in Nat
  /\ Unlisted \in BOOLEAN
ASSUME ParallelAssumption == Parallel \in Nat \ {0}
ASSUME BoundsAssumption == MaxRuns \in Nat /\ MaxOrphans \in Nat
ASSUME OptionsAssumption ==
  \A o \in Options : /\ o.gateOnly \in BOOLEAN          \* --gate-only
                     /\ o.replay \subseteq StageNames   \* --stage-result
                     /\ o.required \in BOOLEAN          \* no --no-require-coverage
                     /\ o.warnings \in BOOLEAN          \* --allow-warnings

VARIABLES
  opts, run,
  pc,           \* "idle", "stage", "runner", "collect", "gate", "report"
  at,           \* the place in StageList
  state,        \* test -> "todo", "running" or "done" in the current stage
  lost,         \* the tests whose log is not that of a simulation of this invocation
                \* alone: the bench could not be built, or an older one wrote too
  mem,          \* the results the runner holds
  code,         \* exit code of the runner
  orphans,      \* simulations that outlived their runner
  log,          \* test -> its log; "process" stands for the compiler's logs
  pkl,          \* test -> result.pkl: a set of at most one result
  reports,      \* stage -> report.json: at most one set of results
  evidence,     \* tool stage -> what its log says
  cov,          \* the coverage reports in the merged directory, at most one
  results,      \* the stage results so far
  json, md,     \* the two reports
  exit          \* exit code of the last invocation

vars == <<opts, run, pc, at, state, lost, mem, code, orphans, log, pkl,
          reports, evidence, cov, results, json, md, exit>>

runner == <<state, lost, mem, code, orphans>>
Idle == [t \in Tests |-> "todo"]
files == <<log, pkl, reports>>
final == <<json, md, exit>>

Runs == 0..MaxRuns
Stage == StageList[at]
Passes == {"PASS", "PASS_WITH_WAIVERS"}

Result(t, passed, logName) == [name |-> t, passed |-> passed, log |-> logName]

Init ==
  /\ opts \in Options
  /\ run = 0
  /\ pc = "idle"
  /\ at = 1
  /\ state = Idle
  /\ lost = {}
  /\ mem = {}
  /\ code = 0
  /\ orphans = {}
  /\ log = [f \in Tests \union {"process"} |-> IF f = "process" THEN Log({}, 0) ELSE NoLog]
  /\ pkl = [t \in Tests |-> {}]
  /\ reports = [s \in TestStages |-> {}]
  /\ evidence \in [ToolStages -> UNION {ToolOutcomes[s] : s \in ToolStages}]
  /\ \A s \in ToolStages : evidence[s] \in ToolOutcomes[s]
  /\ cov = {}
  /\ results = {}
  /\ json = [run |-> 0, status |-> "FAIL", blocked |-> TRUE]
  /\ md = [run |-> 0, status |-> "FAIL"]
  /\ exit = 1

-----------------------------------------------------------------------------
StartSignOff ==
  /\ pc = "idle"
  /\ run < MaxRuns
  /\ run' = run + 1
  /\ opts' \in Options
  /\ pc' = "stage"
  /\ UNCHANGED <<at, runner, files, evidence, cov, results, final>>

\* A replayed stage has the exit code 0, a gate-only one 1.
StartStage ==
  /\ pc = "stage"
  /\ at \in DOMAIN StageList
  /\ IF Stage \in opts.replay \/ opts.gateOnly
       THEN pc' = "collect" /\ code' = IF Stage \in opts.replay THEN 0 ELSE 1
       ELSE pc' = "runner" /\ code' = 0
  /\ UNCHANGED <<opts, run, at, state, lost, mem, orphans, files, evidence, cov,
                 results, final>>

-----------------------------------------------------------------------------
(***************************************************************************)
(* The runners of the test stages                                          *)
(***************************************************************************)
Running(t) == pc = "runner" /\ Kind[Stage] # "tool" /\ t \in TestsOf[Stage]

Free == Cardinality({t \in Tests : state[t] = "running"}) <
          IF Kind[Stage] = "csr" THEN 1 ELSE Parallel

Ready(t) == Running(t) /\ state[t] = "todo" /\ Free

Record(t, result) ==
  /\ state' = [state EXCEPT ![t] = "done"]
  /\ mem' = mem \union {result}
  /\ pkl' = IF Kind[Stage] = "regress" THEN [pkl EXCEPT ![t] = {result}] ELSE pkl

\* Generation or compilation failed: run_regress.py names the log of that
\* process.  The unit runner names the simulation log, which is an old one.
FailEarly(t) ==
  /\ Ready(t)
  /\ Record(t, Result(t, FALSE, IF Kind[Stage] = "csr" THEN t ELSE "process"))
  /\ UNCHANGED <<opts, run, pc, at, lost, code, orphans, log, reports,
                 evidence, cov, results, final>>

\* run_regress.py checks the log although run_rtl.py could not build the bench.
LoseBench(t) ==
  /\ Ready(t)
  /\ Kind[Stage] = "regress"
  /\ LET verdict == CheckLog(log[t], ~opts.warnings, TRUE)
     IN  Record(t, Result(t, verdict.passed, t))
  /\ lost' = lost \union {t}
  /\ UNCHANGED <<opts, run, pc, at, code, orphans, log, reports, evidence,
                 cov, results, final>>

StartSim(t) ==
  /\ Ready(t)
  /\ state' = [state EXCEPT ![t] = "running"]
  /\ log' = [log EXCEPT ![t] = Log({}, run)]
  /\ lost' = lost \ {t}
  /\ UNCHANGED <<opts, run, pc, at, mem, code, orphans, pkl, reports,
                 evidence, cov, results, final>>

\* run_one of the unit runner: the pass marker decides first, a log without any
\* marker passes.
UnitVerdict(lines) ==
  Verdict("pass" \in lines \/ lines \intersect {"fail", "fatal", "error"} = {}, "")

EndSim(t) ==
  /\ Running(t) /\ state[t] = "running"
  /\ \E lines \in SimLogs :
       LET after == [log[t] EXCEPT !.lines = @ \union (lines \X {run})]
           verdict == IF Kind[Stage] = "csr" THEN UnitVerdict(KindsIn(after))
                      ELSE CheckLog(after, ~opts.warnings, FALSE)
       IN  /\ log' = [log EXCEPT ![t] = after]
           /\ Record(t, Result(t, verdict.passed, t))
  /\ UNCHANGED <<opts, run, pc, at, lost, code, orphans, reports, evidence,
                 cov, results, final>>

\* The report is written last; the exit code says whether a test failed.
EndRunner ==
  /\ pc = "runner" /\ Kind[Stage] # "tool"
  /\ \A t \in TestsOf[Stage] : state[t] = "done"
  /\ reports' = [reports EXCEPT ![Stage] = {mem}]
  /\ code' = IF Failing(mem) = {} THEN 0 ELSE 1
  /\ pc' = "collect"
  /\ state' = Idle
  /\ mem' = {}
  /\ UNCHANGED <<opts, run, at, lost, orphans, log, pkl, evidence, cov, results, final>>

\* What the runner held is gone, its simulations go on.
Abandon ==
  /\ state' = Idle
  /\ mem' = {}
  /\ orphans' = orphans \union
       {[test |-> t, run |-> run, strict |-> ~opts.warnings] :
          t \in {u \in Tests : Running(u) /\ state[u] = "running"}}
  /\ Cardinality(orphans') <= MaxOrphans

\* A plausible bug: a runner that was killed ended well.
StopRunner_zero ==
  /\ pc = "runner" /\ Kind[Stage] # "tool"
  /\ code' = 0
  /\ Abandon
  /\ pc' = "collect"
  /\ UNCHANGED <<opts, run, at, lost, files, evidence, cov, results, final>>

\* The runner dies of an exception, as the unit runner does of every timeout of
\* a test, or run_command kills it (124, here 1 like any code but 0).
StopRunner ==
  /\ pc = "runner" /\ Kind[Stage] # "tool"
  /\ code' = 1
  /\ Abandon
  /\ pc' = "collect"
  /\ UNCHANGED <<opts, run, at, lost, files, evidence, cov, results, final>>

\* A simulation of an earlier invocation ends during this one.
Late(o) == pc # "idle" /\ o.run # run

\* The worker of run_regress.py that waits for it still saves the pickle.
EndOrphan(o) ==
  /\ \E lines \in SimLogs :
       LET after == [log[o.test] EXCEPT !.lines = @ \union (lines \X {o.run})]
           verdict == CheckLog(after, o.strict, FALSE)
       IN  /\ log' = [log EXCEPT ![o.test] = after]
           /\ pkl' = IF \E s \in TestStages : Kind[s] = "regress" /\ o.test \in TestsOf[s]
                       THEN [pkl EXCEPT ![o.test] =
                               {Result(o.test, verdict.passed, o.test)}]
                       ELSE pkl
  /\ orphans' = orphans \ {o}
  /\ lost' = IF Late(o) THEN lost \union {o.test} ELSE lost
  /\ UNCHANGED <<opts, run, pc, at, state, mem, code, reports, evidence, cov,
                 results, final>>

\* make lint, make formal, make syn: a command that fails or is killed leaves the
\* log of an earlier one.
RunTool ==
  /\ pc = "runner" /\ Kind[Stage] = "tool"
  /\ \E found \in ToolOutcomes[Stage] \union {evidence[Stage]} :
       evidence' = [evidence EXCEPT ![Stage] = found]
  /\ pc' = "collect"
  /\ UNCHANGED <<opts, run, at, runner, files, cov, results, final>>

-----------------------------------------------------------------------------
(***************************************************************************)
(* Collection, gates and reports                                           *)
(***************************************************************************)
\* load_stage_summary: report.json, whoever wrote it, or else the pickles.
Loaded(s) ==
  Refresh(UNION (IF reports[s] # {} THEN reports[s] ELSE {pkl[t] : t \in TestsOf[s]}), log)

Warned(tests) == \E r \in tests : "warning" \in KindsIn(log[r.log])

StageCollected ==
  IF Kind[Stage] = "tool" THEN CollectTool(Stage, evidence[Stage])
  ELSE CollectStage(Stage, Loaded(Stage), code, ~opts.warnings /\ Warned(Loaded(Stage)))

\* A plausible bug: a stage without results is left out.
Collect_skip ==
  /\ pc = "collect"
  /\ results' = IF StageCollected.total = 0 THEN results ELSE results \union {StageCollected}
  /\ at' = at + 1
  /\ pc' = "stage"
  /\ UNCHANGED <<opts, run, runner, files, evidence, cov, final>>

Collect ==
  /\ pc = "collect"
  /\ results' = results \union {StageCollected}
  /\ at' = at + 1
  /\ pc' = "stage"
  /\ UNCHANGED <<opts, run, runner, files, evidence, cov, final>>

\* auto_merge_stage_coverage: the exit code of merge_cov.py is not looked at.
MergeCoverage ==
  /\ pc = "stage"
  /\ at \notin DOMAIN StageList
  /\ pc' = "gate"
  /\ \/ ~opts.gateOnly /\ \E c \in CovOutcomes : cov' = {c}
     \/ UNCHANGED cov
  /\ UNCHANGED <<opts, run, at, runner, files, evidence, results, final>>

CoverageResult == EvaluateCoverage(cov \union Elsewhere, opts.required)

\* check_directed_pool_coverage: a test on disk that is in no test list.
PoolBlockers == TagIf(Unlisted, "directed pool")

\* evaluate_signoff makes the status; the directed pool is looked at after it;
\* signoff_status.json has the status and the blockers of both.  The outcome of
\* precheck, found before the stages, is used here only.
Gate ==
  /\ pc = "gate"
  /\ \E precheckPassed \in BOOLEAN :
       LET judged == EvaluateSignoff(results, CoverageResult, precheckPassed)
           blockers == judged.blockers \union PoolBlockers
       IN  json' = [run |-> run, status |-> judged.status, blocked |-> blockers # {}]
  /\ pc' = "report"
  /\ UNCHANGED <<opts, run, at, runner, files, evidence, cov, results, md, exit>>

\* compute_real_run_count: test names of the stages that have a test list.
Listed == {r \in results : r.stage \in {"directed", "cosim", "riscvdv"}}
RealRan == Cardinality({t.name : t \in UNION {r.tests : r \in Listed}})
Partial == 100 * RealRan < 95 * (IF PoolSize = 0 THEN 1 ELSE PoolSize)

\* write_markdown_report lowers PASS, and only PASS, after the JSON is written.
Claimed(status) == IF status = "PASS" /\ Partial THEN "PARTIAL" ELSE status

\* The process ends.
Exit(status) ==
  /\ exit' = IF status \in Passes THEN 0 ELSE 1
  /\ pc' = "idle"
  /\ at' = 1
  /\ code' = 0
  /\ lost' = {}
  /\ results' = {}

\* A plausible bug: the lowered status is the one that counts from there on.
WriteReport_claimed ==
  /\ pc = "report"
  /\ md' = [run |-> run, status |-> Claimed(json.status)]
  /\ Exit(Claimed(json.status))
  /\ UNCHANGED <<opts, run, state, mem, orphans, files, evidence, cov, json>>

WriteReport ==
  /\ pc = "report"
  /\ md' = [run |-> run, status |-> Claimed(json.status)]
  /\ Exit(json.status)
  /\ UNCHANGED <<opts, run, state, mem, orphans, files, evidence, cov, json>>

\* signoff.py is interrupted, and with it the processes it started.
Interrupt ==
  /\ pc # "idle"
  /\ state' = Idle
  /\ mem' = {}
  /\ Exit("interrupted")
  /\ UNCHANGED <<opts, run, orphans, files, evidence, cov, json, md>>

RunnerStep(t) == FailEarly(t) \/ LoseBench(t) \/ StartSim(t) \/ EndSim(t)

Step == \/ StartStage \/ EndRunner \/ StopRunner \/ RunTool \/ Collect
        \/ MergeCoverage \/ Gate \/ WriteReport
        \/ \E t \in Tests : RunnerStep(t)

Next == StartSignOff \/ Interrupt \/ Step \/ \E o \in orphans : EndOrphan(o)

Spec == Init /\ [][Next]_vars

-----------------------------------------------------------------------------
IsResult(r) == /\ r.name \in Tests /\ r.passed \in BOOLEAN
               /\ r.log \in {r.name, "process"}

\* Every variable has a value of its type.  Documentation: checked by hand.
SOTypeOK ==
  /\ opts \in Options
  /\ run \in Runs
  /\ pc \in {"idle", "stage", "runner", "collect", "gate", "report"}
  /\ at \in 1..(Len(StageList) + 1)
  /\ pc \in {"runner", "collect"} => at \in DOMAIN StageList
  /\ state \in [Tests -> {"todo", "running", "done"}]
  /\ lost \subseteq Tests
  /\ \A r \in mem : IsResult(r)
  /\ code \in {0, 1}
  /\ orphans \subseteq [test : Tests, run : Runs, strict : BOOLEAN]
  /\ \A f \in DOMAIN log : log[f] \in LogsOf(Runs)
  /\ \A t \in Tests : \A r \in pkl[t] : IsResult(r)
  /\ \A s \in TestStages : \A r \in UNION reports[s] : IsResult(r)
  /\ \A s \in ToolStages : evidence[s] \in ToolOutcomes[s]
  /\ cov \subseteq CovOutcomes
  /\ \A r \in results :
       r.stage \in StageNames /\ r.status \in {"PASS", "FAIL", "WAIVE_TOOL_LIMITED"}
  /\ json.run \in Runs /\ json.status \in Passes \union {"FAIL"}
  /\ md.run \in Runs /\ md.status \in Passes \union {"FAIL", "PARTIAL"}
  /\ exit \in {0, 1}

\* A test that a stage run by this invocation counts as passed printed its pass
\* marker in this invocation, or the exit code of the stage is among the stage's
\* blockers or waivers: passes of an earlier invocation, left by a runner that
\* was killed or died or by a unit test that did not compile, are never counted
\* without a trace.  Two exceptions: after a failed bench build an old log
\* decides, and a simulation that outlived its runner writes into the log that
\* its successor opened, which passes by the marker of either.
\* (signoff.py:259-279, 311-433, run_regress.py:289-336)
StalePassNamed ==
  \A r \in results :
    r.stage \in TestStages \ opts.replay /\ ~opts.gateOnly =>
      \/ "exit code" \in r.blockers \union r.waivers
      \/ \A t \in Passing(r.tests) : t.log \in lost \/ PassPrinted(log[t.log], run)

\* A sign-off that passes has judged every stage of the profile, and every test
\* stage counted results none of which failed, or enough passes and a bounded
\* share of failures that the stage names as waived.  (signoff.py:352-433,
\* 1306-1388)
PassMeansThreshold ==
  pc = "report" /\ json.status \in Passes =>
    /\ {r.stage : r \in results} = StageNames
    /\ \A r \in results :
         r.stage \in TestStages =>
           /\ r.total > 0
           /\ \/ r.failed = 0
              \/ /\ "failed" \in r.waivers
                 /\ r.passed >= MinPassed[r.stage]
                 /\ 100 * r.failed <= MaxFailPct * r.total

\* When an invocation ended by itself, exit code and JSON say the same, and the
\* markdown report says the same or, of a full pass, PARTIAL.  Reports of an
\* interrupted invocation may be of two different ones.  (signoff.py:1391-1410,
\* 1732-1770)
ReportsAgree ==
  pc = "idle" /\ md.run = run /\ run > 0 =>
    /\ json.run = run
    /\ exit = 0 <=> json.status \in Passes
    /\ \/ md.status = json.status
       \/ md.status = "PARTIAL" /\ json.status = "PASS"

\* What docs/signoff-gates.md says of gate 6: with a directed test that is in no
\* test list, sign-off fails and names it.  The code names it among the blockers
\* of a status that is made already.  (signoff.py:1721-1730)
PoolGate == json.blocked => json.status = "FAIL"
=============================================================================
