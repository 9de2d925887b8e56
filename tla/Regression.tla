----------------------------- MODULE Regression -----------------------------
(***************************************************************************)
(* run_regress.py with the run_rtl.py it launches: one invocation runs a   *)
(* list of tests, on a pool of worker processes or one after the other,    *)
(* each through generation, compilation, simulation and the check of its   *)
(* log, and ends with a report.  Later invocations find the files of the   *)
(* earlier ones in the work directories, and the builds and simulations    *)
(* that outlived them: a limit kills run_rtl.py and not what it started.   *)
(*                                                                         *)
(* Files carry the number of the invocation that wrote them (0: no file).  *)
(* Subprocesses and the simulator are external: any outcome, and any log   *)
(* of SimLogs.                                                             *)
(***************************************************************************)
EXTENDS Integers, FiniteSets, SimLog

CONSTANTS
  NumJobs,       \* the tests of the list, one seed each
  Source,        \* job -> "riscvdv" | "directed"
  Options,       \* the command lines and work directories to choose from
  SimLogs,       \* sets of lines a simulation may print, all of them or up to
                 \* the end of the 600 s, which adds a line of kind "timeout"
  MaxRuns        \* bound: invocations on one output directory (opts.runs lowers it)

Jobs == 1..NumJobs

ASSUME NumJobsAssumption == NumJobs \in Nat \ {0}
ASSUME SourceAssumption == Source \in [Jobs -> {"riscvdv", "directed"}]
ASSUME OptionsAssumption ==
  \A o \in Options : /\ o.tests \subseteq Jobs     \* not left out by skip_in_signoff
                     /\ o.runs \in 1..MaxRuns     \* bound: invocations of it
                     /\ o.workers \in Nat \ {0}  \* --parallel
                     /\ o.warn \in BOOLEAN        \* --fail-on-warnings
                     /\ o.binary \in BOOLEAN      \* --binary: one program for every test
                     /\ o.here \in BOOLEAN        \* make compile writes into --build-dir
                     /\ DOMAIN o.dir = Jobs       \* job -> its work directory
ASSUME LogsAssumption == SimLogs \subseteq SUBSET LineKinds
ASSUME RunsAssumption == MaxRuns \in Nat \ {0}

Runs == 1..MaxRuns
Dirs == UNION {{o.dir[j] : j \in Jobs} : o \in Options}

VARIABLES
  opts,     \* what the command line fixes
  run,      \* the number of the invocation
  main,     \* run_regression: "idle", "running", "exited"
  pc,       \* job -> where its run_single_test is
  rtlFailed,\* job -> run_rtl.py returned something else than 0
  result,   \* job -> the verdict its future returns
  bench,    \* simv: "absent", "partial" while it is being linked, "ready"
  builds,   \* <<job, invocation>> -> its "make compile": "none", "compiling", "linking"
  orphans,  \* the simulations <<job, invocation>> that outlived their run_rtl.py
  asm, hex, \* directory -> the invocation that wrote the file
  log,      \* directory -> the simulation log
  named,    \* directory -> <test>_<seed>.pkl, the verdict of run_rtl.py
  pkl,      \* directory -> result.pkl
  report,   \* report.json
  exit,     \* the exit code of the last invocation
  history   \* for the properties only: job -> "opened", its run_rtl.py opened the
            \* log; a stage, an older simulation wrote into its log at that stage

vars == <<opts, run, main, pc, rtlFailed, result, bench, builds, orphans, asm, hex,
          log, named, pkl, report, exit, history>>
files == <<asm, hex, log, named, pkl>>

Stages == {"gen", "find", "compile", "rtl", "build", "launch", "sim", "check"}
Ended == {"done", "raised", "skipped"}
RtlStages == {"rtl", "build", "launch", "sim"}  \* run_rtl.py is running
Disturbable == {"sim", "check", "done"}         \* the log is open, or is read

Saved(r, verdict) == [run |-> r, verdict |-> verdict]

NoPickle == Saved(0, Verdict(FALSE, ""))
NoReport == [run |-> 0, total |-> 0, passed |-> 0, failed |-> 0]

DirOf(j) == opts.dir[j]
Alone(j) == \A k \in Jobs \ {j} : DirOf(k) # DirOf(j)
Running == {j \in Jobs : pc[j] \in Stages}
TestMatrix == [j \in Jobs |-> IF j \in opts.tests THEN "waiting" ELSE "skipped"]

Init ==
  /\ opts \in Options
  /\ run = 0
  /\ main = "idle"
  /\ pc = TestMatrix
  /\ rtlFailed = [j \in Jobs |-> FALSE]
  /\ result = [j \in Jobs |-> Verdict(FALSE, "")]
  /\ bench \in {"absent", "ready"}
  /\ builds = [b \in Jobs \X Runs |-> "none"]
  /\ orphans = {}
  /\ asm = [d \in Dirs |-> 0]
  /\ hex = [d \in Dirs |-> 0]
  /\ log = [d \in Dirs |-> NoLog]
  /\ named = [d \in Dirs |-> NoPickle]
  /\ pkl = [d \in Dirs |-> NoPickle]
  /\ report = NoReport
  /\ exit = 0
  /\ history = [j \in Jobs |-> {}]

-----------------------------------------------------------------------------
(***************************************************************************)
(* run_single_test                                                         *)
(***************************************************************************)

\* save_and_return: every early return of run_single_test goes through it.
SaveAndReturn(j, verdict) ==
  /\ result' = [result EXCEPT ![j] = verdict]
  /\ pkl' = [pkl EXCEPT ![DirOf(j)] = Saved(run, verdict)]
  /\ pc' = [pc EXCEPT ![j] = "done"]

\* A plausible bug: An early return without save_and_return.
Fail_unsaved(j, mode) ==
  /\ result' = [result EXCEPT ![j] = Verdict(FALSE, mode)]
  /\ pc' = [pc EXCEPT ![j] = "done"]
  /\ UNCHANGED pkl

Fail(j, mode) == SaveAndReturn(j, Verdict(FALSE, mode))

Goto(j, stage) == /\ pc' = [pc EXCEPT ![j] = stage]
                  /\ UNCHANGED <<result, pkl>>

\* The pool hands the jobs out in the order of the matrix.
StartTest(j) ==
  /\ main = "running"
  /\ pc[j] = "waiting"
  /\ \A k \in 1..(j - 1) : pc[k] # "waiting"
  /\ Cardinality(Running) < opts.workers
  /\ \/ opts.binary /\ Goto(j, "rtl")
     \/ ~opts.binary /\ Source[j] = "riscvdv" /\ Goto(j, "gen")
     \/ ~opts.binary /\ Source[j] = "directed" /\ Goto(j, "compile")
     \/ ~opts.binary /\ Source[j] = "directed" /\ Fail(j, "DIRECTED_ASM_MISSING")
  /\ UNCHANGED <<opts, run, main, rtlFailed, bench, builds, orphans, asm, hex, log,
                 named, report, exit, history>>

\* run_instr_gen.py: a successful run may have left no assembly file, and one that
\* failed or was killed may have left one.
Generate(j) ==
  /\ pc[j] = "gen"
  /\ \/ Goto(j, "find")
     \/ \E mode \in {"GEN_ERROR", "GEN_TIMEOUT"} : Fail(j, mode)
  /\ \/ asm' = [asm EXCEPT ![DirOf(j)] = run]
     \/ UNCHANGED asm
  /\ UNCHANGED <<opts, run, main, rtlFailed, bench, builds, orphans, hex, log, named,
                 report, exit, history>>

\* find_generated_asm takes any assembly file of the directory, however old.
FindGeneratedAsm(j) ==
  /\ pc[j] = "find"
  /\ IF asm[DirOf(j)] = 0 THEN Fail(j, "GEN_NO_ASM") ELSE Goto(j, "compile")
  /\ UNCHANGED <<opts, run, main, rtlFailed, bench, builds, orphans, asm, hex, log,
                 named, report, exit, history>>

\* compile_test.py returns 0 only when it wrote the hex file anew.
Compile(j) ==
  /\ pc[j] = "compile"
  /\ \/ /\ hex' = [hex EXCEPT ![DirOf(j)] = run]
        /\ Goto(j, "rtl")
     \/ /\ \E mode \in {"COMPILE_ERROR", "COMPILE_TIMEOUT"} : Fail(j, mode)
        /\ UNCHANGED hex
  /\ UNCHANGED <<opts, run, main, rtlFailed, bench, builds, orphans, asm, log, named,
                 report, exit, history>>

-----------------------------------------------------------------------------
(***************************************************************************)
(* run_rtl.py.  The bench is looked for in --build-dir, but "make compile" *)
(* writes it where the Makefile says (opts.here: the two are the same      *)
(* directory).  The builds of several jobs run at once in that directory.  *)
(***************************************************************************)
LookForBench(j) ==
  /\ pc[j] = "rtl"
  /\ IF bench = "absent"
       THEN /\ Goto(j, "build")
            /\ builds' = [builds EXCEPT ![<<j, run>>] = "compiling"]
       ELSE /\ Goto(j, "launch")
            /\ UNCHANGED builds
  /\ UNCHANGED <<opts, run, main, rtlFailed, bench, orphans, asm, hex, log, named,
                 report, exit, history>>

\* The linker of a build starts to write the simulator.
LinkBench(b) ==
  /\ builds[b] = "compiling"
  /\ opts.here
  /\ builds' = [builds EXCEPT ![b] = "linking"]
  /\ bench' = "partial"
  /\ UNCHANGED <<opts, run, main, pc, rtlFailed, result, orphans, files, report, exit,
                 history>>

\* run_rtl.py still waits for build b: it was not killed.
Awaited(b) == b[2] = run /\ pc[b[1]] = "build"

\* run_rtl.py returns 1 before it opened the log, or without a new verdict.
RtlFails(j) ==
  /\ rtlFailed' = [rtlFailed EXCEPT ![j] = TRUE]
  /\ Goto(j, "check")

\* What becomes of bench when build b ends: another linker may still write it.
BenchAfter(b, ok) ==
  IF builds[b] # "linking" THEN bench
  ELSE IF \E c \in DOMAIN builds \ {b} : builds[c] = "linking" THEN "partial"
  ELSE IF ok THEN "ready" ELSE "absent"

\* A plausible bug: a failed build is tried again, without a limit.
BuildEnds_retry(b, ok) ==
  /\ builds[b] # "none"
  /\ ok /\ opts.here => builds[b] = "linking"
  /\ builds' = [builds EXCEPT ![b] = "none"]
  /\ bench' = BenchAfter(b, ok)
  /\ IF Awaited(b) THEN Goto(b[1], IF ok THEN "launch" ELSE "rtl")
                   ELSE UNCHANGED <<pc, result, pkl>>
  /\ UNCHANGED <<opts, run, main, rtlFailed, orphans, asm, hex, log, named, report,
                 exit, history>>

\* A failed build is recorded by run_rtl.py and returned before the simulation:
\* the log file of an earlier run stays.  A build whose run_rtl.py was killed goes
\* on, into the next invocation too.
BuildEnds(b, ok) ==
  /\ builds[b] # "none"
  /\ ok /\ opts.here => builds[b] = "linking"
  /\ builds' = [builds EXCEPT ![b] = "none"]
  /\ bench' = BenchAfter(b, ok)
  /\ \/ ~Awaited(b) /\ UNCHANGED <<pc, rtlFailed, result, named, pkl>>
     \/ Awaited(b) /\ ok /\ Goto(b[1], "launch") /\ UNCHANGED <<rtlFailed, named>>
     \/ /\ Awaited(b) /\ ~ok /\ RtlFails(b[1])
        /\ named' = [named EXCEPT ![DirOf(b[1])] =
                       Saved(run, Verdict(FALSE, "COMPILE_ERROR"))]
  /\ UNCHANGED <<opts, run, main, orphans, asm, hex, log, report, exit, history>>

\* The configuration is missing (before the bench is looked for) or has no command
\* for the simulator (after): the log holds one line, of no kind.
ConfigError(j) ==
  /\ pc[j] \in {"rtl", "launch"}
  /\ log' = [log EXCEPT ![DirOf(j)] = Log({}, run)]
  /\ history' = [history EXCEPT ![j] = @ \union {"opened"}]
  /\ named' = [named EXCEPT ![DirOf(j)] = Saved(run, Verdict(FALSE, "CONFIG_ERROR"))]
  /\ RtlFails(j)
  /\ UNCHANGED <<opts, run, main, bench, builds, orphans, asm, hex, report, exit>>

\* A plausible bug: run_command appends to the log instead of truncating it.
Launch_append(j) ==
  /\ pc[j] = "launch"
  /\ log' = [log EXCEPT ![DirOf(j)].exists = TRUE]
  /\ history' = [history EXCEPT ![j] = @ \union {"opened"}]
  /\ Goto(j, "sim")
  /\ UNCHANGED <<opts, run, main, rtlFailed, bench, builds, orphans, asm, hex, named,
                 report, exit>>

\* run_command opens the log for writing before it starts the simulator.
Launch(j) ==
  /\ pc[j] = "launch"
  /\ log' = [log EXCEPT ![DirOf(j)] = Log({}, run)]
  /\ history' = [history EXCEPT ![j] = @ \union {"opened"}]
  /\ Goto(j, "sim")
  /\ UNCHANGED <<opts, run, main, rtlFailed, bench, builds, orphans, asm, hex, named,
                 report, exit>>

\* A simulation of job j in invocation r writes to its log, at an offset of its
\* own: of what other simulations wrote there, the lines gone may be lost.
Others(j, r) == {line \in log[DirOf(j)].lines : line[2] # r \/ ~Alone(j)}
Written(j, r, lines, gone) ==
  [log[DirOf(j)] EXCEPT !.lines = (@ \ gone) \union (lines \X {r})]

\* The end of the simulation and the rest of run_rtl.py: its own check, without
\* --fail-on-warnings, its pickle and its exit code.  A simulator that is
\* absent or half linked prints no line the checker knows and fails.  A simulation
\* that has the same log open may have written over some lines.
Simulate(j) ==
  /\ pc[j] = "sim"
  /\ \E lines \in SimLogs, failed \in BOOLEAN, gone \in SUBSET Others(j, run) :
       \E left \in SUBSET lines :
         /\ bench # "ready" => lines = {} /\ failed
         /\ left # lines => \E o \in orphans : DirOf(o[1]) = DirOf(j)
         /\ LET after == Written(j, run, left, gone)
                verdict == CheckLog(after, FALSE, failed)
            IN  /\ log' = [log EXCEPT ![DirOf(j)] = after]
                /\ named' = [named EXCEPT ![DirOf(j)] = Saved(run, verdict)]
                /\ rtlFailed' = [rtlFailed EXCEPT ![j] = ~verdict.passed]
  /\ Goto(j, "check")
  /\ UNCHANGED <<opts, run, main, bench, builds, orphans, asm, hex, report, exit,
                 history>>

\* Whatever ends run_rtl.py leaves the simulator it started to itself.
SimulatorSurvives(j) ==
  orphans' = IF pc[j] = "sim" THEN orphans \union {<<j, run>>} ELSE orphans

\* run_captured kills run_rtl.py after 1800 s, wherever it is: its build and its
\* simulation outlive it.
SimTimeout(j) ==
  /\ pc[j] \in RtlStages
  /\ Fail(j, "SIM_TIMEOUT")
  /\ SimulatorSurvives(j)
  /\ UNCHANGED <<opts, run, main, rtlFailed, bench, builds, asm, hex, log, named,
                 report, exit, history>>

\* run_rtl.py dies of an exception or a signal before it saved its pickle, and the
\* parent goes on to the log, whoever wrote it.
RtlDies(j) ==
  /\ pc[j] \in RtlStages
  /\ RtlFails(j)
  /\ SimulatorSurvives(j)
  /\ UNCHANGED <<opts, run, main, bench, builds, asm, hex, log, named, report, exit,
                 history>>

\* A simulation without a run_rtl.py goes on writing into the log it has open,
\* which a later invocation may have truncated and started to fill itself.
OrphanWrites(o) ==
  /\ o \in orphans
  /\ \E lines \in SimLogs, gone \in SUBSET Others(o[1], o[2]) :
       log' = [log EXCEPT ![DirOf(o[1])] = Written(o[1], o[2], lines, gone)]
  /\ history' = [k \in Jobs |->
                   IF DirOf(k) = DirOf(o[1]) /\ o[2] # run /\ pc[k] \in Disturbable
                     THEN history[k] \union {pc[k]} ELSE history[k]]
  /\ UNCHANGED <<opts, run, main, pc, rtlFailed, result, bench, builds, orphans, asm,
                 hex, named, pkl, report, exit>>

OrphanEnds(o) ==
  /\ o \in orphans
  /\ orphans' = orphans \ {o}
  /\ UNCHANGED <<opts, run, main, pc, rtlFailed, result, bench, builds, files, report,
                 exit, history>>

\* A plausible bug: The parent does not pass the exit code on.
CheckResult_norc(j) ==
  /\ pc[j] = "check"
  /\ SaveAndReturn(j, CheckLog(log[DirOf(j)], opts.warn, FALSE))
  /\ UNCHANGED <<opts, run, main, rtlFailed, bench, builds, orphans, asm, hex, log,
                 named, report, exit, history>>

\* Step 4 of run_single_test reads the log file whatever run_rtl.py did.
CheckResult(j) ==
  /\ pc[j] = "check"
  /\ SaveAndReturn(j, CheckLog(log[DirOf(j)], opts.warn, rtlFailed[j]))
  /\ UNCHANGED <<opts, run, main, rtlFailed, bench, builds, orphans, asm, hex, log,
                 named, report, exit, history>>

\* run_single_test raises (a full disk, no memory for a process), and kills the
\* program it waits for: with a pool the exception is printed and the job has no
\* result, without one it ends the run.
Raise(j) ==
  /\ pc[j] \in Stages
  /\ pc' = [pc EXCEPT ![j] = "raised"]
  /\ \/ opts.workers > 1 /\ UNCHANGED <<main, exit>>
     \/ opts.workers = 1 /\ main' = "exited" /\ exit' = 1
  /\ SimulatorSurvives(j)
  /\ UNCHANGED <<opts, run, rtlFailed, result, bench, builds, files, report, history>>

-----------------------------------------------------------------------------
(***************************************************************************)
(* run_regression                                                          *)
(***************************************************************************)

\* RegressionSummary.add_result, over the results that arrived.
AddResults(verdicts) ==
  [total |-> Cardinality(verdicts),
   passed |-> Cardinality({v \in verdicts : v[2].passed}),
   failed |-> Cardinality({v \in verdicts : ~v[2].passed})]

\* collect_results: result.pkl, or else any other pickle of a directory.
CollectResults ==
  LET final == {<<d, pkl[d].verdict>> : d \in {e \in Dirs : pkl[e].run # 0}}
      other == {<<d, named[d].verdict>> :
                  d \in {e \in Dirs : pkl[e].run = 0 /\ named[e].run # 0}}
  IN  AddResults(final \union other)

StartRun ==
  /\ main \in {"idle", "exited"}
  /\ run < opts.runs
  /\ run' = run + 1
  /\ main' = "running"
  /\ pc' = TestMatrix
  /\ rtlFailed' = [j \in Jobs |-> FALSE]
  /\ result' = [j \in Jobs |-> Verdict(FALSE, "")]
  /\ history' = [j \in Jobs |-> {}]
  /\ UNCHANGED <<opts, bench, builds, orphans, files, report, exit>>

FinishRun ==
  /\ main = "running"
  /\ \A j \in Jobs : pc[j] \in Ended
  /\ LET summary == AddResults({<<j, result[j]>> : j \in {k \in Jobs : pc[k] = "done"}})
     IN  /\ report' = [run |-> run, total |-> summary.total,
                       passed |-> summary.passed, failed |-> summary.failed]
         /\ exit' = IF summary.failed = 0 THEN 0 ELSE 1
  /\ main' = "exited"
  /\ UNCHANGED <<opts, run, pc, rtlFailed, result, bench, builds, orphans, files,
                 history>>

\* The simulator is removed between two invocations (make clean); a build still
\* under way loses what it linked.
CleanBench ==
  /\ main = "exited"
  /\ bench' = "absent"
  /\ builds' = [b \in DOMAIN builds |->
                  IF builds[b] = "linking" THEN "compiling" ELSE builds[b]]
  /\ UNCHANGED <<opts, run, main, pc, rtlFailed, result, orphans, files, report, exit,
                 history>>

BuildStops(b) == \E ok \in BOOLEAN : BuildEnds(b, ok)

Step(j) ==
  \/ StartTest(j) \/ Generate(j) \/ FindGeneratedAsm(j) \/ Compile(j) \/ LookForBench(j)
  \/ ConfigError(j) \/ Launch(j) \/ Simulate(j) \/ SimTimeout(j) \/ CheckResult(j)

Next ==
  \/ StartRun \/ FinishRun \/ CleanBench
  \/ \E j \in Jobs : Step(j) \/ RtlDies(j) \/ Raise(j)
  \/ \E b \in Jobs \X Runs : LinkBench(b) \/ BuildStops(b)
  \/ \E o \in orphans : OrphanWrites(o) \/ OrphanEnds(o)

\* The timeouts of run_captured end every step of a job, and run_regression only
\* waits for its futures.  Nothing is assumed of a build or an orphan.
Fairness == WF_vars(FinishRun) /\ \A j \in Jobs : WF_vars(Step(j))

Spec == Init /\ [][Next]_vars /\ Fairness

-----------------------------------------------------------------------------
\* Every variable has a value of its type.
RTypeOK ==
  /\ opts \in Options
  /\ run \in 0..MaxRuns
  /\ main \in {"idle", "running", "exited"}
  /\ pc \in [Jobs -> Stages \union Ended \union {"waiting"}]
  /\ rtlFailed \in [Jobs -> BOOLEAN]
  /\ result \in [Jobs -> Verdicts]
  /\ bench \in {"absent", "partial", "ready"}
  /\ builds \in [Jobs \X Runs -> {"none", "compiling", "linking"}]
  /\ orphans \subseteq Jobs \X Runs
  /\ asm \in [Dirs -> 0..MaxRuns]
  /\ hex \in [Dirs -> 0..MaxRuns]
  /\ log \in [Dirs -> LogsOf(Runs)]
  /\ named \in [Dirs -> [run : 0..MaxRuns, verdict : Verdicts]]
  /\ pkl \in [Dirs -> [run : 0..MaxRuns, verdict : Verdicts]]
  /\ report \in [run : 0..MaxRuns, total : Nat, passed : Nat, failed : Nat]
  /\ exit \in {0, 1}
  /\ history \in [Jobs -> SUBSET ({"opened"} \union Disturbable)]

\* The bench could not be built for the simulation of job j.
BenchFailed(j) == named[DirOf(j)] = Saved(run, Verdict(FALSE, "COMPILE_ERROR"))

\* An older simulation wrote into the log of job j since run_rtl.py opened it.
Disturbed(j) == history[j] \intersect Disturbable # {}

\* A test that alone uses its work directory passes only with a program that
\* this invocation compiled (or that the command line names) and only if this
\* invocation's simulation printed the pass marker, whatever earlier invocations
\* left in the directory and whatever the other jobs do to the bench.  The two
\* exceptions are the code's: run_rtl.py failed before it opened the log, so that
\* an old log is checked, and a simulation that outlived an earlier invocation
\* wrote into the log.  (run_regress.py:252-285, 310-325, run_rtl.py:98)
PassIsEarned ==
  \A j \in Jobs :
    pc[j] = "done" /\ result[j].passed /\ Alone(j) =>
      /\ ~opts.binary => hex[DirOf(j)] = run
      /\ \/ PassPrinted(log[DirOf(j)], run)
         \/ rtlFailed[j] /\ "opened" \notin history[j]
         \/ Disturbed(j)

\* What the comment of run_rtl.py says of a pass: a simulator that returned 0 is
\* not enough, the test printed its marker.  It does not hold when a simulation
\* that outlived an earlier run_rtl.py prints its own into the log that this one
\* opened.  (run_rtl.py:180-181)
MarkerIsOwn ==
  \A j \in Jobs :
    /\ pc[j] = "done" /\ result[j].passed /\ Alone(j)
    /\ ~rtlFailed[j] /\ history[j] \intersect {"check", "done"} = {}
    => PassPrinted(log[DirOf(j)], run)

\* The second reading of the log, in the parent process, with another option and
\* with the exit code of run_rtl.py instead of the simulator's, comes to the
\* verdict that run_rtl.py recorded, unless an older simulation wrote into the log
\* between the two.  A clean log without the pass marker and a configuration error
\* are called SIM_ERROR the second time, and only the parent looks at warnings.
\* (run_regress.py:323-333, run_rtl.py:182)
SecondCheckAgrees ==
  \A j \in Jobs :
    LET first == named[DirOf(j)].verdict
        second == result[j]
    IN  /\ pc[j] = "done" /\ Alone(j) /\ named[DirOf(j)].run = run
        /\ ~BenchFailed(j) /\ "check" \notin history[j]
        => \/ second = first
           \/ first.mode = "NO_PASS_SIGNATURE" /\ second.mode = "SIM_ERROR"
           \/ first.mode = "CONFIG_ERROR" /\ ~second.passed
           \/ opts.warn /\ first.passed /\ second.mode = "TOOL_WARNING"

\* When an invocation ends with a report, scanning the pickles of the work
\* directories gives the totals of the report, and the exit code says whether
\* one failed: no path leaves the pickle of an earlier invocation behind.  Tests
\* that share a directory or raised are excepted.
\* (run_regress.py:155-158, collect_results.py:22-61)
PicklesMatchReport ==
  /\ main = "exited" /\ report.run = run /\ run > 0
  /\ \A j \in opts.tests : Alone(j) /\ pc[j] = "done"
  => /\ CollectResults = [total |-> report.total, passed |-> report.passed,
                          failed |-> report.failed]
     /\ exit = 0 <=> \A j \in opts.tests : result[j].passed

\* Every invocation ends: no job waits for a worker, a build or a simulation for
\* ever.  (run_regress.py:403-439)
RegressionEnds == main = "running" ~> main = "exited"

=============================================================================
