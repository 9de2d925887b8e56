-------------------------- MODULE RegressionProofs --------------------------
(***************************************************************************)
(* What holds of Regression for any number of tests, workers, command      *)
(* lines and work directories, any logs and any number of invocations.     *)
(*                                                                         *)
(* A job that alone uses its work directory is not disturbed by the other  *)
(* jobs (Undisturbed): they share the bench with it, and nothing that it   *)
(* reads afterwards.  A simulation that outlived its run_rtl.py does       *)
(* disturb it, but only its log, and history tells when (OrphanWritesOK).  *)
(* What one job knows of its files at each step (JobOK) is therefore       *)
(* inductive, with RTypeOK and with the fact that pickles and simulations  *)
(* are not of a later invocation (RunsBounded).                            *)
(***************************************************************************)
EXTENDS Regression, TLAPS, FiniteSetTheorems

-----------------------------------------------------------------------------
(* What check_logs.py makes of a log.                                     *)

\* A verdict has a mode of its own, which is never one of before the simulation,
\* and a log that passes has the pass marker.
LEMMA CheckLinesVerdict ==
  ASSUME NEW lines, NEW w \in BOOLEAN, NEW f \in BOOLEAN
  PROVE  /\ CheckLines(lines, w, f) \in Verdicts
         /\ CheckLines(lines, w, f).mode \notin PreSimFailureModes
         /\ CheckLines(lines, w, f).passed => "pass" \in lines
BY DEF CheckLines, LogMode, Verdict, Verdicts, FailureModes, LogModes, PreSimFailureModes

LEMMA CheckLogVerdict ==
  ASSUME NEW l, NEW w \in BOOLEAN, NEW f \in BOOLEAN
  PROVE  /\ CheckLog(l, w, f) \in Verdicts
         /\ CheckLog(l, w, f).mode \notin PreSimFailureModes
         /\ CheckLog(l, w, f).passed => \E line \in l.lines : line[1] = "pass"
<1> DEFINE lines == KindsIn(l)
<1>1. "pass" \in lines => \E line \in l.lines : line[1] = "pass"
  BY DEF KindsIn
<1>2. /\ Verdict(FALSE, "FILE_ERROR") \in Verdicts
      /\ Verdict(FALSE, "FILE_ERROR").mode \notin PreSimFailureModes
      /\ ~Verdict(FALSE, "FILE_ERROR").passed
  BY DEF Verdict, Verdicts, FailureModes, PreSimFailureModes
<1> HIDE DEF lines
<1>3. CheckLog(l, w, f) = IF l.exists THEN CheckLines(lines, w, f)
                                      ELSE Verdict(FALSE, "FILE_ERROR")
  BY DEF CheckLog, lines
<1> QED BY <1>1, <1>2, <1>3, CheckLinesVerdict

LEMMA FailureTyped ==
  ASSUME NEW m \in FailureModes
  PROVE  /\ Verdict(FALSE, m) \in Verdicts
         /\ ~Verdict(FALSE, m).passed
         /\ Verdict(FALSE, m).mode = m
BY DEF Verdict, Verdicts

LEMMA VerdictFields ==
  ASSUME NEW p \in BOOLEAN, NEW m
  PROVE  Verdict(p, m).passed = p /\ Verdict(p, m).mode = m
BY DEF Verdict

\* What a log that is read again with the verdict of the first reading for a
\* return code may say: the same, or one of two differences.
ReadAgain(w, first, second) ==
  \/ second = first
  \/ first.mode = "NO_PASS_SIGNATURE" /\ second.mode = "SIM_ERROR"
  \/ w /\ first.passed /\ second.mode = "TOOL_WARNING"

LEMMA CheckedTwice ==
  ASSUME NEW l, l.exists, NEW w \in BOOLEAN, NEW f \in BOOLEAN,
         NEW first, first = CheckLog(l, FALSE, f),
         NEW again \in BOOLEAN, again = ~first.passed,
         NEW second, second = CheckLog(l, w, again)
  PROVE  ReadAgain(w, first, second)
<1> DEFINE lines == KindsIn(l)
           m1 == LogMode(lines, FALSE, f)
           m2 == LogMode(lines, w, m1 # "NONE")
<1>1. first = Verdict(m1 = "NONE", m1)
  BY DEF CheckLog, CheckLines
<1>2. first.passed = (m1 = "NONE") /\ first.mode = m1
  <2> HIDE DEF m1
  <2>1. /\ Verdict(m1 = "NONE", m1).passed = (m1 = "NONE")
        /\ Verdict(m1 = "NONE", m1).mode = m1
    <3>1. (m1 = "NONE") \in BOOLEAN
      OBVIOUS
    <3> QED BY <3>1, VerdictFields
  <2> QED BY <1>1, <2>1
<1>3. second = Verdict(m2 = "NONE", m2)
  <2>1. again = (m1 # "NONE")
    BY <1>2
  <2> QED BY <2>1 DEF CheckLog, CheckLines
<1>4. second.mode = m2
  <2> HIDE DEF m2
  <2>1. Verdict(m2 = "NONE", m2).mode = m2
    <3>1. (m2 = "NONE") \in BOOLEAN
      OBVIOUS
    <3> QED BY <3>1, VerdictFields
  <2> QED BY <1>3, <2>1
<1>5. \/ m2 = m1
      \/ m1 = "NO_PASS_SIGNATURE" /\ m2 = "SIM_ERROR"
      \/ w /\ m1 = "NONE" /\ m2 = "TOOL_WARNING"
  BY DEF LogMode
<1> HIDE DEF m1, m2
<1> QED BY <1>1, <1>2, <1>3, <1>4, <1>5 DEF ReadAgain

Assumptions ==
  /\ NumJobsAssumption /\ SourceAssumption /\ OptionsAssumption
  /\ LogsAssumption /\ RunsAssumption

-----------------------------------------------------------------------------
(***************************************************************************)
(* PassIsEarned and SecondCheckAgrees, of one job.                         *)
(***************************************************************************)
Earned(j) ==
  pc[j] = "done" /\ result[j].passed /\ Alone(j) =>
    /\ ~opts.binary => hex[DirOf(j)] = run
    /\ \/ PassPrinted(log[DirOf(j)], run)
       \/ rtlFailed[j] /\ "opened" \notin history[j]
       \/ Disturbed(j)

Agrees(first, second) ==
  \/ ReadAgain(opts.warn, first, second)
  \/ first.mode = "CONFIG_ERROR" /\ ~second.passed

Agreed(j) ==
  /\ pc[j] = "done" /\ Alone(j) /\ named[DirOf(j)].run = run
  /\ ~BenchFailed(j) /\ "check" \notin history[j]
  => Agrees(named[DirOf(j)].verdict, result[j])

\* The log is there and, while no older simulation wrote into it, holds what this
\* invocation's simulation printed.
OwnLog(j) ==
  /\ log[DirOf(j)].exists
  /\ Disturbed(j) \/ log[DirOf(j)].lines \subseteq LineKinds \X {run}

\* What run_rtl.py recorded, if it did: no bench, no configuration, or what it
\* makes of the log as it is now.
Recorded(j) ==
  LET d == DirOf(j)
  IN  \/ named[d].run # run
      \/ BenchFailed(j)
      \/ /\ named[d] = Saved(run, Verdict(FALSE, "CONFIG_ERROR"))
         /\ log[d] = Log({}, run)
      \/ /\ log[d].exists
         /\ \E failed \in BOOLEAN : named[d] = Saved(run, CheckLog(log[d], FALSE, failed))
         /\ rtlFailed[j] = ~named[d].verdict.passed

\* What the files are while the test is under way.
UnderWay(j) ==
  Alone(j) =>
    /\ pc[j] \in RtlStages \union {"check"} /\ ~opts.binary => hex[DirOf(j)] = run
    /\ pc[j] \in (Stages \ {"check"}) \union {"waiting"}
         => run = 0 \/ named[DirOf(j)].run # run
    /\ pc[j] \in (Stages \ {"sim", "check"}) \union {"waiting"} => "opened" \notin history[j]
    /\ pc[j] = "sim" => "opened" \in history[j] /\ OwnLog(j)
    /\ pc[j] = "check" => rtlFailed[j] \/ "opened" \in history[j]
    /\ pc[j] = "check" /\ "opened" \in history[j] => OwnLog(j)
    /\ pc[j] = "check" /\ "check" \notin history[j] => Recorded(j)

\* A simulation outlived its run_rtl.py in this invocation only if its test is on
\* the way to the check without a verdict of run_rtl.py, or over.
Abandoned(j) ==
  Alone(j) /\ <<j, run>> \in orphans =>
    \/ pc[j] \in Ended
    \/ pc[j] = "check" /\ named[DirOf(j)].run # run

JobOK(j) == UnderWay(j) /\ Abandoned(j) /\ Earned(j) /\ Agreed(j)

RunsBounded ==
  /\ \A d \in Dirs : named[d].run <= run
  /\ \A o \in orphans : o[2] <= run
  /\ run = 0 => /\ main = "idle"
                /\ \A b \in Jobs \X Runs : builds[b] = "none"
                /\ \A j \in Jobs : pc[j] \in {"waiting", "skipped"}

RegressionInv == RTypeOK /\ RunsBounded /\ \A j \in Jobs : JobOK(j)

\* The steps of job j and of the builds it started.
BuildOf(j) == \E r \in Runs : LinkBench(<<j, r>>) \/ BuildStops(<<j, r>>)
Moves(j) == Step(j) \/ RtlDies(j) \/ Raise(j) \/ BuildOf(j)

LEMMA NextMoves ==
  ASSUME Next
  PROVE  \/ StartRun \/ FinishRun \/ CleanBench
         \/ \E j \in Jobs : Moves(j)
         \/ \E o \in orphans : OrphanWrites(o) \/ OrphanEnds(o)
<1>1. ASSUME NEW b \in Jobs \X Runs, LinkBench(b) \/ BuildStops(b)
      PROVE  \E j \in Jobs : Moves(j)
  <2>1. PICK j \in Jobs, r \in Runs : b = <<j, r>>
    OBVIOUS
  <2>2. BuildOf(j)
    BY <1>1, <2>1 DEF BuildOf
  <2> QED BY <2>2 DEF Moves
<1> QED BY <1>1 DEF Next, Moves

-----------------------------------------------------------------------------
(***************************************************************************)
(* Types                                                                   *)
(***************************************************************************)
LEMMA DirTyped ==
  ASSUME Assumptions, opts \in Options, NEW j \in Jobs
  PROVE  DirOf(j) \in Dirs
BY DEF DirOf, Dirs

LEMMA RunsTyped ==
  ASSUME Assumptions
  PROVE  MaxRuns \in Nat \ {0} /\ NumJobs \in Nat \ {0} /\ Runs \subseteq Nat \ {0}
<1>1. MaxRuns \in Nat \ {0} /\ NumJobs \in Nat \ {0}
  BY DEF Assumptions, RunsAssumption, NumJobsAssumption
<1> QED BY <1>1 DEF Runs

\* Counting the results of some of the jobs.
LEMMA SummaryTyped ==
  ASSUME Assumptions, NEW S \in SUBSET Jobs
  PROVE  LET summary == AddResults({<<j, result[j]>> : j \in S})
         IN  summary.total \in Nat /\ summary.passed \in Nat /\ summary.failed \in Nat
<1> DEFINE V == {<<j, result[j]>> : j \in S}
           f == [j \in S |-> <<j, result[j]>>]
<1>1. IsFiniteSet(S)
  <2>1. IsFiniteSet(1..NumJobs)
    BY RunsTyped, FS_Interval
  <2> QED BY <2>1, FS_Subset DEF Jobs
<1>2. f \in Surjection(S, V)
  BY DEF Surjection
<1>3. IsFiniteSet(V)
  BY <1>1, <1>2, FS_Surjection
<1> HIDE DEF V
<1>4. /\ Cardinality(V) \in Nat
      /\ Cardinality({v \in V : v[2].passed}) \in Nat
      /\ Cardinality({v \in V : ~v[2].passed}) \in Nat
  BY <1>3, FS_Subset, FS_CardinalityType
<1> QED BY <1>4 DEF AddResults, V

\* Regression: every variable has a value of its type in the first state,
LEMMA InitTyped == ASSUME Assumptions, Init PROVE RTypeOK
<1>1. 0 \in 0..MaxRuns
  BY RunsTyped
<1>2. Verdict(FALSE, "") \in Verdicts
  BY FailureTyped DEF FailureModes
<1>3. NoLog \in LogsOf(Runs)
  BY DEF NoLog, LogsOf
<1>4. NoPickle \in [run : 0..MaxRuns, verdict : Verdicts]
  BY <1>1, <1>2 DEF NoPickle, Saved
<1>5. TestMatrix \in [Jobs -> Stages \union Ended \union {"waiting"}]
  BY DEF TestMatrix, Ended
<1> HIDE DEF TestMatrix
<1>6. /\ builds \in [Jobs \X Runs -> {"none", "compiling", "linking"}]
      /\ orphans \subseteq Jobs \X Runs
      /\ history \in [Jobs -> SUBSET ({"opened"} \union Disturbable)]
  BY DEF Init
<1> QED BY <1>1, <1>2, <1>3, <1>4, <1>5, <1>6 DEF Init, RTypeOK, NoReport

\* run_rtl.py and its simulation belong to an invocation.
LEMMA UnderWayRun ==
  ASSUME Assumptions, RTypeOK, RunsBounded, NEW j \in Jobs, pc[j] \in Stages
  PROVE  run \in Runs /\ run # 0
<1>1. run \in 0..MaxRuns /\ MaxRuns \in Nat
  BY RunsTyped DEF RTypeOK
<1>2. pc[j] \notin {"waiting", "skipped"}
  BY DEF Stages
<1>3. run # 0
  BY <1>2 DEF RunsBounded
<1> QED BY <1>1, <1>3 DEF Runs

LEMMA SurvivorTyped ==
  ASSUME Assumptions, RTypeOK, RunsBounded, NEW j \in Jobs, pc[j] \in Stages,
         SimulatorSurvives(j)
  PROVE  orphans' \subseteq Jobs \X Runs
BY UnderWayRun DEF SimulatorSurvives, RTypeOK

\* What a simulation writes is lines with the number of its invocation.
LEMMA WrittenTyped ==
  ASSUME Assumptions, RTypeOK, NEW j \in Jobs, NEW r \in Runs, NEW lines \in SUBSET LineKinds,
         NEW gone
  PROVE  /\ Written(j, r, lines, gone) \in LogsOf(Runs)
         /\ Written(j, r, lines, gone).exists = log[DirOf(j)].exists
         /\ Written(j, r, lines, gone).lines =
              (log[DirOf(j)].lines \ gone) \union (lines \X {r})
<1>1. log[DirOf(j)] \in LogsOf(Runs)
  BY DirTyped DEF RTypeOK
<1> QED BY <1>1 DEF Written, LogsOf

LEMMA SaveTyped ==
  ASSUME Assumptions, RTypeOK, NEW j \in Jobs, NEW v \in Verdicts, SaveAndReturn(j, v)
  PROVE  /\ result' \in [Jobs -> Verdicts]
         /\ pkl' \in [Dirs -> [run : 0..MaxRuns, verdict : Verdicts]]
         /\ pc' \in [Jobs -> Stages \union Ended \union {"waiting"}]
<1>1. Saved(run, v) \in [run : 0..MaxRuns, verdict : Verdicts]
  BY DEF Saved, RTypeOK
<1> QED BY <1>1, DirTyped DEF SaveAndReturn, RTypeOK, Ended

LEMMA FailTyped ==
  ASSUME Assumptions, RTypeOK, NEW j \in Jobs, NEW m \in FailureModes, Fail(j, m)
  PROVE  /\ result' \in [Jobs -> Verdicts]
         /\ pkl' \in [Dirs -> [run : 0..MaxRuns, verdict : Verdicts]]
         /\ pc' \in [Jobs -> Stages \union Ended \union {"waiting"}]
BY FailureTyped, SaveTyped DEF Fail

LEMMA GotoTyped ==
  ASSUME Assumptions, RTypeOK, NEW j \in Jobs, NEW s \in Stages, Goto(j, s)
  PROVE  /\ result' \in [Jobs -> Verdicts]
         /\ pkl' \in [Dirs -> [run : 0..MaxRuns, verdict : Verdicts]]
         /\ pc' \in [Jobs -> Stages \union Ended \union {"waiting"}]
BY DEF Goto, RTypeOK

\* and every step leaves it one.
LEMMA StepTyped ==
  ASSUME Assumptions, RTypeOK, RunsBounded, [Next]_vars
  PROVE  RTypeOK'
<1>r. run \in 0..MaxRuns /\ run \in Nat /\ opts \in Options
  BY RunsTyped DEF RTypeOK
<1>s. {"gen", "find", "compile", "rtl", "build", "launch", "sim", "check"} = Stages
  BY DEF Stages
<1>m. PreSimFailureModes \union {"SIM_TIMEOUT", "CONFIG_ERROR"} \subseteq FailureModes
  BY DEF FailureModes, LogModes
<1>k. RtlStages \subseteq Stages /\ "raised" \in Ended /\ "done" \in Ended
  BY DEF RtlStages, Stages, Ended
<1>p. ASSUME NEW m \in FailureModes
      PROVE  Saved(run, Verdict(FALSE, m)) \in [run : 0..MaxRuns, verdict : Verdicts]
  BY <1>r, <1>p, FailureTyped DEF Saved
<1>l. Log({}, run) \in LogsOf(Runs)
  BY DEF Log, LogsOf
<1>1. CASE StartRun
  <2>1. run' \in 0..MaxRuns
    <3>1. run' = run + 1 /\ run < opts.runs /\ opts.runs \in 1..MaxRuns
      BY <1>1, <1>r DEF StartRun, Assumptions, OptionsAssumption
    <3>2. MaxRuns \in Nat
      BY RunsTyped
    <3> QED BY <1>r, <3>1, <3>2
  <2>2. Verdict(FALSE, "") \in Verdicts
    BY FailureTyped DEF FailureModes
  <2>3. TestMatrix \in [Jobs -> Stages \union Ended \union {"waiting"}]
    BY DEF TestMatrix, Ended
  <2> HIDE DEF TestMatrix
  <2>4. history' \in [Jobs -> SUBSET ({"opened"} \union Disturbable)]
    BY <1>1 DEF StartRun
  <2> QED BY <1>1, <2>1, <2>2, <2>3, <2>4 DEF StartRun, RTypeOK, files
<1>2. CASE FinishRun
  <2> DEFINE summary == AddResults({<<j, result[j]>> : j \in {k \in Jobs : pc[k] = "done"}})
  <2>1. summary.total \in Nat /\ summary.passed \in Nat /\ summary.failed \in Nat
    BY SummaryTyped
  <2> HIDE DEF summary
  <2>2. /\ report' = [run |-> run, total |-> summary.total,
                      passed |-> summary.passed, failed |-> summary.failed]
        /\ exit' \in {0, 1}
    BY <1>2 DEF FinishRun, summary
  <2>3. report' \in [run : 0..MaxRuns, total : Nat, passed : Nat, failed : Nat]
    BY <1>r, <2>1, <2>2
  <2> QED BY <1>2, <2>2, <2>3 DEF FinishRun, RTypeOK, files
<1>3. CASE CleanBench
  <2>1. builds' \in [Jobs \X Runs -> {"none", "compiling", "linking"}]
    BY <1>3 DEF CleanBench, RTypeOK
  <2> QED BY <1>3, <2>1 DEF CleanBench, RTypeOK, files
<1>4. ASSUME NEW j \in Jobs, StartTest(j)
      PROVE  RTypeOK'
  <2>1. /\ result' \in [Jobs -> Verdicts]
        /\ pkl' \in [Dirs -> [run : 0..MaxRuns, verdict : Verdicts]]
        /\ pc' \in [Jobs -> Stages \union Ended \union {"waiting"}]
    BY <1>4, <1>s, <1>m, GotoTyped, FailTyped DEF StartTest, PreSimFailureModes
  <2> QED BY <1>4, <2>1 DEF StartTest, RTypeOK
<1>5. ASSUME NEW j \in Jobs, Generate(j)
      PROVE  RTypeOK'
  <2>1. /\ result' \in [Jobs -> Verdicts]
        /\ pkl' \in [Dirs -> [run : 0..MaxRuns, verdict : Verdicts]]
        /\ pc' \in [Jobs -> Stages \union Ended \union {"waiting"}]
    BY <1>5, <1>s, <1>m, GotoTyped, FailTyped DEF Generate, PreSimFailureModes
  <2>2. asm' \in [Dirs -> 0..MaxRuns]
    BY <1>5, <1>r DEF Generate, RTypeOK
  <2> QED BY <1>5, <2>1, <2>2 DEF Generate, RTypeOK
<1>6. ASSUME NEW j \in Jobs, FindGeneratedAsm(j)
      PROVE  RTypeOK'
  <2>1. /\ result' \in [Jobs -> Verdicts]
        /\ pkl' \in [Dirs -> [run : 0..MaxRuns, verdict : Verdicts]]
        /\ pc' \in [Jobs -> Stages \union Ended \union {"waiting"}]
    BY <1>6, <1>s, <1>m, GotoTyped, FailTyped DEF FindGeneratedAsm, PreSimFailureModes
  <2> QED BY <1>6, <2>1 DEF FindGeneratedAsm, RTypeOK
<1>7. ASSUME NEW j \in Jobs, Compile(j)
      PROVE  RTypeOK'
  <2>1. /\ result' \in [Jobs -> Verdicts]
        /\ pkl' \in [Dirs -> [run : 0..MaxRuns, verdict : Verdicts]]
        /\ pc' \in [Jobs -> Stages \union Ended \union {"waiting"}]
    BY <1>7, <1>s, <1>m, GotoTyped, FailTyped DEF Compile, PreSimFailureModes
  <2>2. hex' \in [Dirs -> 0..MaxRuns]
    BY <1>7, <1>r DEF Compile, RTypeOK
  <2> QED BY <1>7, <2>1, <2>2 DEF Compile, RTypeOK
<1>8. ASSUME NEW j \in Jobs, LookForBench(j)
      PROVE  RTypeOK'
  <2>1. /\ result' \in [Jobs -> Verdicts]
        /\ pkl' \in [Dirs -> [run : 0..MaxRuns, verdict : Verdicts]]
        /\ pc' \in [Jobs -> Stages \union Ended \union {"waiting"}]
    BY <1>8, <1>s, GotoTyped DEF LookForBench
  <2>2. builds' \in [Jobs \X Runs -> {"none", "compiling", "linking"}]
    BY <1>8 DEF LookForBench, RTypeOK
  <2> QED BY <1>8, <2>1, <2>2 DEF LookForBench, RTypeOK
<1>9. ASSUME NEW b \in Jobs \X Runs, LinkBench(b)
      PROVE  RTypeOK'
  BY <1>9 DEF LinkBench, RTypeOK, files
<1>10. ASSUME NEW b \in Jobs \X Runs, BuildStops(b)
       PROVE  RTypeOK'
  <2>1. PICK ok \in BOOLEAN : BuildEnds(b, ok)
    BY <1>10 DEF BuildStops
  <2>j. b[1] \in Jobs
    OBVIOUS
  <2>2. CASE ~Awaited(b)
    <3>1. UNCHANGED <<pc, rtlFailed, result, named, pkl>>
      BY <2>1, <2>2 DEF BuildEnds
    <3>2. /\ bench' \in {"absent", "partial", "ready"}
          /\ builds' \in [Jobs \X Runs -> {"none", "compiling", "linking"}]
      BY <2>1 DEF BuildEnds, BenchAfter, RTypeOK
    <3> QED BY <2>1, <3>1, <3>2 DEF BuildEnds, RTypeOK
  <2>3. CASE Awaited(b)
    <3>1. /\ \E st \in Stages : Goto(b[1], st)
          /\ rtlFailed' = rtlFailed \/ rtlFailed' = [rtlFailed EXCEPT ![b[1]] = TRUE]
          /\ \/ named' = named
             \/ named' = [named EXCEPT ![DirOf(b[1])] =
                            Saved(run, Verdict(FALSE, "COMPILE_ERROR"))]
      BY <2>1, <2>3, <1>s DEF BuildEnds, RtlFails
    <3>2. /\ result' \in [Jobs -> Verdicts]
          /\ pkl' \in [Dirs -> [run : 0..MaxRuns, verdict : Verdicts]]
          /\ pc' \in [Jobs -> Stages \union Ended \union {"waiting"}]
      BY <2>j, <3>1, GotoTyped
    <3>3. /\ bench' \in {"absent", "partial", "ready"}
          /\ builds' \in [Jobs \X Runs -> {"none", "compiling", "linking"}]
      BY <2>1 DEF BuildEnds, BenchAfter, RTypeOK
    <3>4. Saved(run, Verdict(FALSE, "COMPILE_ERROR")) \in [run : 0..MaxRuns, verdict : Verdicts]
      BY <1>p, <1>m DEF PreSimFailureModes
    <3>5. rtlFailed' \in [Jobs -> BOOLEAN]
      BY <3>1 DEF RTypeOK
    <3>7. named' \in [Dirs -> [run : 0..MaxRuns, verdict : Verdicts]]
      BY <3>1, <3>4 DEF RTypeOK
    <3>6. UNCHANGED <<opts, run, main, orphans, asm, hex, log, report, exit, history>>
      BY <2>1 DEF BuildEnds
    <3> QED BY <3>2, <3>3, <3>5, <3>6, <3>7 DEF RTypeOK
  <2> QED BY <2>2, <2>3
<1>11. ASSUME NEW j \in Jobs, Launch(j)
       PROVE  RTypeOK'
  <2>1. /\ log' \in [Dirs -> LogsOf(Runs)]
        /\ history' \in [Jobs -> SUBSET ({"opened"} \union Disturbable)]
    BY <1>11, <1>l DEF Launch, RTypeOK
  <2>2. /\ result' \in [Jobs -> Verdicts]
        /\ pkl' \in [Dirs -> [run : 0..MaxRuns, verdict : Verdicts]]
        /\ pc' \in [Jobs -> Stages \union Ended \union {"waiting"}]
    BY <1>11, <1>s, GotoTyped DEF Launch
  <2> QED BY <1>11, <2>1, <2>2 DEF Launch, RTypeOK
<1>12. ASSUME NEW j \in Jobs, Simulate(j)
       PROVE  RTypeOK'
  <2>1. PICK failed \in BOOLEAN, gone \in SUBSET Others(j, run), left \in SUBSET LineKinds :
          LET after == Written(j, run, left, gone)
              verdict == CheckLog(after, FALSE, failed)
          IN  /\ log' = [log EXCEPT ![DirOf(j)] = after]
              /\ named' = [named EXCEPT ![DirOf(j)] = Saved(run, verdict)]
              /\ rtlFailed' = [rtlFailed EXCEPT ![j] = ~verdict.passed]
    <3>1. SimLogs \subseteq SUBSET LineKinds
      BY DEF Assumptions, LogsAssumption
    <3> QED BY <1>12, <3>1 DEF Simulate
  <2> DEFINE after == Written(j, run, left, gone)
             verdict == CheckLog(after, FALSE, failed)
  <2>2. run \in Runs
    BY <1>12, <1>s, UnderWayRun DEF Simulate
  <2>4. after \in LogsOf(Runs)
    BY <2>2, WrittenTyped
  <2> HIDE DEF after
  <2>5. verdict \in Verdicts /\ verdict.passed \in BOOLEAN
    BY CheckLogVerdict DEF Verdicts
  <2>6. Saved(run, verdict) \in [run : 0..MaxRuns, verdict : Verdicts]
    BY <1>r, <2>5 DEF Saved
  <2> HIDE DEF verdict
  <2>7. /\ log' = [log EXCEPT ![DirOf(j)] = after]
        /\ named' = [named EXCEPT ![DirOf(j)] = Saved(run, verdict)]
        /\ rtlFailed' = [rtlFailed EXCEPT ![j] = ~verdict.passed]
    BY <2>1 DEF after, verdict
  <2>8. /\ log' \in [Dirs -> LogsOf(Runs)]
        /\ named' \in [Dirs -> [run : 0..MaxRuns, verdict : Verdicts]]
        /\ rtlFailed' \in [Jobs -> BOOLEAN]
    BY <2>4, <2>5, <2>6, <2>7 DEF RTypeOK
  <2>9. /\ result' \in [Jobs -> Verdicts]
        /\ pkl' \in [Dirs -> [run : 0..MaxRuns, verdict : Verdicts]]
        /\ pc' \in [Jobs -> Stages \union Ended \union {"waiting"}]
    BY <1>12, <1>s, GotoTyped DEF Simulate
  <2> QED BY <1>12, <2>8, <2>9 DEF Simulate, RTypeOK
<1>13. ASSUME NEW j \in Jobs, SimTimeout(j)
       PROVE  RTypeOK'
  <2>1. /\ result' \in [Jobs -> Verdicts]
        /\ pkl' \in [Dirs -> [run : 0..MaxRuns, verdict : Verdicts]]
        /\ pc' \in [Jobs -> Stages \union Ended \union {"waiting"}]
    BY <1>13, <1>m, FailTyped DEF SimTimeout
  <2>2. orphans' \subseteq Jobs \X Runs
    BY <1>13, <1>k, SurvivorTyped DEF SimTimeout
  <2> QED BY <1>13, <2>1, <2>2 DEF SimTimeout, RTypeOK
<1>14. ASSUME NEW j \in Jobs, CheckResult(j)
       PROVE  RTypeOK'
  <2>1. opts.warn \in BOOLEAN /\ rtlFailed[j] \in BOOLEAN
    BY <1>r DEF Assumptions, OptionsAssumption, RTypeOK
  <2>2. CheckLog(log[DirOf(j)], opts.warn, rtlFailed[j]) \in Verdicts
    BY <2>1, CheckLogVerdict
  <2>3. /\ result' \in [Jobs -> Verdicts]
        /\ pkl' \in [Dirs -> [run : 0..MaxRuns, verdict : Verdicts]]
        /\ pc' \in [Jobs -> Stages \union Ended \union {"waiting"}]
    BY <1>14, <2>2, SaveTyped DEF CheckResult
  <2> QED BY <1>14, <2>3 DEF CheckResult, RTypeOK
<1>15. ASSUME NEW j \in Jobs, Raise(j)
       PROVE  RTypeOK'
  <2>1. orphans' \subseteq Jobs \X Runs
    BY <1>15, SurvivorTyped DEF Raise
  <2>2. /\ pc' \in [Jobs -> Stages \union Ended \union {"waiting"}]
        /\ main' \in {"idle", "running", "exited"} /\ exit' \in {0, 1}
    BY <1>15, <1>k DEF Raise, RTypeOK
  <2> QED BY <1>15, <2>1, <2>2 DEF Raise, RTypeOK, files
<1>16. ASSUME NEW j \in Jobs, ConfigError(j)
       PROVE  RTypeOK'
  <2>1. /\ log' \in [Dirs -> LogsOf(Runs)]
        /\ history' \in [Jobs -> SUBSET ({"opened"} \union Disturbable)]
    BY <1>16, <1>l DEF ConfigError, RTypeOK
  <2>2. Goto(j, "check") /\ rtlFailed' \in [Jobs -> BOOLEAN]
    BY <1>16 DEF ConfigError, RtlFails, RTypeOK
  <2>3. /\ result' \in [Jobs -> Verdicts]
        /\ pkl' \in [Dirs -> [run : 0..MaxRuns, verdict : Verdicts]]
        /\ pc' \in [Jobs -> Stages \union Ended \union {"waiting"}]
    BY <1>s, <2>2, GotoTyped
  <2>4. Saved(run, Verdict(FALSE, "CONFIG_ERROR")) \in [run : 0..MaxRuns, verdict : Verdicts]
    BY <1>p, <1>m
  <2>5. named' \in [Dirs -> [run : 0..MaxRuns, verdict : Verdicts]]
    BY <1>16, <2>4 DEF ConfigError, RTypeOK
  <2> QED BY <1>16, <2>1, <2>2, <2>3, <2>5 DEF ConfigError, RTypeOK
<1>17. ASSUME NEW j \in Jobs, RtlDies(j)
       PROVE  RTypeOK'
  <2>1. Goto(j, "check") /\ rtlFailed' \in [Jobs -> BOOLEAN]
    BY <1>17 DEF RtlDies, RtlFails, RTypeOK
  <2>2. /\ result' \in [Jobs -> Verdicts]
        /\ pkl' \in [Dirs -> [run : 0..MaxRuns, verdict : Verdicts]]
        /\ pc' \in [Jobs -> Stages \union Ended \union {"waiting"}]
    BY <1>s, <2>1, GotoTyped
  <2>3. orphans' \subseteq Jobs \X Runs
    BY <1>17, <1>k, SurvivorTyped DEF RtlDies
  <2> QED BY <1>17, <2>1, <2>2, <2>3 DEF RtlDies, RTypeOK
<1>18. ASSUME NEW o \in orphans, OrphanWrites(o)
       PROVE  RTypeOK'
  <2>1. PICK lines \in SimLogs, gone \in SUBSET Others(o[1], o[2]) :
          log' = [log EXCEPT ![DirOf(o[1])] = Written(o[1], o[2], lines, gone)]
    BY <1>18 DEF OrphanWrites
  <2>2. o[1] \in Jobs /\ o[2] \in Runs
    BY DEF RTypeOK
  <2>3. Written(o[1], o[2], lines, gone) \in LogsOf(Runs)
    BY <2>2, WrittenTyped DEF Assumptions, LogsAssumption
  <2>4. log' \in [Dirs -> LogsOf(Runs)]
    BY <2>1, <2>3 DEF RTypeOK
  <2>5. history' \in [Jobs -> SUBSET ({"opened"} \union Disturbable)]
    BY <1>18 DEF OrphanWrites, RTypeOK
  <2> QED BY <1>18, <2>4, <2>5 DEF OrphanWrites, RTypeOK
<1>19. ASSUME NEW o \in orphans, OrphanEnds(o)
       PROVE  RTypeOK'
  BY <1>19 DEF OrphanEnds, RTypeOK, files
<1>20. CASE UNCHANGED vars
  BY <1>20 DEF vars, RTypeOK
<1> QED
  BY <1>1, <1>2, <1>3, <1>4, <1>5, <1>6, <1>7, <1>8, <1>9, <1>10, <1>11, <1>12, <1>13,
     <1>14, <1>15, <1>16, <1>17, <1>18, <1>19, <1>20
  DEF Next, Step

-----------------------------------------------------------------------------
(***************************************************************************)
(* The jobs do not disturb each other                                      *)
(***************************************************************************)
\* A step of job j: it touches no other job and no directory but its own, and
\* leaves no simulation but its own behind.
StepOf(j) ==
  /\ UNCHANGED <<opts, run>>
  /\ \A k \in Jobs \ {j} : /\ pc'[k] = pc[k]
                           /\ result'[k] = result[k]
                           /\ rtlFailed'[k] = rtlFailed[k]
                           /\ history'[k] = history[k]
  /\ \A d \in Dirs \ {DirOf(j)} : /\ hex'[d] = hex[d]
                                  /\ log'[d] = log[d]
                                  /\ named'[d] = named[d]
  /\ \A o \in orphans' \ orphans : o = <<j, run>>

\* A step that moves nothing the invariant says of job k.
Untouched(k) ==
  /\ UNCHANGED <<opts, run>>
  /\ pc'[k] = pc[k] /\ result'[k] = result[k]
  /\ rtlFailed'[k] = rtlFailed[k] /\ history'[k] = history[k]
  /\ Alone(k) => /\ hex'[DirOf(k)] = hex[DirOf(k)]
                 /\ log'[DirOf(k)] = log[DirOf(k)]
                 /\ named'[DirOf(k)] = named[DirOf(k)]
  /\ <<k, run>> \in orphans' => <<k, run>> \in orphans

\* Nothing is said of a job that shares its directory.
LEMMA SharedOK ==
  ASSUME NEW j \in Jobs, ~Alone(j), UNCHANGED opts
  PROVE  JobOK(j)'
BY DEF JobOK, UnderWay, Abandoned, Earned, Agreed, Alone, DirOf

LEMMA UntouchedOK ==
  ASSUME NEW k \in Jobs, JobOK(k), Untouched(k)
  PROVE  JobOK(k)'
<1>1. opts' = opts /\ run' = run /\ DirOf(k)' = DirOf(k) /\ (Alone(k)' <=> Alone(k))
  BY DEF Untouched, DirOf, Alone
<1>2. CASE ~Alone(k)
  BY <1>1, <1>2, SharedOK
<1>3. CASE Alone(k)
  <2>1. /\ pc'[k] = pc[k] /\ result'[k] = result[k]
        /\ rtlFailed'[k] = rtlFailed[k] /\ history'[k] = history[k]
        /\ hex'[DirOf(k)] = hex[DirOf(k)] /\ log'[DirOf(k)] = log[DirOf(k)]
        /\ named'[DirOf(k)] = named[DirOf(k)]
        /\ <<k, run>> \in orphans' => <<k, run>> \in orphans
    BY <1>3 DEF Untouched
  <2>2. (BenchFailed(k)' <=> BenchFailed(k)) /\ (Disturbed(k)' <=> Disturbed(k))
    BY <1>1, <2>1 DEF BenchFailed, Disturbed
  <2>3. (OwnLog(k)' <=> OwnLog(k)) /\ (Recorded(k)' <=> Recorded(k))
    BY <1>1, <2>1, <2>2 DEF OwnLog, Recorded
  <2>4. UnderWay(k)'
    BY <1>1, <2>1, <2>3 DEF JobOK, UnderWay
  <2>5. Abandoned(k)'
    BY <1>1, <2>1 DEF JobOK, Abandoned
  <2>6. Earned(k)'
    BY <1>1, <2>1, <2>2 DEF JobOK, Earned
  <2>7. Agreed(k)'
    BY <1>1, <2>1, <2>2 DEF JobOK, Agreed, Agrees
  <2> QED BY <2>4, <2>5, <2>6, <2>7 DEF JobOK
<1> QED BY <1>2, <1>3

\* Regression: what a job with a directory of its own knows stays true when
\* another job makes a step.
LEMMA Undisturbed ==
  ASSUME Assumptions, RTypeOK, NEW j \in Jobs, NEW k \in Jobs, j # k, StepOf(j), JobOK(k)
  PROVE  JobOK(k)'
<1>1. Alone(k) => DirOf(k) \in Dirs \ {DirOf(j)}
  BY DirTyped DEF RTypeOK, Alone
<1>2. <<k, run>> \in orphans' => <<k, run>> \in orphans
  BY DEF StepOf
<1>3. Untouched(k)
  BY <1>1, <1>2 DEF StepOf, Untouched
<1> QED BY <1>3, UntouchedOK

LEMMA NothingMoved ==
  ASSUME NEW j \in Jobs, JobOK(j), opts' = opts, run' = run, pc' = pc, result' = result,
         rtlFailed' = rtlFailed, hex' = hex, log' = log, named' = named,
         history' = history, orphans' \subseteq orphans
  PROVE  StepOf(j) /\ JobOK(j)'
<1>1. Untouched(j)
  BY DEF Untouched
<1> QED BY <1>1, UntouchedOK DEF StepOf

\* Regression: a job that ended without a pass has nothing to earn, and if
\* run_rtl.py recorded no verdict there is none to agree with.
LEMMA FailOK ==
  ASSUME Assumptions, RTypeOK, NEW j \in Jobs, NEW m \in FailureModes, Fail(j, m),
         opts' = opts, run' = run, named' = named,
         Alone(j) => named[DirOf(j)].run # run
  PROVE  JobOK(j)'
<1>1. result'[j] = Verdict(FALSE, m) /\ pc'[j] = "done"
  BY DEF Fail, SaveAndReturn, RTypeOK
<1>2. ~result'[j].passed /\ result'[j].mode = m
  BY <1>1, FailureTyped
<1>3. DirOf(j)' = DirOf(j) /\ (Alone(j)' <=> Alone(j))
  BY DEF DirOf, Alone
<1>4. UnderWay(j)'
  <2>1. RtlStages \union {"sim", "check"} \subseteq Stages
    BY DEF Stages, RtlStages
  <2>2. pc'[j] \notin Stages \union {"waiting"}
    BY <1>1 DEF Stages
  <2> QED BY <2>1, <2>2 DEF UnderWay
<1>5. Abandoned(j)'
  BY <1>1 DEF Abandoned, Ended
<1>6. Earned(j)'
  BY <1>2 DEF Earned
<1>7. Agreed(j)'
  BY <1>3 DEF Agreed
<1> QED BY <1>4, <1>5, <1>6, <1>7 DEF JobOK

-----------------------------------------------------------------------------
(***************************************************************************)
(* The steps of a job                                                      *)
(***************************************************************************)
\* Goto, Fail and SaveAndReturn touch no job but their own.
LEMMA OwnProgress ==
  ASSUME RTypeOK, NEW j \in Jobs, NEW k \in Jobs \ {j},
         \/ \E s \in Stages : Goto(j, s)
         \/ \E m \in FailureModes : Fail(j, m)
         \/ \E v \in Verdicts : SaveAndReturn(j, v)
  PROVE  pc'[k] = pc[k] /\ result'[k] = result[k]
BY DEF Goto, Fail, SaveAndReturn, RTypeOK

\* Before the check, run_rtl.py has recorded nothing in this invocation, and none
\* of its simulations was left to itself.
LEMMA NothingRecorded ==
  ASSUME RTypeOK, RunsBounded, NEW j \in Jobs, JobOK(j), Alone(j),
         pc[j] \in (Stages \ {"check"}) \union {"waiting"},
         pc[j] = "waiting" => main = "running"
  PROVE  named[DirOf(j)].run # run /\ <<j, run>> \notin orphans
<1>1. run # 0
  BY DEF RunsBounded, Stages
<1>2. named[DirOf(j)].run # run
  BY <1>1 DEF JobOK, UnderWay
<1>3. <<j, run>> \notin orphans
  BY DEF JobOK, Abandoned, Stages, Ended
<1> QED BY <1>2, <1>3

\* Regression: up to the launch of its simulation, a job that goes on or fails
\* needs no more than a program of this invocation when it comes to run_rtl.py.
LEMMA ProgressOK ==
  ASSUME Assumptions, RTypeOK, RunsBounded, NEW j \in Jobs, JobOK(j),
         pc[j] \in (Stages \ {"sim", "check"}) \union {"waiting"},
         pc[j] = "waiting" => main = "running",
         opts' = opts, run' = run, named' = named, log' = log, rtlFailed' = rtlFailed,
         history' = history, orphans' = orphans,
         hex' = hex \/ hex' = [hex EXCEPT ![DirOf(j)] = run],
         \/ \E s \in Stages \ {"sim", "check"} :
              /\ Goto(j, s)
              /\ s \in {"rtl", "build", "launch"} /\ ~opts.binary /\ Alone(j)
                   => hex'[DirOf(j)] = run
         \/ \E m \in FailureModes : Fail(j, m)
  PROVE  StepOf(j) /\ JobOK(j)'
<1>1. StepOf(j)
  <2>1. \A d \in Dirs \ {DirOf(j)} : hex'[d] = hex[d]
    BY DEF RTypeOK
  <2> QED BY <2>1, OwnProgress DEF StepOf
<1>n. Alone(j) => named[DirOf(j)].run # run /\ <<j, run>> \notin orphans
  BY NothingRecorded
<1>2. ASSUME NEW s \in Stages \ {"sim", "check"}, Goto(j, s),
             s \in {"rtl", "build", "launch"} /\ ~opts.binary /\ Alone(j)
               => hex'[DirOf(j)] = run
      PROVE  JobOK(j)'
  <2>1. pc'[j] = s
    BY <1>2 DEF Goto, RTypeOK
  <2>2. DirOf(j)' = DirOf(j) /\ (Alone(j)' <=> Alone(j))
    BY DEF DirOf, Alone
  <2>3. Alone(j) => "opened" \notin history[j]
    BY DEF JobOK, UnderWay
  <2>4. UnderWay(j)'
    BY <1>2, <1>n, <2>1, <2>2, <2>3 DEF UnderWay, Stages, RtlStages
  <2>5. Abandoned(j)'
    BY <1>n, <2>2 DEF Abandoned
  <2>6. Earned(j)' /\ Agreed(j)'
    BY <1>2, <2>1 DEF Earned, Agreed, Stages
  <2> QED BY <2>4, <2>5, <2>6 DEF JobOK
<1>3. ASSUME NEW m \in FailureModes, Fail(j, m)
      PROVE  JobOK(j)'
  BY <1>3, <1>n, FailOK
<1> QED BY <1>1, <1>2, <1>3

\* StartTest, Generate, FindGeneratedAsm, Compile and LookForBench are of that kind.
LEMMA EarlyStepOK ==
  ASSUME Assumptions, RTypeOK, RunsBounded, NEW j \in Jobs, JobOK(j),
         \/ StartTest(j) \/ Generate(j) \/ FindGeneratedAsm(j) \/ Compile(j)
         \/ LookForBench(j)
  PROVE  StepOf(j) /\ JobOK(j)'
<1>1. {"gen", "find", "compile", "rtl", "build", "launch"} = Stages \ {"sim", "check"}
  BY DEF Stages
<1>2. PreSimFailureModes \union {"SIM_TIMEOUT"} \subseteq FailureModes
  BY DEF FailureModes, LogModes
<1>3. CASE StartTest(j)
  <2>1. /\ pc[j] = "waiting" /\ main = "running"
        /\ opts' = opts /\ run' = run /\ named' = named
        /\ rtlFailed' = rtlFailed /\ hex' = hex /\ log' = log
        /\ history' = history /\ orphans' = orphans
    BY <1>3 DEF StartTest
  <2>2. \/ Goto(j, "rtl") /\ opts.binary
        \/ Goto(j, "gen")
        \/ Goto(j, "compile")
        \/ Fail(j, "DIRECTED_ASM_MISSING")
    BY <1>3 DEF StartTest
  <2>3. \/ \E s \in Stages \ {"sim", "check"} :
             /\ Goto(j, s)
             /\ s \in {"rtl", "build", "launch"} /\ ~opts.binary /\ Alone(j)
                  => hex'[DirOf(j)] = run
        \/ \E m \in FailureModes : Fail(j, m)
    BY <1>1, <1>2, <2>2 DEF PreSimFailureModes
  <2> QED BY <2>1, <2>3, ProgressOK
<1>4. CASE Generate(j)
  <2>1. /\ pc[j] = "gen"
        /\ opts' = opts /\ run' = run /\ named' = named
        /\ rtlFailed' = rtlFailed /\ hex' = hex /\ log' = log
        /\ history' = history /\ orphans' = orphans
    BY <1>4 DEF Generate
  <2>2. \/ Goto(j, "find")
        \/ Fail(j, "GEN_ERROR")
        \/ Fail(j, "GEN_TIMEOUT")
    BY <1>4 DEF Generate
  <2>3. \/ \E s \in Stages \ {"sim", "check"} :
             /\ Goto(j, s)
             /\ s \in {"rtl", "build", "launch"} /\ ~opts.binary /\ Alone(j)
                  => hex'[DirOf(j)] = run
        \/ \E m \in FailureModes : Fail(j, m)
    BY <1>1, <1>2, <2>2 DEF PreSimFailureModes
  <2> QED BY <1>1, <2>1, <2>3, ProgressOK
<1>5. CASE FindGeneratedAsm(j)
  <2>1. /\ pc[j] = "find"
        /\ opts' = opts /\ run' = run /\ named' = named
        /\ rtlFailed' = rtlFailed /\ hex' = hex /\ log' = log
        /\ history' = history /\ orphans' = orphans
    BY <1>5 DEF FindGeneratedAsm
  <2>2. Goto(j, "compile") \/ Fail(j, "GEN_NO_ASM")
    BY <1>5 DEF FindGeneratedAsm
  <2>3. \/ \E s \in Stages \ {"sim", "check"} :
             /\ Goto(j, s)
             /\ s \in {"rtl", "build", "launch"} /\ ~opts.binary /\ Alone(j)
                  => hex'[DirOf(j)] = run
        \/ \E m \in FailureModes : Fail(j, m)
    BY <1>1, <1>2, <2>2 DEF PreSimFailureModes
  <2> QED BY <1>1, <2>1, <2>3, ProgressOK
<1>6. CASE Compile(j)
  <2>1. /\ pc[j] = "compile"
        /\ opts' = opts /\ run' = run /\ named' = named
        /\ rtlFailed' = rtlFailed /\ log' = log
        /\ history' = history /\ orphans' = orphans
    BY <1>6 DEF Compile
  <2>2. \/ Goto(j, "rtl") /\ hex' = [hex EXCEPT ![DirOf(j)] = run]
        \/ Fail(j, "COMPILE_ERROR") /\ hex' = hex
        \/ Fail(j, "COMPILE_TIMEOUT") /\ hex' = hex
    BY <1>6 DEF Compile
  <2>3. hex' = [hex EXCEPT ![DirOf(j)] = run] => hex'[DirOf(j)] = run
    BY DirTyped DEF RTypeOK
  <2>4. \/ \E s \in Stages \ {"sim", "check"} :
             /\ Goto(j, s)
             /\ s \in {"rtl", "build", "launch"} /\ ~opts.binary /\ Alone(j)
                  => hex'[DirOf(j)] = run
        \/ \E m \in FailureModes : Fail(j, m)
    BY <1>1, <1>2, <2>2, <2>3 DEF PreSimFailureModes
  <2>5. hex' = hex \/ hex' = [hex EXCEPT ![DirOf(j)] = run]
    BY <2>2
  <2> QED BY <1>1, <2>1, <2>4, <2>5, ProgressOK
<1>7. CASE LookForBench(j)
  <2>1. /\ pc[j] = "rtl"
        /\ opts' = opts /\ run' = run /\ named' = named
        /\ rtlFailed' = rtlFailed /\ hex' = hex /\ log' = log
        /\ history' = history /\ orphans' = orphans
    BY <1>7 DEF LookForBench
  <2>2. Goto(j, "build") \/ Goto(j, "launch")
    BY <1>7 DEF LookForBench
  <2>3. ~opts.binary /\ Alone(j) => hex'[DirOf(j)] = run
    BY <2>1 DEF JobOK, UnderWay, RtlStages
  <2>4. \/ \E s \in Stages \ {"sim", "check"} :
             /\ Goto(j, s)
             /\ s \in {"rtl", "build", "launch"} /\ ~opts.binary /\ Alone(j)
                  => hex'[DirOf(j)] = run
        \/ \E m \in FailureModes : Fail(j, m)
    BY <1>1, <2>2, <2>3
  <2> QED BY <1>1, <2>1, <2>4, ProgressOK
<1> QED BY <1>3, <1>4, <1>5, <1>6, <1>7

\* A run_rtl.py that is killed leaves its simulation behind, and no verdict.
LEMMA SimTimeoutOK ==
  ASSUME Assumptions, RTypeOK, RunsBounded, NEW j \in Jobs, JobOK(j), SimTimeout(j)
  PROVE  StepOf(j) /\ JobOK(j)'
<1>1. /\ pc[j] \in RtlStages
      /\ opts' = opts /\ run' = run /\ named' = named
      /\ rtlFailed' = rtlFailed /\ hex' = hex /\ log' = log /\ history' = history
      /\ Fail(j, "SIM_TIMEOUT")
      /\ orphans' \subseteq orphans \union {<<j, run>>}
  BY DEF SimTimeout, SimulatorSurvives
<1>2. "SIM_TIMEOUT" \in FailureModes
  BY DEF FailureModes, LogModes
<1>3. pc[j] \in Stages \ {"check"}
  BY <1>1 DEF RtlStages, Stages
<1>4. Alone(j) => named[DirOf(j)].run # run
  BY <1>3, NothingRecorded DEF Stages
<1>5. JobOK(j)'
  BY <1>1, <1>2, <1>4, FailOK
<1>6. StepOf(j)
  BY <1>1, <1>2, OwnProgress DEF StepOf
<1> QED BY <1>5, <1>6

\* So does one that dies, and the parent goes on to the check.
LEMMA RtlDiesOK ==
  ASSUME Assumptions, RTypeOK, RunsBounded, NEW j \in Jobs, JobOK(j), RtlDies(j)
  PROVE  StepOf(j) /\ JobOK(j)'
<1>1. /\ pc[j] \in RtlStages
      /\ opts' = opts /\ run' = run /\ named' = named /\ hex' = hex /\ log' = log
      /\ history' = history /\ rtlFailed' = [rtlFailed EXCEPT ![j] = TRUE]
      /\ Goto(j, "check")
      /\ orphans' \subseteq orphans \union {<<j, run>>}
  BY DEF RtlDies, RtlFails, SimulatorSurvives
<1>2. StepOf(j)
  BY <1>1, OwnProgress DEF StepOf, Stages, RTypeOK
<1>3. /\ DirOf(j)' = DirOf(j) /\ (Alone(j)' <=> Alone(j))
      /\ pc'[j] = "check" /\ rtlFailed'[j] = TRUE
  BY <1>1 DEF DirOf, Alone, Goto, RTypeOK
<1>4. pc[j] \in Stages \ {"check"}
  BY <1>1 DEF RtlStages, Stages
<1>5. Alone(j) => named'[DirOf(j)].run # run
  BY <1>1, <1>4, NothingRecorded DEF Stages
<1>6. Alone(j) /\ "opened" \in history[j] => OwnLog(j)
  BY <1>4 DEF JobOK, UnderWay
<1>7. OwnLog(j)' <=> OwnLog(j)
  BY <1>1, <1>3 DEF OwnLog, Disturbed
<1>8. Alone(j) => Recorded(j)'
  BY <1>1, <1>3, <1>5 DEF Recorded
<1>9. Alone(j) /\ ~opts.binary => hex'[DirOf(j)] = run
  BY <1>1 DEF JobOK, UnderWay
<1>10. UnderWay(j)'
  BY <1>1, <1>3, <1>6, <1>7, <1>8, <1>9 DEF UnderWay, Stages
<1>11. Abandoned(j)'
  BY <1>1, <1>3, <1>5 DEF Abandoned
<1>12. Earned(j)' /\ Agreed(j)'
  BY <1>3 DEF Earned, Agreed
<1> QED BY <1>2, <1>10, <1>11, <1>12 DEF JobOK

LEMMA LinkBenchOK ==
  ASSUME NEW j \in Jobs, NEW r \in Runs, JobOK(j), LinkBench(<<j, r>>)
  PROVE  StepOf(j) /\ JobOK(j)'
<1>1. /\ opts' = opts /\ run' = run /\ pc' = pc /\ result' = result
      /\ rtlFailed' = rtlFailed /\ hex' = hex /\ log' = log /\ named' = named
      /\ history' = history /\ orphans' = orphans
  BY DEF LinkBench, files
<1> QED BY <1>1, NothingMoved

\* A build that fails is recorded under the name of the test; one that nobody
\* waits for any more records nothing.
LEMMA BuildStopsOK ==
  ASSUME Assumptions, RTypeOK, RunsBounded, NEW j \in Jobs, NEW r \in Runs, JobOK(j),
         BuildStops(<<j, r>>)
  PROVE  StepOf(j) /\ JobOK(j)'
<1> DEFINE b == <<j, r>>
<1>1. PICK ok \in BOOLEAN : BuildEnds(b, ok)
  BY DEF BuildStops
<1>2. /\ opts' = opts /\ run' = run /\ hex' = hex /\ log' = log
      /\ history' = history /\ orphans' = orphans /\ b[1] = j
  BY <1>1 DEF BuildEnds
<1>3. CASE ~Awaited(b)
  <2>1. pc' = pc /\ rtlFailed' = rtlFailed /\ named' = named /\ result' = result
    BY <1>1, <1>3 DEF BuildEnds
  <2> QED BY <1>2, <2>1, NothingMoved
<1>4. CASE Awaited(b) /\ ok
  <2>1. Goto(j, "launch") /\ rtlFailed' = rtlFailed /\ named' = named
    BY <1>1, <1>2, <1>4 DEF BuildEnds
  <2>2. pc[j] = "build"
    BY <1>2, <1>4 DEF Awaited
  <2>3. /\ "launch" \in Stages \ {"sim", "check"}
        /\ pc[j] \in (Stages \ {"sim", "check"}) \union {"waiting"}
        /\ pc[j] \in RtlStages
    BY <2>2 DEF Stages, RtlStages
  <2>4. ~opts.binary /\ Alone(j) => hex'[DirOf(j)] = run
    BY <1>2, <2>3 DEF JobOK, UnderWay
  <2>5. \E s \in Stages \ {"sim", "check"} :
          /\ Goto(j, s)
          /\ s \in {"rtl", "build", "launch"} /\ ~opts.binary /\ Alone(j)
               => hex'[DirOf(j)] = run
    BY <2>1, <2>3, <2>4
  <2> QED BY <1>2, <2>1, <2>2, <2>3, <2>5, ProgressOK
<1>5. CASE Awaited(b) /\ ~ok
  <2>1. /\ Goto(j, "check")
        /\ rtlFailed' = [rtlFailed EXCEPT ![j] = TRUE]
        /\ named' = [named EXCEPT ![DirOf(j)] = Saved(run, Verdict(FALSE, "COMPILE_ERROR"))]
    BY <1>1, <1>2, <1>5 DEF BuildEnds, RtlFails
  <2>2. pc[j] = "build"
    BY <1>2, <1>5 DEF Awaited
  <2>3. StepOf(j)
    BY <1>2, <2>1, OwnProgress DEF StepOf, Stages, RTypeOK
  <2>4. /\ DirOf(j)' = DirOf(j) /\ (Alone(j)' <=> Alone(j))
        /\ pc'[j] = "check" /\ rtlFailed'[j] = TRUE
    BY <1>2, <2>1 DEF DirOf, Alone, Goto, RTypeOK
  <2>5. Recorded(j)'
    <3>1. named'[DirOf(j)] = Saved(run, Verdict(FALSE, "COMPILE_ERROR"))
      BY <2>1, DirTyped DEF RTypeOK
    <3>2. BenchFailed(j)'
      BY <1>2, <2>4, <3>1 DEF BenchFailed
    <3> QED BY <3>2 DEF Recorded
  <2>6. Alone(j) => "opened" \notin history[j]
    BY <2>2 DEF JobOK, UnderWay, Stages
  <2>7. Alone(j) /\ ~opts.binary => hex'[DirOf(j)] = run
    BY <1>2, <2>2 DEF JobOK, UnderWay, RtlStages
  <2>8. UnderWay(j)'
    BY <1>2, <2>4, <2>5, <2>6, <2>7 DEF UnderWay, Stages
  <2>9. Abandoned(j)'
    <3>1. Alone(j) => <<j, run>> \notin orphans
      BY <2>2 DEF JobOK, Abandoned, Ended
    <3> QED BY <1>2, <2>4, <3>1 DEF Abandoned
  <2>10. Earned(j)' /\ Agreed(j)'
    BY <2>4 DEF Earned, Agreed
  <2> QED BY <2>3, <2>8, <2>9, <2>10 DEF JobOK
<1> QED BY <1>3, <1>4, <1>5

\* The log is emptied before the simulator starts.
LEMMA LaunchOK ==
  ASSUME Assumptions, RTypeOK, RunsBounded, NEW j \in Jobs, JobOK(j), Launch(j)
  PROVE  StepOf(j) /\ JobOK(j)'
<1>1. /\ pc[j] = "launch" /\ opts' = opts /\ run' = run /\ named' = named
      /\ rtlFailed' = rtlFailed /\ hex' = hex /\ orphans' = orphans
      /\ log' = [log EXCEPT ![DirOf(j)] = Log({}, run)]
      /\ history' = [history EXCEPT ![j] = @ \union {"opened"}]
      /\ Goto(j, "sim")
  BY DEF Launch
<1>2. StepOf(j)
  BY <1>1, OwnProgress DEF StepOf, Stages, RTypeOK
<1>3. /\ DirOf(j)' = DirOf(j) /\ (Alone(j)' <=> Alone(j))
      /\ pc'[j] = "sim" /\ "opened" \in history'[j]
  BY <1>1 DEF DirOf, Alone, Goto, RTypeOK
<1>4. log'[DirOf(j)] = Log({}, run)
  BY <1>1, DirTyped DEF RTypeOK
<1>5. OwnLog(j)'
  BY <1>1, <1>3, <1>4 DEF OwnLog, Log
<1>6. Alone(j) => named[DirOf(j)].run # run /\ <<j, run>> \notin orphans
  BY <1>1, NothingRecorded DEF Stages
<1>7. Alone(j) /\ ~opts.binary => hex'[DirOf(j)] = run
  BY <1>1 DEF JobOK, UnderWay, RtlStages
<1>8. UnderWay(j)'
  BY <1>1, <1>3, <1>5, <1>6, <1>7 DEF UnderWay, Stages
<1>9. Abandoned(j)'
  BY <1>1, <1>3, <1>6 DEF Abandoned
<1>10. Earned(j)' /\ Agreed(j)'
  BY <1>3 DEF Earned, Agreed
<1> QED BY <1>2, <1>8, <1>9, <1>10 DEF JobOK

\* Without a configuration the log holds no line of a kind.
LEMMA ConfigErrorOK ==
  ASSUME Assumptions, RTypeOK, RunsBounded, NEW j \in Jobs, JobOK(j), ConfigError(j)
  PROVE  StepOf(j) /\ JobOK(j)'
<1>1. /\ pc[j] \in {"rtl", "launch"} /\ opts' = opts /\ run' = run
      /\ hex' = hex /\ orphans' = orphans
      /\ rtlFailed' = [rtlFailed EXCEPT ![j] = TRUE]
      /\ log' = [log EXCEPT ![DirOf(j)] = Log({}, run)]
      /\ history' = [history EXCEPT ![j] = @ \union {"opened"}]
      /\ named' = [named EXCEPT ![DirOf(j)] = Saved(run, Verdict(FALSE, "CONFIG_ERROR"))]
      /\ Goto(j, "check")
  BY DEF ConfigError, RtlFails
<1>2. StepOf(j)
  BY <1>1, OwnProgress DEF StepOf, Stages, RTypeOK
<1>3. /\ DirOf(j)' = DirOf(j) /\ (Alone(j)' <=> Alone(j))
      /\ pc'[j] = "check" /\ "opened" \in history'[j]
  BY <1>1 DEF DirOf, Alone, Goto, RTypeOK
<1>4. /\ log'[DirOf(j)] = Log({}, run)
      /\ named'[DirOf(j)] = Saved(run, Verdict(FALSE, "CONFIG_ERROR"))
  BY <1>1, DirTyped DEF RTypeOK
<1>5. OwnLog(j)' /\ Recorded(j)'
  <2>1. Log({}, run).exists /\ Log({}, run).lines = {}
    BY DEF Log
  <2>2. OwnLog(j)'
    BY <1>3, <1>4, <2>1 DEF OwnLog
  <2>3. Recorded(j)'
    BY <1>1, <1>3, <1>4 DEF Recorded
  <2> QED BY <2>2, <2>3
<1>6. Alone(j) => <<j, run>> \notin orphans
  BY <1>1, NothingRecorded DEF Stages
<1>7. Alone(j) /\ ~opts.binary => hex'[DirOf(j)] = run
  BY <1>1 DEF JobOK, UnderWay, RtlStages
<1>8. UnderWay(j)'
  BY <1>1, <1>3, <1>5, <1>7 DEF UnderWay, Stages
<1>9. Abandoned(j)'
  BY <1>1, <1>3, <1>6 DEF Abandoned
<1>10. Earned(j)' /\ Agreed(j)'
  BY <1>3 DEF Earned, Agreed
<1> QED BY <1>2, <1>8, <1>9, <1>10 DEF JobOK

\* The lines of the simulation are all the log holds, unless an older one wrote
\* there, and run_rtl.py records what it makes of the log.
LEMMA SimulateOK ==
  ASSUME Assumptions, RTypeOK, RunsBounded, NEW j \in Jobs, JobOK(j), Simulate(j)
  PROVE  StepOf(j) /\ JobOK(j)'
<1>1. PICK failed \in BOOLEAN, gone \in SUBSET Others(j, run), left \in SUBSET LineKinds :
        LET after == Written(j, run, left, gone)
            verdict == CheckLog(after, FALSE, failed)
        IN  /\ log' = [log EXCEPT ![DirOf(j)] = after]
            /\ named' = [named EXCEPT ![DirOf(j)] = Saved(run, verdict)]
            /\ rtlFailed' = [rtlFailed EXCEPT ![j] = ~verdict.passed]
  <2>1. SimLogs \subseteq SUBSET LineKinds
    BY DEF Assumptions, LogsAssumption
  <2> QED BY <2>1 DEF Simulate
<1> DEFINE after == Written(j, run, left, gone)
           verdict == CheckLog(after, FALSE, failed)
<1>2. run \in Runs
  BY UnderWayRun DEF Simulate, Stages
<1>3. /\ after.exists = log[DirOf(j)].exists
      /\ after.lines = (log[DirOf(j)].lines \ gone) \union (left \X {run})
  BY <1>2, WrittenTyped
<1>4. after.lines \subseteq log[DirOf(j)].lines \union (LineKinds \X {run})
  BY <1>3
<1> HIDE DEF after
<1>5. /\ log' = [log EXCEPT ![DirOf(j)] = after]
      /\ named' = [named EXCEPT ![DirOf(j)] = Saved(run, verdict)]
      /\ rtlFailed' = [rtlFailed EXCEPT ![j] = ~verdict.passed]
  BY <1>1 DEF after
<1>6. /\ pc[j] = "sim" /\ opts' = opts /\ run' = run /\ hex' = hex /\ Goto(j, "check")
      /\ history' = history /\ orphans' = orphans
  BY DEF Simulate
<1>7. StepOf(j)
  <2> HIDE DEF verdict
  <2> QED BY <1>5, <1>6, OwnProgress DEF StepOf, Stages, RTypeOK
<1>8. DirOf(j)' = DirOf(j) /\ (Alone(j)' <=> Alone(j)) /\ pc'[j] = "check"
  BY <1>6 DEF DirOf, Alone, Goto, RTypeOK
<1>9. log'[DirOf(j)] = after /\ named'[DirOf(j)] = Saved(run, verdict)
  <2> HIDE DEF verdict
  <2> QED BY <1>5, DirTyped DEF RTypeOK
<1>10. Alone(j) => "opened" \in history[j] /\ OwnLog(j)
  BY <1>6 DEF JobOK, UnderWay
<1>11. Alone(j) => OwnLog(j)'
  <2>1. Disturbed(j)' <=> Disturbed(j)
    BY <1>6 DEF Disturbed
  <2>2. log[DirOf(j)].lines \subseteq LineKinds \X {run}
          => after.lines \subseteq LineKinds \X {run}
    BY <1>4
  <2> QED BY <1>3, <1>6, <1>8, <1>9, <1>10, <2>1, <2>2 DEF OwnLog
<1>12. Alone(j) => Recorded(j)'
  <2>1. rtlFailed'[j] = ~verdict.passed /\ named'[DirOf(j)].verdict = verdict
    <3> HIDE DEF verdict
    <3> QED BY <1>5, <1>9 DEF RTypeOK, Saved
  <2>2. \E f \in BOOLEAN : named'[DirOf(j)] = Saved(run', CheckLog(log'[DirOf(j)], FALSE, f))
    BY <1>6, <1>9
  <2>3. Alone(j) => log'[DirOf(j)].exists
    BY <1>3, <1>9, <1>10 DEF OwnLog
  <2> HIDE DEF verdict
  <2> QED BY <1>8, <2>1, <2>2, <2>3 DEF Recorded
<1>13. Alone(j) /\ ~opts.binary => hex'[DirOf(j)] = run
  BY <1>6 DEF JobOK, UnderWay, RtlStages
<1>14. UnderWay(j)'
  BY <1>6, <1>8, <1>10, <1>11, <1>12, <1>13 DEF UnderWay, Stages
<1>15. Abandoned(j)'
  <2>1. Alone(j) => <<j, run>> \notin orphans
    BY <1>6 DEF JobOK, Abandoned, Ended
  <2> QED BY <1>6, <1>8, <2>1 DEF Abandoned
<1>16. Earned(j)' /\ Agreed(j)'
  BY <1>8 DEF Earned, Agreed
<1> QED BY <1>7, <1>14, <1>15, <1>16 DEF JobOK

\* The second check reads what the first one read, with its verdict for a
\* return code, unless an older simulation came between the two.
LEMMA CheckResultOK ==
  ASSUME Assumptions, RTypeOK, NEW j \in Jobs, JobOK(j), CheckResult(j)
  PROVE  StepOf(j) /\ JobOK(j)'
<1> DEFINE d == DirOf(j)
           verdict == CheckLog(log[d], opts.warn, rtlFailed[j])
<1>1. /\ pc[j] = "check" /\ opts' = opts /\ run' = run /\ named' = named
      /\ rtlFailed' = rtlFailed /\ hex' = hex /\ log' = log
      /\ history' = history /\ orphans' = orphans
      /\ SaveAndReturn(j, verdict)
  BY DEF CheckResult
<1>2. opts.warn \in BOOLEAN /\ rtlFailed[j] \in BOOLEAN
  BY DEF Assumptions, OptionsAssumption, RTypeOK
<1>3. /\ verdict \in Verdicts
      /\ verdict.passed => \E line \in log[d].lines : line[1] = "pass"
  BY <1>2, CheckLogVerdict
<1>4. StepOf(j)
  <2> HIDE DEF verdict
  <2> QED BY <1>1, <1>3, OwnProgress DEF StepOf
<1>5. /\ d' = d /\ (Alone(j)' <=> Alone(j)) /\ (BenchFailed(j)' <=> BenchFailed(j))
      /\ (Disturbed(j)' <=> Disturbed(j))
  BY <1>1 DEF DirOf, Alone, BenchFailed, Disturbed
<1>6. pc'[j] = "done" /\ result'[j] = verdict
  <2> HIDE DEF verdict
  <2> QED BY <1>1 DEF SaveAndReturn, RTypeOK
<1>7. Alone(j) => /\ ~opts.binary => hex[d] = run
                  /\ rtlFailed[j] \/ "opened" \in history[j]
                  /\ "opened" \in history[j] => OwnLog(j)
                  /\ "check" \notin history[j] => Recorded(j)
  BY <1>1 DEF JobOK, UnderWay
<1>8. UnderWay(j)'
  <2>1. RtlStages \union {"sim", "check"} \subseteq Stages
    BY DEF Stages, RtlStages
  <2>2. pc'[j] \notin Stages \union {"waiting"}
    BY <1>6 DEF Stages
  <2> QED BY <2>1, <2>2 DEF UnderWay
<1>9. Abandoned(j)'
  BY <1>6 DEF Abandoned, Ended
<1>10. Earned(j)'
  <2>1. ASSUME Alone(j), verdict.passed, "opened" \in history[j], ~Disturbed(j)
        PROVE  PassPrinted(log[d], run)
    <3>1. PICK line \in log[d].lines : line[1] = "pass"
      BY <1>3, <2>1
    <3>2. line \in LineKinds \X {run}
      BY <1>7, <2>1 DEF OwnLog
    <3>3. line = <<"pass", run>>
      BY <3>1, <3>2
    <3> QED BY <3>3 DEF PassPrinted
  <2> HIDE DEF verdict
  <2> QED BY <1>1, <1>5, <1>6, <1>7, <2>1 DEF Earned
<1>11. Agreed(j)'
  <2>1. ASSUME Alone(j), named[d].run = run, ~BenchFailed(j), "check" \notin history[j]
        PROVE  Agrees(named[d].verdict, verdict)
    <3>1. CASE /\ named[d] = Saved(run, Verdict(FALSE, "CONFIG_ERROR"))
               /\ log[d] = Log({}, run)
      <4>1. named[d].verdict.mode = "CONFIG_ERROR"
        <5> DEFINE bad == Verdict(FALSE, "CONFIG_ERROR")
        <5>1. bad.mode = "CONFIG_ERROR"
          BY VerdictFields
        <5> HIDE DEF bad
        <5>2. named[d] = Saved(run, bad)
          BY <3>1 DEF bad
        <5> QED BY <5>1, <5>2 DEF Saved
      <4>2. log[d].lines = {}
        BY <3>1 DEF Log
      <4>3. ~verdict.passed
        <5> HIDE DEF verdict
        <5> QED BY <1>3, <4>2
      <4> HIDE DEF verdict
      <4> QED BY <4>1, <4>3 DEF Agrees
    <3>2. CASE /\ log[d].exists
               /\ \E f \in BOOLEAN : named[d] = Saved(run, CheckLog(log[d], FALSE, f))
               /\ rtlFailed[j] = ~named[d].verdict.passed
      <4>1. PICK f \in BOOLEAN : named[d] = Saved(run, CheckLog(log[d], FALSE, f))
        BY <3>2
      <4> DEFINE first == CheckLog(log[d], FALSE, f)
                 l == log[d]
                 again == rtlFailed[j]
      <4>2. named[d].verdict = first
        BY <4>1 DEF Saved
      <4>3. log[d].exists /\ rtlFailed[j] = ~first.passed
        <5> HIDE DEF first
        <5> QED BY <3>2, <4>2
      <4>4. /\ l.exists
            /\ opts.warn \in BOOLEAN
            /\ again \in BOOLEAN
            /\ again = ~first.passed
            /\ first = CheckLog(l, FALSE, f)
            /\ verdict = CheckLog(l, opts.warn, again)
        BY <1>2, <4>3
      <4> HIDE DEF first, verdict, l, again
      <4>5. ReadAgain(opts.warn, first, verdict)
        BY <4>4, CheckedTwice
      <4> QED BY <4>2, <4>5 DEF Agrees
    <3>3. Recorded(j)
      BY <1>7, <2>1
    <3> HIDE DEF verdict
    <3> QED BY <2>1, <3>1, <3>2, <3>3 DEF Recorded
  <2> HIDE DEF verdict
  <2> QED BY <1>1, <1>5, <1>6, <2>1 DEF Agreed, Agrees
<1> QED BY <1>4, <1>8, <1>9, <1>10, <1>11 DEF JobOK

LEMMA RaiseOK ==
  ASSUME RTypeOK, NEW j \in Jobs, Raise(j)
  PROVE  StepOf(j) /\ JobOK(j)'
<1>1. /\ opts' = opts /\ run' = run /\ pc' = [pc EXCEPT ![j] = "raised"]
      /\ result' = result /\ rtlFailed' = rtlFailed /\ history' = history
      /\ hex' = hex /\ log' = log /\ named' = named
      /\ orphans' \subseteq orphans \union {<<j, run>>}
  BY DEF Raise, SimulatorSurvives, files
<1>2. pc'[j] = "raised"
  BY <1>1 DEF RTypeOK
<1>3. StepOf(j)
  BY <1>1 DEF StepOf, RTypeOK
<1>4. UnderWay(j)'
  <2>1. RtlStages \union {"sim", "check"} \subseteq Stages
    BY DEF Stages, RtlStages
  <2>2. pc'[j] \notin Stages \union {"waiting"}
    BY <1>2 DEF Stages
  <2> QED BY <2>1, <2>2 DEF UnderWay
<1>5. Abandoned(j)' /\ Earned(j)' /\ Agreed(j)'
  BY <1>2 DEF Abandoned, Earned, Agreed, Ended
<1> QED BY <1>3, <1>4, <1>5 DEF JobOK

-----------------------------------------------------------------------------
(***************************************************************************)
(* The simulations that outlived their run_rtl.py                          *)
(***************************************************************************)
\* One of this invocation: the test it was started for is over or has no verdict
\* of run_rtl.py, and its lines are lines of this invocation.  One of an earlier
\* invocation: history tells that it wrote.
LEMMA OrphanWritesOK ==
  ASSUME Assumptions, RTypeOK, NEW o \in orphans, OrphanWrites(o),
         NEW k \in Jobs, JobOK(k)
  PROVE  JobOK(k)'
<1>1. o[1] \in Jobs /\ o[2] \in Runs /\ o = <<o[1], o[2]>>
  BY DEF RTypeOK
<1>2. PICK lines \in SUBSET LineKinds, gone \in SUBSET Others(o[1], o[2]) :
        log' = [log EXCEPT ![DirOf(o[1])] = Written(o[1], o[2], lines, gone)]
  BY DEF OrphanWrites, Assumptions, LogsAssumption
<1>3. /\ opts' = opts /\ run' = run /\ pc' = pc /\ result' = result /\ orphans' = orphans
      /\ rtlFailed' = rtlFailed /\ hex' = hex /\ named' = named
      /\ DirOf(k)' = DirOf(k) /\ (Alone(k)' <=> Alone(k))
  BY DEF OrphanWrites, DirOf, Alone
<1>4. history'[k] =
        IF DirOf(k) = DirOf(o[1]) /\ o[2] # run /\ pc[k] \in Disturbable
          THEN history[k] \union {pc[k]} ELSE history[k]
  BY DEF OrphanWrites
<1>5. CASE ~Alone(k)
  BY <1>3, <1>5, SharedOK
<1>6. CASE Alone(k) /\ k # o[1]
  <2>1. DirOf(k) # DirOf(o[1])
    BY <1>1, <1>6 DEF Alone
  <2>2. log'[DirOf(k)] = log[DirOf(k)] /\ history'[k] = history[k]
    BY <1>2, <1>4, <2>1 DEF RTypeOK
  <2>3. Untouched(k)
    BY <1>3, <2>2 DEF Untouched
  <2> QED BY <2>3, UntouchedOK
<1>7. CASE Alone(k) /\ k = o[1]
  <2> DEFINE d == DirOf(k)
  <2>1. log'[d] = Written(k, o[2], lines, gone)
    BY <1>2, <1>7, DirTyped DEF RTypeOK
  <2>2. /\ log'[d].exists = log[d].exists
        /\ log'[d].lines = (log[d].lines \ gone) \union (lines \X {o[2]})
    BY <1>1, <2>1, WrittenTyped
  <2>3. \A line \in gone : line[2] # o[2]
    BY <1>7 DEF Others
  <2>4. CASE o[2] = run
    <3>1. history'[k] = history[k] /\ (Disturbed(k)' <=> Disturbed(k))
      BY <1>4, <2>4 DEF Disturbed
    <3>2. \/ pc[k] \in Ended
          \/ pc[k] = "check" /\ named[d].run # run
      BY <1>1, <1>7, <2>4 DEF JobOK, Abandoned
    <3>3. OwnLog(k) => OwnLog(k)'
      BY <1>3, <2>2, <2>4, <3>1 DEF OwnLog
    <3>4. PassPrinted(log[d], run) => PassPrinted(log'[d], run)
      BY <2>2, <2>3, <2>4 DEF PassPrinted
    <3>5. pc[k] = "check" => Recorded(k)'
      BY <1>3, <3>2 DEF Recorded, Ended
    <3>6. pc[k] = "check" \/ pc[k] \notin Stages \union {"waiting"}
      BY <3>2 DEF Ended, Stages
    <3>7. UnderWay(k)'
      BY <1>3, <3>1, <3>3, <3>5, <3>6 DEF JobOK, UnderWay, Stages, RtlStages
    <3>8. Abandoned(k)'
      BY <1>3 DEF JobOK, Abandoned
    <3>9. Earned(k)'
      BY <1>3, <3>1, <3>4 DEF JobOK, Earned
    <3>10. Agreed(k)'
      BY <1>3, <3>1 DEF JobOK, Agreed, Agrees, BenchFailed
    <3> QED BY <3>7, <3>8, <3>9, <3>10 DEF JobOK
  <2>5. CASE o[2] # run /\ pc[k] \in Disturbable
    <3>1. history'[k] = history[k] \union {pc[k]} /\ Disturbed(k)'
      BY <1>4, <1>7, <2>5 DEF Disturbed
    <3>2. "opened" \in history'[k] <=> "opened" \in history[k]
      BY <2>5, <3>1 DEF Disturbable
    <3>3. OwnLog(k) => OwnLog(k)'
      BY <1>3, <2>2, <3>1 DEF OwnLog
    <3>4. pc[k] = "check" => "check" \in history'[k]
      BY <3>1
    <3>5. UnderWay(k)'
      BY <1>3, <3>2, <3>3, <3>4 DEF JobOK, UnderWay
    <3>6. Abandoned(k)'
      BY <1>3 DEF JobOK, Abandoned
    <3>7. Earned(k)'
      BY <1>3, <3>1 DEF JobOK, Earned
    <3>8. Agreed(k)'
      BY <1>3, <3>1 DEF JobOK, Agreed, Agrees, BenchFailed
    <3> QED BY <3>5, <3>6, <3>7, <3>8 DEF JobOK
  <2>6. CASE o[2] # run /\ pc[k] \notin Disturbable
    <3>1. history'[k] = history[k]
      BY <1>4, <2>6
    <3>2. pc[k] # "sim" /\ pc[k] # "check" /\ pc[k] # "done"
      BY <2>6 DEF Disturbable
    <3>3. UnderWay(k)'
      BY <1>3, <3>1, <3>2 DEF JobOK, UnderWay
    <3>4. Abandoned(k)'
      BY <1>3 DEF JobOK, Abandoned
    <3>5. Earned(k)' /\ Agreed(k)'
      BY <1>3, <3>2 DEF Earned, Agreed
    <3> QED BY <3>3, <3>4, <3>5 DEF JobOK
  <2> QED BY <2>4, <2>5, <2>6
<1> QED BY <1>5, <1>6, <1>7

LEMMA OrphanEndsOK ==
  ASSUME NEW o \in orphans, OrphanEnds(o), NEW k \in Jobs, JobOK(k)
  PROVE  JobOK(k)'
<1>1. /\ opts' = opts /\ run' = run /\ pc' = pc /\ result' = result
      /\ rtlFailed' = rtlFailed /\ hex' = hex /\ log' = log /\ named' = named
      /\ history' = history /\ orphans' \subseteq orphans
  BY DEF OrphanEnds, files
<1> QED BY <1>1, NothingMoved

-----------------------------------------------------------------------------
(***************************************************************************)
(* The invariant                                                           *)
(***************************************************************************)
LEMMA JobStepOK ==
  ASSUME Assumptions, RTypeOK, RunsBounded, NEW j \in Jobs, JobOK(j), Moves(j)
  PROVE  StepOf(j) /\ JobOK(j)'
<1>1. ASSUME BuildOf(j)
      PROVE  StepOf(j) /\ JobOK(j)'
  <2>1. PICK r \in Runs : LinkBench(<<j, r>>) \/ BuildStops(<<j, r>>)
    BY <1>1 DEF BuildOf
  <2> QED BY <2>1, LinkBenchOK, BuildStopsOK
<1> QED BY <1>1, EarlyStepOK, SimTimeoutOK, RtlDiesOK, LaunchOK, ConfigErrorOK, SimulateOK,
           CheckResultOK, RaiseOK
        DEF Moves, Step

\* Only the job that makes a step writes a pickle, and of this invocation.
LEMMA PickleIsNew ==
  ASSUME Assumptions, RTypeOK, NEW j \in Jobs, Moves(j)
  PROVE  /\ main # "running" => main' # "running"
         /\ named' = named \/ \E v : named' = [named EXCEPT ![DirOf(j)] = Saved(run, v)]
<1>1. ASSUME BuildOf(j)
      PROVE  /\ main' = main
             /\ named' = named \/ \E v : named' = [named EXCEPT ![DirOf(j)] = Saved(run, v)]
  <2>1. PICK r \in Runs : LinkBench(<<j, r>>) \/ BuildStops(<<j, r>>)
    BY <1>1 DEF BuildOf
  <2>2. CASE LinkBench(<<j, r>>)
    BY <2>2 DEF LinkBench, files
  <2>3. CASE BuildStops(<<j, r>>)
    <3>1. PICK ok \in BOOLEAN : BuildEnds(<<j, r>>, ok)
      BY <2>3 DEF BuildStops
    <3> QED BY <3>1 DEF BuildEnds
  <2> QED BY <2>1, <2>2, <2>3
<1>2. ASSUME Simulate(j) \/ ConfigError(j)
      PROVE  main' = main /\ \E v : named' = [named EXCEPT ![DirOf(j)] = Saved(run, v)]
  BY <1>2 DEF Simulate, ConfigError
<1>3. ASSUME Step(j), ~Simulate(j), ~ConfigError(j)
      PROVE  main' = main /\ named' = named
  BY <1>3 DEF Step, StartTest, Generate, FindGeneratedAsm, Compile, LookForBench, Launch,
              SimTimeout, CheckResult
<1>4. ASSUME RtlDies(j) \/ Raise(j)
      PROVE  main' \in {main, "exited"} /\ named' = named
  BY <1>4 DEF RtlDies, Raise, files
<1> QED BY <1>1, <1>2, <1>3, <1>4 DEF Moves

LEMMA JobStepBounded ==
  ASSUME Assumptions, RTypeOK, RunsBounded, NEW j \in Jobs, JobOK(j), Moves(j)
  PROVE  RunsBounded'
<1>1. run \in Nat /\ run' = run
  BY RunsTyped, JobStepOK DEF RTypeOK, StepOf
<1>2. ASSUME NEW d \in Dirs
      PROVE  named'[d].run <= run
  <2>1. CASE named' = named
    BY <2>1 DEF RunsBounded
  <2>2. ASSUME NEW v, named' = [named EXCEPT ![DirOf(j)] = Saved(run, v)]
        PROVE  named'[d].run <= run
    <3>1. named'[d] = IF d = DirOf(j) THEN Saved(run, v) ELSE named[d]
      BY <2>2 DEF RTypeOK
    <3> QED BY <1>1, <3>1 DEF RunsBounded, Saved
  <2> QED BY <2>1, <2>2, PickleIsNew
<1>3. ASSUME NEW o \in orphans'
      PROVE  o[2] <= run
  <2>1. CASE o \in orphans
    BY <2>1 DEF RunsBounded
  <2>2. CASE o = <<j, run>>
    BY <1>1, <2>2
  <2> QED BY <2>1, <2>2, JobStepOK DEF StepOf
<1>4. run # 0
  <2> SUFFICES ASSUME run = 0
               PROVE  FALSE
    OBVIOUS
  <2>1. /\ pc[j] \in {"waiting", "skipped"} /\ main = "idle"
        /\ \A r \in Runs : builds[<<j, r>>] = "none"
    BY DEF RunsBounded
  <2>2. ~BuildOf(j)
    BY <2>1 DEF BuildOf, LinkBench, BuildStops, BuildEnds
  <2>3. ~Step(j)
    BY <2>1 DEF Step, StartTest, Generate, FindGeneratedAsm, Compile, LookForBench, ConfigError,
                Launch, Simulate, SimTimeout, CheckResult, RtlStages
  <2>4. ~RtlDies(j) /\ ~Raise(j)
    BY <2>1 DEF RtlDies, Raise, RtlStages, Stages
  <2> QED BY <2>2, <2>3, <2>4 DEF Moves
<1> QED BY <1>1, <1>2, <1>3, <1>4 DEF RunsBounded

\* Regression: the invariant holds at first,
LEMMA InvInit == ASSUME Assumptions, Init PROVE RegressionInv
<1>1. RTypeOK
  BY InitTyped
<1>2. \A j \in Jobs : pc[j] \in {"waiting", "skipped"}
  BY DEF Init, TestMatrix
<1>3. RunsBounded
  <2>1. \A d \in Dirs : named[d].run = 0
    BY DEF Init, NoPickle, Saved
  <2>2. run = 0 /\ main = "idle" /\ orphans = {} /\ \A b \in Jobs \X Runs : builds[b] = "none"
    BY DEF Init
  <2> QED BY <1>2, <2>1, <2>2 DEF RunsBounded
<1>4. ASSUME NEW j \in Jobs
      PROVE  JobOK(j)
  <2>1. run = 0 /\ orphans = {} /\ history[j] = {}
    BY DEF Init
  <2>2. pc[j] \notin Stages /\ pc[j] # "done"
    BY <1>2 DEF Stages
  <2>3. RtlStages \union {"sim", "check"} \subseteq Stages
    BY DEF RtlStages, Stages
  <2> QED BY <2>1, <2>2, <2>3 DEF JobOK, UnderWay, Abandoned, Earned, Agreed
<1> QED BY <1>1, <1>3, <1>4 DEF RegressionInv

\* and every step keeps it.
LEMMA InvStep ==
  ASSUME Assumptions, RegressionInv, [Next]_vars
  PROVE  RegressionInv'
<1>0. RTypeOK /\ RunsBounded /\ RTypeOK' /\ \A j \in Jobs : JobOK(j)
  BY StepTyped DEF RegressionInv
<1>1. CASE StartRun
  <2>1. run \in Nat /\ \A d \in Dirs : named[d].run \in Nat
    BY <1>0, RunsTyped DEF RTypeOK
  <2>2. /\ run' = run + 1 /\ named' = named /\ orphans' = orphans
        /\ \A j \in Jobs : pc'[j] \in {"waiting", "skipped"} /\ history'[j] = {}
    BY <1>1 DEF StartRun, TestMatrix, files
  <2>3. \A d \in Dirs : named'[d].run <= run' /\ named'[d].run # run'
    BY <1>0, <2>1, <2>2 DEF RunsBounded
  <2>4. \A o \in orphans' : o[2] <= run' /\ o[2] # run'
    <3>1. \A o \in orphans : o[2] \in Nat
      BY <1>0, RunsTyped DEF RTypeOK
    <3> QED BY <1>0, <2>1, <2>2, <3>1 DEF RunsBounded
  <2>5. RunsBounded'
    BY <2>1, <2>2, <2>3, <2>4 DEF RunsBounded
  <2>6. ASSUME NEW j \in Jobs
        PROVE  JobOK(j)'
    <3>1. DirOf(j)' \in Dirs
      BY <1>0, <1>1, DirTyped DEF RTypeOK, StartRun, DirOf
    <3>2. <<j, run'>> \notin orphans'
      BY <2>4
    <3>3. pc'[j] \notin Stages /\ pc'[j] # "done" /\ history'[j] = {}
      BY <2>2 DEF Stages
    <3>4. RtlStages \union {"sim", "check"} \subseteq Stages
      BY DEF RtlStages, Stages
    <3> QED BY <2>3, <3>1, <3>2, <3>3, <3>4 DEF JobOK, UnderWay, Abandoned, Earned, Agreed
  <2> QED BY <1>0, <2>5, <2>6 DEF RegressionInv
<1>2. CASE FinishRun \/ CleanBench \/ UNCHANGED vars
  <2>1. /\ opts' = opts /\ run' = run /\ pc' = pc /\ result' = result
        /\ rtlFailed' = rtlFailed /\ hex' = hex /\ log' = log /\ named' = named
        /\ history' = history /\ orphans' = orphans
    BY <1>2 DEF FinishRun, CleanBench, vars, files
  <2>2. run = 0 => builds' = builds /\ main' = main
    BY <1>0, <1>2 DEF FinishRun, CleanBench, vars, RunsBounded
  <2>3. RunsBounded'
    BY <1>0, <2>1, <2>2 DEF RunsBounded
  <2>4. \A j \in Jobs : JobOK(j)'
    BY <1>0, <2>1, NothingMoved
  <2> QED BY <1>0, <2>3, <2>4 DEF RegressionInv
<1>3. ASSUME NEW j \in Jobs, Moves(j)
      PROVE  RegressionInv'
  <2>1. StepOf(j) /\ JobOK(j)' /\ RunsBounded'
    BY <1>0, <1>3, JobStepOK, JobStepBounded
  <2>2. \A k \in Jobs : JobOK(k)'
    BY <1>0, <2>1, Undisturbed
  <2> QED BY <1>0, <2>1, <2>2 DEF RegressionInv
<1>4. ASSUME NEW o \in orphans, OrphanWrites(o) \/ OrphanEnds(o)
      PROVE  RegressionInv'
  <2>1. /\ run' = run /\ named' = named /\ orphans' \subseteq orphans
        /\ main' = main /\ builds' = builds /\ pc' = pc
    BY <1>4 DEF OrphanWrites, OrphanEnds, files
  <2>2. RunsBounded'
    BY <1>0, <2>1 DEF RunsBounded
  <2>3. \A j \in Jobs : JobOK(j)'
    BY <1>0, <1>4, OrphanWritesOK, OrphanEndsOK
  <2> QED BY <1>0, <2>2, <2>3 DEF RegressionInv
<1> QED BY <1>1, <1>2, <1>3, <1>4, NextMoves

-----------------------------------------------------------------------------
\* The invariant holds in every state of every behaviour of the runner.
THEOREM RegressionInvariant == ASSUME Assumptions PROVE Spec => []RegressionInv
<1>1. Init => RegressionInv
  BY InvInit
<1>2. RegressionInv /\ [Next]_vars => RegressionInv'
  BY InvStep
<1> QED BY <1>1, <1>2, PTL DEF Spec

\* Every variable has a value of its type.
THEOREM RegressionTypeCorrect == ASSUME Assumptions PROVE Spec => []RTypeOK
<1>1. RegressionInv => RTypeOK
  BY DEF RegressionInv
<1> QED BY <1>1, RegressionInvariant, PTL

\* For any number of tests, of workers and of earlier invocations: a test that
\* alone uses its work directory passes only with a program and with a pass
\* marker of this invocation, unless run_rtl.py failed before it opened the log or
\* a simulation that outlived an earlier invocation wrote into it.
THEOREM PassIsEarnedHolds == ASSUME Assumptions PROVE Spec => []PassIsEarned
<1>1. RegressionInv => PassIsEarned
  BY DEF RegressionInv, JobOK, Earned, PassIsEarned
<1> QED BY <1>1, RegressionInvariant, PTL

\* The check of the log by the parent and the one by run_rtl.py differ only as
\* SecondCheckAgrees says, unless a simulation that outlived an earlier invocation
\* wrote into the log between the two.
THEOREM SecondCheckAgreesHolds == ASSUME Assumptions PROVE Spec => []SecondCheckAgrees
<1>1. RegressionInv => SecondCheckAgrees
  BY DEF RegressionInv, JobOK, Agreed, Agrees, ReadAgain, SecondCheckAgrees
<1> QED BY <1>1, RegressionInvariant, PTL

-----------------------------------------------------------------------------
(***************************************************************************)
(* The pickles and the report                                              *)
(*                                                                         *)
(* A job that is done left in its directory the pickle of its result       *)
(* (Pickled), a job that skip_in_signoff leaves out makes no step (Skips)  *)
(* and the directories of no test hold no pickle (Elsewhere).  The report  *)
(* is that of the results, which do not change any more (Reported), so     *)
(* both sums count the same: one place for each test in the report, one    *)
(* directory for each test on disk.                                        *)
(***************************************************************************)
Pickled(j) ==
  Alone(j) /\ pc[j] = "done" => pkl[DirOf(j)] = Saved(run, result[j])

Skips == \A j \in Jobs : pc[j] = "skipped" <=> j \notin opts.tests

Elsewhere ==
  \A d \in Dirs :
    (\A j \in opts.tests : DirOf(j) # d) => pkl[d].run = 0 /\ named[d].run = 0

ReportedJobs == {<<j, result[j]>> : j \in {k \in Jobs : pc[k] = "done"}}

Reported ==
  /\ report.run \in Nat /\ report.run <= run
  /\ run > 0 /\ report.run = run =>
       /\ main = "exited"
       /\ \A j \in Jobs : pc[j] \in Ended
       /\ [total |-> report.total, passed |-> report.passed, failed |-> report.failed] =
            AddResults(ReportedJobs)
       /\ exit = IF AddResults(ReportedJobs).failed = 0 THEN 0 ELSE 1

PickleInv == Skips /\ Elsewhere /\ Reported /\ \A j \in Jobs : Pickled(j)

\* What a step of job j does to its result and its pickle.
Kept(j) ==
  /\ pkl' = pkl /\ result' = result
  /\ pc' = pc \/ \E s \in Stages \union {"raised"} : pc' = [pc EXCEPT ![j] = s]

LEMMA SavesOrKeeps ==
  ASSUME NEW j \in Jobs, Moves(j)
  PROVE  /\ Kept(j) \/ \E v : SaveAndReturn(j, v)
         /\ opts' = opts /\ run' = run /\ report' = report
<1>1. ASSUME BuildOf(j)
      PROVE  Kept(j) /\ opts' = opts /\ run' = run /\ report' = report
  <2>1. PICK r \in Runs : LinkBench(<<j, r>>) \/ BuildStops(<<j, r>>)
    BY <1>1 DEF BuildOf
  <2>2. CASE LinkBench(<<j, r>>)
    BY <2>2 DEF LinkBench, files, Kept
  <2>3. CASE BuildStops(<<j, r>>)
    <3>1. PICK ok \in BOOLEAN : BuildEnds(<<j, r>>, ok)
      BY <2>3 DEF BuildStops
    <3> QED BY <3>1 DEF BuildEnds, RtlFails, Goto, Kept, Stages
  <2> QED BY <2>1, <2>2, <2>3
<1>2. ASSUME RtlDies(j) \/ Raise(j)
      PROVE  Kept(j) /\ opts' = opts /\ run' = run /\ report' = report
  BY <1>2 DEF RtlDies, RtlFails, Goto, Raise, files, Kept, Stages
<1>3. ASSUME LookForBench(j) \/ ConfigError(j) \/ Launch(j) \/ Simulate(j)
      PROVE  Kept(j) /\ opts' = opts /\ run' = run /\ report' = report
  BY <1>3 DEF LookForBench, ConfigError, RtlFails, Launch, Simulate, Goto, Kept, Stages
<1>4. ASSUME CheckResult(j) \/ SimTimeout(j)
      PROVE  (\E v : SaveAndReturn(j, v)) /\ opts' = opts /\ run' = run /\ report' = report
  BY <1>4 DEF CheckResult, SimTimeout, Fail
<1>5. ASSUME StartTest(j) \/ Generate(j) \/ FindGeneratedAsm(j) \/ Compile(j)
      PROVE  /\ Kept(j) \/ \E v : SaveAndReturn(j, v)
             /\ opts' = opts /\ run' = run /\ report' = report
  <2>1. ASSUME NEW s \in Stages, Goto(j, s)
        PROVE  Kept(j)
    BY <2>1 DEF Goto, Kept
  <2>2. ASSUME NEW m, Fail(j, m)
        PROVE  \E v : SaveAndReturn(j, v)
    BY <2>2 DEF Fail
  <2>3. \/ \E s \in Stages : Goto(j, s)
        \/ \E m : Fail(j, m)
    BY <1>5 DEF StartTest, Generate, FindGeneratedAsm, Compile, Stages
  <2>4. opts' = opts /\ run' = run /\ report' = report
    BY <1>5 DEF StartTest, Generate, FindGeneratedAsm, Compile
  <2> QED BY <2>1, <2>2, <2>3, <2>4
<1> QED BY <1>1, <1>2, <1>3, <1>4, <1>5 DEF Moves, Step

\* A job that ended, or was left out, makes no step but those of a build it left
\* behind.
LEMMA EndedIsQuiet ==
  ASSUME NEW j \in Jobs, pc[j] \in Ended, Moves(j)
  PROVE  UNCHANGED <<pc, result, main, exit, pkl, named>>
<1>1. pc[j] \notin Stages \union RtlStages \union {"waiting"}
  BY DEF Ended, Stages, RtlStages
<1>2. ~Step(j)
  BY <1>1 DEF Step, StartTest, Generate, FindGeneratedAsm, Compile, LookForBench, ConfigError,
              Launch, Simulate, SimTimeout, CheckResult, Stages
<1>3. ~RtlDies(j) /\ ~Raise(j)
  BY <1>1 DEF RtlDies, Raise
<1>4. PICK r \in Runs : LinkBench(<<j, r>>) \/ BuildStops(<<j, r>>)
  BY <1>2, <1>3 DEF Moves, BuildOf
<1>5. CASE LinkBench(<<j, r>>)
  BY <1>5 DEF LinkBench, files
<1>6. CASE BuildStops(<<j, r>>)
  <2>1. PICK ok \in BOOLEAN : BuildEnds(<<j, r>>, ok)
    BY <1>6 DEF BuildStops
  <2>2. ~Awaited(<<j, r>>)
    BY <1>1 DEF Awaited, Stages
  <2> QED BY <2>1, <2>2 DEF BuildEnds
<1> QED BY <1>4, <1>5, <1>6

LEMMA PickleJobStep ==
  ASSUME Assumptions, RegressionInv, PickleInv, NEW j \in Jobs, Moves(j)
  PROVE  PickleInv'
<1>1. RTypeOK /\ opts' = opts /\ run' = run /\ report' = report /\ run \in Nat
  BY SavesOrKeeps, RunsTyped DEF RegressionInv, RTypeOK
<1>2. /\ opts.tests \subseteq Jobs
      /\ \A k \in Jobs : DirOf(k)' = DirOf(k) /\ (Alone(k)' <=> Alone(k)) /\ DirOf(k) \in Dirs
  BY <1>1, DirTyped DEF DirOf, Alone, RTypeOK, Assumptions, OptionsAssumption
<1>s. Skips'
  <2> SUFFICES ASSUME NEW k \in Jobs
               PROVE  pc'[k] = "skipped" <=> pc[k] = "skipped"
    BY <1>1 DEF Skips, PickleInv
  <2>1. CASE pc[j] \in Ended
    BY <2>1, EndedIsQuiet
  <2>2. CASE pc[j] \notin Ended
    <3>1. pc[j] # "skipped"
      BY <2>2 DEF Ended
    <3>2. \/ pc' = pc
          \/ \E st \in Stages \union {"raised", "done"} : pc' = [pc EXCEPT ![j] = st]
      BY SavesOrKeeps DEF Kept, SaveAndReturn
    <3>3. "skipped" \notin Stages \union {"raised", "done"}
      BY DEF Stages
    <3> QED BY <1>1, <3>1, <3>2, <3>3 DEF RTypeOK
  <2> QED BY <2>1, <2>2
<1>3. ASSUME NEW k \in Jobs
      PROVE  Pickled(k)'
  <2> SUFFICES ASSUME Alone(k), pc'[k] = "done"
               PROVE  pkl'[DirOf(k)] = Saved(run, result'[k])
    BY <1>1, <1>2 DEF Pickled
  <2>1. CASE Kept(j)
    <3>1. pkl' = pkl /\ result' = result /\ pc[k] = "done"
      BY <1>1, <2>1 DEF Kept, Stages, RTypeOK
    <3> QED BY <3>1 DEF PickleInv, Pickled
  <2>2. ASSUME NEW v, SaveAndReturn(j, v)
        PROVE  pkl'[DirOf(k)] = Saved(run, result'[k])
    <3>1. /\ result' = [result EXCEPT ![j] = v]
          /\ pkl' = [pkl EXCEPT ![DirOf(j)] = Saved(run, v)]
          /\ pc' = [pc EXCEPT ![j] = "done"]
      BY <2>2 DEF SaveAndReturn
    <3>2. CASE k = j
      BY <1>1, <1>2, <3>1, <3>2 DEF RTypeOK
    <3>3. CASE k # j
      <4>1. DirOf(k) # DirOf(j)
        BY <3>3 DEF Alone
      <4>2. pc[k] = "done" /\ result'[k] = result[k] /\ pkl'[DirOf(k)] = pkl[DirOf(k)]
        BY <1>1, <1>2, <3>1, <3>3, <4>1 DEF RTypeOK
      <4> QED BY <4>2 DEF PickleInv, Pickled
    <3> QED BY <3>2, <3>3
  <2> QED BY <2>1, <2>2, SavesOrKeeps
<1>4. Elsewhere'
  <2> SUFFICES ASSUME NEW d \in Dirs, \A k \in opts.tests : DirOf(k) # d
               PROVE  pkl'[d].run = 0 /\ named'[d].run = 0
    <3>1. \A k \in opts.tests : DirOf(k)' = DirOf(k)
      BY <1>2
    <3> QED BY <1>1, <3>1 DEF Elsewhere
  <2>1. pkl[d].run = 0 /\ named[d].run = 0
    BY DEF PickleInv, Elsewhere
  <2>2. CASE j \notin opts.tests
    <3>1. pc[j] \in Ended
      BY <2>2 DEF PickleInv, Skips, Ended
    <3> QED BY <2>1, <3>1, EndedIsQuiet
  <2>3. CASE j \in opts.tests
    <3>1. d # DirOf(j)
      BY <2>3
    <3>2. pkl'[d] = pkl[d]
      <4>1. CASE Kept(j)
        BY <4>1 DEF Kept
      <4>2. ASSUME NEW v, SaveAndReturn(j, v)
            PROVE  pkl'[d] = pkl[d]
        BY <1>1, <3>1, <4>2 DEF SaveAndReturn, RTypeOK
      <4> QED BY <4>1, <4>2, SavesOrKeeps
    <3>3. named'[d] = named[d]
      <4>1. CASE named' = named
        BY <4>1
      <4>2. ASSUME NEW v, named' = [named EXCEPT ![DirOf(j)] = Saved(run, v)]
            PROVE  named'[d] = named[d]
        BY <1>1, <3>1, <4>2 DEF RTypeOK
      <4> QED BY <1>1, <4>1, <4>2, PickleIsNew
    <3> QED BY <2>1, <3>2, <3>3
  <2> QED BY <2>2, <2>3
<1>5. Reported'
  <2> SUFFICES ASSUME run > 0, report.run = run
               PROVE  Reported'
    BY <1>1 DEF PickleInv, Reported
  <2>1. \A k \in Jobs : pc[k] \in Ended
    BY DEF PickleInv, Reported
  <2>2. UNCHANGED <<pc, result, main, exit>>
    BY <2>1, EndedIsQuiet
  <2> QED BY <1>1, <2>2 DEF PickleInv, Reported, ReportedJobs
<1> QED BY <1>s, <1>3, <1>4, <1>5 DEF PickleInv

LEMMA PickleStep ==
  ASSUME Assumptions, RegressionInv, PickleInv, [Next]_vars
  PROVE  PickleInv'
<1>0. run \in Nat
  BY RunsTyped DEF RegressionInv, RTypeOK
<1>1. CASE StartRun
  <2>1. /\ run' = run + 1 /\ report' = report /\ opts' = opts /\ pkl' = pkl /\ named' = named
        /\ \A j \in Jobs : pc'[j] = IF j \in opts.tests THEN "waiting" ELSE "skipped"
    BY <1>1 DEF StartRun, TestMatrix, files
  <2>2. Skips' /\ Elsewhere' /\ \A j \in Jobs : Pickled(j)'
    BY <2>1 DEF PickleInv, Skips, Elsewhere, Pickled, DirOf
  <2>3. Reported'
    BY <1>0, <2>1 DEF PickleInv, Reported
  <2> QED BY <2>2, <2>3 DEF PickleInv
<1>2. CASE FinishRun
  <2>1. /\ \A j \in Jobs : pc[j] \in Ended
        /\ report' = [run |-> run, total |-> AddResults(ReportedJobs).total,
                      passed |-> AddResults(ReportedJobs).passed,
                      failed |-> AddResults(ReportedJobs).failed]
        /\ exit' = IF AddResults(ReportedJobs).failed = 0 THEN 0 ELSE 1
        /\ main' = "exited"
        /\ UNCHANGED <<opts, run, pc, result, pkl, named>>
    BY <1>2 DEF FinishRun, files, ReportedJobs
  <2>2. Skips' /\ Elsewhere' /\ \A j \in Jobs : Pickled(j)'
    BY <2>1 DEF PickleInv, Skips, Elsewhere, Pickled, DirOf, Alone
  <2>3. ReportedJobs' = ReportedJobs
    BY <2>1 DEF ReportedJobs
  <2>4. /\ report'.run = run'
        /\ [total |-> report'.total, passed |-> report'.passed, failed |-> report'.failed] =
             AddResults(ReportedJobs)
    BY <2>1 DEF AddResults
  <2>5. Reported'
    BY <1>0, <2>1, <2>3, <2>4 DEF Reported
  <2> QED BY <2>2, <2>5 DEF PickleInv
<1>3. CASE \/ CleanBench \/ UNCHANGED vars
           \/ \E o \in orphans : OrphanWrites(o) \/ OrphanEnds(o)
  <2>1. UNCHANGED <<opts, run, main, pc, result, pkl, named, report, exit>>
    BY <1>3 DEF CleanBench, OrphanWrites, OrphanEnds, vars, files
  <2>2. Skips' /\ Elsewhere' /\ \A j \in Jobs : Pickled(j)'
    BY <2>1 DEF PickleInv, Skips, Elsewhere, Pickled, DirOf, Alone
  <2>3. Reported'
    BY <2>1 DEF PickleInv, Reported, ReportedJobs
  <2> QED BY <2>2, <2>3 DEF PickleInv
<1>4. ASSUME NEW j \in Jobs, Moves(j)
      PROVE  PickleInv'
  BY <1>4, PickleJobStep
<1> QED BY <1>1, <1>2, <1>3, <1>4, NextMoves

\* Results under different keys are as many as the tests they are of, and so are
\* the passing and the failing ones.
LEMMA CountedByKey ==
  ASSUME Assumptions, RTypeOK, NEW T \in SUBSET Jobs, NEW key,
         \A j, k \in T : key[j] = key[k] => j = k
  PROVE  AddResults({<<key[j], result[j]>> : j \in T}) =
           [total |-> Cardinality(T),
            passed |-> Cardinality({j \in T : result[j].passed}),
            failed |-> Cardinality({j \in T : ~result[j].passed})]
<1> DEFINE V(S) == {<<key[j], result[j]>> : j \in S}
<1>1. ASSUME NEW S \in SUBSET T
      PROVE  Cardinality(V(S)) = Cardinality(S)
  <2> DEFINE f == [j \in S |-> <<key[j], result[j]>>]
             U == V(S)
  <2>1. f \in Surjection(S, U) /\ f \in Injection(S, U)
    BY DEF Surjection, Injection, IsInjective
  <2>2. IsFiniteSet(S)
    <3>1. IsFiniteSet(1..NumJobs)
      BY RunsTyped, FS_Interval
    <3> QED BY <3>1, FS_Subset DEF Jobs
  <2> HIDE DEF f, U
  <2>3. Cardinality(U) = Cardinality(S)
    BY <2>1, <2>2, FS_Surjection
  <2> QED BY <2>3 DEF U
<1>2. {v \in V(T) : v[2].passed} = V({j \in T : result[j].passed})
  OBVIOUS
<1>3. {v \in V(T) : ~v[2].passed} = V({j \in T : ~result[j].passed})
  OBVIOUS
<1>4. /\ Cardinality(V(T)) = Cardinality(T)
      /\ Cardinality(V({j \in T : result[j].passed})) =
           Cardinality({j \in T : result[j].passed})
      /\ Cardinality(V({j \in T : ~result[j].passed})) =
           Cardinality({j \in T : ~result[j].passed})
  <2> HIDE DEF V
  <2> QED BY <1>1
<1> HIDE DEF V
<1>5. AddResults(V(T)) = [total |-> Cardinality(T),
                          passed |-> Cardinality({j \in T : result[j].passed}),
                          failed |-> Cardinality({j \in T : ~result[j].passed})]
  BY <1>2, <1>3, <1>4 DEF AddResults
<1> QED BY <1>5 DEF V

\* Every test alone in its directory and done: the disk and the report agree.
LEMMA SumsAgree ==
  ASSUME Assumptions, RegressionInv, PickleInv, run > 0, report.run = run,
         \A j \in opts.tests : Alone(j) /\ pc[j] = "done"
  PROVE  /\ CollectResults = AddResults(ReportedJobs)
         /\ AddResults(ReportedJobs).failed = 0 <=> \A j \in opts.tests : result[j].passed
<1> DEFINE T == opts.tests
           place == [j \in T |-> DirOf(j)]
           number == [j \in T |-> j]
           sums == [total |-> Cardinality(T),
                    passed |-> Cardinality({j \in T : result[j].passed}),
                    failed |-> Cardinality({j \in T : ~result[j].passed})]
           final == {<<d, pkl[d].verdict>> : d \in {e \in Dirs : pkl[e].run # 0}}
           other == {<<d, named[d].verdict>> :
                       d \in {e \in Dirs : pkl[e].run = 0 /\ named[e].run # 0}}
<1>0. RTypeOK /\ T \in SUBSET Jobs
  BY DEF RegressionInv, RTypeOK, Assumptions, OptionsAssumption
<1>1. ASSUME NEW j \in T
      PROVE  /\ DirOf(j) \in Dirs
             /\ pkl[DirOf(j)].run = run /\ pkl[DirOf(j)].verdict = result[j]
  <2>1. DirOf(j) \in Dirs
    BY <1>0, DirTyped DEF RTypeOK
  <2>2. pkl[DirOf(j)] = Saved(run, result[j])
    BY <1>0 DEF PickleInv, Pickled
  <2> QED BY <2>1, <2>2 DEF Saved
<1>2. \A e \in Dirs : (\A j \in T : DirOf(j) # e) => pkl[e].run = 0 /\ named[e].run = 0
  BY DEF PickleInv, Elsewhere
<1>3. other = {}
  BY <1>1, <1>2
<1>4. final = {<<place[j], result[j]>> : j \in T}
  <2>1. {e \in Dirs : pkl[e].run # 0} = {DirOf(j) : j \in T}
    BY <1>1, <1>2
  <2>2. final = {<<d, pkl[d].verdict>> : d \in {DirOf(j) : j \in T}}
    BY <2>1
  <2>3. final = {<<DirOf(j), pkl[DirOf(j)].verdict>> : j \in T}
    BY <2>2
  <2> QED BY <1>1, <2>3
<1>5. ReportedJobs = {<<number[j], result[j]>> : j \in T}
  <2>1. {k \in Jobs : pc[k] = "done"} = T
    BY <1>0 DEF PickleInv, Skips
  <2> QED BY <2>1 DEF ReportedJobs
<1>6. AddResults({<<place[j], result[j]>> : j \in T}) = sums
  <2>1. \A j, k \in T : place[j] = place[k] => j = k
    BY <1>0 DEF Alone
  <2> HIDE DEF place, T
  <2> QED BY <1>0, <2>1, CountedByKey
<1>7. AddResults({<<number[j], result[j]>> : j \in T}) = sums
  <2>1. \A j, k \in T : number[j] = number[k] => j = k
    OBVIOUS
  <2> HIDE DEF number, T
  <2> QED BY <1>0, <2>1, CountedByKey
<1>8. CollectResults = AddResults(final \union other)
  BY DEF CollectResults
<1>9. final \union other = final
  BY <1>3
<1>10. sums.failed = 0 <=> \A j \in T : result[j].passed
  <2> DEFINE F == {j \in T : ~result[j].passed}
  <2>1. IsFiniteSet(F)
    <3>1. IsFiniteSet(1..NumJobs)
      BY RunsTyped, FS_Interval
    <3> QED BY <1>0, <3>1, FS_Subset DEF Jobs
  <2>2. F = {} <=> \A j \in T : result[j].passed
    OBVIOUS
  <2> HIDE DEF F
  <2>3. Cardinality(F) = 0 <=> F = {}
    BY <2>1, FS_EmptySet
  <2> QED BY <2>2, <2>3 DEF F
<1> HIDE DEF final, other, sums, place, number
<1> QED BY <1>4, <1>5, <1>6, <1>7, <1>8, <1>9, <1>10

\* For any number of tests, workers, directories and invocations: when an
\* invocation ended with a report and every test has a directory of its own and
\* a result, scanning the directories gives the totals of the report.
THEOREM PicklesMatchReportHolds == ASSUME Assumptions PROVE Spec => []PicklesMatchReport
<1>1. ASSUME Init PROVE PickleInv
  <2>1. /\ \A d \in Dirs : pkl[d].run = 0 /\ named[d].run = 0
        /\ \A j \in Jobs : pc[j] = IF j \in opts.tests THEN "waiting" ELSE "skipped"
        /\ run = 0 /\ report.run = 0
    BY <1>1 DEF Init, TestMatrix, NoPickle, Saved, NoReport
  <2> QED BY <2>1 DEF PickleInv, Skips, Elsewhere, Reported, Pickled
<1>2. RegressionInv /\ PickleInv /\ [Next]_vars => PickleInv'
  BY PickleStep
<1>3. ASSUME RegressionInv, PickleInv PROVE PicklesMatchReport
  <2> SUFFICES ASSUME report.run = run, run > 0,
                      \A j \in opts.tests : Alone(j) /\ pc[j] = "done"
               PROVE  /\ CollectResults = [total |-> report.total, passed |-> report.passed,
                                           failed |-> report.failed]
                      /\ exit = 0 <=> \A j \in opts.tests : result[j].passed
    BY DEF PicklesMatchReport
  <2>1. /\ CollectResults = AddResults(ReportedJobs)
        /\ AddResults(ReportedJobs).failed = 0 <=> \A j \in opts.tests : result[j].passed
    BY <1>3, SumsAgree
  <2>2. /\ [total |-> report.total, passed |-> report.passed, failed |-> report.failed] =
             AddResults(ReportedJobs)
        /\ exit = IF AddResults(ReportedJobs).failed = 0 THEN 0 ELSE 1
    BY <1>3 DEF PickleInv, Reported
  <2> QED BY <2>1, <2>2
<1> QED BY <1>1, <1>2, <1>3, RegressionInvariant, PTL DEF Spec
=============================================================================
