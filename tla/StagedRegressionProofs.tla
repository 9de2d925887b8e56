----------------------- MODULE StagedRegressionProofs -----------------------
(***************************************************************************)
(* The invariants of StagedRegression, for any types of test, any logs a   *)
(* simulation may print and any number of invocations of make.             *)
(*                                                                         *)
(* Each property is about a state after the check or the collection.  The  *)
(* invariant adds what a recipe leaves for the one that reads it: whose    *)
(* record <test>_<seed>.pkl is (NamedIsCurrent), what there is as long as  *)
(* nothing compiled (NoProgramYet), and that the three result files agree  *)
(* when they are collected (ChecksAgree).                                  *)
(***************************************************************************)
EXTENDS StagedRegression, TLAPS

-----------------------------------------------------------------------------
(* What check_logs.py makes of a log.                                     *)

\* A verdict has a mode of its own, which is never one of before the simulation,
\* and a log that passes has the pass marker.
LEMMA CheckLinesVerdict ==
  ASSUME NEW lines, NEW w \in BOOLEAN, NEW f \in BOOLEAN
  PROVE  /\ CheckLines(lines, w, f) \in Verdicts
         /\ CheckLines(lines, w, f).mode \notin PreSimFailureModes
         /\ CheckLines(lines, w, f).passed => "pass" \in lines
BY DEF CheckLines, LogMode, Verdict, Verdicts, FailureModes, LogModes, PreSimFailureModes

LEMMA CheckLogVerdict ==
  ASSUME NEW l, NEW w \in BOOLEAN, NEW f \in BOOLEAN
  PROVE  /\ CheckLog(l, w, f) \in Verdicts
         /\ CheckLog(l, w, f).mode \notin PreSimFailureModes
         /\ CheckLog(l, w, f).passed => \E line \in l.lines : line[1] = "pass"
<1> DEFINE lines == KindsIn(l)
<1>1. "pass" \in lines => \E line \in l.lines : line[1] = "pass"
  BY DEF KindsIn
<1>2. /\ Verdict(FALSE, "FILE_ERROR") \in Verdicts
      /\ Verdict(FALSE, "FILE_ERROR").mode \notin PreSimFailureModes
      /\ ~Verdict(FALSE, "FILE_ERROR").passed
  BY DEF Verdict, Verdicts, FailureModes, PreSimFailureModes
<1> HIDE DEF lines
<1>3. CheckLog(l, w, f) = IF l.exists THEN CheckLines(lines, w, f)
                                      ELSE Verdict(FALSE, "FILE_ERROR")
  BY DEF CheckLog, lines
<1> QED BY <1>1, <1>2, <1>3, CheckLinesVerdict

\* A new log holds the kinds of line it was written with.
LEMMA NewLog ==
  ASSUME NEW Runs, NEW lines \in SUBSET LineKinds, NEW r \in Runs
  PROVE  /\ Log(lines, r) \in LogsOf(Runs)
         /\ Log(lines, r).exists
         /\ Log(lines, r).lines \subseteq LineKinds \X {r}
         /\ KindsIn(Log(lines, r)) = lines
<1>1. /\ Log(lines, r).lines = lines \X {r}
      /\ Log(lines, r).exists
      /\ Log(lines, r).lines \subseteq LineKinds \X {r}
  BY DEF Log
<1>2. Log(lines, r) \in LogsOf(Runs)
  BY DEF Log, LogsOf
<1>3. \A k \in lines : <<k, r>> \in lines \X {r} /\ <<k, r>>[1] = k
  OBVIOUS
<1>4. KindsIn(Log(lines, r)) = {line[1] : line \in lines \X {r}}
  BY <1>1 DEF KindsIn
<1>5. \A line \in lines \X {r} : line[1] \in lines
  OBVIOUS
<1>6. {line[1] : line \in lines \X {r}} = lines
  BY <1>3, <1>5
<1> QED BY <1>1, <1>2, <1>4, <1>6

\* The log of a run without a configuration has no pass marker.
LEMMA EmptyLogVerdict ==
  ASSUME NEW r
  PROVE  CheckLog(Log({}, r), FALSE, FALSE) = Verdict(FALSE, "NO_PASS_SIGNATURE")
<1>1. Log({}, r).exists /\ KindsIn(Log({}, r)) = {}
  BY DEF Log, KindsIn
<1> QED BY <1>1 DEF CheckLog, CheckLines, LogMode, Verdict

LEMMA FailureTyped ==
  ASSUME NEW m \in FailureModes
  PROVE  /\ Verdict(FALSE, m) \in Verdicts
         /\ ~Verdict(FALSE, m).passed
         /\ Verdict(FALSE, m).mode = m
BY DEF Verdict, Verdicts

Assumptions == KindsAssumption /\ SimLogsAssumption /\ MaxMakesAssumption

-----------------------------------------------------------------------------
(***************************************************************************)
(* What the three properties leave out.                                    *)
(***************************************************************************)
\* A recipe belongs to a make, and only the last recipe writes its report.
ReportIsOld == /\ pc \in Recipes => make > 0
               /\ report.run <= make
               /\ pc \in Recipes => report.run < make

\* Between the simulation and the check, the verdict of run_rtl.py is of this
\* make; it is what the log says, or the log is not of this make and it is a
\* failure before the simulation, or it says that there was no configuration.
NamedIsCurrent ==
  pc \in {"copy", "check"} =>
    /\ named.run = make
    /\ \/ PreSim(named) /\ ~named.verdict.passed
       \/ /\ log.lines \subseteq LineKinds \X {make}
          /\ \/ log.exists /\ named.verdict = CheckLog(log, FALSE, named.failed)
             \/ /\ named.verdict = Verdict(FALSE, "CONFIG_ERROR")
                /\ ~named.failed
                /\ log = Log({}, make)

\* As long as there was never a program, every record is of a failed compilation.
CompileError(run) == Record(run, Verdict(FALSE, "COMPILE_ERROR"), FALSE)

NoProgramYet ==
  ~ProgramExists =>
    /\ named = NoRecord \/ named = CompileError(named.run)
    /\ pc \in {"tb", "sim", "copy", "check"} => pkl = CompileError(make)

\* What the last check leaves for the collection.
ChecksAgree ==
  pc = "collect" =>
    /\ trr = pkl
    /\ pkl.run = make
    /\ \/ pkl.verdict = named.verdict
       \/ /\ named.verdict.mode = "CONFIG_ERROR"
          /\ pkl.verdict.mode = "NO_PASS_SIGNATURE"

StagedInv == /\ SGTypeOK
             /\ ReportIsOld
             /\ NamedIsCurrent
             /\ NoProgramYet
             /\ ChecksAgree
             /\ PassFromThisMake
             /\ CompileErrorKept
             /\ VerdictsAgree

-----------------------------------------------------------------------------
\* A record is made of a make, a verdict and whether the simulator failed.
LEMMA RecordTyped ==
  ASSUME NEW r \in Makes, NEW v \in Verdicts, NEW f \in BOOLEAN
  PROVE  /\ Record(r, v, f) \in [run : Makes, verdict : Verdicts, failed : BOOLEAN]
         /\ Record(r, v, f).run = r
         /\ Record(r, v, f).verdict = v
         /\ Record(r, v, f).failed = f
BY DEF Record

LEMMA RecordedTyped ==
  ASSUME SGTypeOK
  PROVE  Recorded \in [run : Makes, verdict : Verdicts, failed : BOOLEAN]
BY DEF SGTypeOK, Recorded

-----------------------------------------------------------------------------
(***************************************************************************)
(* Types                                                                   *)
(***************************************************************************)
\* StagedRegression: every variable has a value of its type in the first state,
LEMMA InitTyped == ASSUME Assumptions, Init PROVE SGTypeOK
<1>1. 0 \in Makes
  BY DEF Assumptions, MaxMakesAssumption, Makes
<1>2. NoLog \in LogsOf(Makes)
  BY DEF NoLog, LogsOf
<1>3. NoRecord \in [run : Makes, verdict : Verdicts, failed : BOOLEAN]
  BY <1>1, FailureTyped, RecordTyped DEF NoRecord, FailureModes
<1> QED BY <1>1, <1>2, <1>3 DEF Init, SGTypeOK

\* and every recipe leaves it one.
LEMMA StepTyped ==
  ASSUME Assumptions, SGTypeOK, [Next]_vars
  PROVE  SGTypeOK'
<1> USE DEF Assumptions
<1> DEFINE Records == [run : Makes, verdict : Verdicts, failed : BOOLEAN]
<1>a. make \in Makes /\ 0 \in Makes
  BY DEF MaxMakesAssumption, SGTypeOK, Makes
<1>b. \A m \in PreSimFailureModes \union {"CONFIG_ERROR"} : m \in FailureModes
  BY DEF FailureModes
<1>c. ASSUME NEW m \in FailureModes, NEW f \in BOOLEAN
      PROVE  Record(make, Verdict(FALSE, m), f) \in Records
  BY <1>a, FailureTyped, RecordTyped
<1>d. Recorded \in Records
  BY RecordedTyped
<1>e. {"COMPILE_ERROR", "BINARY_MISSING", "CONFIG_ERROR"} \subseteq FailureModes
  BY DEF FailureModes, PreSimFailureModes
<1>f. Log({}, make) \in LogsOf(Makes)
  BY <1>a, NewLog
<1>1. CASE StartMake
  BY <1>1 DEF StartMake, SGTypeOK, Makes, Recipes, MaxMakesAssumption
<1>2. CASE Stop
  BY <1>2 DEF Stop, SGTypeOK
<1>3. CASE InstrGen
  BY <1>3, <1>a DEF InstrGen, SGTypeOK, Recipes
<1>4. CASE CompileTest
  <2>1. Record(make, Verdict(FALSE, "COMPILE_ERROR"), FALSE) \in Records
    BY <1>c, <1>e
  <2> QED BY <1>4, <2>1, <1>a DEF CompileTest, CompileFails, SGTypeOK, Recipes
<1>5. CASE CompileBench
  BY <1>5 DEF CompileBench, SGTypeOK, Recipes
<1>6. CASE MissingBinary
  <2>1. Recorded.failed \in BOOLEAN /\ Recorded.verdict.mode \in FailureModes
    BY <1>d DEF Verdicts
  <2>2. named' \in Records
    BY <1>6, <1>c, <1>e, <2>1 DEF MissingBinary
  <2> QED BY <1>6, <1>f, <2>2 DEF MissingBinary, SGTypeOK, Recipes
<1>7. CASE BenchLost
  <2>1. named' \in Records
    BY <1>7, <1>c, <1>e DEF BenchLost
  <2> QED BY <1>7, <2>1 DEF BenchLost, SGTypeOK, Recipes
<1>8. CASE ConfigError
  BY <1>8, <1>c, <1>e, <1>f DEF ConfigError, SGTypeOK, Recipes
<1>9. CASE Simulate
  <2>1. PICK lines \in SimLogs, failed \in BOOLEAN :
          /\ log' = Log(lines, make)
          /\ named' = Record(make, CheckLines(lines, FALSE, failed), failed)
    BY <1>9 DEF Simulate
  <2>2. log' \in LogsOf(Makes)
    BY <1>a, <2>1, NewLog DEF SimLogsAssumption
  <2>3. named' \in Records
    BY <1>a, <2>1, CheckLinesVerdict, RecordTyped
  <2> QED BY <1>9, <2>2, <2>3 DEF Simulate, SGTypeOK, Recipes
<1>10. CASE CopyLog
  BY <1>10 DEF CopyLog, SGTypeOK, Recipes
<1>11. CASE CheckLogs
  <2>1. Recorded.failed \in BOOLEAN /\ Recorded.verdict.mode \in FailureModes
    BY <1>d DEF Verdicts
  <2>2. CheckLog(log, FALSE, Recorded.failed) \in Verdicts
    BY <2>1, CheckLogVerdict DEF SGTypeOK
  <2>3. pkl' \in Records /\ trr' \in Records
    BY <1>11, <1>a, <2>1, <2>2, FailureTyped, RecordTyped DEF CheckLogs
  <2> QED BY <1>11, <2>3 DEF CheckLogs, SGTypeOK, Recipes
<1>12. CASE CollectResults
  BY <1>12, <1>a DEF CollectResults, SGTypeOK, Recipes
<1>13. CASE UNCHANGED vars
  BY <1>13 DEF vars, SGTypeOK
<1> QED
  BY <1>1, <1>2, <1>3, <1>4, <1>5, <1>6, <1>7, <1>8, <1>9, <1>10, <1>11, <1>12, <1>13
  DEF Next, RunRtl

-----------------------------------------------------------------------------
(***************************************************************************)
(* The invariant                                                           *)
(***************************************************************************)
\* StagedRegression: nothing has run in the first state.
LEMMA InitInv == ASSUME Assumptions, Init PROVE StagedInv
<1>1. pc = "stopped" /\ make = 0 /\ report.run = 0 /\ named = NoRecord
  BY DEF Init
<1> QED
  BY <1>1, InitTyped
  DEF StagedInv, ReportIsOld, NamedIsCurrent, NoProgramYet, ChecksAgree,
      PassFromThisMake, CompileErrorKept, VerdictsAgree, Recipes

LEMMA RecordFields ==
  /\ NoRecord.run = 0
  /\ \A r : /\ CompileError(r).run = r
            /\ CompileError(r).verdict = Verdict(FALSE, "COMPILE_ERROR")
            /\ CompileError(r).failed = FALSE
BY DEF NoRecord, CompileError, Record

\* A recipe that only decides what comes next.
LEMMA OnlyGoesOn ==
  ASSUME Assumptions, StagedInv, SGTypeOK',
         UNCHANGED <<make, bin, hex, log, named, pkl, trr, report>>,
         pc \in Recipes,
         \/ pc' \in {"stopped", "compile"}
         \/ pc = "tb" /\ pc' = "sim"
         \/ pc = "copy" /\ pc' = "check"
  PROVE  StagedInv'
<1>1. ReportIsOld' /\ VerdictsAgree'
  BY DEF StagedInv, ReportIsOld, SGTypeOK, Makes, VerdictsAgree, Recipes
<1>2. NamedIsCurrent'
  BY DEF StagedInv, NamedIsCurrent, PreSim
<1>3. NoProgramYet'
  BY DEF StagedInv, NoProgramYet, ProgramExists
<1>4. ChecksAgree' /\ PassFromThisMake' /\ CompileErrorKept'
  BY DEF ChecksAgree, PassFromThisMake, CompileErrorKept
<1> QED BY <1>1, <1>2, <1>3, <1>4 DEF StagedInv

\* run_rtl.py, the simulation: all that holds after it holds by what it writes.
LEMMA AfterRtl ==
  ASSUME Assumptions, StagedInv, pc = "sim", pc' = "copy",
         UNCHANGED <<make, bin, hex, pkl, trr, report>>, SGTypeOK',
         named'.run = make,
         \/ PreSim(named') /\ ~named'.verdict.passed
         \/ /\ log'.lines \subseteq LineKinds \X {make}
            /\ \/ log'.exists /\ named'.verdict = CheckLog(log', FALSE, named'.failed)
               \/ /\ named'.verdict = Verdict(FALSE, "CONFIG_ERROR")
                  /\ ~named'.failed
                  /\ log' = Log({}, make),
         ~ProgramExists => named' = CompileError(make)
  PROVE  StagedInv'
<1>1. ReportIsOld'
  BY DEF StagedInv, ReportIsOld, Recipes
<1>2. NamedIsCurrent'
  BY DEF NamedIsCurrent, PreSim
<1>3. NoProgramYet'
  BY RecordTyped DEF StagedInv, SGTypeOK, NoProgramYet, ProgramExists, CompileError, Record
<1>4. ChecksAgree' /\ PassFromThisMake' /\ CompileErrorKept' /\ VerdictsAgree'
  BY DEF ChecksAgree, PassFromThisMake, CompileErrorKept, VerdictsAgree
<1> QED BY <1>1, <1>2, <1>3, <1>4 DEF StagedInv

\* check_logs.py comes to the verdict of run_rtl.py, or to a missing pass marker
\* after a configuration error.
LEMMA CheckedVerdict ==
  ASSUME Assumptions, StagedInv, CheckLogs
  PROVE  /\ Recorded = named /\ named.run = make
         /\ pkl' = trr' /\ pkl'.run = make /\ pkl'.failed = named.failed
         /\ PreSim(named) => pkl'.verdict = Verdict(FALSE, named.verdict.mode)
         /\ \/ pkl'.verdict = named.verdict
            \/ /\ named.verdict.mode = "CONFIG_ERROR"
               /\ pkl'.verdict.mode = "NO_PASS_SIGNATURE"
         /\ pkl'.verdict.passed => PassPrinted(log, make)
<1>1. Recorded = named /\ named.run = make
  BY DEF StagedInv, ReportIsOld, NamedIsCurrent, CheckLogs, Recorded, Recipes, SGTypeOK, Makes
<1>2. named.verdict \in Verdicts /\ named.failed \in BOOLEAN /\ make \in Makes
  BY DEF StagedInv, SGTypeOK
<1> DEFINE verdict == IF PreSim(named) THEN Verdict(FALSE, named.verdict.mode)
                      ELSE CheckLog(log, FALSE, named.failed)
<1>3. pkl' = Record(make, verdict, named.failed) /\ trr' = pkl'
  BY <1>1 DEF CheckLogs
<1>4. pkl'.run = make /\ pkl'.failed = named.failed /\ pkl'.verdict = verdict
  BY <1>3 DEF Record
<1>5. CASE PreSim(named)
  <2>1. ~named.verdict.passed
    <3>1. named.verdict.mode \in PreSimFailureModes
      BY <1>5 DEF PreSim
    <3>2. log \in LogsOf(Makes) /\ pc = "check"
      BY DEF StagedInv, SGTypeOK, CheckLogs
    <3>3. CheckLog(log, FALSE, named.failed).mode \notin PreSimFailureModes
      BY <1>2, <3>2, CheckLogVerdict
    <3>4. Verdict(FALSE, "CONFIG_ERROR").mode \notin PreSimFailureModes
      BY DEF Verdict, PreSimFailureModes
    <3> QED BY <3>1, <3>2, <3>3, <3>4 DEF StagedInv, NamedIsCurrent
  <2>2. verdict = named.verdict
    BY <1>2, <1>5, <2>1 DEF Verdict, Verdicts
  <2> QED BY <1>1, <1>3, <1>4, <1>5, <2>1, <2>2
<1>6. CASE ~PreSim(named)
  <2>1. verdict = CheckLog(log, FALSE, named.failed)
    BY <1>6
  <2>2. log \in LogsOf(Makes) /\ log.lines \subseteq LineKinds \X {make}
    BY <1>6 DEF StagedInv, NamedIsCurrent, CheckLogs, SGTypeOK
  <2>3. verdict.passed => PassPrinted(log, make)
    <3>1. verdict.passed => \E line \in log.lines : line[1] = "pass"
      BY <1>2, <2>1, <2>2, CheckLogVerdict
    <3>2. \A line \in log.lines : line = <<line[1], make>>
      BY <2>2
    <3> QED BY <3>1, <3>2 DEF PassPrinted
  <2>4. CASE named.verdict = CheckLog(log, FALSE, named.failed)
    BY <1>1, <1>3, <1>4, <1>6, <2>1, <2>3, <2>4
  <2>5. CASE /\ named.verdict = Verdict(FALSE, "CONFIG_ERROR")
             /\ ~named.failed
             /\ log = Log({}, make)
    <3>1. verdict = Verdict(FALSE, "NO_PASS_SIGNATURE")
      BY <1>2, <2>1, <2>5, EmptyLogVerdict
    <3>2. named.verdict.mode = "CONFIG_ERROR" /\ verdict.mode = "NO_PASS_SIGNATURE"
      BY <2>5, <3>1, FailureTyped DEF FailureModes, LogModes
    <3> QED BY <1>1, <1>3, <1>4, <1>6, <2>3, <3>2
  <2> QED BY <1>6, <2>4, <2>5 DEF StagedInv, NamedIsCurrent, CheckLogs
<1> QED BY <1>5, <1>6

\* StagedRegression: every step keeps the invariant.
LEMMA StepInv ==
  ASSUME Assumptions, StagedInv, [Next]_vars
  PROVE  StagedInv'
<1>t. SGTypeOK'
  BY StepTyped DEF StagedInv
<1>m. make \in Nat /\ (pc \in Recipes => make > 0) /\ report.run \in Nat
  BY DEF StagedInv, ReportIsOld, SGTypeOK, Makes
<1>1. CASE StartMake
  BY <1>1, <1>t, <1>m
  DEF StartMake, StagedInv, ReportIsOld, NamedIsCurrent, NoProgramYet, ChecksAgree,
      PassFromThisMake, CompileErrorKept, VerdictsAgree, ProgramExists, Recipes
<1>2. CASE Stop
  <2>1. UNCHANGED <<make, bin, hex, log, named, pkl, trr, report>>
    BY <1>2 DEF Stop
  <2>2. pc \in Recipes
    BY <1>2 DEF Stop, Recipes
  <2>3. \/ pc' \in {"stopped", "compile"}
        \/ pc = "tb" /\ pc' = "sim"
        \/ pc = "copy" /\ pc' = "check"
    BY <1>2 DEF Stop
  <2> QED BY <1>t, <2>1, <2>2, <2>3, OnlyGoesOn
<1>3. CASE InstrGen
  <2>1. UNCHANGED <<make, bin, hex, log, named, pkl, trr, report>>
    BY <1>3 DEF InstrGen
  <2>2. pc \in Recipes
    BY <1>3 DEF InstrGen, Recipes
  <2>3. \/ pc' \in {"stopped", "compile"}
        \/ pc = "tb" /\ pc' = "sim"
        \/ pc = "copy" /\ pc' = "check"
    BY <1>3 DEF InstrGen
  <2> QED BY <1>t, <2>1, <2>2, <2>3, OnlyGoesOn
<1>4. CASE CompileTest
  <2>1. pc = "compile" /\ pc' = "tb" /\ UNCHANGED <<make, named, report>>
    BY <1>4 DEF CompileTest
  <2>2. NoProgramYet'
    <3>1. SUFFICES ASSUME ~ProgramExists'
                   PROVE  (named = NoRecord \/ named = CompileError(named.run))
                            /\ pkl' = CompileError(make)
      BY <2>1 DEF NoProgramYet
    <3>2. make # 0 /\ bin' = 0 /\ hex' = 0
      BY <1>m, <2>1, <3>1 DEF ProgramExists, Recipes
    <3>3. CompileFails /\ UNCHANGED <<bin, hex>>
      BY <1>4, <3>2 DEF CompileTest, CompileFails
    <3> QED BY <3>2, <3>3 DEF CompileFails, CompileError, StagedInv, NoProgramYet, ProgramExists
  <2> QED
    BY <1>t, <1>m, <2>1, <2>2
    DEF StagedInv, ReportIsOld, NamedIsCurrent, ChecksAgree,
        PassFromThisMake, CompileErrorKept, VerdictsAgree, Recipes
<1>5. CASE CompileBench
  <2>1. UNCHANGED <<make, bin, hex, log, named, pkl, trr, report>>
    BY <1>5 DEF CompileBench
  <2>2. pc \in Recipes
    BY <1>5 DEF CompileBench, Recipes
  <2>3. \/ pc' \in {"stopped", "compile"}
        \/ pc = "tb" /\ pc' = "sim"
        \/ pc = "copy" /\ pc' = "check"
    BY <1>5 DEF CompileBench
  <2> QED BY <1>t, <2>1, <2>2, <2>3, OnlyGoesOn
<1>6. CASE MissingBinary
  <2> DEFINE mode == IF PreSim(Recorded) THEN Recorded.verdict.mode ELSE "BINARY_MISSING"
  <2>1. mode \in PreSimFailureModes /\ mode \in FailureModes
    BY DEF PreSim, PreSimFailureModes, FailureModes
  <2>2. Recorded.failed \in BOOLEAN
    BY RecordedTyped DEF StagedInv
  <2>3. named' = Record(make, Verdict(FALSE, mode), Recorded.failed)
    BY <1>6 DEF MissingBinary
  <2>4. named'.run = make /\ PreSim(named') /\ ~named'.verdict.passed
    BY <2>1, <2>3 DEF Record, Verdict, PreSim
  <2>5. Recorded.verdict = Verdict(FALSE, "COMPILE_ERROR") /\ Recorded.failed = FALSE
    <3>1. /\ named = NoRecord \/ named = CompileError(named.run)
          /\ pkl = CompileError(make)
      BY <1>6 DEF MissingBinary, StagedInv, NoProgramYet
    <3>2. named.run # 0 => named = CompileError(named.run)
      BY <3>1, RecordFields
    <3>3. Recorded = CompileError(Recorded.run)
      BY <3>1, <3>2, RecordFields DEF Recorded
    <3> QED BY <3>3, RecordFields
  <2>6. mode = "COMPILE_ERROR"
    BY <2>5, FailureTyped DEF PreSim, PreSimFailureModes, FailureModes
  <2>7. named' = CompileError(make)
    BY <2>3, <2>5, <2>6 DEF CompileError
  <2> HIDE DEF mode
  <2> QED BY <1>6, <1>t, <2>4, <2>7, AfterRtl DEF MissingBinary
<1>7. CASE BenchLost
  <2>1. named' = CompileError(make)
    BY <1>7 DEF BenchLost, CompileError
  <2>2. named'.run = make /\ PreSim(named') /\ ~named'.verdict.passed
    BY <2>1 DEF CompileError, Record, Verdict, PreSim, PreSimFailureModes
  <2> QED BY <1>7, <1>t, <2>1, <2>2, AfterRtl DEF BenchLost
<1>8. CASE ConfigError
  <2>1. /\ named'.run = make /\ ~named'.failed
        /\ named'.verdict = Verdict(FALSE, "CONFIG_ERROR")
    BY <1>8 DEF ConfigError, Record
  <2>2. log' = Log({}, make) /\ log'.lines \subseteq LineKinds \X {make}
    BY <1>8, NewLog DEF ConfigError, StagedInv, SGTypeOK
  <2> QED BY <1>8, <1>t, <2>1, <2>2, AfterRtl DEF ConfigError
<1>9. CASE Simulate
  <2>1. PICK lines \in SimLogs, failed \in BOOLEAN :
          /\ log' = Log(lines, make)
          /\ named' = Record(make, CheckLines(lines, FALSE, failed), failed)
    BY <1>9 DEF Simulate
  <2>2. lines \in SUBSET LineKinds /\ make \in Makes
    BY DEF Assumptions, SimLogsAssumption, StagedInv, SGTypeOK
  <2>3. log'.exists /\ log'.lines \subseteq LineKinds \X {make} /\ KindsIn(log') = lines
    BY <2>1, <2>2, NewLog
  <2>4. /\ named'.run = make /\ named'.failed = failed
        /\ named'.verdict = CheckLines(lines, FALSE, failed)
    BY <2>1 DEF Record
  <2>5. named'.verdict = CheckLog(log', FALSE, named'.failed)
    BY <2>3, <2>4 DEF CheckLog
  <2> QED BY <1>9, <1>t, <2>3, <2>4, <2>5, AfterRtl DEF Simulate
<1>10. CASE CopyLog
  <2>1. UNCHANGED <<make, bin, hex, log, named, pkl, trr, report>>
    BY <1>10 DEF CopyLog
  <2>2. pc \in Recipes
    BY <1>10 DEF CopyLog, Recipes
  <2>3. \/ pc' \in {"stopped", "compile"}
        \/ pc = "tb" /\ pc' = "sim"
        \/ pc = "copy" /\ pc' = "check"
    BY <1>10 DEF CopyLog
  <2> QED BY <1>t, <2>1, <2>2, <2>3, OnlyGoesOn
<1>11. CASE CheckLogs
  <2>1. /\ pc = "check" /\ pc' = "collect"
        /\ UNCHANGED <<make, asm, bin, hex, log, named, report>>
    BY <1>11 DEF CheckLogs
  <2>2. ReportIsOld' /\ NamedIsCurrent' /\ VerdictsAgree'
    BY <2>1, <1>m DEF StagedInv, ReportIsOld, NamedIsCurrent, VerdictsAgree, Recipes
  <2>3. ChecksAgree'
    BY <1>11, <2>1, CheckedVerdict DEF ChecksAgree
  <2>4. PassFromThisMake'
    BY <1>11, <2>1, CheckedVerdict DEF PassFromThisMake
  <2>5. NoProgramYet'
    BY <2>1 DEF StagedInv, NoProgramYet, ProgramExists
  <2>6. CompileErrorKept'
    <3>1. SUFFICES ASSUME ~ProgramExists
                   PROVE  pkl' = CompileError(make)
      BY <2>1 DEF CompileErrorKept, ProgramExists, CompileError
    <3>2. named = CompileError(make)
      <4>1. named.run = make /\ make # 0
        BY <1>11, <1>m, <2>1, CheckedVerdict DEF Recipes
      <4>2. named = NoRecord \/ named = CompileError(named.run)
        BY <3>1 DEF StagedInv, NoProgramYet
      <4> QED BY <4>1, <4>2, RecordFields
    <3>3. named.verdict = Verdict(FALSE, "COMPILE_ERROR") /\ named.failed = FALSE
      BY <3>2, RecordFields
    <3>4. PreSim(named) /\ named.verdict.mode = "COMPILE_ERROR"
      BY <3>3, FailureTyped DEF PreSim, PreSimFailureModes, FailureModes
    <3>5. pkl'.verdict = Verdict(FALSE, "COMPILE_ERROR") /\ pkl'.run = make /\ pkl'.failed = FALSE
      BY <1>11, <3>3, <3>4, CheckedVerdict
    <3>6. pkl' \in [run : Makes, verdict : Verdicts, failed : BOOLEAN]
      BY <1>t DEF SGTypeOK
    <3> QED BY <3>5, <3>6 DEF CompileError, Record
  <2> QED BY <1>t, <2>2, <2>3, <2>4, <2>5, <2>6 DEF StagedInv
<1>12. CASE CollectResults
  <2>1. /\ pc = "collect" /\ pc' = "stopped" /\ report'.run = make
        /\ UNCHANGED <<make, asm, bin, hex, log, named, pkl, trr>>
    BY <1>12 DEF CollectResults
  <2>2. pkl.run = make /\ make # 0
    BY <1>m, <2>1 DEF StagedInv, ChecksAgree, Recipes
  <2>3. Counted = {pkl}
    BY <2>2 DEF Counted
  <2>4. report'.total = 1 /\ report'.passed = IF pkl.verdict.passed THEN 1 ELSE 0
    BY <1>12, <2>3 DEF CollectResults
  <2>5. VerdictsAgree'
    BY <2>1, <2>4 DEF StagedInv, ChecksAgree, VerdictsAgree
  <2> QED
    BY <1>t, <1>m, <2>1, <2>5
    DEF StagedInv, ReportIsOld, NamedIsCurrent, NoProgramYet, ChecksAgree,
        PassFromThisMake, CompileErrorKept, ProgramExists, Recipes
<1>13. CASE UNCHANGED vars
  BY <1>13, <1>t
  DEF vars, StagedInv, ReportIsOld, NamedIsCurrent, NoProgramYet, ChecksAgree,
      PassFromThisMake, CompileErrorKept, VerdictsAgree, ProgramExists, PreSim
<1> QED
  BY <1>1, <1>2, <1>3, <1>4, <1>5, <1>6, <1>7, <1>8, <1>9, <1>10, <1>11, <1>12, <1>13
  DEF Next, RunRtl

-----------------------------------------------------------------------------
\* wrapper.mk and its scripts: the invariant holds for any number of makes.
THEOREM StagedInvariant == ASSUME Assumptions PROVE Spec => []StagedInv
<1>1. Init => StagedInv
  BY InitInv
<1>2. StagedInv /\ [Next]_vars => StagedInv'
  BY StepInv
<1> QED BY <1>1, <1>2, PTL DEF Spec

\* Every variable keeps a value of its type.
THEOREM StagedTypeCorrect == ASSUME Assumptions PROVE Spec => []SGTypeOK
<1>1. StagedInv => SGTypeOK
  BY DEF StagedInv
<1> QED BY <1>1, StagedInvariant, PTL

\* check_logs.py lets no test pass on the log of an earlier make.
THEOREM PassFromThisMakeHolds == ASSUME Assumptions PROVE Spec => []PassFromThisMake
<1>1. StagedInv => PassFromThisMake
  BY DEF StagedInv
<1> QED BY <1>1, StagedInvariant, PTL

\* A failed compilation is reported as one as long as there was never a program.
THEOREM CompileErrorKeptHolds == ASSUME Assumptions PROVE Spec => []CompileErrorKept
<1>1. StagedInv => CompileErrorKept
  BY DEF StagedInv
<1> QED BY <1>1, StagedInvariant, PTL

\* The records that a complete make leaves agree.
THEOREM VerdictsAgreeHolds == ASSUME Assumptions PROVE Spec => []VerdictsAgree
<1>1. StagedInv => VerdictsAgree
  BY DEF StagedInv
<1> QED BY <1>1, StagedInvariant, PTL
=============================================================================
