----------------------------- MODULE Compliance -----------------------------
(***************************************************************************)
(* The RISC-V compliance stage: run_compliance.py runs the suites one      *)
(* after the other and compares the signature each test streams through    *)
(* the mailbox with its reference; collect_compliance.py scans the work    *)
(* directory again; signoff.py judges the reports.                         *)
(*                                                                         *)
(* The compiler and the simulator are external.  A signature is a sequence *)
(* of words.  Files carry the number of the run that wrote them (0: none). *)
(***************************************************************************)
EXTENDS StageGate, Sequences

CONSTANTS
  Suites,       \* the suites in the order of --isa all
  TestsOf,      \* suite -> its tests in order
  Reference,    \* test -> the words of its reference file, << >> when missing
  SuiteRate,    \* the suites with a gate -> least pass rate in percent
  KnownFail,    \* the other gated suites -> how many tests may fail
  Under,        \* suite -> the suites whose name begins with its name
  SimOutcomes,  \* what a simulation may do
  Options,      \* the command lines to choose from
  MaxRuns       \* bound: runs on one directory

Elements(seq) == {seq[i] : i \in DOMAIN seq}
Distinct(seq) == \A i, j \in DOMAIN seq : seq[i] = seq[j] => i = j

SuiteNames == Elements(Suites)
TestNames(s) == Elements(TestsOf[s])
Tests == UNION {TestNames(s) : s \in SuiteNames}

ASSUME SuitesAssumption ==
  /\ Suites \in Seq(SuiteNames) /\ Suites # << >> /\ Distinct(Suites)
  /\ DOMAIN TestsOf = SuiteNames
  /\ \A s \in SuiteNames : TestsOf[s] \in Seq(TestNames(s)) /\ Distinct(TestsOf[s])
  /\ "" \notin Tests
  /\ \A s, t \in SuiteNames : s # t => TestNames(s) \intersect TestNames(t) = {}
  /\ DOMAIN Reference = Tests
  /\ DOMAIN SuiteRate \union DOMAIN KnownFail \subseteq SuiteNames
  /\ DOMAIN Under = SuiteNames /\ \A s \in SuiteNames : s \in Under[s]
ASSUME OptionsAssumption ==
  \A o \in Options : /\ o.dry \in BOOLEAN     \* --dry-run
                     /\ o.output \in BOOLEAN  \* --output, as signoff.py passes it
ASSUME OutcomesAssumption ==
  \A o \in SimOutcomes :
    /\ o.hung \in BOOLEAN            \* subprocess.run gave up waiting
    /\ o.lines \subseteq LineKinds   \* what the bench prints besides the mailbox
    /\ o.writes \in Seq(Elements(o.writes))  \* the writes to the mailbox

VARIABLES
  opts, run,
  pc,          \* "idle", "suite", "compile", "simulate", "crashed"
  at,          \* the place in Suites and in the tests of that suite
  results,     \* of the current suite
  all,         \* of every suite so far
  exit,        \* the exit code, so far or of the last run
  sig,         \* test -> <test>.signature.output
  log,         \* test -> <test>.log
  dirs,        \* the suites that have a directory
  suiteReport, \* suite -> its report.json
  topReport,   \* the report.json above them
  verdict      \* what signoff.py made of it last

vars == <<opts, run, pc, at, results, all, exit, sig, log, dirs, suiteReport,
          topReport, verdict>>
reports == <<suiteReport, topReport>>

Runs == 0..MaxRuns
Suite == Suites[at.suite]
Test == TestsOf[Suite][at.test]

\* type: the suite, or "all" in the report the runner aggregates.
Result(name, type, passed, mode, logName) ==
  [name |-> name, type |-> type, passed |-> passed, mode |-> mode, log |-> logName]

Report(r, tests) == [run |-> r, tests |-> tests]
NoReport == Report(0, {})
NoSignature == [run |-> 0, words |-> << >>]
NoVerdict == [run |-> 0, status |-> "FAIL", counted |-> {}]

Init ==
  /\ opts \in Options
  /\ run = 0
  /\ pc = "idle"
  /\ at = [suite |-> 1, test |-> 1]
  /\ results = {}
  /\ all = {}
  /\ exit = 0
  /\ sig = [t \in Tests |-> NoSignature]
  /\ log = [t \in Tests |-> NoLog]
  /\ dirs = {}
  /\ suiteReport = [s \in SuiteNames |-> NoReport]
  /\ topReport = NoReport
  /\ verdict = NoVerdict

-----------------------------------------------------------------------------
(***************************************************************************)
(* run_simulation: the mailbox.  A write is "pass" (0xFF), "fail" (0x01),  *)
(* "newline", "other" (the cause of a trap, an address) or a word: the     *)
(* eight digits that spell it.  The first write is skipped whatever it is. *)
(***************************************************************************)
Control == {"pass", "fail", "newline", "other"}

Skipped(writes) == IF writes = << >> THEN << >> ELSE Tail(writes)

\* The places after which the loop is left.
Stops(body) ==
  {i \in DOMAIN body :
     \/ body[i] \in {"pass", "newline"}
     \/ body[i] # "fail" /\ \E k \in 1..(i - 1) : body[k] = "fail"}

ReadWrites(writes) ==
  LET body == Skipped(writes)
  IN  IF Stops(body) = {} THEN body
      ELSE SubSeq(body, 1, CHOOSE i \in Stops(body) : \A k \in Stops(body) : i <= k)

\* A plausible bug: a failing test that streamed a signature is compared.
MailboxPassed_words(writes) ==
  \E i \in DOMAIN ReadWrites(writes) : ReadWrites(writes)[i] # "fail"

\* The pass token decides, also after a fail token.
MailboxPassed(writes) ==
  \E i \in DOMAIN ReadWrites(writes) : ReadWrites(writes)[i] = "pass"

\* Words after a fail token end the loop and are not taken.
SignatureOf(writes) ==
  LET isWord(w) == w \notin Control
      read == ReadWrites(writes)
      failed == \E i \in DOMAIN read : read[i] = "fail"
  IN  SelectSeq(IF failed /\ Stops(Skipped(writes)) # {}
                  THEN SubSeq(read, 1, Len(read) - 1) ELSE read, isWord)

\* What the bench prints of the writes (core_eh2_tb_top.sv).
PrintedLines(writes) ==
  {w \in {"pass", "fail"} : \E i \in DOMAIN writes : writes[i] = w}

\* compare_signatures of both scripts: without a reference any signature passes.
SignatureMatches(actual, reference) ==
  actual # << >> /\ (reference = << >> \/ actual = reference)

-----------------------------------------------------------------------------
(***************************************************************************)
(* run_compliance.py                                                       *)
(***************************************************************************)
StartRun ==
  /\ pc \in {"idle", "crashed"}
  /\ run < MaxRuns
  /\ run' = run + 1
  /\ pc' = "suite"
  /\ at' = [suite |-> 1, test |-> 1]
  /\ results' = {}
  /\ all' = {}
  /\ exit' = 0
  /\ UNCHANGED <<opts, sig, log, dirs, reports, verdict>>

\* No simulator (1) or no compiler (2): nothing is written.
Refuse ==
  /\ pc = "suite"
  /\ at.suite = 1
  /\ \E code \in {1, 2} : (code = 1 => ~opts.dry) /\ exit' = code
  /\ pc' = "idle"
  /\ UNCHANGED <<opts, run, at, results, all, sig, log, dirs, reports, verdict>>

SuitesLeft == at.suite <= Len(Suites)
NextSuite == [suite |-> at.suite + 1, test |-> 1]

\* A plausible bug: the check for nothing at all is left out.
SkipSuite_silent ==
  /\ pc = "suite"
  /\ SuitesLeft
  /\ at' = NextSuite
  /\ dirs' \in {dirs, dirs \union {Suite}}
  /\ UNCHANGED <<opts, run, pc, results, all, exit, sig, log, reports, verdict>>

\* The suite, its device files or its tests are not there: a total of 0, and no
\* report.  The directory may have been made already.
SkipSuite ==
  /\ pc = "suite"
  /\ SuitesLeft
  /\ at' = NextSuite
  /\ exit' = IF exit = 0 THEN 2 ELSE exit
  /\ dirs' \in {dirs, dirs \union {Suite}}
  /\ UNCHANGED <<opts, run, pc, results, all, sig, log, reports, verdict>>

OpenSuite ==
  /\ pc = "suite"
  /\ SuitesLeft
  /\ TestsOf[Suite] # << >>
  /\ pc' = "compile"
  /\ results' = {}
  /\ dirs' = dirs \union {Suite}
  /\ UNCHANGED <<opts, run, at, all, exit, sig, log, reports, verdict>>

\* The last test of a suite writes the report of the suite.
AddResult(result) ==
  LET tests == results \union {result}
  IN  /\ results' = tests
      /\ IF at.test < Len(TestsOf[Suite])
           THEN /\ at' = [at EXCEPT !.test = @ + 1]
                /\ pc' = "compile"
                /\ UNCHANGED <<all, exit, suiteReport>>
           ELSE /\ at' = NextSuite
                /\ pc' = "suite"
                /\ all' = all \union tests
                /\ exit' = IF Failing(tests) # {} THEN 1 ELSE exit
                /\ suiteReport' = [suiteReport EXCEPT ![Suite] = Report(run, tests)]

\* The compiler fails, or the run is a dry one; the compiler's own time limit
\* is caught by nobody (Crash).
CompileTest ==
  /\ pc = "compile"
  /\ \/ AddResult(Result(Test, Suite, FALSE, "compile", ""))
     \/ opts.dry /\ AddResult(Result(Test, Suite, TRUE, "", ""))
     \/ /\ ~opts.dry
        /\ pc' = "simulate"
        /\ UNCHANGED <<at, results, all, exit, suiteReport>>
  /\ UNCHANGED <<opts, run, sig, log, dirs, topReport, verdict>>

\* run_simulation and the comparison.  The log is new; the signature file is
\* written only by a simulation that ended and wrote to the mailbox.  Only a
\* failed simulation names its log in the result.
SimulateTest ==
  /\ pc = "simulate"
  /\ \E o \in SimOutcomes :
       LET words == SignatureOf(o.writes)
           passed == ~o.hung /\ MailboxPassed(o.writes)
           mode == IF o.hung THEN "timeout"
                   ELSE IF words = << >> THEN "no_signature" ELSE "simulation"
       IN  /\ log' = [log EXCEPT ![Test] =
                        Log(PrintedLines(o.writes) \union o.lines, run)]
           /\ sig' = IF o.hung \/ o.writes = << >> THEN sig
                     ELSE [sig EXCEPT ![Test] = [run |-> run, words |-> words]]
           /\ AddResult(
                IF ~passed THEN Result(Test, Suite, FALSE, mode, Test)
                ELSE IF SignatureMatches(words, Reference[Test])
                  THEN Result(Test, Suite, TRUE, "", "")
                ELSE Result(Test, Suite, FALSE, "signature_mismatch", ""))
  /\ UNCHANGED <<opts, run, dirs, topReport, verdict>>

\* The aggregated report is written with --output only, under a type of its own.
FinishRun ==
  /\ pc = "suite"
  /\ ~SuitesLeft
  /\ pc' = "idle"
  /\ topReport' = IF opts.output
                    THEN Report(run, {[r EXCEPT !.type = "all"] : r \in all})
                    ELSE topReport
  /\ UNCHANGED <<opts, run, at, results, all, exit, sig, log, dirs, suiteReport, verdict>>

\* An exception that nobody catches (1), or the time limit of the stage (124).
Crash ==
  /\ pc \in {"compile", "simulate"}
  /\ pc' = "crashed"
  /\ exit' \in {1, 124}
  /\ UNCHANGED <<opts, run, at, results, all, sig, log, dirs, reports, verdict>>

-----------------------------------------------------------------------------
(***************************************************************************)
(* collect_compliance.py                                                   *)
(***************************************************************************)
\* collect_isa: signature files first, then the logs that have none.  Every
\* result names the log.
Collected(s) ==
  IF s \notin dirs THEN {}
  ELSE {Result(t, s, SignatureMatches(sig[t].words, Reference[t]),
               IF SignatureMatches(sig[t].words, Reference[t]) THEN ""
               ELSE "signature_mismatch", t) :
          t \in {u \in TestNames(s) : sig[u].run # 0}}
       \union {Result(t, s, FALSE, "no_signature", t) :
                 t \in {u \in TestNames(s) : sig[u].run = 0 /\ log[u].exists}}

\* The reports of the suites are written in order: a suite without a directory
\* raises and ends the loop.
Collect ==
  /\ pc \in {"idle", "crashed"}
  /\ ~opts.output
  /\ run > 0
  /\ topReport' = Report(run, UNION {Collected(s) : s \in SuiteNames})
  /\ suiteReport' =
       [s \in SuiteNames |->
          IF \E i \in DOMAIN Suites :
               Suites[i] = s /\ \A k \in 1..i : Suites[k] \in dirs
            THEN Report(run, Collected(s)) ELSE suiteReport[s]]
  /\ UNCHANGED <<opts, run, pc, at, results, all, exit, sig, log, dirs, verdict>>

-----------------------------------------------------------------------------
(***************************************************************************)
(* signoff.py                                                              *)
(***************************************************************************)
\* evaluate_compliance_per_suite, on the reports as they were written.  Without
\* the report of a suite the one above is searched for results of that type.
SuiteBlocked(s) ==
  LET report == IF suiteReport[s].run # 0 THEN suiteReport[s] ELSE topReport
      tests == {r \in report.tests : r.type \in Under[s]}
  IN  \/ report.run = 0
      \/ 100 * Cardinality(Passing(tests)) < SuiteRate[s] * Cardinality(tests)

KnownFailExceeded(s) ==
  Cardinality(Failing(suiteReport[s].tests)) > KnownFail[s]

SuiteBlocks == \/ \E s \in DOMAIN SuiteRate : SuiteBlocked(s)
               \/ \E s \in DOMAIN KnownFail : KnownFailExceeded(s)

\* The stage as a whole: the exit code counts when signoff.py ran the stage
\* itself, a replay of its directory (--stage-result) has none.
SignOff ==
  /\ pc \in {"idle", "crashed"}
  /\ run > 0
  /\ LET counted == Refresh(topReport.tests, log)
         stage == CollectStage("compliance", counted,
                               IF opts.output THEN exit ELSE 0, FALSE)
     IN  verdict' = [run |-> run,
                     status |-> IF SuiteBlocks THEN "FAIL" ELSE stage.status,
                     counted |-> counted]
  /\ UNCHANGED <<opts, run, pc, at, results, all, exit, sig, log, dirs, reports>>

Next == \/ StartRun \/ Refuse \/ SkipSuite \/ OpenSuite \/ CompileTest
        \/ SimulateTest \/ FinishRun \/ Crash \/ Collect \/ SignOff

Spec == Init /\ [][Next]_vars

-----------------------------------------------------------------------------
RunnerModes == {"", "compile", "timeout", "no_signature", "simulation",
                "signature_mismatch"}
IsResult(r) ==
  /\ r.name \in Tests /\ r.type \in SuiteNames \union {"all"}
  /\ r.passed \in BOOLEAN /\ r.mode \in RunnerModes /\ r.log \in {"", r.name}
IsReport(report) ==
  report.run \in Runs /\ \A r \in report.tests : IsResult(r)

\* Every variable has a value of its type.  Documentation: checked by hand.
CTypeOK ==
  /\ opts \in Options
  /\ run \in Runs
  /\ pc \in {"idle", "suite", "compile", "simulate", "crashed"}
  /\ at.suite \in 1..(Len(Suites) + 1) /\ at.test \in Nat
  /\ pc \in {"compile", "simulate"} => at.test \in DOMAIN TestsOf[Suite]
  /\ \A r \in results \union all : IsResult(r)
  /\ exit \in {0, 1, 2, 124}
  /\ \A t \in Tests : sig[t].run \in Runs /\ log[t] \in LogsOf(Runs)
  /\ dirs \subseteq SuiteNames
  /\ IsReport(topReport) /\ \A s \in SuiteNames : IsReport(suiteReport[s])
  /\ verdict.run \in Runs /\ verdict.status \in {"PASS", "FAIL"}
  /\ \A r \in verdict.counted : IsResult(r)

\* A test that the report of its suite calls passed has a signature on disk that
\* is equal to the reference, where there is one.  When the runner wrote the
\* report, signature and pass token are of that same run: no early return of the
\* runner lets the files of an earlier run vouch for a test.  The collector, whose
\* results name the log, keeps the first half only.
\* (run_compliance.py:159-302, 470-560, collect_compliance.py:75-155)
ReportedPassIsReal ==
  ~opts.dry =>
    \A s \in SuiteNames : suiteReport[s].run = run =>
      \A r \in Passing(suiteReport[s].tests) :
        /\ SignatureMatches(sig[r.name].words, Reference[r.name])
        /\ r.log = "" => sig[r.name].run = run /\ PassPrinted(log[r.name], run)

\* A runner that exits with 0 ran every suite, wrote the report of each in this
\* run with all of its tests, and none of them failed; a failed test never ends
\* in another code than 1.  (run_compliance.py:696-728)
ExitCodeSound ==
  pc = "idle" /\ run > 0 /\ at.suite > Len(Suites) =>
    /\ exit = 0 =>
         \A s \in SuiteNames :
           /\ suiteReport[s].run = run
           /\ opts.output =>
                /\ Failing(suiteReport[s].tests) = {}
                /\ {r.name : r \in suiteReport[s].tests} = TestNames(s)
    /\ Failing(all) # {} => exit = 1
    /\ opts.output /\ Failing(all) = {} =>
         Failing(topReport.tests) = {} /\ exit \in {0, 2}

\* What the header of the runner says, "any byte difference is a FAIL", and
\* sign-off does not keep for the reports of the collector: a test that is counted
\* as passed and has a signature has that of its reference.
NoRelaxation ==
  verdict.run = run /\ pc = "idle" =>
    \A r \in Passing(verdict.counted) :
      sig[r.name].words # << >> => SignatureMatches(sig[r.name].words, Reference[r.name])
=============================================================================
