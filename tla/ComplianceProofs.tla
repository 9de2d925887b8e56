--------------------------- MODULE ComplianceProofs ---------------------------
(***************************************************************************)
(* What holds of the compliance stage for any suites, tests, references,   *)
(* behaviours of the simulator and number of runs on one directory.        *)
(*                                                                         *)
(* A report that carries the number of this run was written by it, and,    *)
(* while the runner is at work, for a suite it has left (Stamps): the      *)
(* tests to come overwrite signatures and logs of other tests only, so     *)
(* what vouches for a pass stays on disk (Held).  The exit code stays 0    *)
(* only while every suite left behind was opened and has passed (Codes).   *)
(***************************************************************************)
EXTENDS Compliance, WellFoundedInduction, TLAPS

Assumptions == SuitesAssumption /\ OptionsAssumption /\ OutcomesAssumption

-----------------------------------------------------------------------------
(***************************************************************************)
(* The mailbox                                                             *)
(***************************************************************************)
\* A set of naturals that is not empty has a least element.
LEMMA HasLeast ==
  ASSUME NEW S, S \subseteq Nat, S # {}
  PROVE  \E n \in S : \A k \in S : n <= k
<1> DEFINE R == {ss \in Nat \X Nat : ss[1] < ss[2]}
<1>1. OpToRel(<, Nat) = R
  BY Zenon DEF OpToRel
<1>2. \E n \in S : \A k \in S : <<k, n>> \notin R
  <2>1. IsWellFoundedOn(R, Nat)
    BY <1>1, NatLessThanWellFounded
  <2> HIDE DEF R
  <2> QED BY <2>1, WFMin
<1>3. PICK n \in S : \A k \in S : <<k, n>> \notin R
  BY <1>2
<1>4. ASSUME NEW k \in S PROVE n <= k
  <2>1. SUFFICES ASSUME k < n PROVE FALSE
    OBVIOUS
  <2>2. <<k, n>> \in R
    BY <2>1
  <2> QED BY <1>3, <2>2
<1> QED BY <1>4

\* What is read of the writes is among them.
LEMMA ReadIsWritten ==
  ASSUME NEW W, NEW writes \in Seq(W), NEW i \in DOMAIN ReadWrites(writes)
  PROVE  \E k \in DOMAIN writes : ReadWrites(writes)[i] = writes[k]
<1> DEFINE body == Skipped(writes)
           stop == CHOOSE n \in Stops(body) : \A k \in Stops(body) : n <= k
<1>1. body \in Seq(W) /\ \A n \in DOMAIN body : \E k \in DOMAIN writes : body[n] = writes[k]
  <2>1. CASE writes = << >>
    BY <2>1 DEF Skipped
  <2>2. CASE writes # << >>
    <3>1. body = Tail(writes)
      BY <2>2 DEF Skipped
    <3>2. /\ Tail(writes) \in Seq(W) /\ Len(writes) \in Nat \ {0}
          /\ DOMAIN Tail(writes) = 1..(Len(writes) - 1)
          /\ \A n \in 1..(Len(writes) - 1) : Tail(writes)[n] = writes[n + 1]
      BY <2>2
    <3>3. \A n \in 1..(Len(writes) - 1) : n + 1 \in DOMAIN writes
      BY <3>2
    <3> HIDE DEF body
    <3> QED BY <3>1, <3>2, <3>3
  <2> QED BY <2>1, <2>2
<1> HIDE DEF body
<1>2. CASE Stops(body) = {}
  BY <1>1, <1>2 DEF ReadWrites, body
<1>3. CASE Stops(body) # {}
  <2>1. Stops(body) \subseteq DOMAIN body /\ DOMAIN body = 1..Len(body) /\ Len(body) \in Nat
    BY <1>1 DEF Stops
  <2>2. stop \in Stops(body)
    <3> DEFINE S == Stops(body)
    <3>1. S \subseteq Nat /\ S # {}
      BY <1>3, <2>1
    <3> HIDE DEF S
    <3>2. \E n \in S : \A k \in S : n <= k
      BY <3>1, HasLeast
    <3> QED BY <3>2 DEF S
  <2>3. ReadWrites(writes) = SubSeq(body, 1, stop)
    BY <1>3 DEF ReadWrites, body
  <2> HIDE DEF stop
  <2>4. stop \in 1..Len(body)
    BY <2>1, <2>2
  <2>5. i \in 1..stop /\ ReadWrites(writes)[i] = body[i]
    BY <1>1, <2>1, <2>3, <2>4
  <2> QED BY <1>1, <2>1, <2>4, <2>5
<1> QED BY <1>2, <1>3

\* A simulation that passes wrote the pass token, which the bench printed.
LEMMA PassWritten ==
  ASSUME Assumptions, NEW o \in SimOutcomes, MailboxPassed(o.writes)
  PROVE  o.writes # << >> /\ "pass" \in PrintedLines(o.writes)
<1>1. o.writes \in Seq(Elements(o.writes))
  BY DEF Assumptions, OutcomesAssumption
<1>2. PICK i \in DOMAIN ReadWrites(o.writes) : ReadWrites(o.writes)[i] = "pass"
  BY DEF MailboxPassed
<1>3. PICK k \in DOMAIN o.writes : o.writes[k] = "pass"
  BY <1>1, <1>2, ReadIsWritten
<1> QED BY <1>3 DEF PrintedLines

-----------------------------------------------------------------------------
(***************************************************************************)
(* The inductive invariant                                                 *)
(***************************************************************************)
RunnerResults ==
  [name : Tests, type : SuiteNames, passed : BOOLEAN, mode : RunnerModes,
   log : Tests \union {""}]

Busy == pc \in {"suite", "compile", "simulate"}
InSuite == pc \in {"compile", "simulate"}

\* The suites the runner has left, and the tests of the suite it has left.
Before(s) == \E i \in DOMAIN Suites : i < at.suite /\ Suites[i] = s
Done == {TestsOf[Suite][k] : k \in 1..(at.test - 1)}

NamesOf(tests) == {r.name : r \in tests}

\* What the report of the runner says of a test that passed is on disk.
Real(r) ==
  /\ SignatureMatches(sig[r.name].words, Reference[r.name])
  /\ r.log = "" => sig[r.name].run = run /\ PassPrinted(log[r.name], run)
Vouched(tests) == ~opts.dry => \A r \in Passing(tests) : Real(r)

Complete(s) ==
  /\ Failing(suiteReport[s].tests) = {}
  /\ NamesOf(suiteReport[s].tests) = TestNames(s)

Place ==
  /\ run \in Nat /\ opts \in Options
  /\ at \in [suite : 1..(Len(Suites) + 1), test : Nat \ {0}]
  /\ pc = "suite" => at.test = 1
  /\ InSuite => /\ at.suite \in DOMAIN Suites
                /\ at.test \in DOMAIN TestsOf[Suite]
                /\ Suite \in dirs
  /\ run = 0 => pc = "idle"

Stamps ==
  /\ DOMAIN suiteReport = SuiteNames
  /\ \A s \in SuiteNames :
       /\ suiteReport[s].run \in 0..run
       /\ run = 0 => suiteReport[s].tests = {}
       /\ Busy /\ suiteReport[s].run = run => Before(s)

Held ==
  /\ DOMAIN sig = Tests /\ DOMAIN log = Tests
  /\ results \subseteq RunnerResults
  /\ InSuite => NamesOf(results) = Done /\ Vouched(results)
  /\ \A s \in SuiteNames :
       /\ suiteReport[s].tests \subseteq RunnerResults
       /\ NamesOf(suiteReport[s].tests) \subseteq TestNames(s)
       /\ suiteReport[s].run = run => Vouched(suiteReport[s].tests)

\* The exit code of a runner that has come to this place.
ExitSoFar ==
  /\ Failing(all) # {} => exit = 1
  /\ Failing(all) = {} => exit \in {0, 2}

Codes ==
  /\ all \subseteq RunnerResults
  /\ Busy =>
       /\ ExitSoFar
       /\ exit = 0 => \A s \in SuiteNames :
            Before(s) => s \in dirs /\ suiteReport[s].run = run /\ Complete(s)
  /\ pc = "idle" /\ run > 0 /\ at.suite > Len(Suites) =>
       /\ ExitSoFar
       /\ exit = 0 => \A s \in SuiteNames :
            suiteReport[s].run = run /\ (opts.output => Complete(s))
       /\ opts.output /\ Failing(all) = {} => Failing(topReport.tests) = {}

IInv == Place /\ Stamps /\ Held /\ Codes

-----------------------------------------------------------------------------
(***************************************************************************)
(* The end of a test                                                       *)
(***************************************************************************)
\* Where a runner inside a suite is.
LEMMA Inside ==
  ASSUME Assumptions, Place, InSuite
  PROVE  /\ Len(Suites) \in Nat /\ DOMAIN Suites = 1..Len(Suites)
         /\ at.suite \in 1..Len(Suites) /\ Suite \in SuiteNames
         /\ Len(TestsOf[Suite]) \in Nat
         /\ DOMAIN TestsOf[Suite] = 1..Len(TestsOf[Suite])
         /\ at.test \in 1..Len(TestsOf[Suite])
         /\ Test \in TestNames(Suite) /\ Test \in Tests
         /\ Suite \in dirs
<1>1. Suites \in Seq(SuiteNames) /\ at.suite \in DOMAIN Suites /\ at.test \in DOMAIN TestsOf[Suite]
  BY DEF Assumptions, SuitesAssumption, Place
<1>2. Suite \in SuiteNames
  BY <1>1 DEF Suite, SuiteNames, Elements
<1>3. TestsOf[Suite] \in Seq(TestNames(Suite))
  BY <1>2 DEF Assumptions, SuitesAssumption
<1>4. Test \in TestNames(Suite) /\ Test \in Tests
  BY <1>1, <1>2 DEF Test, TestNames, Elements, Tests
<1>5. Len(Suites) \in Nat /\ DOMAIN Suites = 1..Len(Suites)
  BY <1>1
<1>6. Len(TestsOf[Suite]) \in Nat /\ DOMAIN TestsOf[Suite] = 1..Len(TestsOf[Suite])
  BY <1>3
<1> QED BY <1>1, <1>2, <1>4, <1>5, <1>6 DEF Place

\* A suite left behind is not the current one, a test left behind neither.
LEMMA Apart ==
  ASSUME Assumptions, Place, InSuite
  PROVE  /\ Test \notin Done
         /\ \A s \in SuiteNames : Before(s) => s # Suite /\ Test \notin TestNames(s)
<1>1. Distinct(Suites) /\ Distinct(TestsOf[Suite])
  BY Inside DEF Assumptions, SuitesAssumption
<1>2. Test \notin Done
  <2>1. SUFFICES ASSUME NEW k \in 1..(at.test - 1), TestsOf[Suite][k] = Test PROVE FALSE
    BY DEF Done
  <2>2. k \in DOMAIN TestsOf[Suite] /\ at.test \in DOMAIN TestsOf[Suite] /\ k # at.test
    BY Inside
  <2> QED BY <1>1, <2>1, <2>2 DEF Distinct, Test
<1>3. ASSUME NEW s \in SuiteNames, Before(s) PROVE s # Suite /\ Test \notin TestNames(s)
  <2>1. PICK i \in DOMAIN Suites : i < at.suite /\ Suites[i] = s
    BY <1>3 DEF Before
  <2>2. at.suite \in DOMAIN Suites /\ i # at.suite
    BY <2>1, Inside
  <2>3. s # Suite
    BY <1>1, <2>1, <2>2 DEF Distinct, Suite
  <2>4. TestNames(s) \intersect TestNames(Suite) = {}
    BY <2>3, Inside DEF Assumptions, SuitesAssumption
  <2> QED BY <2>3, <2>4, Inside
<1> QED BY <1>2, <1>3

\* Real, of the result of a step, after that step.
RealNow(r) ==
  /\ SignatureMatches(sig'[r.name].words, Reference[r.name])
  /\ r.log = "" => sig'[r.name].run = run' /\ PassPrinted(log'[r.name], run')

\* What a step does that ends a test: only the files of that test are written,
\* and they bear a pass out.
Ends(result) ==
  /\ result \in RunnerResults /\ result.name = Test
  /\ AddResult(result)
  /\ UNCHANGED <<opts, run, dirs, topReport>>
  /\ DOMAIN sig' = Tests /\ DOMAIN log' = Tests
  /\ \A t \in Tests \ {Test} : sig'[t] = sig[t] /\ log'[t] = log[t]
  /\ ~opts.dry /\ result.passed => RealNow(result)

\* What was vouched for still is, and the tests of the suite are one more.
LEMMA EndsKeeps ==
  ASSUME Assumptions, IInv, InSuite, NEW result, Ends(result)
  PROVE  LET tests == results \union {result}
         IN  /\ tests \subseteq RunnerResults
             /\ NamesOf(tests) = Done \union {Test}
             /\ ~opts.dry => \A r \in Passing(tests) : Real(r)'
             /\ ~opts.dry => \A s \in SuiteNames : suiteReport[s].run = run =>
                  \A r \in Passing(suiteReport[s].tests) : Real(r)'
<1> DEFINE tests == results \union {result}
<1>1. Place /\ Held /\ Stamps
  BY DEF IInv
<1>2. tests \subseteq RunnerResults
  BY <1>1 DEF Held, Ends
<1>3. NamesOf(tests) = Done \union {Test}
  BY <1>1 DEF Held, Ends, NamesOf
<1>4. ASSUME NEW r, r.name \in Tests \ {Test}, Real(r) PROVE Real(r)'
  BY <1>4 DEF Real, Ends
<1>5. ASSUME ~opts.dry, NEW r \in Passing(tests) PROVE Real(r)'
  <2>1. CASE r = result
    BY <1>5, <2>1 DEF Ends, Passing, Real, RealNow
  <2>2. CASE r # result
    <3>1. r \in Passing(results) /\ r \in results
      BY <1>5, <2>2 DEF Passing
    <3>2. Real(r)
      BY <1>1, <1>5, <3>1 DEF Held, Vouched
    <3>3. r.name \in Done /\ r.name \in Tests
      BY <1>1, <3>1 DEF Held, NamesOf, RunnerResults
    <3> QED BY <1>1, <1>4, <3>2, <3>3, Apart
  <2> QED BY <2>1, <2>2
<1>6. ASSUME ~opts.dry, NEW s \in SuiteNames, suiteReport[s].run = run,
             NEW r \in Passing(suiteReport[s].tests)
      PROVE  Real(r)'
  <2>1. r \in suiteReport[s].tests
    BY <1>6 DEF Passing
  <2>2. Real(r)
    BY <1>1, <1>6 DEF Held, Vouched
  <2>3. r.name \in TestNames(s) /\ r.name \in Tests
    BY <1>1, <2>1 DEF Held, NamesOf, RunnerResults
  <2>4. Before(s)
    BY <1>1, <1>6 DEF Stamps, Busy, InSuite
  <2> QED BY <1>1, <1>4, <2>2, <2>3, <2>4, Apart
<1> QED BY <1>2, <1>3, <1>5, <1>6

\* A test that is not the last of its suite.
LEMMA TestEnds ==
  ASSUME Assumptions, IInv, InSuite, NEW result, Ends(result),
         at.test < Len(TestsOf[Suite])
  PROVE  IInv'
<1> DEFINE tests == results \union {result}
<1>1. Place /\ Stamps /\ Held /\ Codes
  BY DEF IInv
<1>2. /\ results' = tests /\ at' = [at EXCEPT !.test = @ + 1] /\ pc' = "compile"
      /\ UNCHANGED <<all, exit, suiteReport, opts, run, dirs, topReport>>
  BY DEF Ends, AddResult
<1>3. at'.suite = at.suite /\ at'.test = at.test + 1 /\ Suite' = Suite /\ at.test \in Nat \ {0}
  BY <1>1, <1>2 DEF Place, Suite
<1>4. Place'
  <2>1. at' \in [suite : 1..(Len(Suites) + 1), test : Nat \ {0}]
    BY <1>1, <1>2, <1>3 DEF Place
  <2>2. at'.test \in DOMAIN TestsOf[Suite]
    BY <1>1, <1>3, Inside
  <2>3. run # 0
    BY <1>1 DEF Place, InSuite
  <2> QED BY <1>1, <1>2, <1>3, <2>1, <2>2, <2>3, Inside DEF Place, InSuite
<1>5. \A s : Before(s) = Before(s)'
  BY <1>3 DEF Before
<1>6. Busy /\ Busy' /\ InSuite'
  BY <1>2 DEF Busy, InSuite
<1>7. Stamps'
  BY <1>1, <1>2, <1>5, <1>6 DEF Stamps
<1>8. Held'
  <2> HIDE DEF tests
  <2>1. Done' = Done \union {Test}
    <3>1. 1..(at'.test - 1) = 1..(at.test - 1) \union {at.test}
      BY <1>3
    <3> QED BY <1>3, <3>1 DEF Done, Test
  <2>2. NamesOf(results)' = Done'
    BY <1>1, <1>2, <2>1, EndsKeeps DEF NamesOf, tests
  <2>3. Vouched(results)'
    BY <1>1, <1>2, EndsKeeps DEF Vouched, Passing, tests
  <2>4. ASSUME NEW s \in SuiteNames, suiteReport'[s].run = run'
        PROVE  Vouched(suiteReport[s].tests)'
    BY <1>1, <1>2, <2>4, EndsKeeps DEF Vouched, Passing
  <2>5. results' \subseteq RunnerResults
    BY <1>1, <1>2, EndsKeeps DEF tests
  <2>6. DOMAIN sig' = Tests /\ DOMAIN log' = Tests
    BY DEF Ends
  <2> QED BY <1>1, <1>2, <2>2, <2>3, <2>4, <2>5, <2>6 DEF Held, NamesOf
<1>9. Codes'
  <2>1. pc' # "idle" /\ \A s : Complete(s)' = Complete(s)
    BY <1>2 DEF Complete
  <2>2. ExitSoFar' = ExitSoFar
    BY <1>2 DEF ExitSoFar
  <2> QED BY <1>1, <1>2, <1>5, <1>6, <2>1, <2>2 DEF Codes
<1> QED BY <1>4, <1>7, <1>8, <1>9 DEF IInv

\* The last test of a suite, which has the report of the suite written.
LEMMA SuiteEnds ==
  ASSUME Assumptions, IInv, InSuite, NEW result, Ends(result),
         ~ (at.test < Len(TestsOf[Suite]))
  PROVE  IInv'
<1> DEFINE tests == results \union {result}
<1>1. Place /\ Stamps /\ Held /\ Codes
  BY DEF IInv
<1>2. /\ results' = tests /\ at' = NextSuite /\ pc' = "suite"
      /\ all' = all \union tests
      /\ exit' = IF Failing(tests) # {} THEN 1 ELSE exit
      /\ suiteReport' = [suiteReport EXCEPT ![Suite] = Report(run, tests)]
      /\ UNCHANGED <<opts, run, dirs, topReport>>
  BY DEF Ends, AddResult
<1> USE <1>1
<1>3. at' = [suite |-> at.suite + 1, test |-> 1] /\ at'.suite = at.suite + 1 /\ at'.test = 1
  BY <1>2 DEF NextSuite
<1>4. Place'
  <2>1. at' \in [suite : 1..(Len(Suites) + 1), test : Nat \ {0}]
    BY <1>3, Inside
  <2>2. run # 0
    BY DEF Place, InSuite
  <2> QED BY <1>2, <1>3, <2>1, <2>2 DEF Place, InSuite
<1>5. ASSUME NEW s PROVE Before(s)' <=> Before(s) \/ s = Suite
  <2>1. \A i \in DOMAIN Suites : i < at.suite + 1 <=> i < at.suite \/ i = at.suite
    BY Inside
  <2> QED BY <1>3, <2>1, Inside DEF Before, Suite
<1>6. Busy /\ Busy' /\ ~InSuite' /\ pc' # "idle"
  BY <1>2 DEF Busy, InSuite
<1> HIDE DEF tests
<1>7. /\ suiteReport'[Suite].run = run /\ suiteReport'[Suite].tests = tests
      /\ \A s \in SuiteNames \ {Suite} : suiteReport'[s] = suiteReport[s]
      /\ DOMAIN suiteReport' = SuiteNames
  BY <1>2, Inside DEF Stamps, Report
<1>8. Stamps'
  <2>1. run \in Nat /\ run # 0 /\ run' = run
    BY <1>2 DEF Place, InSuite
  <2>2. ASSUME NEW s \in SuiteNames
        PROVE  /\ suiteReport'[s].run \in 0..run'
               /\ suiteReport'[s].run = run' => Before(s)'
    BY <1>5, <1>6, <1>7, <2>1 DEF Stamps
  <2> QED BY <1>7, <2>1, <2>2 DEF Stamps
<1>9. tests \subseteq RunnerResults /\ NamesOf(tests) = TestNames(Suite)
  <2>1. tests \subseteq RunnerResults /\ NamesOf(tests) = Done \union {Test}
    BY EndsKeeps DEF tests
  <2>2. 1..Len(TestsOf[Suite]) = 1..(at.test - 1) \union {at.test}
    BY Inside
  <2>3. TestNames(Suite) = Done \union {Test}
    BY <2>2, Inside DEF TestNames, Elements, Done, Test
  <2> QED BY <2>1, <2>3
<1>10. Held'
  <2>1. ASSUME NEW s \in SuiteNames
        PROVE  /\ suiteReport'[s].tests \subseteq RunnerResults
               /\ NamesOf(suiteReport'[s].tests) \subseteq TestNames(s)
    BY <1>7, <1>9 DEF Held
  <2>2. ASSUME NEW s \in SuiteNames, suiteReport'[s].run = run'
        PROVE  Vouched(suiteReport[s].tests)'
    <3>1. CASE s = Suite
      BY <1>2, <1>7, <3>1, EndsKeeps DEF Vouched, Passing, tests
    <3>2. CASE s # Suite
      BY <1>2, <1>7, <2>2, <3>2, EndsKeeps DEF Vouched, Passing
    <3> QED BY <3>1, <3>2
  <2>3. DOMAIN sig' = Tests /\ DOMAIN log' = Tests
    BY DEF Ends
  <2> QED BY <1>2, <1>6, <1>9, <2>1, <2>2, <2>3 DEF Held, NamesOf
<1>11. Codes'
  <2>1. Failing(all)' = Failing(all) \union Failing(tests)
    BY <1>2 DEF Failing
  <2>2. ExitSoFar'
    BY <1>2, <1>6, <2>1 DEF ExitSoFar, Codes
  <2>3. ASSUME exit' = 0, NEW s \in SuiteNames, Before(s)'
        PROVE  s \in dirs' /\ suiteReport'[s].run = run' /\ Complete(s)'
    <3>1. Failing(tests) = {} /\ exit = 0
      BY <1>2, <2>3
    <3>2. CASE s = Suite
      BY <1>2, <1>7, <1>9, <3>1, <3>2, Inside DEF Complete, NamesOf, Failing
    <3>3. CASE s # Suite
      <4>1. s \in dirs /\ suiteReport[s].run = run /\ Complete(s)
        BY <1>5, <1>6, <2>3, <3>1, <3>3 DEF Codes
      <4> QED BY <1>2, <1>7, <3>3, <4>1 DEF Complete, NamesOf, Failing
    <3> QED BY <3>2, <3>3
  <2>4. all' \subseteq RunnerResults
    BY <1>2, <1>9 DEF Codes
  <2> QED BY <1>6, <2>2, <2>3, <2>4 DEF Codes
<1> QED BY <1>4, <1>8, <1>10, <1>11 DEF IInv

LEMMA EndsPreserves ==
  ASSUME Assumptions, IInv, InSuite, NEW result, Ends(result)
  PROVE  IInv'
BY TestEnds, SuiteEnds

-----------------------------------------------------------------------------
(***************************************************************************)
(* The steps of the runner                                                 *)
(***************************************************************************)
LEMMA SuitesAreSequence ==
  ASSUME Assumptions
  PROVE  /\ Suites \in Seq(SuiteNames)
         /\ Len(Suites) \in Nat \ {0} /\ DOMAIN Suites = 1..Len(Suites)
<1>1. Suites \in Seq(SuiteNames) /\ Suites # << >>
  BY DEF Assumptions, SuitesAssumption
<1> QED BY <1>1

LEMMA InitHolds ==
  ASSUME Assumptions, Init
  PROVE  IInv
<1> USE DEF Init
<1>1. Len(Suites) \in Nat
  BY SuitesAreSequence
<1>2. Place
  BY <1>1 DEF Place, InSuite
<1>3. Stamps
  BY DEF Stamps, Busy, NoReport, Report
<1>4. Held
  BY DEF Held, InSuite, NoReport, Report, NamesOf, Vouched, Passing
<1>5. Codes
  BY DEF Codes, Busy
<1> QED BY <1>2, <1>3, <1>4, <1>5 DEF IInv

\* A new run finds no report with its number and has left no suite.
LEMMA StartRunStep ==
  ASSUME Assumptions, IInv, StartRun
  PROVE  IInv'
<1> USE DEF StartRun, reports
<1>1. Place /\ Stamps /\ Held /\ Codes
  BY DEF IInv
<1>2. Len(Suites) \in Nat /\ DOMAIN Suites = 1..Len(Suites)
  BY SuitesAreSequence
<1>3. run' = run + 1 /\ run \in Nat
  BY <1>1 DEF Place
<1>4. Place'
  BY <1>1, <1>2, <1>3 DEF Place, InSuite
<1>5. \A s \in SuiteNames : suiteReport'[s].run \in 0..run' /\ suiteReport'[s].run # run'
  BY <1>1, <1>3 DEF Stamps
<1>6. Stamps'
  BY <1>1, <1>3, <1>5 DEF Stamps
<1>7. Held'
  BY <1>1, <1>5 DEF Held, InSuite, NamesOf
<1>8. \A s : ~ Before(s)'
  BY <1>2 DEF Before
<1>9. Codes'
  BY <1>8 DEF Codes, Busy, ExitSoFar, Failing
<1> QED BY <1>4, <1>6, <1>7, <1>9 DEF IInv

\* A run that refuses to start has not come past the first suite.
LEMMA RefuseStep ==
  ASSUME Assumptions, IInv, Refuse
  PROVE  IInv'
<1> USE DEF Refuse, reports
<1>1. Place /\ Stamps /\ Held /\ Codes
  BY DEF IInv
<1>2. Len(Suites) \in Nat /\ Len(Suites) # 0
  BY SuitesAreSequence
<1>3. Place'
  BY <1>1 DEF Place, InSuite
<1>4. Stamps'
  BY <1>1 DEF Stamps, Busy
<1>5. Held'
  BY <1>1 DEF Held, InSuite, NamesOf, Vouched, Passing, Real
<1>6. ~ (at'.suite > Len(Suites))
  BY <1>2
<1>7. Codes'
  BY <1>1, <1>6 DEF Codes, Busy
<1> QED BY <1>3, <1>4, <1>5, <1>7 DEF IInv

\* A suite that is skipped leaves an exit code that is not 0.
LEMMA SkipSuiteStep ==
  ASSUME Assumptions, IInv, SkipSuite
  PROVE  IInv'
<1> USE DEF SkipSuite, reports
<1>1. Place /\ Stamps /\ Held /\ Codes
  BY DEF IInv
<1>2. Len(Suites) \in Nat /\ DOMAIN Suites = 1..Len(Suites)
  BY SuitesAreSequence
<1>3. at' = [suite |-> at.suite + 1, test |-> 1] /\ at.suite \in 1..Len(Suites)
  BY <1>1, <1>2 DEF NextSuite, SuitesLeft, Place
<1>4. Place'
  BY <1>1, <1>2, <1>3 DEF Place, InSuite
<1>5. ASSUME NEW s, Before(s) PROVE Before(s)'
  <2>1. \A i \in DOMAIN Suites : i < at.suite => i < at'.suite
    BY <1>2, <1>3
  <2> QED BY <1>5, <2>1 DEF Before
<1>6. Busy /\ Busy' /\ ~InSuite'
  BY DEF Busy, InSuite
<1>7. Stamps'
  BY <1>1, <1>5, <1>6 DEF Stamps
<1>8. Held'
  BY <1>1, <1>6 DEF Held, NamesOf, Vouched, Passing, Real
<1>9. ExitSoFar' /\ exit' # 0
  BY <1>1, <1>6 DEF Codes, ExitSoFar, Failing
<1>10. Codes'
  BY <1>1, <1>9 DEF Codes
<1> QED BY <1>4, <1>7, <1>8, <1>10 DEF IInv

LEMMA OpenSuiteStep ==
  ASSUME Assumptions, IInv, OpenSuite
  PROVE  IInv'
<1> USE DEF OpenSuite, reports
<1>1. Place /\ Stamps /\ Held /\ Codes
  BY DEF IInv
<1>2. Len(Suites) \in Nat /\ DOMAIN Suites = 1..Len(Suites) /\ Suites \in Seq(SuiteNames)
  BY SuitesAreSequence
<1>3. at.suite \in DOMAIN Suites /\ at.test = 1 /\ at' = at
  BY <1>1, <1>2 DEF SuitesLeft, Place
<1>4. 1 \in DOMAIN TestsOf[Suite]
  <2>1. Suite \in SuiteNames
    BY <1>2, <1>3 DEF Suite
  <2>2. TestsOf[Suite] \in Seq(TestNames(Suite))
    BY <2>1 DEF Assumptions, SuitesAssumption
  <2> QED BY <2>2
<1>5. Suite' = Suite
  BY DEF Suite
<1>6. Place'
  BY <1>1, <1>3, <1>4, <1>5 DEF Place, InSuite
<1>7. Busy /\ Busy' /\ \A s : Before(s)' = Before(s)
  BY DEF Busy, Before
<1>8. Stamps'
  BY <1>1, <1>7 DEF Stamps
<1>9. Done' = {}
  BY <1>3 DEF Done
<1>10. Held'
  BY <1>1, <1>9 DEF Held, NamesOf, Vouched, Passing, Real
<1>11. Codes'
  BY <1>1, <1>7 DEF Codes, ExitSoFar, Complete
<1> QED BY <1>6, <1>8, <1>10, <1>11 DEF IInv

LEMMA CompileTestStep ==
  ASSUME Assumptions, IInv, CompileTest
  PROVE  IInv'
<1>1. Place /\ Stamps /\ Held /\ Codes /\ InSuite
  BY DEF IInv, CompileTest, InSuite
<1>2. DOMAIN sig = Tests /\ DOMAIN log = Tests /\ Test \in Tests /\ Suite \in SuiteNames
  BY <1>1, Inside DEF Held
<1>3. CASE AddResult(Result(Test, Suite, FALSE, "compile", ""))
  <2>1. Ends(Result(Test, Suite, FALSE, "compile", ""))
    BY <1>2, <1>3 DEF Ends, CompileTest, Result, RunnerResults, RunnerModes
  <2> QED BY <1>1, <2>1, EndsPreserves
<1>4. CASE opts.dry /\ AddResult(Result(Test, Suite, TRUE, "", ""))
  <2>1. Ends(Result(Test, Suite, TRUE, "", ""))
    BY <1>2, <1>4 DEF Ends, CompileTest, Result, RunnerResults, RunnerModes
  <2> QED BY <1>1, <2>1, EndsPreserves
<1>5. CASE pc' = "simulate" /\ UNCHANGED <<at, results, all, exit, suiteReport>>
  <2> USE <1>5 DEF CompileTest
  <2>1. InSuite' /\ Busy /\ Busy'
    BY <1>1 DEF InSuite, Busy
  <2>2. Place'
    BY <1>1, <2>1 DEF Place, InSuite, Suite
  <2>3. Suite' = Suite /\ Done' = Done /\ \A s : Before(s)' = Before(s)
    BY DEF Suite, Done, Before
  <2>4. Stamps'
    BY <1>1, <2>1, <2>3 DEF Stamps
  <2>5. Held'
    BY <1>1, <2>1, <2>3 DEF Held, NamesOf, Vouched, Passing, Real
  <2>6. Codes'
    BY <1>1, <2>1, <2>3 DEF Codes, ExitSoFar, Complete
  <2> QED BY <2>2, <2>4, <2>5, <2>6 DEF IInv
<1> QED BY <1>3, <1>4, <1>5 DEF CompileTest

\* A simulation passes with what it wrote of this run, or not at all.
LEMMA SimulateTestStep ==
  ASSUME Assumptions, IInv, SimulateTest
  PROVE  IInv'
<1>1. Place /\ Stamps /\ Held /\ Codes /\ InSuite
  BY DEF IInv, SimulateTest, InSuite
<1>2. DOMAIN sig = Tests /\ DOMAIN log = Tests /\ Test \in Tests /\ Suite \in SuiteNames
  BY <1>1, Inside DEF Held
<1> DEFINE words(o) == SignatureOf(o.writes)
           passed(o) == ~o.hung /\ MailboxPassed(o.writes)
           mode(o) == IF o.hung THEN "timeout"
                      ELSE IF words(o) = << >> THEN "no_signature" ELSE "simulation"
           result(o) ==
             IF ~passed(o) THEN Result(Test, Suite, FALSE, mode(o), Test)
             ELSE IF SignatureMatches(words(o), Reference[Test])
               THEN Result(Test, Suite, TRUE, "", "")
             ELSE Result(Test, Suite, FALSE, "signature_mismatch", "")
<1>3. PICK o \in SimOutcomes :
        /\ log' = [log EXCEPT ![Test] = Log(PrintedLines(o.writes) \union o.lines, run)]
        /\ sig' = IF o.hung \/ o.writes = << >> THEN sig
                  ELSE [sig EXCEPT ![Test] = [run |-> run, words |-> words(o)]]
        /\ AddResult(result(o))
  BY Zenon DEF SimulateTest
<1>4. UNCHANGED <<opts, run, dirs, topReport>>
  BY DEF SimulateTest
<1>5. /\ DOMAIN sig' = Tests /\ DOMAIN log' = Tests
      /\ \A t \in Tests \ {Test} : sig'[t] = sig[t] /\ log'[t] = log[t]
  BY <1>2, <1>3
<1>6. /\ result(o).name = Test
      /\ result(o) \in [name : Tests, type : SuiteNames, passed : BOOLEAN,
                        mode : RunnerModes, log : Tests \union {""}]
  <2>1. mode(o) \in RunnerModes
    BY DEF RunnerModes
  <2> HIDE DEF mode, words, passed
  <2> QED BY <1>2, <2>1 DEF Result, RunnerModes
<1>7. ASSUME result(o).passed PROVE RealNow(result(o))
  <2>1. passed(o) /\ SignatureMatches(words(o), Reference[Test])
    <3> HIDE DEF mode, words, passed
    <3> QED BY <1>7 DEF Result
  <2>2. o.writes # << >> /\ "pass" \in PrintedLines(o.writes)
    BY <2>1, PassWritten
  <2>3. sig' = [sig EXCEPT ![Test] = [run |-> run, words |-> words(o)]]
    BY <1>3, <2>1, <2>2
  <2> HIDE DEF words
  <2>4. sig'[Test].words = words(o) /\ sig'[Test].run = run
    BY <1>2, <2>3
  <2>5. PassPrinted(log'[Test], run)
    BY <1>2, <1>3, <2>2 DEF PassPrinted, Log
  <2> HIDE DEF result
  <2> QED BY <1>4, <1>6, <2>1, <2>4, <2>5 DEF RealNow
<1>8. Ends(result(o))
  <2> HIDE DEF result
  <2> QED BY <1>3, <1>4, <1>5, <1>6, <1>7 DEF Ends, RunnerResults
<1> QED BY <1>1, <1>8, EndsPreserves

\* The runner comes to its end with every suite behind it.
LEMMA FinishRunStep ==
  ASSUME Assumptions, IInv, FinishRun
  PROVE  IInv'
<1> USE DEF FinishRun
<1>1. Place /\ Stamps /\ Held /\ Codes
  BY DEF IInv
<1>2. Place'
  BY <1>1 DEF Place, InSuite
<1>3. Stamps'
  BY <1>1 DEF Stamps, Busy
<1>4. Held'
  BY <1>1 DEF Held, InSuite, NamesOf, Vouched, Passing, Real
<1>5. ASSUME NEW s \in SuiteNames PROVE Before(s)
  <2>1. \A i \in DOMAIN Suites : i < at.suite
    BY <1>1, SuitesAreSequence DEF Place, SuitesLeft
  <2> QED BY <2>1 DEF Before, SuiteNames, Elements
<1>6. ASSUME opts.output, Failing(all) = {} PROVE Failing(topReport'.tests) = {}
  <2>1. topReport'.tests = {[r EXCEPT !.type = "all"] : r \in all}
    BY <1>6 DEF Report
  <2>2. \A r \in all : r \in RunnerResults /\ r.passed
    BY <1>1, <1>6 DEF Codes, Failing
  <2>3. \A r \in all : [r EXCEPT !.type = "all"].passed
    BY <2>2 DEF RunnerResults
  <2> QED BY <2>1, <2>3 DEF Failing
<1>7. Codes'
  <2>1. Busy /\ ~Busy' /\ ExitSoFar
    BY <1>1 DEF Busy, Codes
  <2>2. exit = 0 => \A s \in SuiteNames : suiteReport[s].run = run /\ Complete(s)
    BY <1>1, <1>5, <2>1 DEF Codes
  <2> QED BY <1>1, <1>6, <2>1, <2>2 DEF Codes, ExitSoFar, Complete
<1> QED BY <1>2, <1>3, <1>4, <1>7 DEF IInv

\* A runner that crashes leaves its reports, and promises nothing of its code.
LEMMA CrashStep ==
  ASSUME Assumptions, IInv, Crash
  PROVE  IInv'
<1> USE DEF Crash, reports
<1>1. Place /\ Stamps /\ Held /\ Codes
  BY DEF IInv
<1>2. Place'
  BY <1>1 DEF Place, InSuite
<1>3. Stamps'
  BY <1>1 DEF Stamps, Busy
<1>4. Held'
  BY <1>1 DEF Held, InSuite, NamesOf, Vouched, Passing, Real
<1>5. Codes'
  BY <1>1 DEF Codes, Busy
<1> QED BY <1>2, <1>3, <1>4, <1>5 DEF IInv

-----------------------------------------------------------------------------
(***************************************************************************)
(* The collector and sign-off                                              *)
(***************************************************************************)
\* What the collector reports passes by its signature, and names its log.
LEMMA CollectedIsReal ==
  ASSUME Assumptions, NEW s \in SuiteNames
  PROVE  /\ Collected(s) \subseteq RunnerResults
         /\ NamesOf(Collected(s)) \subseteq TestNames(s)
         /\ \A r \in Passing(Collected(s)) : Real(r)
<1>1. ASSUME NEW r \in Collected(s)
      PROVE  /\ r \in RunnerResults /\ r.name \in TestNames(s) /\ r.log # ""
             /\ r.passed => SignatureMatches(sig[r.name].words, Reference[r.name])
  <2>1. PICK t \in TestNames(s) :
          \/ r = Result(t, s, SignatureMatches(sig[t].words, Reference[t]),
                        IF SignatureMatches(sig[t].words, Reference[t]) THEN ""
                        ELSE "signature_mismatch", t)
          \/ r = Result(t, s, FALSE, "no_signature", t)
    BY DEF Collected
  <2>2. t \in Tests /\ t # ""
    BY DEF Tests, Assumptions, SuitesAssumption
  <2> DEFINE match == SignatureMatches(sig[t].words, Reference[t])
             mode == IF match THEN "" ELSE "signature_mismatch"
  <2>3. match \in BOOLEAN /\ mode \in RunnerModes
    BY DEF SignatureMatches, RunnerModes
  <2>4. r = Result(t, s, match, mode, t) \/ r = Result(t, s, FALSE, "no_signature", t)
    BY <2>1
  <2>5. r.name = t /\ r.log = t /\ (r.passed => match)
    <3> HIDE DEF match, mode
    <3> QED BY <2>3, <2>4 DEF Result
  <2>6. r \in RunnerResults
    <3> HIDE DEF match, mode
    <3>1. "no_signature" \in RunnerModes
      BY DEF RunnerModes
    <3>2. ASSUME NEW p \in BOOLEAN, NEW m \in RunnerModes
          PROVE  Result(t, s, p, m, t) \in RunnerResults
      BY <2>2 DEF RunnerResults, Result
    <3> QED BY <2>3, <2>4, <3>1, <3>2
  <2> QED BY <2>2, <2>5, <2>6
<1> QED BY <1>1 DEF NamesOf, Passing, Real

LEMMA CollectStep ==
  ASSUME Assumptions, IInv, Collect
  PROVE  IInv'
<1> USE DEF Collect
<1>1. Place /\ Stamps /\ Held /\ Codes
  BY DEF IInv
<1>2. ~Busy' /\ ~InSuite' /\ run \in Nat /\ run > 0 /\ run' = run
  BY <1>1 DEF Busy, InSuite, Place
<1>3. Place'
  BY <1>1, <1>2 DEF Place, InSuite
<1>4. ASSUME NEW s \in SuiteNames
      PROVE  \/ suiteReport'[s] = Report(run, Collected(s))
             \/ suiteReport'[s] = suiteReport[s]
  OBVIOUS
<1>5. Stamps'
  <2>1. \A s \in SuiteNames : suiteReport'[s].run \in 0..run'
    BY <1>1, <1>2, <1>4 DEF Stamps, Report
  <2> QED BY <1>2, <2>1 DEF Stamps
<1>6. ASSUME NEW s \in SuiteNames
      PROVE  /\ suiteReport'[s].tests \subseteq RunnerResults
             /\ NamesOf(suiteReport'[s].tests) \subseteq TestNames(s)
  BY <1>1, <1>4, CollectedIsReal DEF Held, Report
<1>7. \A r : Real(r)' = Real(r)
  BY DEF Real
<1>8. ASSUME NEW s \in SuiteNames, suiteReport'[s].run = run'
      PROVE  Vouched(suiteReport[s].tests)'
  <2>1. CASE suiteReport'[s] = Report(run, Collected(s))
    BY <1>7, <2>1, CollectedIsReal DEF Vouched, Report, Passing
  <2>2. CASE suiteReport'[s] = suiteReport[s]
    BY <1>1, <1>7, <1>8, <2>2 DEF Held, Vouched, Passing
  <2> QED BY <1>4, <2>1, <2>2
<1>9. Held'
  BY <1>1, <1>2, <1>6, <1>8 DEF Held, NamesOf
<1>10. Codes'
  <2>1. \A s \in SuiteNames : suiteReport[s].run = run => suiteReport'[s].run = run
    BY <1>4 DEF Report
  <2> QED BY <1>1, <1>2, <2>1 DEF Codes, ExitSoFar
<1> QED BY <1>3, <1>5, <1>9, <1>10 DEF IInv

\* Neither sign-off nor a stuttering step writes what the invariant is about.
LEMMA OtherSteps ==
  ASSUME Assumptions, IInv, SignOff \/ UNCHANGED vars
  PROVE  IInv'
<1>1. UNCHANGED <<opts, run, pc, at, results, all, exit, sig, log, dirs, suiteReport, topReport>>
  BY DEF SignOff, vars, reports
<1>2. Place /\ Stamps /\ Held /\ Codes
  BY DEF IInv
<1> USE <1>1 DEF Busy, InSuite
<1>3. Suite' = Suite /\ Done' = Done /\ \A s : Before(s)' = Before(s) /\ Complete(s)' = Complete(s)
  BY DEF Suite, Done, Before, Complete
<1>4. \A r : Real(r)' = Real(r)
  BY DEF Real
<1>5. Place' /\ Stamps'
  BY <1>2, <1>3 DEF Place, Stamps
<1>6. Held'
  BY <1>2, <1>3, <1>4 DEF Held, NamesOf, Vouched, Passing
<1>7. Codes'
  BY <1>2, <1>3 DEF Codes, ExitSoFar
<1> QED BY <1>5, <1>6, <1>7 DEF IInv

LEMMA StepPreserves ==
  ASSUME Assumptions, IInv, [Next]_vars
  PROVE  IInv'
BY StartRunStep, RefuseStep, SkipSuiteStep, OpenSuiteStep, CompileTestStep,
   SimulateTestStep, FinishRunStep, CrashStep, CollectStep, OtherSteps DEF Next

LEMMA InvariantHolds ==
  ASSUME Assumptions
  PROVE  Spec => []IInv
BY InitHolds, StepPreserves, PTL DEF Spec

-----------------------------------------------------------------------------
\* A reported pass has its signature on disk, and, when the runner reported it,
\* the signature and the pass token of that same run.
\* (run_compliance.py:159-302, 470-560, collect_compliance.py:75-155)
THEOREM ReportedPassIsRealHolds ==
  ASSUME SuitesAssumption, OptionsAssumption, OutcomesAssumption
  PROVE  Spec => []ReportedPassIsReal
<1>1. IInv => ReportedPassIsReal
  BY DEF IInv, Held, Vouched, Real, ReportedPassIsReal
<1> QED BY <1>1, InvariantHolds, PTL DEF Assumptions

\* A runner that exits with 0 ran and reported every suite with all its tests, and
\* none failed; after a failed test the code is 1.  (run_compliance.py:696-728)
THEOREM ExitCodeSoundHolds ==
  ASSUME SuitesAssumption, OptionsAssumption, OutcomesAssumption
  PROVE  Spec => []ExitCodeSound
<1>1. IInv => ExitCodeSound
  BY DEF IInv, Codes, ExitSoFar, Complete, NamesOf, ExitCodeSound
<1> QED BY <1>1, InvariantHolds, PTL DEF Assumptions
=============================================================================
