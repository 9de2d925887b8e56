--------------------------- MODULE SignOffProofs ---------------------------
(***************************************************************************)
(* What holds of SignOff for every profile, every set of tests, logs, tool *)
(* outcomes and coverage reports, and any number of invocations.           *)
(*                                                                         *)
(* A passing status is read off the results at one place, Gate, from which *)
(* two things are needed: the results are one for each stage passed so far *)
(* (InOrder), and each is what collect_stage makes of a finite set of      *)
(* results (Sound), since its counts are compared.  The reports agree      *)
(* because nothing but WriteReport ends an invocation with both of them    *)
(* new (ReportsInv).                                                       *)
(***************************************************************************)
EXTENDS SignOff, TLAPS, FiniteSetTheorems

Assumptions ==
  StagesAssumption /\ BoundsAssumption /\ MinPassedAssumption /\ PercentAssumption

-----------------------------------------------------------------------------
(***************************************************************************)
(* The reports of an invocation                                            *)
(***************************************************************************)
SameStory ==
  /\ json.run = run
  /\ exit = 0 <=> json.status \in Passes
  /\ \/ md.status = json.status
     \/ md.status = "PARTIAL" /\ json.status = "PASS"

ReportsInv ==
  /\ run \in Nat /\ md.run \in Nat /\ md.run <= run
  /\ pc = "report" => json.run = run
  /\ pc # "idle" => md.run # run
  /\ pc = "idle" /\ md.run = run /\ run > 0 => SameStory

\* Every step but the start, the gate, the report and an interruption.
LEMMA ReportsKept ==
  ASSUME ReportsInv, run' = run, json' = json, md' = md, exit' = exit, pc # "idle",
         pc' \notin {"idle", "report"}
  PROVE  ReportsInv'
BY DEF ReportsInv

LEMMA ReportsStep ==
  ASSUME Assumptions, ReportsInv, [Next]_vars
  PROVE  ReportsInv'
<1>1. CASE StartSignOff
  BY <1>1 DEF StartSignOff, ReportsInv, final
<1>2. CASE Interrupt
  <2>1. pc # "idle" /\ pc' = "idle" /\ run' = run /\ md' = md
    BY <1>2 DEF Interrupt, Exit
  <2> QED BY <2>1 DEF ReportsInv
<1>3. CASE Gate
  <2>1. pc = "gate" /\ pc' = "report" /\ run' = run /\ md' = md /\ json'.run = run
    BY <1>3 DEF Gate
  <2> QED BY <2>1 DEF ReportsInv
<1>4. CASE WriteReport
  <2>1. /\ pc = "report" /\ pc' = "idle" /\ run' = run /\ json' = json
        /\ md' = [run |-> run, status |-> Claimed(json.status)]
        /\ exit' = IF json.status \in Passes THEN 0 ELSE 1
    BY <1>4 DEF WriteReport, Exit
  <2>2. md'.run = run /\ md'.status = Claimed(json.status)
    BY <2>1
  <2>3. \/ Claimed(json.status) = json.status
        \/ Claimed(json.status) = "PARTIAL" /\ json.status = "PASS"
    <3>1. CASE json.status = "PASS" /\ Partial
      BY <3>1 DEF Claimed
    <3>2. CASE ~(json.status = "PASS" /\ Partial)
      BY <3>2 DEF Claimed
    <3> QED BY <3>1, <3>2
  <2>4. json'.run = run' /\ (exit' = 0 <=> json'.status \in Passes)
    BY <2>1 DEF ReportsInv
  <2>5. \/ md'.status = json'.status
        \/ md'.status = "PARTIAL" /\ json'.status = "PASS"
    BY <2>1, <2>2, <2>3
  <2>6. SameStory'
    BY <2>4, <2>5 DEF SameStory
  <2> QED BY <2>1, <2>2, <2>6 DEF ReportsInv
<1>5. CASE \/ StartStage \/ EndRunner \/ StopRunner \/ RunTool \/ Collect \/ MergeCoverage
  BY <1>5, ReportsKept
  DEF StartStage, EndRunner, StopRunner, RunTool, Collect, MergeCoverage, final
<1>6. ASSUME NEW t \in Tests, RunnerStep(t)
      PROVE  ReportsInv'
  <2>1. /\ pc = "runner" /\ pc' = pc /\ run' = run
        /\ json' = json /\ md' = md /\ exit' = exit
    BY <1>6 DEF RunnerStep, FailEarly, LoseBench, StartSim, EndSim, Ready, Running, final
  <2> QED BY <2>1, ReportsKept
<1>7. ASSUME NEW o \in orphans, EndOrphan(o)
      PROVE  ReportsInv'
  BY <1>7 DEF EndOrphan, ReportsInv, SameStory, final
<1>8. CASE UNCHANGED vars
  BY <1>8 DEF vars, ReportsInv, SameStory
<1> QED BY <1>1, <1>2, <1>3, <1>4, <1>5, <1>6, <1>7, <1>8 DEF Next, Step

\* For every profile and every history of the output directory: an invocation
\* that ended by itself has an exit code, a JSON and a markdown report that tell
\* the same, but for PARTIAL.
THEOREM ReportsAgreeHolds == ASSUME Assumptions PROVE Spec => []ReportsAgree
<1>1. Init => ReportsInv
  BY DEF Init, ReportsInv
<1>2. ReportsInv /\ [Next]_vars => ReportsInv'
  BY ReportsStep
<1>3. ReportsInv => ReportsAgree
  BY DEF ReportsInv, SameStory, ReportsAgree
<1> QED BY <1>1, <1>2, <1>3, PTL DEF Spec

-----------------------------------------------------------------------------
(***************************************************************************)
(* What a result of a stage says                                           *)
(***************************************************************************)
\* The least a test stage that passes has to show.
Earned(r) ==
  /\ r.total > 0
  /\ \/ r.failed = 0
     \/ /\ "failed" \in r.waivers
        /\ r.passed >= MinPassed[r.stage]
        /\ 100 * r.failed <= MaxFailPct * r.total

Sound(r) == r.stage \in TestStages => /\ r.status \in {"PASS", "FAIL"}
                                      /\ r.status = "PASS" => Earned(r)

\* collect_stage: a stage that passes had results, and its failures are none or
\* waived under the two limits.
LEMMA CollectStageSound ==
  ASSUME NEW s, NEW R, IsFiniteSet(R), NEW exitCode, NEW warned
  PROVE  LET r == CollectStage(s, R, exitCode, warned)
         IN  /\ r.stage = s
             /\ r.status \in {"PASS", "FAIL"}
             /\ r.status = "PASS" => Earned(r)
<1> DEFINE total == Cardinality(R)
           passed == Cardinality(Passing(R))
           failed == total - passed
           found == TagIf(exitCode # 0, "exit code") \union TagIf(total = 0, "no results")
                    \union TagIf(failed > 0, "failed") \union TagIf(warned, "warnings")
           waivers == IF ThresholdMet(s, total, passed, failed)
                        THEN found \intersect {"exit code", "failed"} ELSE {}
           r == CollectStage(s, R, exitCode, warned)
<1>1. total \in Nat /\ passed \in Nat /\ passed <= total
  BY FS_CardinalityType, FS_Subset DEF Passing
<1> HIDE DEF total, passed
<1>2. /\ r.stage = s /\ r.total = total /\ r.passed = passed /\ r.failed = failed
      /\ r.status = StatusOf(found \ waivers) /\ r.waivers = waivers
  <2> HIDE DEF found, waivers, failed
  <2>1. r = StageResult(s, exitCode, total, passed, failed, R,
                        StatusOf(found \ waivers), found \ waivers, waivers)
    BY DEF CollectStage, total, passed, failed, found, waivers
  <2> HIDE DEF r
  <2> QED BY <2>1 DEF StageResult
<1>3. ASSUME found \ waivers = {}
      PROVE  total > 0 /\ (failed = 0 \/ "failed" \in waivers)
  <2>1. "no results" \notin waivers
    OBVIOUS
  <2>2. "no results" \notin found /\ ("failed" \in found => "failed" \in waivers)
    <3> HIDE DEF found, waivers
    <3> QED BY <1>3, <2>1
  <2>3. (total = 0 => "no results" \in found) /\ (failed > 0 => "failed" \in found)
    BY DEF TagIf
  <2>4. total # 0 /\ (failed > 0 => "failed" \in waivers)
    <3> HIDE DEF found, waivers, failed
    <3> QED BY <2>2, <2>3
  <2>5. failed \in Nat
    BY <1>1
  <2> HIDE DEF found, waivers, failed
  <2> QED BY <1>1, <2>4, <2>5
<1>4. "failed" \in waivers => ThresholdMet(s, total, passed, failed)
  OBVIOUS
<1> HIDE DEF found, waivers, failed, r
<1>5. r.status \in {"PASS", "FAIL"} /\ (r.status = "PASS" => found \ waivers = {})
  BY <1>2 DEF StatusOf
<1>6. r.status = "PASS" => Earned(r)
  BY <1>2, <1>3, <1>4, <1>5 DEF Earned, ThresholdMet
<1> QED BY <1>2, <1>5, <1>6 DEF r

\* The stages that run a tool answer under their own name.
LEMMA CollectToolStage ==
  ASSUME NEW s \in {"lint", "formal", "syn"}, NEW e
  PROVE  CollectTool(s, e).stage = s
<1>1. CASE s = "lint"
  BY <1>1 DEF CollectTool, CollectLint, ToolResult, StageResult
<1>2. CASE s = "formal"
  BY <1>2 DEF CollectTool, CollectFormal, ToolResult, StageResult
<1>3. CASE s = "syn"
  BY <1>3 DEF CollectTool, CollectSyn, ToolResult, StageResult
<1> QED BY <1>1, <1>2, <1>3

\* evaluate_signoff: every stage of a sign-off that passes has passed itself or
\* is waived as limited by its tool.
LEMMA PassingSignoff ==
  ASSUME NEW R, NEW c, NEW p,
         EvaluateSignoff(R, c, p).status \in {"PASS", "PASS_WITH_WAIVERS"},
         NEW r \in R
  PROVE  r.status = "PASS" \/ r.status = "WAIVE_TOOL_LIMITED"
<1> DEFINE rest == TagIf(~p, "precheck") \union TagIf(R = {}, "no stages")
           blocking == {x.stage : x \in {q \in R : StageBlocks(q)}}
           more == TagIf(c = "FAIL", "coverage") \union TagIf(PolicyBlocks, "policy")
           blockers == TagIf(~p, "precheck") \union TagIf(R = {}, "no stages")
                       \union blocking
                       \union TagIf(c = "FAIL", "coverage")
                       \union TagIf(PolicyBlocks, "policy")
<1>1. EvaluateSignoff(R, c, p) =
        [status |-> IF blockers # {} THEN "FAIL"
                    ELSE IF \E x \in R : Waived(x) THEN "PASS_WITH_WAIVERS" ELSE "PASS",
         blockers |-> blockers]
  BY DEF EvaluateSignoff
<1>2. blocking \subseteq blockers
  OBVIOUS
<1> HIDE DEF blockers
<1>3. blockers = {}
  BY <1>1
<1>4. ~StageBlocks(r)
  BY <1>2, <1>3
<1> QED BY <1>4 DEF StageBlocks, Waived

-----------------------------------------------------------------------------
(***************************************************************************)
(* The results at the gate                                                 *)
(***************************************************************************)
InPlace ==
  /\ at \in 1..(Len(StageList) + 1)
  /\ pc \in {"runner", "collect"} => at \in DOMAIN StageList
  /\ pc \in {"gate", "report"} => at \notin DOMAIN StageList
  /\ pc = "idle" => at = 1 /\ results = {}

Finite ==
  /\ IsFiniteSet(mem)
  /\ DOMAIN pkl = Tests /\ \A t \in Tests : IsFiniteSet(pkl[t])
  /\ DOMAIN reports = TestStages
  /\ \A s \in TestStages : IsFiniteSet(reports[s]) /\ \A R \in reports[s] : IsFiniteSet(R)

InOrder == {r.stage : r \in results} = {StageList[i] : i \in 1..(at - 1)}

AllEarned == \A r \in results : r.stage \in TestStages => Earned(r)

GateInv ==
  /\ InPlace /\ Finite /\ InOrder
  /\ \A r \in results : Sound(r)
  /\ pc = "report" /\ json.status \in Passes => AllEarned

LEMMA LenTyped == ASSUME Assumptions PROVE Len(StageList) \in Nat /\ DOMAIN StageList = 1..Len(StageList)
BY DEF Assumptions, StagesAssumption

LEMMA FiniteStep == ASSUME Assumptions, Finite, [Next]_vars PROVE Finite'
<1>1. CASE UNCHANGED <<mem, pkl, reports>>
  BY <1>1 DEF Finite
<1>2. CASE mem' = {} /\ UNCHANGED <<pkl, reports>>
  BY <1>2, FS_EmptySet DEF Finite
<1>3. CASE EndRunner
  <2>1. mem' = {} /\ pkl' = pkl /\ reports' = [reports EXCEPT ![Stage] = {mem}]
    BY <1>3 DEF EndRunner
  <2>2. IsFiniteSet({}) /\ IsFiniteSet({mem})
    BY FS_EmptySet, FS_Singleton
  <2> QED BY <2>1, <2>2 DEF Finite
<1>4. ASSUME NEW t \in Tests, NEW r, Record(t, r), reports' = reports
      PROVE  Finite'
  <2>1. IsFiniteSet(mem \union {r}) /\ IsFiniteSet({r})
    BY FS_AddElement, FS_Singleton DEF Finite
  <2>2. /\ mem' = mem \union {r} /\ DOMAIN pkl' = Tests
        /\ \A u \in Tests : pkl'[u] = pkl[u] \/ pkl'[u] = {r}
    BY <1>4 DEF Record, Finite
  <2> QED BY <1>4, <2>1, <2>2 DEF Finite
<1>5. ASSUME NEW o \in orphans, EndOrphan(o)
      PROVE  Finite'
  <2>1. PICK r : /\ mem' = mem /\ reports' = reports
                 /\ pkl' = pkl \/ pkl' = [pkl EXCEPT ![o.test] = {r}]
    BY <1>5 DEF EndOrphan
  <2>2. IsFiniteSet({r})
    BY FS_Singleton
  <2>3. DOMAIN pkl' = Tests /\ \A u \in Tests : pkl'[u] = pkl[u] \/ pkl'[u] = {r}
    BY <2>1 DEF Finite
  <2> QED BY <2>1, <2>2, <2>3 DEF Finite
<1>6. CASE StartSignOff \/ StartStage \/ RunTool \/ Collect \/ MergeCoverage \/ Gate \/ WriteReport
  <2>1. UNCHANGED <<mem, pkl, reports>>
    BY <1>6 DEF StartSignOff, StartStage, RunTool, Collect, MergeCoverage, Gate, WriteReport,
                runner, files
  <2> QED BY <1>1, <2>1
<1>7. CASE Interrupt \/ StopRunner
  <2>1. mem' = {} /\ UNCHANGED <<pkl, reports>>
    BY <1>7 DEF Interrupt, StopRunner, Abandon, files
  <2> QED BY <1>2, <2>1
<1>8. ASSUME NEW t \in Tests, RunnerStep(t)
      PROVE  Finite'
  <2>1. CASE StartSim(t)
    BY <1>1, <2>1 DEF StartSim
  <2>2. CASE FailEarly(t) \/ LoseBench(t) \/ EndSim(t)
    <3>1. reports' = reports /\ \E r : Record(t, r)
      BY <2>2 DEF FailEarly, LoseBench, EndSim
    <3> QED BY <1>4, <3>1
  <2> QED BY <1>8, <2>1, <2>2 DEF RunnerStep
<1>9. CASE UNCHANGED vars
  BY <1>1, <1>9 DEF vars
<1> QED BY <1>3, <1>5, <1>6, <1>7, <1>8, <1>9 DEF Next, Step

\* What a test stage left is a finite set of results.
LEMMA LoadedFinite ==
  ASSUME Assumptions, Finite, NEW s \in TestStages
  PROVE  IsFiniteSet(Loaded(s))
<1> DEFINE kept == {pkl[t] : t \in TestsOf[s]}
           f == [t \in TestsOf[s] |-> pkl[t]]
           found == UNION (IF reports[s] # {} THEN reports[s] ELSE kept)
           g == [r \in found |-> Refreshed(r, log)]
<1>1. IsFiniteSet(TestsOf[s]) /\ TestsOf[s] \subseteq Tests
  BY DEF Assumptions, StagesAssumption, Tests
<1>2. IsFiniteSet(kept) /\ \A R \in kept : IsFiniteSet(R)
  <2>1. f \in Surjection(TestsOf[s], kept)
    BY DEF Surjection
  <2>2. IsFiniteSet(kept)
    <3> HIDE DEF kept, f
    <3> QED BY <1>1, <2>1, FS_Surjection
  <2> QED BY <1>1, <2>2 DEF Finite
<1>3. IsFiniteSet(found)
  <2> HIDE DEF kept
  <2>1. IsFiniteSet(IF reports[s] # {} THEN reports[s] ELSE kept)
        /\ \A R \in (IF reports[s] # {} THEN reports[s] ELSE kept) : IsFiniteSet(R)
    BY <1>2 DEF Finite
  <2> QED BY <2>1, FS_UNION
<1>4. g \in Surjection(found, Refresh(found, log))
  <2> HIDE DEF found
  <2> QED BY DEF Surjection, Refresh
<1>5. IsFiniteSet(Refresh(found, log))
  <2> HIDE DEF found, g
  <2> QED BY <1>3, <1>4, FS_Surjection
<1> QED BY <1>5 DEF Loaded

\* What Collect adds is the result of the stage it is at.
LEMMA CollectedSound ==
  ASSUME Assumptions, Finite, at \in DOMAIN StageList
  PROVE  StageCollected.stage = Stage /\ Sound(StageCollected)
<1>1. Stage \in StageNames
  BY DEF Stage, StageNames
<1>2. CASE Kind[Stage] = "tool"
  <2>1. Stage \in ToolStages /\ Stage \in {"lint", "formal", "syn"}
    BY <1>1, <1>2 DEF ToolStages, Assumptions, StagesAssumption
  <2>2. StageCollected = CollectTool(Stage, evidence[Stage])
    BY <1>2 DEF StageCollected
  <2>3. StageCollected.stage = Stage
    BY <2>1, <2>2, CollectToolStage
  <2> QED BY <2>1, <2>3 DEF Sound, TestStages
<1>3. CASE Kind[Stage] # "tool"
  <2> DEFINE warned == ~opts.warnings /\ Warned(Loaded(Stage))
             R == Loaded(Stage)
  <2>1. Stage \in TestStages
    BY <1>1, <1>3 DEF ToolStages, TestStages
  <2>2. IsFiniteSet(R)
    BY <2>1, LoadedFinite
  <2>3. StageCollected = CollectStage(Stage, R, code, warned)
    BY <1>3 DEF StageCollected
  <2> HIDE DEF R, warned
  <2>4. /\ StageCollected.stage = Stage
        /\ StageCollected.status \in {"PASS", "FAIL"}
        /\ StageCollected.status = "PASS" => Earned(StageCollected)
    BY <2>2, <2>3, CollectStageSound
  <2> QED BY <2>4 DEF Sound
<1> QED BY <1>2, <1>3

\* A step that collects nothing and judges nothing.
LEMMA GateKept ==
  ASSUME GateInv, Finite', InPlace', at' = at, results' = results, pc' # "report"
  PROVE  GateInv'
BY DEF GateInv, InOrder

LEMMA GateStep ==
  ASSUME Assumptions, GateInv, [Next]_vars
  PROVE  GateInv'
<1>0. InPlace /\ Finite /\ InOrder /\ (\A r \in results : Sound(r)) /\ Finite'
  BY FiniteStep DEF GateInv
<1>1. CASE StartSignOff
  BY <1>0, <1>1, LenTyped, GateKept DEF StartSignOff, InPlace
<1>2. CASE StartStage
  BY <1>0, <1>2, GateKept DEF StartStage, InPlace
<1>3. CASE EndRunner \/ StopRunner \/ RunTool
  BY <1>0, <1>3, GateKept DEF EndRunner, StopRunner, RunTool, InPlace
<1>4. CASE Collect
  <2>1. /\ at \in DOMAIN StageList /\ at' = at + 1 /\ pc' = "stage"
        /\ results' = results \union {StageCollected}
    BY <1>0, <1>4 DEF Collect, InPlace
  <2>2. at \in 1..Len(StageList) /\ Len(StageList) \in Nat
    BY <2>1, LenTyped
  <2>3. InPlace'
    BY <2>1, <2>2 DEF InPlace
  <2>4. StageCollected.stage = Stage /\ Sound(StageCollected)
    BY <1>0, <2>1, CollectedSound
  <2>5. 1..(at' - 1) = 1..(at - 1) \union {at}
    BY <2>1, <2>2
  <2>6. {r.stage : r \in results'} = {r.stage : r \in results} \union {Stage}
    <3>1. {r.stage : r \in results'} = {r.stage : r \in results} \union {StageCollected.stage}
      BY <2>1
    <3> QED BY <2>4, <3>1
  <2>7. {StageList[k] : k \in 1..(at' - 1)} = {StageList[k] : k \in 1..(at - 1)} \union {Stage}
    BY <2>5 DEF Stage
  <2>8. InOrder'
    BY <1>0, <2>6, <2>7 DEF InOrder
  <2>9. \A r \in results' : Sound(r)
    BY <1>0, <2>1, <2>4
  <2> QED BY <1>0, <2>1, <2>3, <2>8, <2>9 DEF GateInv, Sound, Earned
<1>5. CASE MergeCoverage
  BY <1>0, <1>5, GateKept DEF MergeCoverage, InPlace
<1>6. CASE Gate
  <2>1. PICK precheckPassed \in BOOLEAN :
          json' = [run |-> run,
                   status |-> EvaluateSignoff(results, CoverageResult, precheckPassed).status,
                   blocked |-> (EvaluateSignoff(results, CoverageResult, precheckPassed).blockers
                                  \union PoolBlockers) # {}]
    BY <1>6 DEF Gate
  <2>2. json'.status = EvaluateSignoff(results, CoverageResult, precheckPassed).status
    BY <2>1
  <2>3. at' = at /\ results' = results /\ pc' = "report" /\ pc = "gate"
    BY <1>6 DEF Gate
  <2>4. InPlace'
    BY <1>0, <2>3 DEF InPlace
  <2>5. json'.status \in Passes => AllEarned
    <3> SUFFICES ASSUME json'.status \in Passes, NEW r \in results, r.stage \in TestStages
                 PROVE  Earned(r)
      BY DEF AllEarned
    <3>1. r.status = "PASS" \/ r.status = "WAIVE_TOOL_LIMITED"
      BY <2>2, PassingSignoff DEF Passes
    <3> QED BY <1>0, <3>1 DEF Sound
  <2> QED BY <1>0, <2>3, <2>4, <2>5 DEF GateInv, InOrder, AllEarned
<1>7. CASE WriteReport \/ Interrupt
  <2>1. at' = 1 /\ results' = {} /\ pc' = "idle"
    BY <1>7 DEF WriteReport, Interrupt, Exit
  <2>2. InPlace' /\ InOrder'
    BY <2>1, LenTyped DEF InPlace, InOrder
  <2> QED BY <1>0, <2>1, <2>2 DEF GateInv
<1>8. ASSUME NEW t \in Tests, RunnerStep(t)
      PROVE  GateInv'
  <2>1. pc = "runner" /\ pc' = pc /\ at' = at /\ results' = results
    BY <1>8 DEF RunnerStep, FailEarly, LoseBench, StartSim, EndSim, Ready, Running
  <2>2. InPlace'
    BY <1>0, <2>1 DEF InPlace
  <2> QED BY <1>0, <2>1, <2>2, GateKept
<1>9. CASE UNCHANGED vars \/ \E o \in orphans : EndOrphan(o)
  <2>1. pc' = pc /\ at' = at /\ results' = results /\ json' = json
    BY <1>9 DEF vars, EndOrphan, final
  <2>2. InPlace' /\ InOrder' /\ (AllEarned => AllEarned')
    BY <1>0, <2>1 DEF InPlace, InOrder, AllEarned
  <2> QED BY <1>0, <2>1, <2>2 DEF GateInv
<1> QED BY <1>1, <1>2, <1>3, <1>4, <1>5, <1>6, <1>7, <1>8, <1>9 DEF Next, Step

\* For every profile and whatever the runners, the tools and the invocations
\* before left on disk: a sign-off that passes has judged every stage, and every
\* test stage passed without failures or within the two limits it names.
THEOREM PassMeansThresholdHolds == ASSUME Assumptions PROVE Spec => []PassMeansThreshold
<1>1. ASSUME Init PROVE GateInv
  <2>1. InPlace /\ InOrder
    BY <1>1, LenTyped DEF Init, InPlace, InOrder
  <2>2. Finite
    BY <1>1, FS_EmptySet DEF Init, Finite
  <2> QED BY <1>1, <2>1, <2>2 DEF Init, GateInv
<1>2. GateInv /\ [Next]_vars => GateInv'
  BY GateStep
<1>3. ASSUME GateInv PROVE PassMeansThreshold
  <2>1. pc = "report" => {r.stage : r \in results} = StageNames
    <3> SUFFICES ASSUME pc = "report"
                 PROVE  {r.stage : r \in results} = StageNames
      OBVIOUS
    <3>1. at \in 1..(Len(StageList) + 1) /\ at \notin 1..Len(StageList) /\ Len(StageList) \in Nat
      BY <1>3, LenTyped DEF GateInv, InPlace
    <3>2. 1..(at - 1) = DOMAIN StageList
      BY <3>1, LenTyped
    <3> QED BY <1>3, <3>2 DEF GateInv, InOrder, StageNames
  <2> QED BY <1>3, <2>1 DEF GateInv, AllEarned, Earned, PassMeansThreshold
<1> QED BY <1>1, <1>2, <1>3, PTL DEF Spec

-----------------------------------------------------------------------------
(***************************************************************************)
(* Passes of an earlier invocation                                         *)
(*                                                                         *)
(* A stage whose runner ended well left the report of this invocation, in  *)
(* which every result passed on a log that this invocation opened (Fresh); *)
(* what collect_stage reads in such a log was printed now.  A stage whose  *)
(* runner did not end well has its exit code named.  What is counted once  *)
(* stays: the stages after it open other logs, if no stage comes twice.    *)
(***************************************************************************)
\* The profiles name no stage twice; --stages could.  (signoff.py:37-49, 112-120)
NoStageTwice == \A i, j \in DOMAIN StageList : StageList[i] = StageList[j] => i = j

Fresh(t) == t \in lost \/ (log[t].exists /\ log[t].lines \subseteq LineKinds \X {run})

Printed(t) == t \in lost \/ PassPrinted(log[t], run)

RunHere(s) == s \in TestStages \ opts.replay /\ ~opts.gateOnly

\* A result that passes names the log of a test of the stage.
OnFreshLog(r) ==
  /\ r \in [name : Tests, passed : BOOLEAN, log : Tests \union {"process"}]
  /\ r.passed => r.log \in TestsOf[Stage] /\ Fresh(r.log)

HeldInv ==
  /\ DOMAIN log = Tests \union {"process"} /\ DOMAIN state = Tests /\ code \in Nat
  /\ pc # "runner" \/ Kind[Stage] = "tool" => mem = {} /\ state = Idle
  /\ \A t \in Tests : state[t] = "running" => Fresh(t)
  /\ \A r \in mem : OnFreshLog(r)

ReportInv ==
  pc = "collect" /\ RunHere(Stage) /\ code = 0 =>
    \E M : reports[Stage] = {M} /\ \A r \in M : r.passed /\ OnFreshLog(r)

Named(r) ==
  \/ "exit code" \in r.blockers \union r.waivers
  \/ \A t \in Passing(r.tests) : t.log \in TestsOf[r.stage] /\ Printed(t.log)

ResultsInv == \A r \in results : RunHere(r.stage) => Named(r)

StaleInv == HeldInv /\ ReportInv /\ ResultsInv

\* check_sim_log: a log that passes exists and holds the pass marker.
LEMMA PassRead ==
  ASSUME NEW l, NEW w, NEW f
  PROVE  /\ CheckLog(l, w, f).passed \in BOOLEAN
         /\ CheckLog(l, w, f).passed => l.exists /\ "pass" \in KindsIn(l)
BY DEF CheckLog, CheckLines, LogMode, Verdict

\* collect_stage: an exit code other than 0 is a blocker or a waiver.
LEMMA CollectStageNames ==
  ASSUME NEW s, NEW R, NEW exitCode \in Nat, NEW warned
  PROVE  LET r == CollectStage(s, R, exitCode, warned)
         IN  exitCode # 0 => "exit code" \in r.blockers \union r.waivers
<1> DEFINE total == Cardinality(R)
           passed == Cardinality(Passing(R))
           failed == total - passed
           found == TagIf(exitCode # 0, "exit code") \union TagIf(total = 0, "no results")
                    \union TagIf(failed > 0, "failed") \union TagIf(warned, "warnings")
           waivers == IF ThresholdMet(s, total, passed, failed)
                        THEN found \intersect {"exit code", "failed"} ELSE {}
           r == CollectStage(s, R, exitCode, warned)
<1>1. exitCode # 0 => "exit code" \in found
  BY DEF TagIf
<1> HIDE DEF found, failed, total, passed
<1>2. found \subseteq (found \ waivers) \union waivers
  OBVIOUS
<1> HIDE DEF waivers
<1>3. r = StageResult(s, exitCode, total, passed, failed, R,
                      StatusOf(found \ waivers), found \ waivers, waivers)
  BY DEF CollectStage, total, passed, failed, found, waivers
<1> HIDE DEF r
<1>4. r.blockers = found \ waivers /\ r.waivers = waivers
  BY <1>3 DEF StageResult
<1> QED BY <1>1, <1>2, <1>4 DEF r

\* It keeps the name of the stage and the results it was given.
LEMMA CollectStageKeeps ==
  ASSUME NEW s, NEW R, NEW exitCode, NEW warned
  PROVE  /\ CollectStage(s, R, exitCode, warned).stage = s
         /\ CollectStage(s, R, exitCode, warned).tests = R
BY DEF CollectStage, StageResult

\* Two places of a profile without repetitions have different tests.
LEMMA StagesApart ==
  ASSUME Assumptions, NoStageTwice, GateInv, at \in DOMAIN StageList,
         NEW r \in results, r.stage \in TestStages, Kind[Stage] # "tool"
  PROVE  TestsOf[r.stage] \intersect TestsOf[Stage] = {}
<1>1. PICK i \in 1..(at - 1) : r.stage = StageList[i]
  BY DEF GateInv, InOrder
<1>2. at \in 1..Len(StageList) /\ Len(StageList) \in Nat /\ i \in DOMAIN StageList /\ i # at
  BY <1>1, LenTyped
<1>3. r.stage # Stage
  BY <1>1, <1>2 DEF NoStageTwice, Stage
<1>4. Stage \in TestStages
  BY DEF Stage, StageNames, ToolStages, TestStages
<1> QED BY <1>3, <1>4 DEF Assumptions, StagesAssumption

\* What Collect adds is named or printed.
LEMMA CollectedNamed ==
  ASSUME Assumptions, GateInv, StaleInv, pc = "collect", RunHere(Stage)
  PROVE  Named(StageCollected)
<1> DEFINE warned == ~opts.warnings /\ Warned(Loaded(Stage))
           R == Loaded(Stage)
<1>1. Kind[Stage] # "tool" /\ Stage \in TestStages /\ TestsOf[Stage] \subseteq Tests
  BY DEF RunHere, TestStages, ToolStages, Tests
<1>2. StageCollected = CollectStage(Stage, R, code, warned)
  BY <1>1 DEF StageCollected
<1> HIDE DEF warned, R
<1>3. StageCollected.stage = Stage /\ StageCollected.tests = R
  BY <1>2, CollectStageKeeps
<1>4. ASSUME code # 0
      PROVE  "exit code" \in StageCollected.blockers \union StageCollected.waivers
  <2>1. code \in Nat
    BY DEF StaleInv, HeldInv
  <2> QED BY <1>2, <1>4, <2>1, CollectStageNames
<1>5. CASE code = 0
  <2>1. PICK M : reports[Stage] = {M} /\ \A r \in M : r.passed /\ OnFreshLog(r)
    BY <1>5 DEF StaleInv, ReportInv
  <2>2. R = Refresh(M, log)
    <3>1. R = Refresh(UNION {M}, log)
      BY <2>1 DEF R, Loaded
    <3>2. UNION {M} = M
      OBVIOUS
    <3> QED BY <3>1, <3>2
  <2>3. ASSUME NEW t \in Passing(R)
        PROVE  t.log \in TestsOf[Stage] /\ Printed(t.log)
    <3>1. PICK q \in M : t = Refreshed(q, log)
      BY <2>2, <2>3 DEF Passing, Refresh
    <3>2. /\ q \in [name : Tests, passed : BOOLEAN, log : Tests \union {"process"}]
          /\ q.log \in TestsOf[Stage] /\ Fresh(q.log) /\ q.log \in DOMAIN log
      BY <1>1, <2>1, <3>1 DEF OnFreshLog, StaleInv, HeldInv
    <3>3. CASE q.log \in lost
      <4>1. t.log = q.log
        BY <3>1, <3>2 DEF Refreshed
      <4> QED BY <3>2, <3>3, <4>1 DEF Printed
    <3>4. CASE q.log \notin lost
      <4>1. log[q.log].exists /\ log[q.log].lines \subseteq LineKinds \X {run}
        BY <3>2, <3>4 DEF Fresh
      <4>2. t = [q EXCEPT !.passed = CheckLog(log[q.log], FALSE, FALSE).passed]
        BY <3>1, <3>2, <4>1 DEF Refreshed
      <4>3. t.log = q.log /\ t.passed = CheckLog(log[q.log], FALSE, FALSE).passed
        BY <3>2, <4>2
      <4>4. "pass" \in KindsIn(log[q.log])
        BY <2>3, <4>3, PassRead DEF Passing
      <4>5. PICK line \in log[q.log].lines : line[1] = "pass"
        BY <4>4 DEF KindsIn
      <4>6. line = <<"pass", run>>
        BY <4>1, <4>5
      <4> QED BY <3>2, <4>3, <4>5, <4>6 DEF Printed, PassPrinted
    <3> QED BY <3>3, <3>4
  <2> QED BY <1>3, <2>3 DEF Named
<1> QED BY <1>4, <1>5 DEF Named

\* No runner at work: nothing is held.
LEMMA AtRest ==
  ASSUME HeldInv, log' = log, mem' = {}, state' = Idle, code' \in Nat
  PROVE  HeldInv'
BY DEF HeldInv, Idle

\* What is printed stays printed while the results stay.
LEMMA ResultsKept ==
  ASSUME ResultsInv, results' = results, opts' = opts,
         \A r \in results : RunHere(r.stage) =>
           \A t \in TestsOf[r.stage] : Printed(t) => Printed(t)'
  PROVE  ResultsInv'
BY DEF ResultsInv, Named, RunHere

\* A step between the stages, or one that ends a stage without a good report.
LEMMA QuietKept ==
  ASSUME StaleInv, log' = log, lost' = lost, run' = run, results' = results, opts' = opts,
         mem' = {}, state' = Idle, code' \in Nat,
         pc' = "collect" => ~(RunHere(Stage) /\ code = 0)'
  PROVE  StaleInv'
<1>1. HeldInv'
  BY AtRest DEF StaleInv
<1>2. ResultsInv'
  BY ResultsKept DEF StaleInv, Printed
<1> QED BY <1>1, <1>2 DEF StaleInv, ReportInv

\* A step of a runner leaves good what it holds.
LEMMA RunnerKept ==
  ASSUME Assumptions, StaleInv, at \in DOMAIN StageList,
         pc = "runner", Kind[Stage] # "tool",
         pc' = pc, at' = at, opts' = opts, code' = code, results' = results,
         DOMAIN log' = DOMAIN log, DOMAIN state' = Tests,
         \A u \in Tests : Fresh(u) => Fresh(u)',
         \A u \in Tests : state'[u] = "running" => state[u] = "running" \/ Fresh(u)',
         \A r \in mem' : r \in mem \/ OnFreshLog(r)',
         \A r \in results : RunHere(r.stage) =>
           \A t \in TestsOf[r.stage] : Printed(t) => Printed(t)'
  PROVE  StaleInv'
<1>1. Stage \in TestStages /\ TestsOf[Stage] \subseteq Tests /\ Stage' = Stage
  BY DEF Stage, StageNames, ToolStages, TestStages, Tests
<1>2. ASSUME NEW r \in mem PROVE OnFreshLog(r)'
  <2>1. OnFreshLog(r)
    BY DEF StaleInv, HeldInv
  <2> QED BY <1>1, <2>1 DEF OnFreshLog
<1>3. HeldInv'
  BY <1>1, <1>2 DEF StaleInv, HeldInv
<1>4. ResultsInv'
  BY ResultsKept DEF StaleInv
<1> QED BY <1>3, <1>4 DEF StaleInv, ReportInv

\* A result is added to what the runner holds.
LEMMA RecordKept ==
  ASSUME Assumptions, StaleInv, at \in DOMAIN StageList, NEW t \in Tests, Running(t),
         NEW r, Record(t, r), OnFreshLog(r)',
         pc' = pc, at' = at, opts' = opts, code' = code, results' = results,
         DOMAIN log' = DOMAIN log,
         \A u \in Tests : Fresh(u) => Fresh(u)',
         \A q \in results : RunHere(q.stage) =>
           \A u \in TestsOf[q.stage] : Printed(u) => Printed(u)'
  PROVE  StaleInv'
<1>1. pc = "runner" /\ Kind[Stage] # "tool"
  BY DEF Running
<1>2. mem' = mem \union {r} /\ state' = [state EXCEPT ![t] = "done"] /\ DOMAIN state = Tests
  BY DEF Record, StaleInv, HeldInv
<1>3. DOMAIN state' = Tests /\ \A u \in Tests : state'[u] = "running" => state[u] = "running"
  BY <1>2
<1>4. \A q \in mem' : q \in mem \/ OnFreshLog(q)'
  BY <1>2
<1> QED BY <1>1, <1>3, <1>4, RunnerKept

\* The tests of the stages judged before are others than those of this one.
LEMMA OtherTest ==
  ASSUME Assumptions, NoStageTwice, GateInv, at \in DOMAIN StageList,
         NEW t, Running(t), NEW r \in results, RunHere(r.stage), NEW u \in TestsOf[r.stage]
  PROVE  u # t /\ u \in Tests
<1>1. Kind[Stage] # "tool" /\ t \in TestsOf[Stage] /\ r.stage \in TestStages
  BY DEF Running, RunHere
<1> QED BY <1>1, StagesApart DEF Tests

LEMMA RunnerStale ==
  ASSUME Assumptions, NoStageTwice, GateInv, StaleInv, NEW t \in Tests, RunnerStep(t)
  PROVE  StaleInv'
<1>0. /\ at \in DOMAIN StageList /\ Running(t) /\ pc = "runner" /\ Kind[Stage] # "tool"
      /\ Stage \in TestStages /\ t \in TestsOf[Stage] /\ Stage' = Stage
      /\ pc' = pc /\ at' = at /\ opts' = opts /\ run' = run /\ code' = code
      /\ results' = results
  <2>1. /\ Running(t) /\ pc = "runner" /\ Kind[Stage] # "tool" /\ t \in TestsOf[Stage]
        /\ pc' = pc /\ at' = at /\ opts' = opts /\ run' = run /\ code' = code
        /\ results' = results
    BY DEF RunnerStep, FailEarly, LoseBench, StartSim, EndSim, Ready, Running
  <2>2. at \in DOMAIN StageList
    BY <2>1 DEF GateInv, InPlace
  <2> QED BY <2>1, <2>2 DEF Stage, StageNames, ToolStages, TestStages
<1>1. CASE FailEarly(t)
  <2>1. PICK l \in {t, "process"} : Record(t, Result(t, FALSE, l))
    BY <1>1 DEF FailEarly
  <2>2. OnFreshLog(Result(t, FALSE, l))'
    BY DEF OnFreshLog, Result
  <2>3. log' = log /\ lost' = lost
    BY <1>1 DEF FailEarly
  <2> QED BY <1>0, <2>1, <2>2, <2>3, RecordKept DEF Fresh, Printed
<1>2. CASE LoseBench(t)
  <2>1. PICK w : Record(t, Result(t, CheckLog(log[t], w, TRUE).passed, t))
    BY <1>2 DEF LoseBench
  <2>2. log' = log /\ lost' = lost \union {t}
    BY <1>2 DEF LoseBench
  <2>3. CheckLog(log[t], w, TRUE).passed \in BOOLEAN
    BY PassRead
  <2>4. OnFreshLog(Result(t, CheckLog(log[t], w, TRUE).passed, t))'
    BY <1>0, <2>2, <2>3 DEF OnFreshLog, Result, Fresh
  <2>5. \A u \in Tests : Fresh(u) => Fresh(u)'
    BY <1>0, <2>2 DEF Fresh
  <2>6. \A q \in results : RunHere(q.stage) =>
           \A u \in TestsOf[q.stage] : Printed(u) => Printed(u)'
    BY <1>0, <2>2 DEF Printed
  <2> QED BY <1>0, <2>1, <2>2, <2>4, <2>5, <2>6, RecordKept
<1>3. CASE StartSim(t)
  <2>1. /\ log' = [log EXCEPT ![t] = Log({}, run)] /\ lost' = lost \ {t} /\ mem' = mem
        /\ state' = [state EXCEPT ![t] = "running"]
        /\ DOMAIN log = Tests \union {"process"} /\ DOMAIN state = Tests
    BY <1>3 DEF StartSim, StaleInv, HeldInv
  <2>2. Fresh(t)'
    BY <1>0, <2>1 DEF Fresh, Log
  <2>3. \A u \in Tests : Fresh(u) => Fresh(u)'
    BY <1>0, <2>1, <2>2 DEF Fresh
  <2>4. ASSUME NEW q \in results, RunHere(q.stage), NEW u \in TestsOf[q.stage], Printed(u)
        PROVE  Printed(u)'
    <3>1. u # t /\ u \in Tests
      BY <1>0, <2>4, OtherTest
    <3> QED BY <1>0, <2>1, <2>4, <3>1 DEF Printed
  <2>5. DOMAIN log' = DOMAIN log /\ DOMAIN state' = Tests
    BY <2>1
  <2>6. \A u \in Tests : state'[u] = "running" => state[u] = "running" \/ Fresh(u)'
    BY <2>1, <2>2
  <2>7. \A r \in mem' : r \in mem \/ OnFreshLog(r)'
    BY <2>1
  <2> QED BY <1>0, <2>3, <2>4, <2>5, <2>6, <2>7, RunnerKept
<1>4. CASE EndSim(t)
  <2>1. PICK lines \in SimLogs, passed \in BOOLEAN :
          /\ log' = [log EXCEPT ![t].lines = @ \union (lines \X {run})]
          /\ Record(t, Result(t, passed, t))
    <3>1. PICK lines \in SimLogs :
            LET after == [log[t] EXCEPT !.lines = @ \union (lines \X {run})]
                verdict == IF Kind[Stage] = "csr" THEN UnitVerdict(KindsIn(after))
                           ELSE CheckLog(after, ~opts.warnings, FALSE)
            IN  /\ log' = [log EXCEPT ![t] = after]
                /\ Record(t, Result(t, verdict.passed, t))
      BY <1>4 DEF EndSim
    <3> DEFINE after == [log[t] EXCEPT !.lines = @ \union (lines \X {run})]
               verdict == IF Kind[Stage] = "csr" THEN UnitVerdict(KindsIn(after))
                          ELSE CheckLog(after, ~opts.warnings, FALSE)
    <3>2. log' = [log EXCEPT ![t] = after] /\ Record(t, Result(t, verdict.passed, t))
      BY <3>1
    <3>3. verdict.passed \in BOOLEAN
      <4>1. UnitVerdict(KindsIn(after)).passed \in BOOLEAN
        BY DEF UnitVerdict, Verdict
      <4>2. CheckLog(after, ~opts.warnings, FALSE).passed \in BOOLEAN
        BY PassRead
      <4> HIDE DEF after
      <4> QED BY <4>1, <4>2
    <3> QED BY <3>2, <3>3
  <2>2. lines \subseteq LineKinds /\ t \in DOMAIN log /\ state[t] = "running" /\ lost' = lost
    BY <1>4 DEF EndSim, Assumptions, StagesAssumption, StaleInv, HeldInv
  <2>3. \A u : u # t => log'[u] = log[u]
    BY <2>1
  <2>4. log'[t] = [log[t] EXCEPT !.lines = @ \union (lines \X {run})]
    BY <2>1, <2>2
  <2>5. Fresh(t) /\ Fresh(t)'
    <3>1. Fresh(t)
      BY <2>2 DEF StaleInv, HeldInv
    <3> QED BY <1>0, <2>2, <2>4, <3>1 DEF Fresh
  <2>6. \A u \in Tests : Fresh(u) => Fresh(u)'
    BY <1>0, <2>2, <2>3, <2>5 DEF Fresh
  <2>7. OnFreshLog(Result(t, passed, t))'
    BY <1>0, <2>5 DEF OnFreshLog, Result
  <2>8. ASSUME NEW q \in results, RunHere(q.stage), NEW u \in TestsOf[q.stage], Printed(u)
        PROVE  Printed(u)'
    <3>1. u # t
      BY <1>0, <2>8, OtherTest
    <3> QED BY <1>0, <2>2, <2>3, <2>8, <3>1 DEF Printed
  <2>9. DOMAIN log' = DOMAIN log
    BY <2>1
  <2> QED BY <1>0, <2>1, <2>6, <2>7, <2>8, <2>9, RecordKept
<1> QED BY <1>1, <1>2, <1>3, <1>4 DEF RunnerStep

\* A simulation that outlived its runner: the log is its own, or no longer
\* counted as one of this invocation alone.
LEMMA OrphanStale ==
  ASSUME Assumptions, GateInv, StaleInv, NEW o \in orphans, EndOrphan(o)
  PROVE  StaleInv'
<1>1. PICK lines \in SimLogs :
        log' = [log EXCEPT ![o.test].lines = @ \union (lines \X {o.run})]
  BY DEF EndOrphan
<1>2. /\ lost' = IF Late(o) THEN lost \union {o.test} ELSE lost
      /\ UNCHANGED <<opts, run, pc, at, state, mem, code, reports, results>>
      /\ lines \subseteq LineKinds
      /\ DOMAIN log = Tests \union {"process"} /\ DOMAIN log' = DOMAIN log
  BY <1>1 DEF EndOrphan, Assumptions, StagesAssumption, StaleInv, HeldInv
<1>3. /\ \A u : u # o.test => log'[u] = log[u]
      /\ o.test \in DOMAIN log =>
           log'[o.test] = [log[o.test] EXCEPT !.lines = @ \union (lines \X {o.run})]
  BY <1>1
<1>4. CASE pc = "idle"
  <2>1. mem = {} /\ state = Idle /\ results = {}
    BY <1>4 DEF GateInv, InPlace, StaleInv, HeldInv
  <2> QED BY <1>2, <1>4, <2>1
          DEF StaleInv, HeldInv, ReportInv, ResultsInv, Idle
<1>5. CASE pc # "idle"
  <2>1. \A u \in Tests : Fresh(u) => Fresh(u)'
    <3>1. ASSUME NEW u \in Tests, Fresh(u), u = o.test, u \notin lost'
          PROVE  Fresh(u)'
      <4>1. o.run = run /\ u \notin lost
        BY <1>2, <1>5, <3>1 DEF Late
      <4>2. log[u].exists /\ log[u].lines \subseteq LineKinds \X {run}
        BY <3>1, <4>1 DEF Fresh
      <4>3. log'[u] = [log[u] EXCEPT !.lines = @ \union (lines \X {run})]
        BY <1>2, <1>3, <3>1, <4>1
      <4> QED BY <1>2, <4>2, <4>3 DEF Fresh
    <3>2. ASSUME NEW u \in Tests, Fresh(u), u # o.test \/ u \in lost'
          PROVE  Fresh(u)'
      BY <1>2, <1>3, <3>2 DEF Fresh
    <3> QED BY <3>1, <3>2
  <2>2. \A u \in Tests : Printed(u) => Printed(u)'
    <3>1. ASSUME NEW u \in Tests, PassPrinted(log[u], run)
          PROVE  PassPrinted(log'[u], run)
      <4>1. u \in DOMAIN log
        BY <1>2
      <4>2. CASE u = o.test
        <5>1. log'[u] = [log[u] EXCEPT !.lines = @ \union (lines \X {o.run})]
          BY <1>3, <4>1, <4>2
        <5> QED BY <3>1, <5>1 DEF PassPrinted
      <4>3. CASE u # o.test
        BY <1>3, <3>1, <4>3
      <4> QED BY <4>2, <4>3
    <3> QED BY <1>2, <3>1 DEF Printed
  <2>3. \A s \in TestStages : TestsOf[s] \subseteq Tests
    BY DEF Tests
  <2>4. ASSUME NEW r \in [name : Tests, passed : BOOLEAN, log : Tests \union {"process"}],
               OnFreshLog(r), pc \in {"runner", "collect"}, Kind[Stage] # "tool"
        PROVE  OnFreshLog(r)'
    <3>1. Stage \in TestStages /\ Stage' = Stage
      BY <1>2, <2>4 DEF Stage, StageNames, ToolStages, TestStages, GateInv, InPlace
    <3>2. TestsOf[Stage] \subseteq Tests
      BY <2>3, <3>1
    <3> QED BY <2>1, <2>4, <3>1, <3>2 DEF OnFreshLog
  <2>5. HeldInv'
    <3>1. ASSUME NEW r \in mem
          PROVE  OnFreshLog(r)'
      <4>1. OnFreshLog(r) /\ pc = "runner" /\ Kind[Stage] # "tool"
        BY <3>1 DEF StaleInv, HeldInv
      <4>2. r \in [name : Tests, passed : BOOLEAN, log : Tests \union {"process"}]
        BY <4>1 DEF OnFreshLog
      <4> QED BY <2>4, <4>1, <4>2
    <3>2. \A t \in Tests : state[t] = "running" => Fresh(t)'
      BY <2>1 DEF StaleInv, HeldInv
    <3>3. Stage' = Stage
      BY <1>2 DEF Stage
    <3> QED BY <1>2, <3>1, <3>2, <3>3 DEF StaleInv, HeldInv
  <2>6. ReportInv'
    <3> SUFFICES ASSUME pc = "collect", RunHere(Stage), code = 0
                 PROVE  ReportInv'
      BY <1>2 DEF ReportInv, RunHere, Stage
    <3>1. PICK M : reports[Stage] = {M} /\ \A r \in M : r.passed /\ OnFreshLog(r)
      BY DEF StaleInv, ReportInv
    <3>2. Kind[Stage] # "tool" /\ Stage' = Stage
      BY <1>2 DEF RunHere, TestStages, ToolStages, Stage
    <3>3. \A r \in M : r.passed /\ OnFreshLog(r)'
      BY <2>4, <3>1, <3>2 DEF OnFreshLog
    <3> QED BY <1>2, <3>1, <3>2, <3>3 DEF ReportInv
  <2>7. ResultsInv'
    <3>1. \A r \in results : RunHere(r.stage) =>
             \A t \in TestsOf[r.stage] : Printed(t) => Printed(t)'
      BY <2>2, <2>3 DEF RunHere
    <3> QED BY <1>2, <3>1, ResultsKept DEF StaleInv
  <2> QED BY <2>5, <2>6, <2>7 DEF StaleInv
<1> QED BY <1>4, <1>5

LEMMA StaleStep ==
  ASSUME Assumptions, NoStageTwice, GateInv, StaleInv, [Next]_vars
  PROVE  StaleInv'
<1>0. HeldInv /\ InPlace /\ Finite /\ code \in Nat
  BY DEF StaleInv, HeldInv, GateInv
<1>1. CASE StartSignOff
  <2>1. /\ pc = "idle" /\ pc' = "stage" /\ mem = {} /\ state = Idle /\ results = {}
        /\ UNCHANGED <<mem, state, log, code, results>>
    BY <1>0, <1>1 DEF StartSignOff, runner, files, HeldInv, InPlace
  <2>2. HeldInv'
    BY <1>0, <2>1, AtRest
  <2> QED BY <2>1, <2>2 DEF StaleInv, ReportInv, ResultsInv
<1>2. CASE StartStage
  <2>1. /\ pc = "stage" /\ mem = {} /\ state = Idle /\ code' \in Nat
        /\ UNCHANGED <<opts, run, at, state, lost, mem, log, results>>
        /\ pc' = "collect" => Stage \in opts.replay \/ opts.gateOnly
    BY <1>0, <1>2 DEF StartStage, files, HeldInv
  <2>2. pc' = "collect" => ~RunHere(Stage)'
    BY <2>1 DEF RunHere, Stage
  <2> QED BY <2>1, <2>2, QuietKept
<1>3. CASE EndRunner
  <2>1. /\ pc = "runner" /\ Kind[Stage] # "tool" /\ pc' = "collect"
        /\ reports' = [reports EXCEPT ![Stage] = {mem}]
        /\ code' = IF Failing(mem) = {} THEN 0 ELSE 1
        /\ state' = Idle /\ mem' = {}
        /\ UNCHANGED <<opts, run, at, lost, log, results>>
    BY <1>3 DEF EndRunner
  <2>2. HeldInv'
    BY <1>0, <2>1, AtRest
  <2>3. ResultsInv'
    BY <2>1, ResultsKept DEF StaleInv, Printed
  <2>4. ReportInv'
    <3> SUFFICES ASSUME code' = 0, RunHere(Stage)
                 PROVE  ReportInv'
      BY <2>1 DEF ReportInv, RunHere, Stage
    <3>1. Failing(mem) = {} /\ Stage \in TestStages /\ Stage' = Stage
      BY <2>1 DEF RunHere, Stage
    <3>2. reports'[Stage] = {mem}
      BY <1>0, <2>1, <3>1 DEF Finite
    <3>3. \A r \in mem : r.passed /\ OnFreshLog(r)
      BY <1>0, <3>1 DEF HeldInv, Failing
    <3>4. \A r \in mem : OnFreshLog(r)'
      BY <2>1, <3>1, <3>3 DEF OnFreshLog, Fresh
    <3> QED BY <3>1, <3>2, <3>3, <3>4 DEF ReportInv
  <2> QED BY <2>2, <2>3, <2>4 DEF StaleInv
<1>4. CASE StopRunner
  <2>1. /\ code' = 1 /\ mem' = {} /\ state' = Idle
        /\ UNCHANGED <<opts, run, lost, log, results>>
    BY <1>4 DEF StopRunner, Abandon, files
  <2> QED BY <2>1, QuietKept
<1>5. CASE RunTool
  <2>1. /\ Kind[Stage] = "tool" /\ mem = {} /\ state = Idle
        /\ UNCHANGED <<opts, run, at, state, mem, code, lost, log, results>>
    BY <1>0, <1>5 DEF RunTool, runner, files, HeldInv
  <2>2. Stage' = Stage /\ ~RunHere(Stage)'
    BY <2>1 DEF RunHere, TestStages, ToolStages, Stage
  <2> QED BY <1>0, <2>1, <2>2, QuietKept
<1>6. CASE Collect
  <2>1. /\ pc = "collect" /\ pc' = "stage" /\ mem = {} /\ state = Idle
        /\ results' = results \union {StageCollected}
        /\ UNCHANGED <<opts, run, lost, mem, state, code, log>>
    BY <1>0, <1>6 DEF Collect, runner, files, HeldInv
  <2>2. HeldInv'
    BY <1>0, <2>1, AtRest
  <2>3. StageCollected.stage = Stage
    BY <1>0, <2>1, CollectedSound DEF InPlace
  <2>4. RunHere(Stage) => Named(StageCollected)
    BY <2>1, CollectedNamed
  <2>5. ASSUME NEW r \in results', RunHere(r.stage)'
        PROVE  Named(r)'
    <3>1. RunHere(r.stage) => Named(r)
      BY <2>1, <2>3, <2>4 DEF StaleInv, ResultsInv
    <3> QED BY <2>1, <2>5, <3>1 DEF Named, RunHere, Printed
  <2> QED BY <2>1, <2>2, <2>5 DEF StaleInv, ReportInv, ResultsInv
<1>7. CASE MergeCoverage \/ Gate
  <2>1. /\ pc \in {"stage", "gate"} /\ pc' \in {"gate", "report"}
        /\ UNCHANGED <<opts, run, lost, mem, state, code, log, results>>
    BY <1>7 DEF MergeCoverage, Gate, runner, files
  <2>2. mem = {} /\ state = Idle
    BY <1>0, <2>1 DEF HeldInv
  <2> QED BY <1>0, <2>1, <2>2, QuietKept
<1>8. CASE WriteReport \/ Interrupt
  <2>1. pc' = "idle" /\ results' = {} /\ code' = 0 /\ log' = log /\ mem' = {} /\ state' = Idle
    BY <1>0, <1>8 DEF WriteReport, Interrupt, Exit, files, HeldInv
  <2>2. HeldInv'
    BY <1>0, <2>1, AtRest
  <2> QED BY <2>1, <2>2 DEF StaleInv, ReportInv, ResultsInv
<1>9. ASSUME NEW t \in Tests, RunnerStep(t)
      PROVE  StaleInv'
  BY <1>9, RunnerStale
<1>10. ASSUME NEW o \in orphans, EndOrphan(o)
       PROVE  StaleInv'
  BY <1>10, OrphanStale
<1>11. CASE UNCHANGED vars
  <2>1. /\ UNCHANGED <<opts, run, pc, at, state, lost, mem, code, log, reports, results>>
        /\ Stage' = Stage
    BY <1>11 DEF vars, Stage
  <2>2. (\A t : (Fresh(t) <=> Fresh(t)')) /\ (\A t : (Printed(t) <=> Printed(t)'))
    BY <2>1 DEF Fresh, Printed
  <2>3. (\A s : (RunHere(s) <=> RunHere(s)')) /\ (\A r : (Named(r) => Named(r)'))
    BY <2>1, <2>2 DEF RunHere, Named
  <2>4. \A r : OnFreshLog(r) => OnFreshLog(r)'
    BY <2>1, <2>2 DEF OnFreshLog
  <2>5. HeldInv'
    BY <1>0, <2>1, <2>2, <2>4 DEF HeldInv
  <2>6. ReportInv'
    BY <2>1, <2>3, <2>4 DEF StaleInv, ReportInv
  <2>7. ResultsInv'
    BY <2>1, <2>3 DEF StaleInv, ResultsInv
  <2> QED BY <2>5, <2>6, <2>7 DEF StaleInv
<1> QED BY <1>1, <1>2, <1>3, <1>4, <1>5, <1>6, <1>7, <1>8, <1>9, <1>10, <1>11 DEF Next, Step

\* For every profile that names no stage twice and whatever earlier invocations
\* left on disk: a stage run here whose exit code is not named counts as passed
\* only tests whose pass marker was printed in this invocation, but for the two
\* exceptions in lost.
THEOREM StalePassNamedHolds ==
  ASSUME Assumptions, NoStageTwice
  PROVE  Spec => []StalePassNamed
<1>1. ASSUME Init PROVE GateInv /\ StaleInv
  <2>1. InPlace /\ InOrder
    BY <1>1, LenTyped DEF Init, InPlace, InOrder
  <2>2. Finite
    BY <1>1, FS_EmptySet DEF Init, Finite
  <2>3. GateInv
    BY <1>1, <2>1, <2>2 DEF Init, GateInv
  <2>4. StaleInv
    BY <1>1 DEF Init, StaleInv, HeldInv, ReportInv, ResultsInv, Idle
  <2> QED BY <2>3, <2>4
<1>2. GateInv /\ StaleInv /\ [Next]_vars => (GateInv /\ StaleInv)'
  BY GateStep, StaleStep
<1>3. StaleInv => StalePassNamed
  BY DEF StaleInv, ResultsInv, Named, RunHere, Printed, StalePassNamed
<1> QED BY <1>1, <1>2, <1>3, PTL DEF Spec
=============================================================================
