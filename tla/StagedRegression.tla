-------------------------- MODULE StagedRegression --------------------------
(***************************************************************************)
(* The staged flow of wrapper.mk for one test: instruction generation,     *)
(* compilation, bench, simulation, log check and collection are separate   *)
(* programs that see each other only through the files of the test         *)
(* directory.  Make is invoked again on the same directory, and may stop   *)
(* between any two recipes.  Make itself is external: what it rebuilds is  *)
(* taken from the rules of wrapper.mk.                                     *)
(*                                                                         *)
(* Files carry the number of the make that wrote them (0: no file).        *)
(***************************************************************************)
EXTENDS Integers, SimLog

CONSTANTS
  Kinds,    \* the types of test to choose from: "riscvdv", "directed"
  SimLogs,  \* sets of lines a simulation may print
  MaxMakes  \* bound: invocations of make

ASSUME KindsAssumption == Kinds \subseteq {"riscvdv", "directed"}
ASSUME SimLogsAssumption == SimLogs \subseteq SUBSET LineKinds
ASSUME MaxMakesAssumption == MaxMakes \in Nat \ {0}

VARIABLES
  kind,   \* the type of the test
  bench,  \* md.build_dir holds a simulator
  make,   \* the number of the invocation
  pc,     \* the recipe make runs next, or "stopped"
  asm,    \* test.S
  bin,    \* test.bin
  hex,    \* test.hex
  log,    \* sim_<test>_<seed>.log
  named,  \* <test>_<seed>.pkl, written by run_rtl.py
  pkl,    \* result.pkl, written by compile_test.py and check_logs.py
  trr,    \* trr.yaml
  report  \* report.json: how many results, how many passed

vars == <<kind, bench, make, pc, asm, bin, hex, log, named, pkl, trr, report>>

Recipes == {"gen", "compile", "tb", "sim", "copy", "check", "collect"}
Makes == 0..MaxMakes

\* A result file: the verdict and whether the simulator's return code is not 0.
Record(run, verdict, failed) == [run |-> run, verdict |-> verdict, failed |-> failed]

NoRecord == Record(0, Verdict(FALSE, ""), FALSE)

\* A plausible bug: a failed bench build is taken for a result of a simulation.
PreSim_bench(record) == record.verdict.mode \in PreSimFailureModes \ {"COMPILE_ERROR"}

PreSim(record) == record.verdict.mode \in PreSimFailureModes

Init ==
  /\ kind \in Kinds
  /\ bench \in BOOLEAN
  /\ make = 0
  /\ pc = "stopped"
  /\ asm = 0
  /\ bin = 0
  /\ hex = 0
  /\ log = NoLog
  /\ named = NoRecord
  /\ pkl = NoRecord
  /\ trr = NoRecord
  /\ report = [run |-> 0, total |-> 0, passed |-> 0]

\* What md.build_dir holds is not of this flow's making: no recipe of wrapper.mk
\* builds there, and "make clean" empties it.
StartMake ==
  /\ pc = "stopped"
  /\ make < MaxMakes
  /\ make' = make + 1
  /\ bench' \in BOOLEAN
  /\ pc' = IF kind = "riscvdv" THEN "gen" ELSE "compile"
  /\ UNCHANGED <<kind, asm, bin, hex, log, named, pkl, trr, report>>

\* Make is interrupted, or another of its recipes failed.
Stop ==
  /\ pc \in Recipes
  /\ pc' = "stopped"
  /\ UNCHANGED <<kind, bench, make, asm, bin, hex, log, named, pkl, trr, report>>

-----------------------------------------------------------------------------
\* run_instr_gen.py exits with 1 when the generator fails, and make stops.  A
\* successful generator may have written nothing: the old assembly is taken.
InstrGen ==
  /\ pc = "gen"
  /\ \/ asm' = make /\ pc' = "compile"
     \/ UNCHANGED asm /\ pc' = IF asm = 0 THEN "stopped" ELSE "compile"
     \/ UNCHANGED asm /\ pc' = "stopped"
  /\ UNCHANGED <<kind, bench, make, bin, hex, log, named, pkl, trr, report>>

\* What compile_assembly leaves: the compiler or objcopy fails before it writes,
\* the binary is new but the hex file is not, or both are new (the hex file of
\* an executable with a section past its end is written in part).
CompileFails ==
  /\ \/ UNCHANGED <<bin, hex>>
     \/ bin' = make /\ UNCHANGED hex
     \/ bin' = make /\ hex' = make
  /\ pkl' = Record(make, Verdict(FALSE, "COMPILE_ERROR"), FALSE)
  /\ trr' = Record(make, Verdict(FALSE, "COMPILE_ERROR"), FALSE)

\* compile_test.py always exits with 0, and make goes on.  The binary of a
\* directed test depends on no file that changes: it is compiled once.
CompileTest ==
  /\ pc = "compile"
  /\ pc' = "tb"
  /\ IF kind = "directed" /\ bin # 0 THEN UNCHANGED <<bin, hex, pkl, trr>>
     ELSE \/ bin' = make /\ hex' = make /\ UNCHANGED <<pkl, trr>>
          \/ CompileFails
  /\ UNCHANGED <<kind, bench, make, asm, log, named, report>>

\* rtl_tb_compile: make stops when the bench does not compile.  It is not
\* written to md.build_dir.
CompileBench ==
  /\ pc = "tb"
  /\ pc' = "sim"
  /\ UNCHANGED <<kind, bench, make, asm, bin, hex, log, named, pkl, trr, report>>

-----------------------------------------------------------------------------
(***************************************************************************)
(* run_rtl.py --dir-metadata                                               *)
(***************************************************************************)
ProgramExists == hex # 0 \/ bin # 0

\* load_recorded_result, of run_rtl.py and of check_logs.py.
Recorded == IF named.run # 0 THEN named ELSE pkl

\* A plausible bug: the result of the compilation is not looked at.
MissingBinary_plain ==
  /\ pc = "sim"
  /\ ~ProgramExists
  /\ named' = Record(make, Verdict(FALSE, "BINARY_MISSING"), FALSE)
  /\ log' = IF log.exists THEN log ELSE Log({}, make)
  /\ pc' = "copy"
  /\ UNCHANGED <<kind, bench, make, asm, bin, hex, pkl, trr, report>>

\* missing_binary_result: the mode of an earlier stage is kept, and a log is
\* written only when there is none.
MissingBinary ==
  /\ pc = "sim"
  /\ ~ProgramExists
  /\ named' = Record(make,
                Verdict(FALSE, IF PreSim(Recorded) THEN Recorded.verdict.mode
                               ELSE "BINARY_MISSING"), Recorded.failed)
  /\ log' = IF log.exists THEN log ELSE Log({}, make)
  /\ pc' = "copy"
  /\ UNCHANGED <<kind, bench, make, asm, bin, hex, pkl, trr, report>>

\* run_rtl_simulation without a simulator in md.build_dir builds it once more;
\* when that fails it returns without touching the log.
BenchLost ==
  /\ pc = "sim"
  /\ ProgramExists
  /\ ~bench
  /\ named' = Record(make, Verdict(FALSE, "COMPILE_ERROR"), FALSE)
  /\ pc' = "copy"
  /\ UNCHANGED <<kind, bench, make, asm, bin, hex, log, pkl, trr, report>>

\* A plausible bug: a mode that no other program knows.
ConfigError_mode ==
  /\ pc = "sim"
  /\ ProgramExists
  /\ named' = Record(make, Verdict(FALSE, "NO_CONFIG"), FALSE)
  /\ log' = Log({}, make)
  /\ pc' = "copy"
  /\ UNCHANGED <<kind, bench, make, asm, bin, hex, pkl, trr, report>>

\* No configuration file, or no command in it for the simulator.
ConfigError ==
  /\ pc = "sim"
  /\ ProgramExists
  /\ named' = Record(make, Verdict(FALSE, "CONFIG_ERROR"), FALSE)
  /\ log' = Log({}, make)
  /\ pc' = "copy"
  /\ UNCHANGED <<kind, bench, make, asm, bin, hex, pkl, trr, report>>

\* The simulation of test.hex, or of test.bin when there is no test.hex.
Simulate ==
  /\ pc = "sim"
  /\ ProgramExists
  /\ \E lines \in SimLogs, failed \in BOOLEAN :
       /\ ~bench => lines = {} /\ failed
       /\ log' = Log(lines, make)
       /\ named' = Record(make, CheckLines(lines, FALSE, failed), failed)
  /\ pc' = "copy"
  /\ UNCHANGED <<kind, bench, make, asm, bin, hex, pkl, trr, report>>

\* The recipe copies the log: without one it fails, and make stops.
CopyLog ==
  /\ pc = "copy"
  /\ pc' = IF log.exists THEN "check" ELSE "stopped"
  /\ UNCHANGED <<kind, bench, make, asm, bin, hex, log, named, pkl, trr, report>>

-----------------------------------------------------------------------------
\* A plausible bug: only the pickle is rewritten.
CheckLogs_notrr ==
  /\ pc = "check"
  /\ LET verdict == IF PreSim(Recorded)
                      THEN Verdict(FALSE, Recorded.verdict.mode)
                      ELSE CheckLog(log, FALSE, Recorded.failed)
     IN  pkl' = Record(make, verdict, Recorded.failed)
  /\ pc' = "collect"
  /\ UNCHANGED <<kind, bench, make, asm, bin, hex, log, named, trr, report>>

\* check_logs.py --dir-metadata: a failure before the simulation is kept, any
\* other recorded result gives way to the log as it is now.
CheckLogs ==
  /\ pc = "check"
  /\ LET verdict == IF PreSim(Recorded)
                      THEN Verdict(FALSE, Recorded.verdict.mode)
                      ELSE CheckLog(log, FALSE, Recorded.failed)
     IN  /\ pkl' = Record(make, verdict, Recorded.failed)
         /\ trr' = Record(make, verdict, Recorded.failed)
  /\ pc' = "collect"
  /\ UNCHANGED <<kind, bench, make, asm, bin, hex, log, named, report>>

\* collect_results.py counts result.pkl, and another pickle of the directory
\* only when there is no result.pkl.
Counted == IF pkl.run # 0 THEN {pkl} ELSE {r \in {named} : r.run # 0}

CollectResults ==
  /\ pc = "collect"
  /\ LET passed == {r \in Counted : r.verdict.passed}
     IN  report' = [run |-> make,
                    total |-> IF Counted = {} THEN 0 ELSE 1,
                    passed |-> IF passed = {} THEN 0 ELSE 1]
  /\ pc' = "stopped"
  /\ UNCHANGED <<kind, bench, make, asm, bin, hex, log, named, pkl, trr>>

RunRtl == MissingBinary \/ BenchLost \/ ConfigError \/ Simulate

Next == \/ StartMake \/ Stop \/ InstrGen \/ CompileTest \/ CompileBench
        \/ RunRtl \/ CopyLog \/ CheckLogs \/ CollectResults

Spec == Init /\ [][Next]_vars

-----------------------------------------------------------------------------
\* Every variable has a value of its type.
SGTypeOK ==
  /\ kind \in Kinds
  /\ bench \in BOOLEAN
  /\ make \in Makes
  /\ pc \in Recipes \union {"stopped"}
  /\ {asm, bin, hex} \subseteq Makes
  /\ log \in LogsOf(Makes)
  /\ {named, pkl, trr} \subseteq [run : Makes, verdict : Verdicts, failed : BOOLEAN]
  /\ report \in [run : Makes, total : {0, 1}, passed : {0, 1}]

\* A test that check_logs.py lets pass printed its pass marker in a simulation
\* of this make: a simulation that did not happen (no program, no bench, no
\* configuration) never passes on the log of an earlier make, although two of
\* the three leave that log where it is.  (check_logs.py:286-309,
\* run_rtl.py:143-165, 280-307)
PassFromThisMake ==
  pc = "collect" /\ pkl.verdict.passed => PassPrinted(log, make)

\* As long as no program was ever written, the failure of the compilation is
\* what the report counts, and not the missing program that follows from it.
\* (compile_test.py:456-457, run_rtl.py:280-307)
CompileErrorKept ==
  pc = "collect" /\ ~ProgramExists =>
    pkl = Record(make, Verdict(FALSE, "COMPILE_ERROR"), FALSE)

\* The records of one test that survive a complete make agree: trr.yaml and
\* result.pkl are the same, the report counts that one result, and it is the
\* verdict of run_rtl.py, except that a configuration error ends as a log
\* without a pass marker.  (check_logs.py:271-317, collect_results.py:22-61)
VerdictsAgree ==
  pc = "stopped" /\ report.run = make /\ make > 0 =>
    /\ trr = pkl
    /\ report.total = 1
    /\ report.passed = IF pkl.verdict.passed THEN 1 ELSE 0
    /\ \/ pkl.verdict = named.verdict
       \/ /\ named.verdict.mode = "CONFIG_ERROR"
          /\ pkl.verdict.mode = "NO_PASS_SIGNATURE"

\* What compile_test.py promises: a compile error that it recorded in this make
\* is a failure of this make's report.  It does not hold when an older program,
\* or a part of the new one, is there to be simulated.
CompileErrorCollected ==
  [][pc = "check" /\ pkl.run = make /\ pkl.verdict.mode = "COMPILE_ERROR"
       => ~pkl'.verdict.passed]_pkl
=============================================================================
