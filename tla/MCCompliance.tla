---------------------------- MODULE MCCompliance ----------------------------
(***************************************************************************)
(* Three suites, the name of one beginning with the name of another and    *)
(* one with a failure that is known, and two runs on one directory: by     *)
(* signoff.py, by hand with the collector, and a dry run.                  *)
(***************************************************************************)
EXTENDS Compliance

MCSuites == <<"rv32i", "rv32im", "rv32Zifencei">>
MCTestsOf == [rv32i |-> <<"add">>, rv32im |-> <<"mul">>,
              rv32Zifencei |-> <<"fence">>]
MCReference == [add |-> <<"w">>, mul |-> << >>, fence |-> <<"w">>]
MCSuiteRate == [rv32i |-> 50, rv32im |-> 100]
MCKnownFail == [rv32Zifencei |-> 1]
MCUnder == [rv32i |-> {"rv32i", "rv32im"}, rv32im |-> {"rv32im"},
            rv32Zifencei |-> {"rv32Zifencei"}]
Sim(hung, writes) == [hung |-> hung, lines |-> {}, writes |-> writes]
MCSimOutcomes ==
  {Sim(FALSE, <<"other", "w", "pass">>), Sim(FALSE, <<"other", "w", "x", "pass">>),
   Sim(FALSE, <<"other", "w", "fail", "other">>), Sim(FALSE, <<"pass">>),
   Sim(TRUE, <<"other", "w">>)}
MCOptions == {[dry |-> d, output |-> o] : d, o \in BOOLEAN} \ {[dry |-> TRUE, output |-> TRUE]}
MCMaxRuns == 2
MCMinPassed == [compliance |-> 2]
MCThresholds == [line |-> 0]
MCPolicy == [waiverErrors |-> FALSE, cosimReason |-> FALSE, failOnDisabled |-> FALSE,
             failOnSkipped |-> FALSE, cosimAll |-> FALSE, disabled |-> {},
             skipped |-> {}, waived |-> {}]
=============================================================================
