----------------------------- MODULE MCSignOff -----------------------------
(***************************************************************************)
(* A stage of two directed tests, one unit test and a tool stage, invoked  *)
(* twice on one output directory: run, replayed and gate-only.  The share  *)
(* of waived failures is scaled to two tests.                              *)
(***************************************************************************)
EXTENDS SignOff, TLC

CONSTANTS d1, d2

MCStageList == <<"directed", "csr_unit", "lint">>
MCKind == [directed |-> "regress", csr_unit |-> "csr", lint |-> "tool"]
MCTestsOf == [directed |-> {d1, d2}, csr_unit |-> {"c1"}]
MCSimLogs == {{"pass"}, {}}
MCToolOutcomes == [lint |-> {[dir |-> TRUE, errors |-> 0], [dir |-> TRUE, errors |-> 1]}]
MCCovOutcomes == {[line |-> 70]}
MCElsewhere == {[line |-> 40]}
MCSymmetry == Permutations({d1, d2})
MCOptions == {[gateOnly |-> FALSE, replay |-> {}, required |-> TRUE, warnings |-> FALSE],
              [gateOnly |-> TRUE, replay |-> {"csr_unit"}, required |-> TRUE, warnings |-> TRUE]}
MCMinPassed == [directed |-> 1, csr_unit |-> 1]
MCThresholds == [line |-> 60]
MCPolicy == [waiverErrors |-> FALSE, cosimReason |-> FALSE, failOnDisabled |-> TRUE,
             failOnSkipped |-> TRUE, cosimAll |-> FALSE, disabled |-> {"d"},
             skipped |-> {}, waived |-> {"d"}]
=============================================================================
