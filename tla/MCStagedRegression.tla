------------------------- MODULE MCStagedRegression -------------------------
(***************************************************************************)
(* One test of either type, three invocations of make on its directory:    *)
(* enough for a record of the first to outlive a failure in the second and *)
(* to be read in the third.                                                *)
(***************************************************************************)
EXTENDS StagedRegression

MCKinds == {"riscvdv", "directed"}
MCSimLogs == {{}, {"pass"}, {"pass", "fatal"}}
MCMaxMakes == 3
=============================================================================
