----------------------------- MODULE MCTestRun -----------------------------
(***************************************************************************)
(* Instances of TestRun for TLC.                                           *)
(***************************************************************************)
EXTENDS TestRun

Single == {0}
=============================================================================
