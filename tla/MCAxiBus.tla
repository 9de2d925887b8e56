------------------------------ MODULE MCAxiBus ------------------------------
(***************************************************************************)
(* Instances of AxiBus for TLC.                                            *)
(***************************************************************************)
EXTENDS AxiBus

Single == {0}
Bursts == {0, 1}
=============================================================================
