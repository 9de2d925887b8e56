-------------------------- MODULE MCCosimPipeline --------------------------
(***************************************************************************)
(* Instances of CosimPipeline for TLC.                                     *)
(***************************************************************************)
EXTENDS CosimPipeline

\* Stores, loads of two registers and divisions.
SomeCommits == { [kind |-> "store", rd |-> NoReg],
                 [kind |-> "load", rd |-> 1], [kind |-> "load", rd |-> 2],
                 [kind |-> "div", rd |-> 1] }
Nothing == {}
=============================================================================
