------------------------- MODULE MCCosimScoreboard -------------------------
(***************************************************************************)
(* Instances of CosimScoreboard for TLC.                                   *)
(***************************************************************************)
EXTENDS CosimScoreboard

Plain(t, k, r, tag) ==
  [tid |-> t, kind |-> k, rd |-> r, wb |-> NoReg, wb_tag |-> tag, mip |-> 0,
   exception |-> FALSE, interrupt |-> FALSE, ecause |-> 0]

\* One hart: each class of instruction once, a store that trapped and a store
\* reported by an interrupt notification.
OneHartItems ==
  { [Plain(0, "alu", 1, 0) EXCEPT !.wb = 1, !.mip = 8],
    Plain(0, "store", NoReg, 0),
    Plain(0, "cmem", 1, 1),
    Plain(0, "div", 1, 1),
    Plain(0, "lr", 1, 1),
    [Plain(0, "store", NoReg, 0) EXCEPT !.exception = TRUE, !.ecause = 7],
    [Plain(0, "alu", 1, 0) EXCEPT !.interrupt = TRUE, !.mip = 8] }

OneHartHints ==
  { [tid |-> 0, source |-> "DIV", rd |-> 1, suppress |-> FALSE, wb_tag |-> 1],
    [tid |-> 0, source |-> "DIV", rd |-> 1, suppress |-> TRUE, wb_tag |-> 2],
    [tid |-> 0, source |-> "NB_LOAD", rd |-> 1, suppress |-> FALSE,
     wb_tag |-> 1] }

\* A store and an interrupt notification whose packet shows a store.
InterruptedStore ==
  { Plain(0, "store", NoReg, 0),
    [Plain(0, "store", NoReg, 0) EXCEPT !.interrupt = TRUE] }
Nothing == {}

\* Two harts that share the bus queue.
TwoHartItems ==
  { Plain(t, k, NoReg, 0) : t \in {0, 1}, k \in {"store", "amo"} }
  \cup { [Plain(0, "alu", 1, 0) EXCEPT !.interrupt = TRUE] }
  \cup { Plain(1, "load", 1, 1) }

TwoHartHints ==
  { [tid |-> 1, source |-> s, rd |-> 1, suppress |-> FALSE, wb_tag |-> 1] :
      s \in {"NB_LOAD", "REGULAR"} }

=============================================================================
