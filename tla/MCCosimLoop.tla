---------------------------- MODULE MCCosimLoop ----------------------------
(* Instances of CosimLoop for TLC.                                         *)
EXTENDS CosimLoop

Base == [tid |-> 0, insn |-> "alu", write_reg |-> FALSE, suppress |-> FALSE,
         sync_trap |-> FALSE, irq_only |-> FALSE, fetch_error |-> FALSE,
         debug_req |-> FALSE, nmi |-> FALSE, nmi_int |-> FALSE,
         mip |-> {}, accs |-> <<>>]

Dut(store, word, err, wide) ==
  [store |-> store, word |-> word, be |-> 0 .. 3, error |-> err,
   widened |-> wide]
Spk(store, word, ok) ==
  [store |-> store, word |-> word, be |-> {0}, data_ok |-> ok]

MCWords == 0 .. 1

\* No access, one of either word, and a load the bus does not split.
MCEffects ==
  {<<>>, <<Spk(TRUE, 0, TRUE)>>, <<Spk(TRUE, 0, FALSE)>>,
   <<Spk(FALSE, 0, TRUE)>>, <<Spk(FALSE, 1, TRUE)>>}

WideRead(err) == <<Dut(FALSE, 0, err, TRUE), Dut(FALSE, 1, err, TRUE)>>

\* Traps, NMI, interrupts and debug of one hart.
TrapItems ==
  {[Base EXCEPT !.mip = {"ext"}, !.irq_only = TRUE],
   [Base EXCEPT !.mip = {"ext"}],
   [Base EXCEPT !.insn = "csr", !.write_reg = TRUE],
   [Base EXCEPT !.nmi = TRUE, !.nmi_int = TRUE, !.irq_only = TRUE],
   [Base EXCEPT !.nmi_int = TRUE],
   [Base EXCEPT !.insn = "mret"],
   [Base EXCEPT !.insn = "dret"],
   [Base EXCEPT !.debug_req = TRUE],
   [Base EXCEPT !.insn = "debug_ebreak", !.write_reg = TRUE],
   [Base EXCEPT !.insn = "debug_ebreak"],
   [Base EXCEPT !.insn = "load", !.suppress = TRUE],
   [Base EXCEPT !.suppress = TRUE],
   [Base EXCEPT !.sync_trap = TRUE],
   [Base EXCEPT !.sync_trap = TRUE, !.fetch_error = TRUE]}

\* Interrupts are switched on, then one is taken.
IrqItems ==
  {[Base EXCEPT !.insn = "csr", !.write_reg = TRUE],
   [Base EXCEPT !.mip = {"ext"}, !.irq_only = TRUE]}

Store(t) == [Base EXCEPT !.tid = t, !.accs = <<Dut(TRUE, 0, FALSE, FALSE)>>]

\* Memory accesses: reads and a fault on hart 0, stores on both.
TwoHarts ==
  {[Base EXCEPT !.accs = WideRead(FALSE)],
   [Base EXCEPT !.accs = WideRead(TRUE), !.sync_trap = TRUE],
   Base, Store(0), Store(1)}
NoEffect == {<<>>}
=============================================================================
