----------------------------- MODULE SpikeCosim -----------------------------
(***************************************************************************)
(* The C++ layer between the scoreboard and the Spike processors,          *)
(* spike_cosim.cc: one operator per DPI call, acting on the hart the call  *)
(* names.  CosimLoop composes it with the function that makes the calls.   *)
(*                                                                         *)
(* Spike itself is external.  One proc->step(1) takes a pending interrupt, *)
(* or executes an instruction that retires or traps; which one, and        *)
(* whether its PC and register are those of the DUT, is a free choice (an  *)
(* Event).  Register contents and CSR values are left out: a difference of *)
(* register data never fails a step (lines 583-608).  So are the flags of  *)
(* misaligned accesses, which the only caller always passes as 0.          *)
(***************************************************************************)
EXTENDS Integers, FiniteSets, SequencesExt

CONSTANTS
  NumThreads,   \* harts of the core
  Words,        \* addresses of aligned 32-bit words, in words
  Irqs,         \* the bits of mip and mie
  Effects       \* the data accesses one instruction of Spike may make

Threads == 0 .. NumThreads - 1

\* What mcause and mepc describe: the trap that was taken last.
Traps == {"none", "irq", "nmi", "nmi_int", "fault", "other"}

Insns == {"alu", "load", "mret", "dret", "csr", "debug_ebreak"}

\* DSideAccessInfo, and an access Spike makes: data_ok stands for the outcome
\* of the comparison of the bytes in `be`.
DutAccess == [store : BOOLEAN, word : Words, be : SUBSET (0 .. 3),
              error : BOOLEAN, widened : BOOLEAN]
SpikeAccess == [store : BOOLEAN, word : Words, be : SUBSET (0 .. 3),
                data_ok : BOOLEAN]

ASSUME SpikeConstantsOK ==
  /\ NumThreads \in Nat \ {0}
  /\ Words \subseteq Nat
  /\ Effects \subseteq Seq(SpikeAccess)
  /\ <<>> \in Effects

VARIABLES
  errors,         \* the number of messages in `errors`, shared by the harts
  active_thread,  \* the hart the memory callbacks work for
  thread_state,   \* [Threads -> PerThreadState], without the next
  pending_dside_accesses,  \* [Threads -> DUT accesses not yet consumed]
  hart            \* [Threads -> the Spike processor] (external)

spike_vars ==
  <<errors, active_thread, thread_state, pending_dside_accesses, hart>>

PerThreadState == [nmi_mode : BOOLEAN, mstack : Traps,
                   pending_iside_error : BOOLEAN]

\* mie_on: interrupts are not masked by mstatus.MIE in machine mode; pre_mip:
\* the word interrupts are taken from; at_ebreak: the next instruction is an
\* ebreak into debug mode the DUT has already executed.
Hart == [debug_mode : BOOLEAN, halt_request : BOOLEAN, at_ebreak : BOOLEAN,
         mie_on : BOOLEAN, mie : SUBSET Irqs, mip : SUBSET Irqs,
         pre_mip : SUBSET Irqs, nmi : {"none", "nmi", "nmi_int"},
         trap : Traps]

NewThread == [nmi_mode |-> FALSE, mstack |-> "none",
              pending_iside_error |-> FALSE]

NewHart == [debug_mode |-> FALSE, halt_request |-> FALSE, at_ebreak |-> FALSE,
            mie_on |-> FALSE, mie |-> {}, mip |-> {}, pre_mip |-> {},
            nmi |-> "none", trap |-> "none"]

-----------------------------------------------------------------------------
(* The Spike processor, external.                                          *)

Stopped(h) == h.debug_mode \/ h.halt_request

\* The next proc->step(1) takes an interrupt and executes nothing.
Interrupted(h) ==
  /\ ~Stopped(h)
  /\ h.nmi # "none" \/ (h.mie_on /\ h.pre_mip \cap h.mie # {})

TakeInterrupt(h) ==
  [h EXCEPT !.trap = IF h.nmi = "none" THEN "irq" ELSE h.nmi,
            !.nmi = "none", !.mie_on = FALSE]

EnterDebug(h) ==
  [h EXCEPT !.debug_mode = @ \/ h.halt_request \/ h.at_ebreak,
            !.at_ebreak = FALSE]

\* An exception in debug mode leaves the trap CSRs alone.
TakeTrap(h, cause) ==
  LET d == EnterDebug(h)
  IN  IF d.debug_mode THEN d
      ELSE [d EXCEPT !.trap = cause, !.mie_on = FALSE]

\* The states the hart may be in after it retired an instruction: a CSR
\* instruction may write mstatus, mie, or mcause and mepc.
Retire(h, insn) ==
  LET d == EnterDebug(h)
  IN  CASE insn = "mret" -> {[d EXCEPT !.mie_on = on] : on \in BOOLEAN}
        [] insn = "dret" -> {[d EXCEPT !.debug_mode = FALSE]}
        [] insn = "csr"  -> {[d EXCEPT !.mie_on = on] : on \in BOOLEAN}
                              \cup {[d EXCEPT !.mie = lines] :
                                      lines \in SUBSET Irqs}
                              \cup {[d EXCEPT !.trap = "none"]}
        [] OTHER -> {d}

\* What the execution of one instruction does, interrupts apart.  iside_hit: a
\* fetch or load touches the word of the pending fetch error, and so traps.
Event == {e \in [kind : {"retire", "trap", "throw"}, insn : Insns,
                 cause : {"fault", "other"}, accs : Effects,
                 iside_hit : BOOLEAN, pc_ok : BOOLEAN, reg_ok : BOOLEAN] :
            /\ e.kind # "trap" => e.cause = "other"
            /\ e.kind = "throw" => e.pc_ok /\ e.reg_ok /\ e.insn = "alu"
            /\ e.kind = "trap" => e.reg_ok /\ e.insn = "alu"
            /\ e.insn # "debug_ebreak"
            /\ e.iside_hit => e.kind = "trap" /\ e.accs = <<>>}
-----------------------------------------------------------------------------
(* check_mem_access.                                                       *)

is_widened_load_pair(q) ==
  /\ Len(q) >= 2
  /\ \A k \in 1 .. 2 : ~q[k].store /\ q[k].widened /\ q[k].be = 0 .. 3
  /\ q[2].word = q[1].word + 1
  /\ q[1].error = q[2].error

\* The pending access a Spike access is compared with.
PendingIndex(q, a) ==
  IF ~a.store /\ is_widened_load_pair(q) /\ a.word = q[2].word THEN 2 ELSE 1

Agrees(p, a) ==
  /\ a.word = p.word /\ a.store = p.store
  /\ a.be \subseteq p.be
  /\ a.data_ok \/ (~a.store /\ p.error)

\* Mutant: the other word of a widened read stays.
Erase_one(q, a) == RemoveAt(q, PendingIndex(q, a))

Erase(q, a) == IF ~a.store /\ is_widened_load_pair(q) THEN SubSeq(q, 3, Len(q))
               ELSE RemoveAt(q, PendingIndex(q, a))

\* An access with nothing to be compared with is accepted; one that differs
\* leaves the queue as it is and adds a message.
check_mem_access(s, a) ==
  CASE s.q = <<>> -> s
    [] s.q # <<>> /\ Agrees(s.q[PendingIndex(s.q, a)], a) ->
         [s EXCEPT !.q = Erase(s.q, a)]
    [] OTHER -> [s EXCEPT !.bad = @ + 1]

\* The callbacks mmio_load and mmio_store of one instruction.  Their result
\* never depends on the comparison.
CheckAll(q, accs) == FoldLeft(check_mem_access, [q |-> q, bad |-> 0], accs)

-----------------------------------------------------------------------------
(* The notifications.                                                      *)

notify_dside_access(t, access) ==
  /\ pending_dside_accesses' =
       [pending_dside_accesses EXCEPT ![t] = Append(@, access)]
  /\ UNCHANGED <<errors, active_thread, thread_state, hart>>

set_debug_req(t, debug_req) ==
  /\ hart' = [hart EXCEPT ![t].halt_request = debug_req]
  /\ UNCHANGED <<errors, active_thread, thread_state, pending_dside_accesses>>

\* h is the hart with the state that asks for the interrupt already set.  The
\* callers below see to it that it is taken: the other branch, where Spike
\* executes an instruction, is never reached.
early_interrupt_handle(t, h) ==
  /\ active_thread' = t
  /\ UNCHANGED pending_dside_accesses
  /\ IF Interrupted(h)
     THEN hart' = [hart EXCEPT ![t] = TakeInterrupt(h)] /\ UNCHANGED errors
     ELSE /\ \E after \in Retire(h, "alu") : hart' = [hart EXCEPT ![t] = after]
          /\ errors' = errors + 1

\* Mutant: the mode is not looked at.
EntersNmi_always(t, pin) == pin /\ ~Stopped(hart[t])

EntersNmi(t, pin) ==
  pin /\ ~thread_state[t].nmi_mode /\ ~Stopped(hart[t])

\* set_nmi and set_nmi_int, which differ in the flag they set.
set_nmi(t, pin, flag) ==
  IF EntersNmi(t, pin)
  THEN /\ thread_state' = [thread_state EXCEPT ![t].nmi_mode = TRUE,
                                               ![t].mstack = hart[t].trap]
       /\ early_interrupt_handle(t, [hart[t] EXCEPT !.nmi = flag])
  ELSE UNCHANGED spike_vars

set_mip(t, pre, post) ==
  LET old == hart[t].mip
      h   == [hart[t] EXCEPT !.mip = post, !.pre_mip = pre]
  IN  IF /\ ~Stopped(h) /\ h.mie_on
         /\ old \cap h.mie = {} /\ pre \cap h.mie # {}
      THEN early_interrupt_handle(t, h) /\ UNCHANGED thread_state
      ELSE /\ hart' = [hart EXCEPT ![t] = h]
           /\ UNCHANGED <<errors, active_thread, thread_state,
                          pending_dside_accesses>>

set_iside_error(t) ==
  /\ thread_state' = [thread_state EXCEPT ![t].pending_iside_error = TRUE]
  /\ UNCHANGED <<errors, active_thread, pending_dside_accesses, hart>>

clear_errors ==
  /\ errors' = 0
  /\ UNCHANGED <<active_thread, thread_state, pending_dside_accesses, hart>>

-----------------------------------------------------------------------------
(* step.  `i` holds the arguments and the instruction at the DUT's PC,     *)
(* `result` is what the call returns.                                      *)

check_debug_ebreak(t, i, result) ==
  /\ i.insn = "debug_ebreak"
  /\ errors' = errors + (IF i.write_reg THEN 1 ELSE 0)
                      + (IF i.sync_trap THEN 1 ELSE 0)
  /\ result = (errors' = 0)
  /\ \E pc_ok \in BOOLEAN : hart' = [hart EXCEPT ![t].at_ebreak = pc_ok]
  /\ UNCHANGED <<active_thread, thread_state, pending_dside_accesses>>

\* check_suppress_reg_write refuses.
RefusesSuppress(i) == i.suppress /\ (i.write_reg \/ i.insn # "load")

step_refused(i, result) ==
  /\ i.insn # "debug_ebreak" /\ RefusesSuppress(i)
  /\ errors' = errors + 1
  /\ result = FALSE
  /\ UNCHANGED <<active_thread, thread_state, pending_dside_accesses, hart>>

\* Mutant: the hart of the previous call is left in place.
Active_kept(t) == active_thread

\* The hart whose pending accesses the callbacks of this step look at.
Active(t) == t

\* The hart when it starts the instruction: a step that took an interrupt is
\* followed by another.
StartOfInsn(t) ==
  IF Interrupted(hart[t]) THEN TakeInterrupt(hart[t]) ELSE hart[t]

Checked(t, e) == CheckAll(pending_dside_accesses[Active(t)], e.accs)

\* The accesses and the fetch error that the callbacks leave.
PendingAfter(t, e) ==
  [pending_dside_accesses EXCEPT ![Active(t)] = Checked(t, e).q]

ThreadAfter(t, e) ==
  [thread_state EXCEPT ![Active(t)].pending_iside_error = @ /\ ~e.iside_hit]

Executes(t, i, e) ==
  /\ i.insn # "debug_ebreak" /\ ~RefusesSuppress(i)
  /\ e.kind = "retire" /\ e.pc_ok => e.insn = i.insn
  /\ e.iside_hit => thread_state[Active(t)].pending_iside_error
  /\ active_thread' = Active(t)

\* A C++ exception; the handler around the second step does not catch all.
step_throws(t, i, e, result) ==
  /\ Executes(t, i, e) /\ e.kind = "throw"
  /\ thread_state' = ThreadAfter(t, e)
  /\ pending_dside_accesses' = PendingAfter(t, e)
  /\ hart' = [hart EXCEPT ![t] = StartOfInsn(t)]
  /\ \E said \in IF Interrupted(hart[t]) THEN 0 .. 1 ELSE {1} :
       errors' = errors + Checked(t, e).bad + said
  /\ result = FALSE

\* The accesses with an error are erased one by one.
KeepUnfailed(kept, p) == IF p.error THEN kept ELSE Append(kept, p)

\* What check_sync_trap does to the accesses still pending: with a PMP region
\* enabled, those with an error are dropped after an access fault.
AfterTrap(q, trap, pmp) ==
  CASE trap = "fault" /\ pmp -> FoldLeft(KeepUnfailed, <<>>, q)
    [] trap = "nmi_int" /\ q # <<>> -> Tail(q)
    [] OTHER -> q

\* check_sync_trap gets past its comparisons.
TrapAccepted(i, e) == i.sync_trap /\ e.pc_ok /\ ~i.write_reg

step_traps(t, i, e, result) ==
  LET h == TakeTrap(StartOfInsn(t), e.cause)
  IN  /\ Executes(t, i, e) /\ e.kind = "trap"
      /\ hart' = [hart EXCEPT ![t] = h]
      /\ thread_state' = ThreadAfter(t, e)
      /\ errors' = errors + Checked(t, e).bad
                   + (IF TrapAccepted(i, e) THEN 0 ELSE 1)
      /\ \E pmp \in BOOLEAN :
           pending_dside_accesses' =
             IF TrapAccepted(i, e)
             THEN [PendingAfter(t, e) EXCEPT ![t] = AfterTrap(@, h.trap, pmp)]
             ELSE PendingAfter(t, e)
      /\ result = (errors' = 0)

LeavesNmi(t, i) ==
  ~i.sync_trap /\ i.insn = "mret" /\ thread_state[t].nmi_mode

\* Mutant: messages of the callbacks are kept.
Leftover_kept(t, e) == errors + Checked(t, e).bad

\* Messages there are when a retired instruction is compared.
Leftover(t, e) == 0

step_retires(t, i, e, result) ==
  LET ts    == ThreadAfter(t, e)
      iside == ts[t].pending_iside_error
      ok    == e.pc_ok /\ (e.reg_ok \/ i.suppress) /\ Leftover(t, e) = 0
  IN  /\ Executes(t, i, e) /\ e.kind = "retire"
      /\ \E h \in Retire(StartOfInsn(t), e.insn) :
           hart' = [hart EXCEPT ![t] =
             IF LeavesNmi(t, i) THEN [h EXCEPT !.trap = thread_state[t].mstack]
             ELSE h]
      /\ thread_state' = [ts EXCEPT
           ![t].nmi_mode = @ /\ ~LeavesNmi(t, i),
           ![t].pending_iside_error = FALSE]
      /\ pending_dside_accesses' = PendingAfter(t, e)
      /\ errors' = CASE iside -> errors + Checked(t, e).bad + 1
                     [] ~iside /\ ok -> 0
                     [] ~iside /\ ~ok -> Leftover(t, e) + 1
      /\ result = (~iside /\ ok)

step(t, i, e, result) ==
  \/ check_debug_ebreak(t, i, result)
  \/ step_refused(i, result)
  \/ step_throws(t, i, e, result)
  \/ step_traps(t, i, e, result)
  \/ step_retires(t, i, e, result)

InitSpike ==
  /\ errors = 0 /\ active_thread = 0
  /\ thread_state = [t \in Threads |-> NewThread]
  /\ pending_dside_accesses = [t \in Threads |-> <<>>]
  /\ hart = [t \in Threads |-> NewHart]

\* riscv_cosim_destroy and riscv_cosim_init.
ResetSpike ==
  /\ errors' = 0 /\ active_thread' = 0
  /\ thread_state' = [t \in Threads |-> NewThread]
  /\ pending_dside_accesses' = [t \in Threads |-> <<>>]
  /\ hart' = [t \in Threads |-> NewHart]

SpikeTypeOK ==
  /\ errors \in Nat
  /\ active_thread \in Threads
  /\ thread_state \in [Threads -> PerThreadState]
  /\ pending_dside_accesses \in [Threads -> Seq(DutAccess)]
  /\ hart \in [Threads -> Hart]
=============================================================================
