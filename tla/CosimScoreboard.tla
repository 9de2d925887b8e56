-------------------------- MODULE CosimScoreboard --------------------------
(***************************************************************************)
(* The co-simulation scoreboard, eh2_cosim_scoreboard.sv.                  *)
(*                                                                         *)
(* Three UVM processes take items from three analysis FIFOs (retired       *)
(* instructions, asynchronous writeback hints, LSU bus transactions) and   *)
(* feed a per-thread queue of retired instructions to the Spike reference  *)
(* model in retirement order.  A store is held until its bus write was     *)
(* seen, a DIV or non-blocking load until its writeback hint was seen.  A  *)
(* fourth process flushes and re-initialises everything around a reset.    *)
(*                                                                         *)
(* A SystemVerilog process runs until it blocks, so a function that takes  *)
(* no time cannot be interleaved with another process.  The drain loop of  *)
(* process_pending_trace is modelled one iteration per step, with the      *)
(* threads it has still to serve in `calls`, and every other process waits *)
(* for `Idle`.                                                             *)
(*                                                                         *)
(* Spike is external here: what a comparison finds is a nondeterministic   *)
(* choice, and `dpi` is the group of DPI calls the current step makes.     *)
(***************************************************************************)
EXTENDS Integers, FiniteSets, SequencesExt

CONSTANTS
  NumThreads,       \* harts of the core, 1 or 2 in the code
  Regs,             \* the integer registers other than x0
  Mips,             \* the values of the interrupt-pending word
  FatalOnMismatch,  \* fatal_on_mismatch: a failing step ends the simulation
  TraceInputs,      \* the retired instructions the trace monitor may hand over
  HintInputs,       \* the writebacks the probe monitor may hand over
  MaxTrace,         \* bounds on what each monitor hands over between two
  MaxProbe,         \* initialisations of the scoreboard
  MaxAxi

Threads == 0 .. NumThreads - 1
NoReg == 0

\* Instruction classes, as the predicates of eh2_trace_seq_item.sv tell them
\* apart; "cmem" is a compressed load or store.
Kinds == {"alu", "div", "load", "store", "cmem", "lr", "amo"}

\* rd is get_write_rd() of an instruction for which writes_rd() holds, x0
\* otherwise; wb is the register of the writeback in the trace packet.
TraceItem == [tid : Threads, kind : Kinds, rd : Regs \cup {NoReg},
              wb : Regs \cup {NoReg}, wb_tag : Nat, mip : Mips,
              exception : BOOLEAN, interrupt : BOOLEAN, ecause : 0 .. 31]

Hint == [tid : Threads, source : {"DIV", "NB_LOAD", "REGULAR"}, rd : Regs,
         suppress : BOOLEAN, wb_tag : Nat]

Access == [is_store : BOOLEAN]

ASSUME ConstantsOK ==
  /\ NumThreads \in Nat \ {0}
  /\ Regs \subseteq Nat \ {NoReg}
  /\ 0 \in Mips
  /\ FatalOnMismatch \in BOOLEAN
  /\ TraceInputs \subseteq TraceItem
  /\ HintInputs \subseteq Hint
  /\ MaxTrace \in Nat /\ MaxProbe \in Nat /\ MaxAxi \in Nat

VARIABLES
  trace_fifo,            \* the three analysis FIFOs
  dut_probe_fifo,
  lsu_axi_fifo,
  pending_trace_q,       \* [Threads -> retired instructions not yet compared]
  async_wb_q,            \* [Threads -> writeback hints not yet consumed]
  pending_mem_access_q,  \* bus transactions not yet consumed, of all threads
  store_axi_delivered,   \* bus writes queued since the last flush
  store_trace_stepped,   \* stores compared since the last flush
  mismatch_count,        \* [Threads -> mismatches since the last init_cosim]
  step_count,            \* riscv_cosim_step calls since the last init_cosim
  trace_item_count, probe_item_count, axi_item_count,
  prev_mip,              \* [Threads -> the mip last sent to Spike]
  spike_mip,             \* [Threads -> mip of the Spike hart] (external)
  calls,                 \* threads process_pending_trace has still to drain
  dpi,                   \* the DPI calls of the current step
  phase,                 \* "reset", "run", "fatal" or "done"
  verdict                \* what report_phase printed

fifos  == <<trace_fifo, dut_probe_fifo, lsu_axi_fifo>>
queues == <<pending_trace_q, async_wb_q, pending_mem_access_q>>
stores == <<store_axi_delivered, store_trace_stepped>>
counts == <<trace_item_count, probe_item_count, axi_item_count>>
result == <<mismatch_count, step_count>>
mips   == <<prev_mip, spike_mip>>
control == <<phase, verdict>>

vars == <<fifos, queues, stores, counts, result, mips, calls, dpi, control>>

NoCall == [call |-> "none"]
EmptyQueues == [t \in Threads |-> <<>>]
Zeros == [t \in Threads |-> 0]

\* cosim_handle is non-null and initialized holds from run_phase's init_cosim
\* on; pre_abort (a fatal mismatch) and final_phase drop the handle.
Initialized == phase \in {"reset", "run"}

\* No function of the scoreboard is executing.
Idle == calls = <<>>

-----------------------------------------------------------------------------
(* Classification of a retired instruction.                                *)

writes_rd(i) == i.rd # NoReg
is_div(i) == i.kind = "div"
is_load_instruction(i) == \/ i.kind \in {"load", "lr"}
                          \/ i.kind = "cmem" /\ writes_rd(i)
\* Despite its name it does not hold of an AMO.
is_store_or_amo_instruction(i) == \/ i.kind = "store"
                                  \/ i.kind = "cmem" /\ ~writes_rd(i)
is_memory_instruction(i) == i.kind \in {"load", "store", "amo", "lr", "cmem"}
needs_nb_load_async_wb(i) == \/ i.kind = "load"
                             \/ i.kind = "cmem" /\ writes_rd(i)
must_wait_for_memory_access(i) ==
  ~is_load_instruction(i) /\ is_store_or_amo_instruction(i)
needs_async_wb(i) ==
  /\ ~i.exception /\ ~i.interrupt
  /\ writes_rd(i)
  /\ is_div(i) \/ needs_nb_load_async_wb(i)
\* A notification that an interrupt was taken: no instruction executed.
IrqOnly(i) == i.interrupt /\ ~i.exception
SyncTrap(i) == i.exception /\ ~i.interrupt
-----------------------------------------------------------------------------
(* The gates of process_pending_trace.                                     *)

\* Mutant: only the oldest bus transaction is looked at.
has_matching_memory_access_oldest(i) ==
  /\ pending_mem_access_q # <<>>
  /\ Head(pending_mem_access_q).is_store = is_store_or_amo_instruction(i)

\* Some queued bus transaction has the direction the instruction needs: the
\* queue is searched by direction alone, not by thread or by address.
has_matching_memory_access(i) ==
  \E k \in DOMAIN pending_mem_access_q :
    pending_mem_access_q[k].is_store = is_store_or_amo_instruction(i)

RightSource(i, h) == IF is_div(i) THEN h.source = "DIV"
                     ELSE is_load_instruction(i) /\ h.source = "NB_LOAD"

\* Mutant: the unit alone associates a hint.
MatchesHint_anytag(i, h) == RightSource(i, h)

MatchesHint(i, h) == /\ RightSource(i, h)
                     /\ h.wb_tag = i.wb_tag
                     /\ is_div(i) \/ h.wb_tag > 0

has_matching_async_wb(t, i) ==
  /\ writes_rd(i)
  /\ \E k \in DOMAIN async_wb_q[t] : MatchesHint(i, async_wb_q[t][k])

\* Mutant: an off-by-one in the escape.
CoalescedStore_ge == store_trace_stepped >= store_axi_delivered

\* The escape meant for stores the DUT merged into one bus write.
CoalescedStore == store_trace_stepped > store_axi_delivered

WaitsForStore(i) == /\ must_wait_for_memory_access(i)
                    /\ ~has_matching_memory_access(i)
                    /\ ~CoalescedStore

WaitsForHint(t, i) == needs_async_wb(i) /\ ~has_matching_async_wb(t, i)

\* The loop of process_pending_trace(t) ends here.
Blocked(t) ==
  pending_trace_q[t] # <<>> =>
    \/ WaitsForStore(Head(pending_trace_q[t]))
    \/ WaitsForHint(t, Head(pending_trace_q[t]))

-----------------------------------------------------------------------------
(* The monitors, external: each writes its analysis port between two time  *)
(* steps of the scoreboard.  The trace and probe monitors are silent while *)
(* rst_n is low, the bus monitor is not.                                   *)

TraceWrite(i) ==
  /\ Idle /\ phase = "run"
  /\ trace_item_count + Len(trace_fifo) < MaxTrace
  /\ trace_fifo' = Append(trace_fifo, i)
  /\ dpi' = NoCall
  /\ UNCHANGED <<dut_probe_fifo, lsu_axi_fifo, queues, stores, counts, result,
                 mips, calls, control>>

ProbeWrite(h) ==
  /\ Idle /\ phase = "run"
  /\ probe_item_count + Len(dut_probe_fifo) < MaxProbe
  /\ dut_probe_fifo' = Append(dut_probe_fifo, h)
  /\ dpi' = NoCall
  /\ UNCHANGED <<trace_fifo, lsu_axi_fifo, queues, stores, counts, result,
                 mips, calls, control>>

AxiWrite(a) ==
  /\ Idle /\ phase \in {"run", "reset"}
  /\ axi_item_count + Len(lsu_axi_fifo) < MaxAxi
  /\ lsu_axi_fifo' = Append(lsu_axi_fifo, a)
  /\ dpi' = NoCall
  /\ UNCHANGED <<trace_fifo, dut_probe_fifo, queues, stores, counts, result,
                 mips, calls, control>>

-----------------------------------------------------------------------------
(* The three consumer processes.                                           *)

run_cosim_trace ==
  /\ Idle /\ Initialized
  /\ trace_fifo # <<>>
  /\ LET i == Head(trace_fifo) IN
       /\ trace_fifo' = Tail(trace_fifo)
       /\ trace_item_count' = trace_item_count + 1
       /\ pending_trace_q' = [pending_trace_q EXCEPT ![i.tid] = Append(@, i)]
       /\ calls' = <<i.tid>>
  /\ dpi' = NoCall
  /\ UNCHANGED <<dut_probe_fifo, lsu_axi_fifo, async_wb_q,
                 pending_mem_access_q, stores, probe_item_count,
                 axi_item_count, result, mips, control>>

run_cosim_probe_async ==
  /\ Idle /\ Initialized
  /\ dut_probe_fifo # <<>>
  /\ LET h == Head(dut_probe_fifo) IN
       /\ dut_probe_fifo' = Tail(dut_probe_fifo)
       /\ probe_item_count' = probe_item_count + 1
       /\ IF h.source = "REGULAR"
          THEN UNCHANGED <<async_wb_q, calls>>
          ELSE /\ async_wb_q' = [async_wb_q EXCEPT ![h.tid] = Append(@, h)]
               /\ calls' = <<h.tid>>
  /\ dpi' = NoCall
  /\ UNCHANGED <<trace_fifo, lsu_axi_fifo, pending_trace_q,
                 pending_mem_access_q, stores, trace_item_count,
                 axi_item_count, result, mips, control>>

\* Mutant: a transaction is queued and nobody is told.
threads_to_drain_none == <<>>

\* A bus transaction may release a store of any thread.
threads_to_drain == [k \in 1 .. NumThreads |-> k - 1]

run_cosim_dmem ==
  /\ Idle /\ Initialized
  /\ lsu_axi_fifo # <<>>
  /\ LET a == Head(lsu_axi_fifo) IN
       /\ lsu_axi_fifo' = Tail(lsu_axi_fifo)
       /\ axi_item_count' = axi_item_count + 1
       /\ pending_mem_access_q' = Append(pending_mem_access_q, a)
       /\ store_axi_delivered' = store_axi_delivered
                                   + (IF a.is_store THEN 1 ELSE 0)
       /\ calls' = threads_to_drain
  /\ dpi' = NoCall
  /\ UNCHANGED <<trace_fifo, dut_probe_fifo, pending_trace_q, async_wb_q,
                 store_trace_stepped, trace_item_count, probe_item_count,
                 result, mips, control>>

-----------------------------------------------------------------------------
(* process_pending_trace and compare_instruction.                          *)

\* The loop of process_pending_trace(t) reaches its end for thread t.
ProcessExit(t) ==
  /\ calls # <<>> /\ Head(calls) = t
  /\ Blocked(t)
  /\ calls' = Tail(calls)
  /\ dpi' = NoCall
  /\ UNCHANGED <<fifos, queues, stores, counts, result, mips, control>>

\* The head of the queue may be compared.
Ready(t) == calls # <<>> /\ Head(calls) = t /\ ~Blocked(t)

TakesAccess(i) == is_memory_instruction(i) /\ has_matching_memory_access(i)

\* q without its first transaction of one direction.
WithoutAccess(q, is_store) ==
  RemoveFirstMatch(q, LAMBDA a : a.is_store = is_store)

\* q without the first hint that matches i.
WithoutHint(q, i) == RemoveFirstMatch(q, LAMBDA h : MatchesHint(i, h))

\* The head leaves the queue, with the bus transaction it takes along.
PopHead(t) ==
  LET i == Head(pending_trace_q[t]) IN
    /\ pending_trace_q' = [pending_trace_q EXCEPT ![t] = Tail(@)]
    /\ pending_mem_access_q' =
         IF TakesAccess(i)
         THEN WithoutAccess(pending_mem_access_q,
                            is_store_or_amo_instruction(i))
         ELSE pending_mem_access_q
    /\ store_trace_stepped' = store_trace_stepped
         + (IF is_store_or_amo_instruction(i) THEN 1 ELSE 0)

\* Mutant: the pre-value is not kept up to date.
NotifySpike_stale(t, i) ==
  /\ spike_mip' = [spike_mip EXCEPT ![t] = i.mip]
  /\ UNCHANGED prev_mip

\* Mutant: pending bits are added to those sent before.
NotifySpike_add(t, i) ==
  /\ prev_mip' = [prev_mip EXCEPT ![t] = @ + i.mip]
  /\ spike_mip' = prev_mip'

\* riscv_cosim_set_mip(prev_mip[t], i.mip), with the notifications around it.
NotifySpike(t, i) ==
  /\ prev_mip' = [prev_mip EXCEPT ![t] = i.mip]
  /\ spike_mip' = [spike_mip EXCEPT ![t] = i.mip]

\* An interrupt notification is not stepped, only its trap CSRs are compared:
\* `csr` of mcause and mepc differ.
compare_irq_only(t) ==
  LET i == Head(pending_trace_q[t]) IN
    /\ Ready(t) /\ IrqOnly(i)
    /\ PopHead(t)
    /\ NotifySpike(t, i)
    /\ \E csr \in 0 .. 2 :
         mismatch_count' = [mismatch_count EXCEPT ![t] = @ + csr]
    /\ dpi' = [call |-> "notify", tid |-> t, item |-> i,
               pre_mip |-> prev_mip[t], access |-> TakesAccess(i)]
    /\ UNCHANGED <<fifos, async_wb_q, store_axi_delivered, counts, step_count,
                   calls, control>>

\* try_consume_async_wb finds hints of the right unit, none with this tag.
WrongTag(t, i) == /\ writes_rd(i)
                  /\ ~has_matching_async_wb(t, i)
                  /\ \E k \in DOMAIN async_wb_q[t] :
                       RightSource(i, async_wb_q[t][k])

FirstHint(q, i) == q[SelectInSeq(q, LAMBDA h : MatchesHint(i, h))]

\* The writeback riscv_cosim_step is told: the one of the trace packet unless
\* an asynchronous hint replaces or suppresses it.
Writeback(t, i) ==
  LET h == FirstHint(async_wb_q[t], i)
  IN  CASE has_matching_async_wb(t, i) /\ h.suppress ->
             [reg |-> NoReg, src |-> "none", suppress |-> TRUE]
        [] has_matching_async_wb(t, i) /\ ~h.suppress ->
             [reg |-> h.rd, src |-> "hint", suppress |-> FALSE]
        [] ~has_matching_async_wb(t, i) /\ is_div(i) ->
             [reg |-> NoReg, src |-> "none", suppress |-> TRUE]
        [] OTHER ->
             [reg |-> i.wb, src |-> "trace", suppress |-> FALSE]

\* `matched` is the result of riscv_cosim_step, `csr` how many of mcause and
\* mepc differ after a synchronous trap it accepted.
compare_instruction(t) ==
  LET i == Head(pending_trace_q[t]) IN
    /\ Ready(t) /\ ~IrqOnly(i)
    /\ PopHead(t)
    /\ async_wb_q' =
         IF has_matching_async_wb(t, i)
         THEN [async_wb_q EXCEPT ![t] = WithoutHint(@, i)]
         ELSE async_wb_q
    /\ NotifySpike(t, i)
    /\ \E matched \in BOOLEAN, csr \in 0 .. 2 :
         /\ csr > 0 => matched /\ SyncTrap(i)
         /\ mismatch_count' = [mismatch_count EXCEPT ![t] =
              @ + (IF WrongTag(t, i) THEN 1 ELSE 0)
                + (IF matched THEN 0 ELSE 1) + csr]
         /\ IF ~matched /\ FatalOnMismatch
            THEN /\ phase' = "fatal" /\ calls' = <<>>
                 /\ UNCHANGED step_count
            ELSE /\ step_count' = step_count + 1
                 /\ UNCHANGED <<phase, calls>>
    /\ dpi' = [call |-> "step", tid |-> t, item |-> i,
               pre_mip |-> prev_mip[t], access |-> TakesAccess(i),
               sync_trap |-> SyncTrap(i), wb |-> Writeback(t, i)]
    /\ UNCHANGED <<fifos, store_axi_delivered, counts, verdict>>

-----------------------------------------------------------------------------
(* Reset, start and end of test.                                           *)

\* negedge rst_n: flush_state.
flush_state ==
  /\ Idle /\ phase = "run"
  /\ phase' = "reset"
  /\ trace_fifo' = <<>> /\ dut_probe_fifo' = <<>> /\ lsu_axi_fifo' = <<>>
  /\ pending_trace_q' = EmptyQueues /\ async_wb_q' = EmptyQueues
  /\ pending_mem_access_q' = <<>>
  /\ prev_mip' = Zeros
  /\ store_axi_delivered' = 0 /\ store_trace_stepped' = 0
  /\ dpi' = NoCall
  /\ UNCHANGED <<counts, result, spike_mip, calls, verdict>>

\* posedge rst_n: init_cosim.  The store counters keep their values.
init_cosim ==
  /\ Idle /\ phase = "reset"
  /\ phase' = "run"
  /\ spike_mip' = Zeros
  /\ step_count' = 0 /\ mismatch_count' = Zeros
  /\ trace_item_count' = 0 /\ probe_item_count' = 0 /\ axi_item_count' = 0
  /\ prev_mip' = Zeros
  /\ pending_trace_q' = EmptyQueues /\ async_wb_q' = EmptyQueues
  /\ pending_mem_access_q' = <<>>
  /\ dpi' = NoCall
  /\ UNCHANGED <<fifos, stores, calls, verdict>>

NoMismatch == \A t \in Threads : mismatch_count[t] = 0

\* Some instruction was seen or is still queued, or a transaction is.
SawSomething == \/ trace_item_count > 0 \/ step_count > 0
                \/ pending_mem_access_q # <<>>
                \/ \E t \in Threads : pending_trace_q[t] # <<>>

\* Mutant: mismatches are not looked at once something was stepped.
Verdict_stepped == IF step_count > 0 THEN "PASS"
                   ELSE IF SawSomething THEN "FAIL" ELSE "silent"

Verdict == IF NoMismatch /\ step_count > 0 THEN "PASS"
           ELSE IF SawSomething THEN "FAIL" ELSE "silent"

report_phase ==
  /\ Idle /\ Initialized
  /\ phase' = "done"
  /\ verdict' = Verdict
  /\ dpi' = NoCall
  /\ UNCHANGED <<fifos, queues, stores, counts, result, mips, calls>>

-----------------------------------------------------------------------------
\* run_phase starts, under reset, with the init_cosim of line 155 done.
Init ==
  /\ trace_fifo = <<>> /\ dut_probe_fifo = <<>> /\ lsu_axi_fifo = <<>>
  /\ pending_trace_q = EmptyQueues /\ async_wb_q = EmptyQueues
  /\ pending_mem_access_q = <<>>
  /\ store_axi_delivered = 0 /\ store_trace_stepped = 0
  /\ mismatch_count = Zeros /\ step_count = 0
  /\ trace_item_count = 0 /\ probe_item_count = 0 /\ axi_item_count = 0
  /\ prev_mip = Zeros /\ spike_mip = Zeros
  /\ calls = <<>> /\ dpi = NoCall
  /\ phase = "reset" /\ verdict = "none"

Monitors == \/ \E i \in TraceInputs : TraceWrite(i)
            \/ \E h \in HintInputs : ProbeWrite(h)
            \/ \E a \in Access : AxiWrite(a)

Consumers == run_cosim_trace \/ run_cosim_probe_async \/ run_cosim_dmem

Drain(t) == ProcessExit(t) \/ compare_irq_only(t) \/ compare_instruction(t)

Next == \/ Monitors
        \/ Consumers
        \/ \E t \in Threads : Drain(t)
        \/ flush_state \/ init_cosim \/ report_phase

Spec == Init /\ [][Next]_vars

\* The UVM scheduler runs every process that is not blocked.
Fairness == /\ WF_vars(run_cosim_trace)
            /\ WF_vars(run_cosim_probe_async)
            /\ WF_vars(run_cosim_dmem)
            /\ \A t \in Threads : WF_vars(Drain(t))

FairSpec == Spec /\ Fairness
-----------------------------------------------------------------------------
(* Types.                                                                  *)

Wb == [reg : Regs \cup {NoReg}, src : {"none", "hint", "trace"},
       suppress : BOOLEAN]

DpiCall ==
  [call : {"none"}]
    \cup [call : {"notify"}, tid : Threads, item : TraceItem, pre_mip : Mips,
          access : BOOLEAN]
    \cup [call : {"step"}, tid : Threads, item : TraceItem, pre_mip : Mips,
          access : BOOLEAN, sync_trap : BOOLEAN, wb : Wb]

\* Every variable has the type its SystemVerilog declaration gives it.
TypeOK ==
  /\ trace_fifo \in Seq(TraceItem)
  /\ dut_probe_fifo \in Seq(Hint)
  /\ lsu_axi_fifo \in Seq(Access)
  /\ pending_trace_q \in [Threads -> Seq(TraceItem)]
  /\ async_wb_q \in [Threads -> Seq(Hint)]
  /\ pending_mem_access_q \in Seq(Access)
  /\ store_axi_delivered \in Nat /\ store_trace_stepped \in Nat
  /\ mismatch_count \in [Threads -> Nat] /\ step_count \in Nat
  /\ trace_item_count \in Nat
  /\ probe_item_count \in Nat
  /\ axi_item_count \in Nat
  /\ prev_mip \in [Threads -> Mips] /\ spike_mip \in [Threads -> Mips]
  /\ calls \in Seq(Threads)
  /\ dpi \in DpiCall
  /\ phase \in {"reset", "run", "fatal", "done"}
  /\ verdict \in {"none", "PASS", "FAIL", "silent"}

-----------------------------------------------------------------------------
(* Safety.                                                                 *)

PendingStores ==
  Cardinality({k \in DOMAIN pending_mem_access_q :
                 pending_mem_access_q[k].is_store})

\* Every store compared since the last flush took a bus write of its own out
\* of the queue: stores compared and writes still queued never exceed the
\* writes delivered.  The two counters of lines 68-73 therefore never let
\* CoalescedStore hold.
StoreAccounting ==
  store_trace_stepped + PendingStores <= store_axi_delivered

\* When no function of the scoreboard runs, every queue is empty or its head
\* is really held by a gate: no arrival of a hint or of a bus transaction
\* leaves an instruction behind that could have been compared.
NoMissedWakeup ==
  Idle /\ Initialized => \A t \in Threads : Blocked(t)

\* The pre-value handed to Spike with each set_mip (lines 579 and 646) is the
\* mip the Spike hart holds, across resets and interrupt notifications too.
MipChain == phase = "run" => prev_mip = spike_mip

\* A store is never compared without consuming exactly one bus write, the
\* oldest one queued (lines 291-327): no path around the wait is ever taken.
StoreTakesWrite ==
  [][ dpi'.call # "none" /\ is_store_or_amo_instruction(dpi'.item)
        => \E k \in DOMAIN pending_mem_access_q :
             /\ pending_mem_access_q[k].is_store
             /\ \A j \in 1 .. k - 1 : ~pending_mem_access_q[j].is_store
             /\ pending_mem_access_q' = RemoveAt(pending_mem_access_q, k)
    ]_vars

StepsWithOwnHint ==
  dpi'.call = "step" /\ needs_async_wb(dpi'.item) =>
    \E k \in DOMAIN async_wb_q[dpi'.tid] :
      LET h == async_wb_q[dpi'.tid][k] IN
        /\ h.wb_tag = dpi'.item.wb_tag
        /\ h.source = IF is_div(dpi'.item) THEN "DIV" ELSE "NB_LOAD"
        /\ async_wb_q'[dpi'.tid] = RemoveAt(async_wb_q[dpi'.tid], k)
        /\ dpi'.wb.suppress = h.suppress
        /\ ~h.suppress => dpi'.wb.src = "hint" /\ dpi'.wb.reg = h.rd

LosesNoHint(t) ==
  Len(async_wb_q'[t]) < Len(async_wb_q[t]) =>
    \/ phase' # phase /\ phase' \in {"reset", "run"}
    \/ /\ dpi'.call = "step" /\ dpi'.tid = t
       /\ dpi'.item.kind \in {"div", "load", "cmem", "lr"}

\* A DIV or non-blocking load that retired normally is stepped with the result
\* its unit returned under its own tag, or told to Spike as suppressed, and
\* that hint leaves the queue with it (lines 307-313 and 624-633); a hint
\* leaves the queue in no other way, a reset apart.
HintDiscipline ==
  [][StepsWithOwnHint /\ \A t \in Threads : LosesNoHint(t)]_vars

\* An interrupt notification stands for no executed instruction (lines
\* 573-574), so it takes no bus transaction out of the queue.
IrqOnlyTakesNothing == [][dpi'.call = "notify" => ~dpi'.access]_vars

-----------------------------------------------------------------------------
(* Refinement of Lockstep.                                                 *)

\* Where the analysis FIFO q holds instructions of hart t.
PositionsOf(q, t) == {k \in DOMAIN q : q[k].tid = t}

\* The n-th smallest element of P.
RankIn(P, k) == Cardinality({j \in P : j <= k})
Nth(P, n) == CHOOSE k \in P : RankIn(P, k) = n

\* The instructions of hart t in q, in their order.
OfHart(q, t) ==
  LET P == PositionsOf(q, t) IN [n \in 1 .. Cardinality(P) |-> q[Nth(P, n)]]

\* The instructions of t not yet compared: queued, then still in the FIFO.
Backlog(t) == pending_trace_q[t] \o OfHart(trace_fifo, t)
Backlogs == [t \in Threads |-> Backlog(t)]

Promise == INSTANCE Lockstep WITH
  Items    <- TraceInputs,
  Notice   <- IrqOnly,
  backlog  <- Backlogs,
  clean    <- NoMismatch,
  compared <- step_count > 0

\* The scoreboard keeps the promise of Lockstep: whatever the gates hold back
\* and however the three processes interleave, instructions reach Spike once
\* each, in retirement order, and the verdict says what was found (lines
\* 206-327 and 795-837).
ImplementsLockstep == Promise!Spec

-----------------------------------------------------------------------------
(* Liveness.                                                               *)

\* A store that heads its queue while a bus write is on its way is compared,
\* or the run ends or is reset (lines 261-275: the bus process serves the
\* queues itself).  Of a single hart: two harts may take each other's writes.
StoreServed ==
  \A t \in Threads :
    (/\ phase = "run" /\ pending_trace_q[t] # <<>>
     /\ WaitsForStore(Head(pending_trace_q[t]))
     /\ \E k \in DOMAIN lsu_axi_fifo : lsu_axi_fifo[k].is_store)
    ~>
    (\/ phase # "run"
     \/ /\ dpi.call # "none" /\ dpi.tid = t
        /\ is_store_or_amo_instruction(dpi.item))
=============================================================================
