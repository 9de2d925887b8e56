--------------------------- MODULE CosimPipeline ---------------------------
(***************************************************************************)
(* The scoreboard with the monitors that feed it: eh2_trace_monitor.sv and *)
(* eh2_dut_probe_monitor.sv, which share the field wb_seq of               *)
(* eh2_dut_probe_if.sv to tag retired instructions and writebacks, and     *)
(* axi4_monitor.sv on the LSU bus.                                         *)
(*                                                                         *)
(* Every monitor is a process of its own that wakes at the same clock edge *)
(* (`procs` are those still to run), in an order the language leaves open, *)
(* and all processes, the scoreboard's included, come to rest before the   *)
(* next edge.  The core is external: `pins` is what it drives at the edge, *)
(* `div_owed` and `nb_owed` are the registers of retired instructions      *)
(* whose result is outstanding, `storebuf` counts the retired stores that  *)
(* have not reached the bus.  The monitors report hart 0 only.  `merged`   *)
(* is kept for OnlyMergesStrand.                                           *)
(***************************************************************************)
EXTENDS CosimScoreboard

CONSTANTS
  Commits,      \* instructions the core may retire
  TagModulus,   \* wb_seq of the interface wraps here, at 2^16 in the code
  MergeStores,  \* whether the store buffer may write two stores at once
  MaxTag        \* bound on the tags handed out

Commit == [kind : {"alu", "store", "load", "div"}, rd : Regs \cup {NoReg}]

ASSUME PipelineConstantsOK ==
  /\ Commits \subseteq Commit
  /\ TagModulus \in Nat \ {0}
  /\ MergeStores \in BOOLEAN
  /\ MaxTag \in Nat

VARIABLES
  wb_seq_counter,  \* tag of the next writeback, in the probe monitor
  wb_seq,          \* tag of the last writeback, on the probe interface
  pins, procs, div_owed, nb_owed, storebuf,
  merged           \* stores that shared the bus write of another one
                   \* since the last reset

tagging == <<wb_seq_counter, wb_seq>>
core    == <<pins, div_owed, nb_owed, storebuf, merged>>
pvars   == <<vars, tagging, core, procs>>

NoPins == [retired |-> <<>>, div |-> "none", div_rd |-> NoReg,
           nb_rd |-> NoReg, write |-> FALSE]

\* Nothing is left to do at this clock edge.
Quiet == /\ Idle /\ procs = {}
         /\ trace_fifo = <<>> /\ dut_probe_fifo = <<>> /\ lsu_axi_fifo = <<>>

-----------------------------------------------------------------------------
(* The core, external.  At most one division is outstanding, and one load  *)
(* per register; a result is written back at the edge its instruction      *)
(* retires at or at a later one, loads in any order; a store is written to *)
(* the bus at the edge it retires at or later.                             *)

\* The registers that wait for a result of one unit; x0 does not.
DestsOf(kind, retired) ==
  {c.rd : c \in {c \in Range(retired) : c.kind = kind}} \ {NoReg}
StoresIn(retired) ==
  Cardinality({k \in DOMAIN retired : retired[k].kind = "store"})
MayRetire(retired) ==
  /\ trace_item_count + Len(retired) <= MaxTrace
  /\ \A j, k \in DOMAIN retired :
       j # k /\ retired[j].kind \in {"load", "div"} => retired[j] # retired[k]
  /\ DestsOf("load", retired) \cap nb_owed = {}
  /\ Cardinality(div_owed \cup DestsOf("div", retired)) <= 1
  /\ div_owed \cap DestsOf("div", retired) = {}

\* Which monitors find something at this edge.
Awake(p) == {m \in {"trace", "div", "nb", "write", "read"} :
               CASE m = "trace" -> p.retired # <<>>
                 [] m = "div"   -> p.div # "none"
                 [] m = "write" -> p.write
                 [] OTHER       -> p.nb_rd # NoReg}

\* One rising edge of the core clock out of reset.
clock_edge(retired) ==
  /\ Quiet /\ phase = "run"
  /\ MayRetire(retired)
  /\ LET divs == div_owed \cup DestsOf("div", retired)
         loads == nb_owed \cup DestsOf("load", retired)
         stored == storebuf + StoresIn(retired)
     IN \E div \in {"none", "wren", "overwrite", "spec"},
           nb_rd \in loads \cup {NoReg},
           n \in 0 .. (IF MergeStores THEN 2 ELSE 1) :
        \E div_rd \in IF div \in {"wren", "overwrite"} THEN divs ELSE {NoReg} :
          /\ n <= stored
          /\ div_rd # NoReg \/ nb_rd # NoReg => wb_seq_counter < MaxTag
          /\ pins' = [retired |-> retired, div |-> div, div_rd |-> div_rd,
                      nb_rd |-> nb_rd, write |-> n > 0]
          /\ procs' = Awake(pins') /\ procs' # {}
          /\ div_owed' = divs \ {div_rd}
          /\ nb_owed' = loads \ {nb_rd}
          /\ storebuf' = stored - n
          /\ merged' = merged + (IF n = 2 THEN 1 ELSE 0)
  /\ UNCHANGED <<vars, tagging>>

-----------------------------------------------------------------------------
(* The monitors.                                                           *)

Wakes(m) == /\ m \in procs
            /\ procs' = procs \ {m}
            /\ dpi' = NoCall
            /\ UNCHANGED <<core, queues, stores, counts, result, mips, calls,
                           control>>

\* The tag comes from the interface, whatever the writeback it will need.
trace_txn(c) ==
  [tid |-> 0, kind |-> c.kind, rd |-> c.rd,
   wb |-> IF c.kind = "alu" THEN c.rd ELSE NoReg, wb_tag |-> wb_seq,
   mip |-> 0, exception |-> FALSE, interrupt |-> FALSE, ecause |-> 0]

monitor_trace ==
  /\ Idle /\ Wakes("trace")
  /\ trace_fifo' = trace_fifo
       \o [k \in DOMAIN pins.retired |-> trace_txn(pins.retired[k])]
  /\ UNCHANGED <<dut_probe_fifo, lsu_axi_fifo, tagging>>

\* The 16 bits of wb_seq.
OnInterface(tag) == tag % TagModulus

\* Mutant: the counter stands still.
Publish_same(source, rd, suppress) ==
  /\ dut_probe_fifo' = Append(dut_probe_fifo,
       [tid |-> 0, source |-> source, rd |-> rd, suppress |-> suppress,
        wb_tag |-> wb_seq_counter])
  /\ wb_seq' = OnInterface(wb_seq_counter)
  /\ UNCHANGED wb_seq_counter

\* ap.write of a hint under the next tag.
Publish(source, rd, suppress) ==
  /\ dut_probe_fifo' = Append(dut_probe_fifo,
       [tid |-> 0, source |-> source, rd |-> rd, suppress |-> suppress,
        wb_tag |-> wb_seq_counter])
  /\ wb_seq' = OnInterface(wb_seq_counter)
  /\ wb_seq_counter' = wb_seq_counter + 1

\* A cancelled division that retired leaves a hint to suppress its writeback,
\* a speculative one nothing.
monitor_division ==
  /\ Idle /\ Wakes("div")
  /\ IF pins.div_rd # NoReg
     THEN Publish("DIV", pins.div_rd, pins.div = "overwrite")
     ELSE UNCHANGED <<dut_probe_fifo, tagging>>
  /\ UNCHANGED <<trace_fifo, lsu_axi_fifo>>

monitor_nb_load ==
  /\ Idle /\ Wakes("nb")
  /\ Publish("NB_LOAD", pins.nb_rd, FALSE)
  /\ UNCHANGED <<trace_fifo, lsu_axi_fifo>>

monitor_writes ==
  /\ Idle /\ Wakes("write")
  /\ lsu_axi_fifo' = Append(lsu_axi_fifo, [is_store |-> TRUE])
  /\ UNCHANGED <<trace_fifo, dut_probe_fifo, tagging>>

monitor_reads ==
  /\ Idle /\ Wakes("read")
  /\ lsu_axi_fifo' = Append(lsu_axi_fifo, [is_store |-> FALSE])
  /\ UNCHANGED <<trace_fifo, dut_probe_fifo, tagging>>

-----------------------------------------------------------------------------
(* Reset reaches the core and the scoreboard; the tags are kept, and only  *)
(* the bus monitors, which do not look at rst_n, finish the edge.          *)
Reset ==
  /\ flush_state
  /\ procs' = procs \cap {"write", "read"}
  /\ div_owed' = {} /\ nb_owed' = {} /\ storebuf' = 0 /\ merged' = 0
  /\ UNCHANGED <<tagging, pins>>

CoreInit == /\ pins = NoPins /\ procs = {}
            /\ div_owed = {} /\ nb_owed = {} /\ storebuf = 0 /\ merged = 0

\* Mutant: the first tag is the one that stands for no writeback.
PInit_zero == /\ Init /\ CoreInit
              /\ wb_seq_counter = 0 /\ wb_seq = 0

PInit == /\ Init /\ CoreInit
         /\ wb_seq_counter = 1 /\ wb_seq = 0

Edge == clock_edge(<<>>) \/ \E c \in Commits : clock_edge(<<c>>)
          \/ \E i0, i1 \in Commits : clock_edge(<<i0, i1>>)

Monitoring == \/ monitor_trace
              \/ monitor_division \/ monitor_nb_load
              \/ monitor_writes \/ monitor_reads

Scoreboard ==
  /\ Consumers \/ (\E t \in Threads : Drain(t))
       \/ (Quiet /\ (init_cosim \/ report_phase))
  /\ UNCHANGED <<tagging, core, procs>>

PNext == Edge \/ Monitoring \/ Scoreboard \/ Reset

PSpec == PInit /\ [][PNext]_pvars
-----------------------------------------------------------------------------
(* Properties.                                                             *)

PTypeOK ==
  /\ wb_seq_counter \in Nat \ {0}
  /\ wb_seq \in 0 .. TagModulus - 1
  /\ pins.retired \in Seq(Commits)
  /\ procs \subseteq {"trace", "div", "nb", "write", "read"}
  /\ div_owed \subseteq Regs /\ nb_owed \subseteq Regs
  /\ storebuf \in Nat /\ merged \in Nat

\* Hints on their way to a comparison, oldest first.
Hints == async_wb_q[0] \o dut_probe_fifo

\* The two processes of the probe monitor share one counter and one port:
\* whichever runs first, no two hints carry one tag and they are queued in
\* the order of their tags, resets included; no retired instruction carries a
\* tag that was not handed out yet.
TagsIncrease ==
  /\ \A j, k \in DOMAIN Hints : j < k => Hints[j].wb_tag < Hints[k].wb_tag
  /\ \A k \in DOMAIN Hints : Hints[k].wb_tag < wb_seq_counter
  /\ \A k \in DOMAIN trace_fifo : trace_fifo[k].wb_tag < wb_seq_counter
  /\ \A k \in DOMAIN pending_trace_q[0] :
       pending_trace_q[0][k].wb_tag < wb_seq_counter

Unmatched(i, hints) == \A k \in DOMAIN hints : ~MatchesHint(i, hints[k])

\* The tag sampled with an instruction is the one of a writeback already
\* published (eh2_trace_monitor.sv:107): a DIV or load for which no published
\* hint fits when it is handed over is fitted by none of those to come, tags
\* that wrap included, and heads its queue until a reset or the end of the
\* run.  This is what the code does, not what ADR-0018 says of it: see
\* AwaitedHintArrives.
UnmatchedStaysUnmatched ==
  [][\A i \in Range(pending_trace_q[0] \o trace_fifo) :
       needs_async_wb(i) /\ Unmatched(i, Hints) => Unmatched(i, Hints')]_pvars

\* When an edge is over, the stores not yet compared are those whose bus write
\* is queued, those still in the store buffer, and one for every two that the
\* core merged since the last reset (sb:291-327); and no store heads the queue
\* while a write is there for it.  So each merge strands one store until a
\* reset, with all that retires behind it, and nothing else ever does.
OnlyMergesStrand ==
  Quiet /\ phase = "run" =>
    LET q == pending_trace_q[0] IN
      /\ StoresIn(q) = PendingStores + storebuf + merged
      /\ q # <<>> /\ Head(q).kind = "store" => PendingStores = 0

\* The comment at sb:70, that a store merged into the bus write of another one
\* is let through: once every store of the core is on the bus, no store waits.
NoStoreStranded ==
  Quiet /\ phase = "run" /\ storebuf = 0 /\ pending_trace_q[0] # <<>> =>
    ~WaitsForStore(Head(pending_trace_q[0]))

\* An instruction held for a hint when an edge is over.
HeldForHint == /\ Quiet /\ phase = "run"
               /\ pending_trace_q[0] # <<>>
               /\ ~WaitsForStore(Head(pending_trace_q[0]))
               /\ WaitsForHint(0, Head(pending_trace_q[0]))

\* ADR-0018 and sb:277: an instruction without a hint of its unit waits for the
\* one to arrive.  Once the core has returned every result, none waits.
AwaitedHintArrives == div_owed = {} /\ nb_owed = {} => ~HeldForHint

\* eh2_dut_probe_if.sv:71: what the trace monitor reads to tag an instruction
\* is the tag of the last writeback published.
TagOnInterface == wb_seq = wb_seq_counter - 1

\* ADR-0018: a hint of the right unit with a wrong tag is reported as a
\* mismatch.
TagMismatchReported ==
  HeldForHint /\ (\E k \in DOMAIN async_wb_q[0] :
                    RightSource(Head(pending_trace_q[0]), async_wb_q[0][k]))
    => mismatch_count[0] > 0

\* ADR-0018: a hint is associated with the one instruction it belongs to: the
\* writeback Spike is told for a DIV or load is the one to its register.
HintIsOwn ==
  [][dpi'.call = "step" /\ needs_async_wb(dpi'.item) /\ ~dpi'.wb.suppress
       => dpi'.wb.reg = dpi'.item.rd]_pvars
=============================================================================
