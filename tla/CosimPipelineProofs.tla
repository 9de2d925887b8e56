------------------------ MODULE CosimPipelineProofs ------------------------
(***************************************************************************)
(* What holds of the scoreboard with the monitors that feed it, for any    *)
(* instructions the core may retire, any width of the tag on the probe     *)
(* interface and any order of the monitors at an edge.                     *)
(*                                                                         *)
(* The steps of the scoreboard are steps of CosimScoreboard, so what is    *)
(* inductive there is used here again (ScoreboardIsNext); the monitors are *)
(* cases of their own.  TagsOrdered splits the order of the tags over the  *)
(* two queues a hint passes.  StoresKept is the inductive form of          *)
(* OnlyMergesStrand: the account of stores at any point of an edge.        *)
(***************************************************************************)
EXTENDS CosimPipeline, CosimScoreboardProofs

-----------------------------------------------------------------------------
(* Types.                                                                  *)

\* What the monitors read at an edge, and which of them still run.
PinsOK ==
  /\ pins.div_rd \in Regs \cup {NoReg}
  /\ pins.nb_rd \in Regs \cup {NoReg}
  /\ "nb" \in procs => pins.nb_rd # NoReg
  /\ "trace" \in procs => trace_fifo = <<>>

PInv == TypeOK /\ PTypeOK /\ PinsOK

LEMMA HartZero == 0 \in Threads
BY ConstantsOK DEF ConstantsOK, Threads

\* A remainder is less than the modulus and not more than the number.
LEMMA Remainder ==
  ASSUME NEW n \in Nat, NEW m \in Nat \ {0}
  PROVE  n % m \in 0 .. m - 1 /\ n % m <= n
<1>1. n % m \in 0 .. m - 1
  OBVIOUS
<1>2. CASE n < m
  <2>1. n % m = n
    BY <1>2
  <2>2. QED BY <1>1, <2>1
<1>3. CASE m <= n
  BY <1>1, <1>3
<1>4. QED BY <1>1, <1>2, <1>3

\* The steps of the scoreboard and of a reset are steps of CosimScoreboard.
LEMMA ScoreboardIsNext ==
  /\ Scoreboard => Next /\ UNCHANGED <<tagging, core, procs>>
  /\ Reset => flush_state /\ Next
BY DEF Scoreboard, Reset, Next

LEMMA InitPInv == PInit => PInv
<1> SUFFICES ASSUME PInit PROVE PInv
  OBVIOUS
<1>1. TypeOK
  BY InitType DEF PInit
<1>2. PTypeOK
  BY PipelineConstantsOK DEF PInit, CoreInit, PTypeOK, PipelineConstantsOK, NoPins
<1>3. PinsOK
  BY DEF PInit, CoreInit, PinsOK, NoPins
<1>4. QED BY <1>1, <1>2, <1>3 DEF PInv

\* How many stores there are among instructions.
LEMMA StoresInFinite ==
  ASSUME NEW S, NEW q \in Seq(S)
  PROVE  /\ IsFiniteSet({k \in DOMAIN q : q[k].kind = "store"})
         /\ StoresIn(q) \in Nat
<1> DEFINE T == {k \in DOMAIN q : q[k].kind = "store"}
<1>1. IsFiniteSet(1 .. Len(q))
  BY FS_Interval
<1>2. T \subseteq 1 .. Len(q)
  OBVIOUS
<1>3. IsFiniteSet(T)
  BY <1>1, <1>2, FS_Subset
<1>4. Cardinality(T) \in Nat
  BY <1>3, FS_CardinalityType
<1>5. QED BY <1>3, <1>4 DEF StoresIn

\* What the core does at an edge: it returns the results of div_rd and nb_rd,
\* and writes n stores to the bus.
CoreDrives(retired, div_rd, nb_rd, n) ==
  LET divs == div_owed \cup DestsOf("div", retired)
      loads == nb_owed \cup DestsOf("load", retired)
      stored == storebuf + StoresIn(retired)
  IN  /\ div_rd \in divs \cup {NoReg} /\ nb_rd \in loads \cup {NoReg}
      /\ n \in 0 .. (IF MergeStores THEN 2 ELSE 1) /\ n <= stored
      /\ pins'.retired = retired
      /\ pins'.div_rd = div_rd /\ pins'.nb_rd = nb_rd
      /\ pins'.write = (n > 0)
      /\ procs' = Awake(pins')
      /\ div_owed' = divs \ {div_rd}
      /\ nb_owed' = loads \ {nb_rd}
      /\ storebuf' = stored - n
      /\ merged' = merged + (IF n = 2 THEN 1 ELSE 0)

LEMMA CoreStep ==
  ASSUME NEW retired, clock_edge(retired)
  PROVE  \E div_rd, nb_rd, n : CoreDrives(retired, div_rd, nb_rd, n)
<1> DEFINE divs == div_owed \cup DestsOf("div", retired)
           loads == nb_owed \cup DestsOf("load", retired)
           stored == storebuf + StoresIn(retired)
           Drives(div, nb_rd, n, div_rd) ==
             /\ n <= stored
             /\ div_rd # NoReg \/ nb_rd # NoReg => wb_seq_counter < MaxTag
             /\ pins' = [retired |-> retired, div |-> div, div_rd |-> div_rd,
                         nb_rd |-> nb_rd, write |-> n > 0]
             /\ procs' = Awake(pins') /\ procs' # {}
             /\ div_owed' = divs \ {div_rd}
             /\ nb_owed' = loads \ {nb_rd}
             /\ storebuf' = stored - n
             /\ merged' = merged + (IF n = 2 THEN 1 ELSE 0)
<1>1. \E div \in {"none", "wren", "overwrite", "spec"},
         nb_rd \in loads \cup {NoReg},
         n \in 0 .. (IF MergeStores THEN 2 ELSE 1) :
        \E div_rd \in IF div \in {"wren", "overwrite"} THEN divs ELSE {NoReg} :
          Drives(div, nb_rd, n, div_rd)
  BY Zenon DEF clock_edge
<1> HIDE DEF Drives
<1>2. PICK div \in {"none", "wren", "overwrite", "spec"},
           nb_rd \in loads \cup {NoReg},
           n \in 0 .. (IF MergeStores THEN 2 ELSE 1) :
        \E div_rd \in IF div \in {"wren", "overwrite"} THEN divs ELSE {NoReg} :
          Drives(div, nb_rd, n, div_rd)
  BY <1>1
<1>3. PICK div_rd \in IF div \in {"wren", "overwrite"} THEN divs ELSE {NoReg} :
        Drives(div, nb_rd, n, div_rd)
  BY <1>2
<1>4. div_rd \in divs \cup {NoReg}
  BY <1>3
<1>5. CoreDrives(retired, div_rd, nb_rd, n)
  BY <1>2, <1>3, <1>4 DEF Drives, CoreDrives
<1>6. QED BY <1>5

\* Which monitors an edge wakes.
LEMMA AwakeIs ==
  ASSUME NEW p
  PROVE  /\ Awake(p) \subseteq {"trace", "div", "nb", "write", "read"}
         /\ "trace" \in Awake(p) <=> p.retired # <<>>
         /\ "nb" \in Awake(p) <=> p.nb_rd # NoReg
         /\ "write" \in Awake(p) <=> p.write
BY DEF Awake

\* What it makes of the types.
LEMMA EdgeType ==
  ASSUME PInv, NEW retired \in Seq(Commits), clock_edge(retired)
  PROVE  PTypeOK' /\ PinsOK'
<1>1. UNCHANGED <<vars, tagging>> /\ Quiet
  BY DEF clock_edge
<1>2. PICK div_rd, nb_rd, n : CoreDrives(retired, div_rd, nb_rd, n)
  BY CoreStep
<1> USE <1>2 DEF CoreDrives
<1>3. \A k \in {"div", "load"} : DestsOf(k, retired) \subseteq Regs
  BY PipelineConstantsOK DEF DestsOf, Range, PipelineConstantsOK, Commit
<1>4. div_rd \in Regs \cup {NoReg} /\ nb_rd \in Regs \cup {NoReg}
  BY <1>3 DEF PInv, PTypeOK
<1>5. storebuf' \in Nat
  <2>1. StoresIn(retired) \in Nat
    BY StoresInFinite
  <2>2. QED BY <2>1 DEF PInv, PTypeOK
<1>6. /\ "nb" \in procs' => pins'.nb_rd # NoReg
      /\ procs' \subseteq {"trace", "div", "nb", "write", "read"}
  BY AwakeIs
<1>7. PTypeOK'
  BY <1>1, <1>3, <1>5, <1>6 DEF PTypeOK, PInv, tagging
<1>8. PinsOK'
  BY <1>1, <1>4, <1>6 DEF PinsOK, Quiet, vars, fifos
<1>9. QED BY <1>7, <1>8

\* The edges of Next are edges of legal instructions.
LEMMA EdgeIs ==
  ASSUME Edge
  PROVE  \E retired \in Seq(Commits) : clock_edge(retired)
<1>1. <<>> \in Seq(Commits)
  OBVIOUS
<1>2. \A c \in Commits : <<c>> \in Seq(Commits)
  OBVIOUS
<1>3. \A i0, i1 \in Commits : <<i0, i1>> \in Seq(Commits)
  OBVIOUS
<1>4. QED BY <1>1, <1>2, <1>3 DEF Edge

\* A retired instruction is handed over as an item of its kind, under hart 0.
LEMMA TraceTxnIs ==
  ASSUME PInv, NEW c \in Commits
  PROVE  /\ trace_txn(c) \in TraceItem
         /\ trace_txn(c).tid = 0
         /\ trace_txn(c).kind = c.kind
         /\ trace_txn(c).wb_tag = wb_seq
<1>1. c \in Commit
  BY PipelineConstantsOK DEF PipelineConstantsOK
<1>2. wb_seq \in Nat
  BY PipelineConstantsOK DEF PInv, PTypeOK, PipelineConstantsOK
<1>3. 0 \in Threads /\ 0 \in Mips
  BY HartZero, ConstantsOK DEF ConstantsOK
<1>4. c.kind \in Kinds /\ c.rd \in Regs \cup {NoReg}
  BY <1>1 DEF Commit, Kinds
<1>5. QED BY <1>2, <1>3, <1>4 DEF trace_txn, TraceItem

HandedOver(retired) == [k \in DOMAIN retired |-> trace_txn(retired[k])]

\* What an edge retired follows an empty FIFO.
LEMMA MonitorTrace ==
  ASSUME PInv, monitor_trace
  PROVE  /\ trace_fifo' = HandedOver(pins.retired)
         /\ trace_fifo' \in Seq(TraceItem)
<1>1. "trace" \in procs /\ trace_fifo = <<>>
  BY DEF monitor_trace, Wakes, PInv, PinsOK
<1>2. pins.retired \in Seq(Commits)
  BY DEF PInv, PTypeOK
<1>3. HandedOver(pins.retired) \in Seq(TraceItem)
  BY <1>2, TraceTxnIs DEF HandedOver
<1>4. trace_fifo' = <<>> \o HandedOver(pins.retired)
  BY <1>1 DEF monitor_trace, HandedOver
<1>5. QED BY <1>3, <1>4

\* A published hint is one of hart 0 under the next tag.
NextHint(source, rd, suppress) ==
  [tid |-> 0, source |-> source, rd |-> rd, suppress |-> suppress,
   wb_tag |-> wb_seq_counter]

LEMMA PublishIs ==
  ASSUME PInv, NEW source \in {"DIV", "NB_LOAD"}, NEW rd \in Regs,
         NEW suppress \in BOOLEAN, Publish(source, rd, suppress)
  PROVE  /\ NextHint(source, rd, suppress) \in Hint
         /\ dut_probe_fifo' = Append(dut_probe_fifo, NextHint(source, rd, suppress))
         /\ dut_probe_fifo' \in Seq(Hint)
         /\ wb_seq' \in 0 .. TagModulus - 1 /\ wb_seq' <= wb_seq_counter
         /\ wb_seq_counter' = wb_seq_counter + 1
<1>1. wb_seq_counter \in Nat \ {0} /\ dut_probe_fifo \in Seq(Hint)
  BY DEF PInv, PTypeOK, TypeOK
<1>2. NextHint(source, rd, suppress) \in Hint
  BY <1>1, HartZero DEF NextHint, Hint
<1>3. wb_seq' \in 0 .. TagModulus - 1 /\ wb_seq' <= wb_seq_counter
  BY <1>1, Remainder, PipelineConstantsOK
  DEF Publish, OnInterface, PipelineConstantsOK
<1>4. QED BY <1>1, <1>2, <1>3 DEF Publish, NextHint

\* The probe monitor publishes one hint, or finds a speculative cancellation.
LEMMA ProbeMonitor ==
  ASSUME PInv, monitor_division \/ monitor_nb_load
  PROVE  \/ UNCHANGED <<dut_probe_fifo, tagging>>
         \/ \E source \in {"DIV", "NB_LOAD"}, rd \in Regs, suppress \in BOOLEAN :
              Publish(source, rd, suppress)
<1>1. CASE monitor_nb_load
  <2>1. pins.nb_rd \in Regs /\ Publish("NB_LOAD", pins.nb_rd, FALSE)
    BY <1>1 DEF monitor_nb_load, Wakes, PInv, PinsOK
  <2>2. QED BY <2>1
<1>2. CASE monitor_division
  <2>1. (pins.div = "overwrite") \in BOOLEAN
    OBVIOUS
  <2>2. CASE pins.div_rd # NoReg
    <3>1. pins.div_rd \in Regs
      BY <2>2 DEF PInv, PinsOK
    <3>2. Publish("DIV", pins.div_rd, pins.div = "overwrite")
      BY <1>2, <2>2 DEF monitor_division
    <3>3. QED BY <2>1, <3>1, <3>2
  <2>3. CASE pins.div_rd = NoReg
    BY <1>2, <2>3 DEF monitor_division
  <2>4. QED BY <2>2, <2>3
<1>3. QED BY <1>1, <1>2

\* No monitor touches anything of the scoreboard but its own FIFO.
LEMMA MonitorsKeep ==
  ASSUME Monitoring
  PROVE  /\ UNCHANGED <<core, queues, stores, counts, result, mips, calls, control>>
         /\ dpi' = NoCall /\ Idle /\ procs' \subseteq procs
BY DEF Monitoring, monitor_trace, monitor_division, monitor_nb_load,
   monitor_writes, monitor_reads, Wakes

\* Every step of the pipeline keeps the types.
LEMMA PStepType == PInv /\ [PNext]_pvars => PInv'
<1> SUFFICES ASSUME PInv, [PNext]_pvars PROVE PInv'
  OBVIOUS
<1> USE DEF PInv
<1>1. CASE Edge
  <2>1. PICK retired \in Seq(Commits) : clock_edge(retired)
    BY <1>1, EdgeIs
  <2>2. PTypeOK' /\ PinsOK'
    BY <2>1, EdgeType
  <2>3. [Next]_vars
    BY <2>1 DEF clock_edge, vars
  <2>4. QED BY <2>2, <2>3, StepType
<1>2. CASE Monitoring
  <2>1. /\ trace_fifo' \in Seq(TraceItem) /\ dut_probe_fifo' \in Seq(Hint)
        /\ lsu_axi_fifo' \in Seq(Access)
        /\ wb_seq_counter' \in Nat \ {0} /\ wb_seq' \in 0 .. TagModulus - 1
        /\ "trace" \in procs' => trace_fifo' = <<>>
    <3>1. CASE monitor_trace
      BY <3>1, MonitorTrace DEF monitor_trace, Wakes, tagging, PTypeOK, TypeOK
    <3>2. CASE monitor_division \/ monitor_nb_load
      <4>1. UNCHANGED <<trace_fifo, lsu_axi_fifo>> /\ procs' \subseteq procs
        BY <1>2, <3>2, MonitorsKeep DEF monitor_division, monitor_nb_load
      <4>2. /\ dut_probe_fifo' \in Seq(Hint) /\ wb_seq_counter' \in Nat \ {0}
            /\ wb_seq' \in 0 .. TagModulus - 1
        <5>1. CASE UNCHANGED <<dut_probe_fifo, tagging>>
          BY <5>1 DEF tagging, PTypeOK, TypeOK
        <5>2. ASSUME NEW source \in {"DIV", "NB_LOAD"}, NEW rd \in Regs,
                     NEW suppress \in BOOLEAN, Publish(source, rd, suppress)
              PROVE  /\ dut_probe_fifo' \in Seq(Hint)
                     /\ wb_seq_counter' \in Nat \ {0}
                     /\ wb_seq' \in 0 .. TagModulus - 1
          BY <5>2, PublishIs DEF PTypeOK
        <5>3. QED BY <3>2, <5>1, <5>2, ProbeMonitor
      <4>3. QED BY <4>1, <4>2 DEF PinsOK, TypeOK
    <3>3. CASE monitor_writes \/ monitor_reads
      <4>1. PICK a \in Access : lsu_axi_fifo' = Append(lsu_axi_fifo, a)
        BY <3>3 DEF monitor_writes, monitor_reads, Access
      <4>2. lsu_axi_fifo' \in Seq(Access)
        BY <4>1 DEF TypeOK
      <4>3. UNCHANGED <<trace_fifo, dut_probe_fifo, tagging>>
              /\ procs' \subseteq procs
        BY <1>2, <3>3, MonitorsKeep DEF monitor_writes, monitor_reads
      <4>4. UNCHANGED <<trace_fifo, dut_probe_fifo, wb_seq_counter, wb_seq>>
        BY <4>3 DEF tagging
      <4>5. QED BY <4>2, <4>3, <4>4 DEF PTypeOK, TypeOK, PinsOK
    <3>4. QED BY <1>2, <3>1, <3>2, <3>3 DEF Monitoring
  <2>2. TypeOK'
    <3>1. dpi' \in DpiCall
      BY <1>2, MonitorsKeep DEF NoCall, DpiCall
    <3>2. UNCHANGED <<queues, stores, counts, result, mips, calls, control>>
      BY <1>2, MonitorsKeep
    <3>3. QED BY <2>1, <3>1, <3>2 DEF TypeOK, queues, stores, counts, result,
       mips, control
  <2>3. PTypeOK' /\ PinsOK'
    BY <1>2, <2>1, MonitorsKeep DEF PTypeOK, PinsOK, core
  <2>4. QED BY <2>2, <2>3
<1>3. CASE Scoreboard
  <2>1. TypeOK'
    BY <1>3, ScoreboardIsNext, StepType
  <2>2. trace_fifo = <<>> => trace_fifo' = <<>>
    BY <1>3 DEF Scoreboard, Consumers, run_cosim_trace, run_cosim_probe_async,
       run_cosim_dmem, Drain, ProcessExit, compare_irq_only,
       compare_instruction, init_cosim, report_phase, fifos
  <2>3. PTypeOK' /\ PinsOK'
    BY <1>3, <2>2, ScoreboardIsNext DEF PTypeOK, PinsOK, tagging, core
  <2>4. QED BY <2>1, <2>3
<1>4. CASE Reset
  <2>1. TypeOK'
    BY <1>4, ScoreboardIsNext, StepType
  <2>2. PTypeOK' /\ PinsOK'
    BY <1>4 DEF Reset, PTypeOK, PinsOK, tagging
  <2>3. QED BY <2>1, <2>2
<1>5. CASE UNCHANGED pvars
  <2>1. TypeOK'
    BY <1>5, StepType DEF pvars
  <2>2. PTypeOK' /\ PinsOK'
    BY <1>5 DEF pvars, vars, fifos, PTypeOK, PinsOK, tagging, core
  <2>3. QED BY <2>1, <2>2
<1>6. QED BY <1>1, <1>2, <1>3, <1>4, <1>5 DEF PNext

\* The monitors and the pins hold values of their types, whatever the core
\* retires.
THEOREM PipelineTypeCorrect == PSpec => []PTypeOK
<1>1. PInit => PInv
  BY InitPInv
<1>2. PInv /\ [PNext]_pvars => PInv'
  BY PStepType
<1>3. PInv => PTypeOK
  BY DEF PInv
<1>4. QED BY <1>1, <1>2, <1>3, PTL DEF PSpec

-----------------------------------------------------------------------------
(* The order of the tags.                                                  *)

TagsBelow(q, n) == \A k \in DOMAIN q : q[k].wb_tag < n
Increasing(q) == \A j, k \in DOMAIN q : j < k => q[j].wb_tag < q[k].wb_tag

\* Hints queued in a and, after them, in the FIFO f: in the order of their
\* tags, which are below n.
InOrder(a, f, n) ==
  /\ Increasing(a) /\ Increasing(f)
  /\ \A j \in DOMAIN a, k \in DOMAIN f : a[j].wb_tag < f[k].wb_tag
  /\ TagsBelow(a, n) /\ TagsBelow(f, n)

LEMMA PublishInOrder ==
  ASSUME NEW a \in Seq(Hint), NEW f \in Seq(Hint), NEW n \in Nat,
         InOrder(a, f, n), NEW h \in Hint, h.wb_tag = n
  PROVE  InOrder(a, Append(f, h), n + 1)
<1> DEFINE g == Append(f, h)
<1>1. /\ g \in Seq(Hint) /\ Len(g) = Len(f) + 1
      /\ \A k \in 1 .. Len(f) : g[k] = f[k]
      /\ g[Len(f) + 1] = h
  OBVIOUS
<1>2. /\ \A k \in DOMAIN f : f[k].wb_tag \in Nat
      /\ \A k \in DOMAIN a : a[k].wb_tag \in Nat
  <2>1. /\ \A k \in DOMAIN f : f[k] \in Hint
        /\ \A k \in DOMAIN a : a[k] \in Hint
    OBVIOUS
  <2>2. QED BY <2>1 DEF Hint
<1> HIDE DEF g
<1>3. \A k \in DOMAIN g : \/ k \in DOMAIN f /\ g[k] = f[k]
                          \/ k = Len(f) + 1 /\ g[k].wb_tag = n
  BY <1>1
<1>4. TagsBelow(a, n + 1) /\ TagsBelow(g, n + 1)
  BY <1>2, <1>3 DEF InOrder, TagsBelow
<1>5. ASSUME NEW j \in DOMAIN g, NEW k \in DOMAIN g, j < k
      PROVE  g[j].wb_tag < g[k].wb_tag
  <2>1. j \in DOMAIN f /\ g[j] = f[j] /\ f[j].wb_tag < n
    BY <1>1, <1>3, <1>5 DEF InOrder, TagsBelow
  <2>2. QED BY <1>3, <1>5, <2>1 DEF InOrder, Increasing
<1>6. \A j \in DOMAIN a, k \in DOMAIN g : a[j].wb_tag < g[k].wb_tag
  BY <1>3 DEF InOrder, TagsBelow
<1>7. QED BY <1>4, <1>5, <1>6 DEF InOrder, Increasing, g

LEMMA MoveInOrder ==
  ASSUME NEW a \in Seq(Hint), NEW f \in Seq(Hint), f # <<>>, NEW n \in Nat,
         InOrder(a, f, n)
  PROVE  InOrder(Append(a, Head(f)), Tail(f), n)
<1> DEFINE b == Append(a, Head(f))
           g == Tail(f)
<1>1. /\ b \in Seq(Hint) /\ Len(b) = Len(a) + 1
      /\ \A k \in 1 .. Len(a) : b[k] = a[k]
      /\ b[Len(a) + 1] = f[1]
  OBVIOUS
<1>2. /\ g \in Seq(Hint) /\ Len(g) = Len(f) - 1
      /\ \A k \in 1 .. Len(g) : k + 1 \in 1 .. Len(f) /\ g[k] = f[k + 1]
  OBVIOUS
<1>3. 1 \in DOMAIN f
  OBVIOUS
<1> HIDE DEF b, g
<1>4. \A k \in DOMAIN b : \/ k \in DOMAIN a /\ b[k] = a[k]
                          \/ k = Len(a) + 1 /\ b[k] = f[1]
  BY <1>1
<1>5. TagsBelow(b, n)
  BY <1>3, <1>4 DEF InOrder, TagsBelow
<1>6. ASSUME NEW j \in DOMAIN b, NEW k \in DOMAIN b, j < k
      PROVE  b[j].wb_tag < b[k].wb_tag
  <2>1. j \in DOMAIN a /\ b[j] = a[j]
    BY <1>1, <1>4, <1>6
  <2>2. QED BY <1>3, <1>4, <1>6, <2>1 DEF InOrder, Increasing
<1>7. Increasing(g) /\ TagsBelow(g, n)
  <2>1. \A k \in DOMAIN g : k + 1 \in DOMAIN f /\ g[k] = f[k + 1]
    BY <1>2
  <2>2. \A j, k \in DOMAIN g : j < k => j + 1 < k + 1
    BY <1>2
  <2>3. QED BY <2>1, <2>2 DEF InOrder, TagsBelow, Increasing
<1>8. ASSUME NEW j \in DOMAIN b, NEW k \in DOMAIN g
      PROVE  b[j].wb_tag < g[k].wb_tag
  <2>1. k + 1 \in DOMAIN f /\ g[k] = f[k + 1] /\ 1 < k + 1
    BY <1>2
  <2>2. QED BY <1>3, <1>4, <2>1 DEF InOrder, Increasing
<1>9. QED BY <1>5, <1>6, <1>7, <1>8 DEF InOrder, Increasing, b, g

LEMMA RemoveInOrder ==
  ASSUME NEW a \in Seq(Hint), NEW f \in Seq(Hint), NEW n \in Nat,
         InOrder(a, f, n), NEW i \in 1 .. Len(a)
  PROVE  InOrder(RemoveAt(a, i), f, n)
<1> DEFINE b == RemoveAt(a, i)
           At(j) == IF j < i THEN j ELSE j + 1
<1>1. /\ b \in Seq(Hint) /\ Len(b) = Len(a) - 1
      /\ \A j \in 1 .. Len(a) - 1 : b[j] = IF j < i THEN a[j] ELSE a[j + 1]
  BY RemoveAtProperties
<1> HIDE DEF b
<1>2. \A j \in DOMAIN b : At(j) \in DOMAIN a /\ b[j] = a[At(j)]
  BY <1>1
<1>3. \A j, k \in DOMAIN b : j < k => At(j) < At(k)
  BY <1>1
<1> HIDE DEF At
<1>4. Increasing(b) /\ TagsBelow(b, n)
  BY <1>2, <1>3 DEF InOrder, TagsBelow, Increasing
<1>5. \A j \in DOMAIN b, k \in DOMAIN f : b[j].wb_tag < f[k].wb_tag
  BY <1>2 DEF InOrder
<1>6. QED BY <1>4, <1>5 DEF InOrder, b

LEMMA EmptyInOrder ==
  ASSUME NEW a, NEW f, NEW n, InOrder(a, f, n)
  PROVE  InOrder(<<>>, f, n) /\ InOrder(<<>>, <<>>, n)
BY DEF InOrder, TagsBelow, Increasing

\* In order one after the other is in order.
LEMMA InOrderConcat ==
  ASSUME NEW a \in Seq(Hint), NEW f \in Seq(Hint), NEW n \in Nat,
         InOrder(a, f, n)
  PROVE  Increasing(a \o f) /\ TagsBelow(a \o f, n)
<1> DEFINE q == a \o f
<1>1. /\ q \in Seq(Hint) /\ Len(q) = Len(a) + Len(f)
      /\ \A j \in 1 .. Len(q) : q[j] = IF j <= Len(a) THEN a[j] ELSE f[j - Len(a)]
  BY ConcatProperties
<1> HIDE DEF q
<1>2. ASSUME NEW k \in DOMAIN q
      PROVE  \/ k \in DOMAIN a /\ q[k] = a[k]
             \/ k - Len(a) \in DOMAIN f /\ q[k] = f[k - Len(a)] /\ k > Len(a)
  <2>1. k \in Nat /\ Len(a) \in Nat /\ Len(f) \in Nat
    BY <1>1
  <2>2. CASE k <= Len(a)
    BY <1>1, <2>1, <2>2
  <2>3. CASE ~(k <= Len(a))
    BY <1>1, <2>1, <2>3
  <2>4. QED BY <2>2, <2>3
<1>3. TagsBelow(q, n)
  BY <1>2 DEF InOrder, TagsBelow
<1>4. ASSUME NEW j \in DOMAIN q, NEW k \in DOMAIN q, j < k
      PROVE  q[j].wb_tag < q[k].wb_tag
  <2>1. j \in Nat /\ k \in Nat /\ Len(a) \in Nat
    BY <1>1
  <2>2. CASE k \in DOMAIN a /\ q[k] = a[k]
    <3>1. j \in DOMAIN a /\ q[j] = a[j]
      BY <1>2, <1>4, <2>1, <2>2
    <3>2. QED BY <1>4, <2>2, <3>1 DEF InOrder, Increasing
  <2>3. CASE k - Len(a) \in DOMAIN f /\ q[k] = f[k - Len(a)] /\ k > Len(a)
    <3>1. CASE j \in DOMAIN a /\ q[j] = a[j]
      BY <2>3, <3>1 DEF InOrder
    <3>2. CASE j - Len(a) \in DOMAIN f /\ q[j] = f[j - Len(a)] /\ j > Len(a)
      <4>1. j - Len(a) < k - Len(a)
        BY <1>4, <2>1
      <4>2. QED BY <2>3, <3>2, <4>1 DEF InOrder, Increasing
    <3>3. QED BY <1>2, <3>1, <3>2
  <2>4. QED BY <1>2, <2>2, <2>3
<1>5. QED BY <1>3, <1>4 DEF Increasing, q

\* Everything the monitors hand over is of hart 0.
HartZeroOnly ==
  /\ \A k \in DOMAIN trace_fifo : trace_fifo[k].tid = 0
  /\ \A k \in DOMAIN dut_probe_fifo :
       dut_probe_fifo[k].tid = 0 /\ dut_probe_fifo[k].source # "REGULAR"
  /\ \A t \in Threads \ {0} : pending_trace_q[t] = <<>>

\* A comparison is one of hart 0.
LEMMA ComparesHartZero ==
  ASSUME PInv, HartZeroOnly, NEW t \in Threads, Ready(t)
  PROVE  t = 0 /\ pending_trace_q[0] # <<>>
BY DEF Ready, Blocked, HartZeroOnly

\* The ways of an instruction: it is queued, compared or forgotten.
LEMMA TracesMove ==
  ASSUME PInv, HartZeroOnly, Scoreboard \/ Reset
  PROVE  /\ \A t \in Threads \ {0} : pending_trace_q'[t] = <<>>
         /\ \/ pending_trace_q'[0] = pending_trace_q[0] /\ trace_fifo' = trace_fifo
            \/ /\ trace_fifo # <<>> /\ trace_fifo' = Tail(trace_fifo)
               /\ pending_trace_q'[0]
                    = Append(pending_trace_q[0], Head(trace_fifo))
            \/ /\ pending_trace_q[0] # <<>> /\ trace_fifo' = trace_fifo
               /\ pending_trace_q'[0] = Tail(pending_trace_q[0])
            \/ pending_trace_q'[0] = <<>> /\ trace_fifo' \in {trace_fifo, <<>>}
<1> USE HartZero
<1>1. pending_trace_q \in [Threads -> Seq(TraceItem)]
        /\ trace_fifo \in Seq(TraceItem)
  BY DEF PInv, TypeOK
<1>2. CASE run_cosim_trace
  <2>1. Head(trace_fifo).tid = 0 /\ trace_fifo # <<>>
    BY <1>1, <1>2 DEF run_cosim_trace, HartZeroOnly
  <2>2. /\ pending_trace_q' = [pending_trace_q EXCEPT ![0] = Append(@, Head(trace_fifo))]
        /\ trace_fifo' = Tail(trace_fifo)
    BY <1>2, <2>1 DEF run_cosim_trace
  <2>3. QED BY <1>1, <2>1, <2>2 DEF HartZeroOnly
<1>3. ASSUME NEW t \in Threads, compare_irq_only(t) \/ compare_instruction(t)
      PROVE  /\ \A u \in Threads \ {0} : pending_trace_q'[u] = <<>>
             /\ pending_trace_q[0] # <<>> /\ trace_fifo' = trace_fifo
             /\ pending_trace_q'[0] = Tail(pending_trace_q[0])
  <2>1. Ready(t) /\ PopHead(t) /\ trace_fifo' = trace_fifo
    BY <1>3 DEF compare_irq_only, compare_instruction, fifos
  <2>2. t = 0 /\ pending_trace_q[0] # <<>>
    BY <2>1, ComparesHartZero
  <2>3. QED BY <1>1, <2>1, <2>2 DEF PopHead, HartZeroOnly
<1>4. CASE flush_state \/ init_cosim
  BY <1>4 DEF flush_state, init_cosim, EmptyQueues, fifos
<1>5. CASE \/ run_cosim_probe_async \/ run_cosim_dmem \/ report_phase
           \/ \E t \in Threads : ProcessExit(t)
  BY <1>5 DEF run_cosim_probe_async, run_cosim_dmem, report_phase, ProcessExit,
     fifos, queues, HartZeroOnly
<1>6. QED BY <1>2, <1>3, <1>4, <1>5 DEF Scoreboard, Consumers, Drain, Reset

\* The ways of a hint: it is queued, consumed or forgotten.
LEMMA HintsMove ==
  ASSUME PInv, HartZeroOnly, Scoreboard \/ Reset
  PROVE  \/ async_wb_q'[0] = async_wb_q[0] /\ dut_probe_fifo' = dut_probe_fifo
         \/ /\ dut_probe_fifo # <<>> /\ dut_probe_fifo' = Tail(dut_probe_fifo)
            /\ async_wb_q'[0] = Append(async_wb_q[0], Head(dut_probe_fifo))
         \/ /\ dut_probe_fifo' = dut_probe_fifo
            /\ \E k \in 1 .. Len(async_wb_q[0]) :
                 async_wb_q'[0] = RemoveAt(async_wb_q[0], k)
         \/ async_wb_q'[0] = <<>> /\ dut_probe_fifo' \in {dut_probe_fifo, <<>>}
<1> USE HartZero
<1>1. async_wb_q \in [Threads -> Seq(Hint)] /\ dut_probe_fifo \in Seq(Hint)
  BY DEF PInv, TypeOK
<1>2. CASE run_cosim_probe_async
  <2>1. /\ dut_probe_fifo # <<>>
        /\ Head(dut_probe_fifo).tid = 0 /\ Head(dut_probe_fifo).source # "REGULAR"
    BY <1>1, <1>2 DEF run_cosim_probe_async, HartZeroOnly
  <2>2. /\ async_wb_q' = [async_wb_q EXCEPT ![0] = Append(@, Head(dut_probe_fifo))]
        /\ dut_probe_fifo' = Tail(dut_probe_fifo)
    BY <1>2, <2>1 DEF run_cosim_probe_async
  <2>3. QED BY <1>1, <2>1, <2>2
<1>3. ASSUME NEW t \in Threads, compare_instruction(t)
      PROVE  /\ dut_probe_fifo' = dut_probe_fifo
             /\ \/ async_wb_q'[0] = async_wb_q[0]
                \/ \E k \in 1 .. Len(async_wb_q[0]) :
                     async_wb_q'[0] = RemoveAt(async_wb_q[0], k)
  <2>1. Ready(t) /\ dut_probe_fifo' = dut_probe_fifo
    BY <1>3 DEF compare_instruction, fifos
  <2>2. t = 0
    BY <2>1, ComparesHartZero
  <2>3. CASE has_matching_async_wb(t, Head(pending_trace_q[t]))
    <3>1. \E k \in DOMAIN async_wb_q[t] :
            async_wb_q'[t] = RemoveAt(async_wb_q[t], k)
      BY <1>3, <2>3, ConsumedHint DEF PInv
    <3>2. QED BY <1>1, <2>1, <2>2, <3>1
  <2>4. CASE ~has_matching_async_wb(t, Head(pending_trace_q[t]))
    BY <1>3, <2>1, <2>4 DEF compare_instruction
  <2>5. QED BY <2>3, <2>4
<1>4. CASE flush_state \/ init_cosim
  BY <1>4 DEF flush_state, init_cosim, EmptyQueues, fifos
<1>5. CASE \/ run_cosim_trace \/ run_cosim_dmem \/ report_phase
           \/ \E t \in Threads : ProcessExit(t) \/ compare_irq_only(t)
  BY <1>5 DEF run_cosim_trace, run_cosim_dmem, report_phase, ProcessExit,
     compare_irq_only, fifos, queues
<1>6. QED BY <1>2, <1>3, <1>4, <1>5 DEF Scoreboard, Consumers, Drain, Reset

\* Every step keeps to hart 0.
LEMMA HartZeroStep == PInv /\ HartZeroOnly /\ [PNext]_pvars => HartZeroOnly'
<1> SUFFICES ASSUME PInv, HartZeroOnly, [PNext]_pvars PROVE HartZeroOnly'
  OBVIOUS
<1>1. /\ trace_fifo \in Seq(TraceItem) /\ dut_probe_fifo \in Seq(Hint)
  BY DEF PInv, TypeOK
<1>2. CASE Edge \/ UNCHANGED pvars
  BY <1>2 DEF Edge, clock_edge, pvars, vars, fifos, queues, HartZeroOnly
<1>3. CASE monitor_trace
  <2>1. trace_fifo' = HandedOver(pins.retired)
    BY <1>3, MonitorTrace
  <2>2. pins.retired \in Seq(Commits)
    BY DEF PInv, PTypeOK
  <2>3. \A k \in DOMAIN trace_fifo' : trace_fifo'[k].tid = 0
    BY <2>1, <2>2, TraceTxnIs DEF HandedOver
  <2>4. QED BY <1>3, <2>3 DEF monitor_trace, Wakes, queues, HartZeroOnly
<1>4. CASE monitor_division \/ monitor_nb_load
  <2>1. UNCHANGED <<trace_fifo, pending_trace_q>>
    BY <1>4 DEF monitor_division, monitor_nb_load, Wakes, queues
  <2>2. CASE UNCHANGED dut_probe_fifo
    BY <2>1, <2>2 DEF HartZeroOnly
  <2>3. ASSUME NEW source \in {"DIV", "NB_LOAD"}, NEW rd \in Regs,
               NEW suppress \in BOOLEAN, Publish(source, rd, suppress)
        PROVE  HartZeroOnly'
    <3> DEFINE h == NextHint(source, rd, suppress)
    <3>1. h.tid = 0 /\ h.source # "REGULAR"
      BY DEF NextHint
    <3>2. dut_probe_fifo' = Append(dut_probe_fifo, h)
      BY <2>3, PublishIs
    <3> HIDE DEF h
    <3>3. \A k \in DOMAIN dut_probe_fifo' :
            \/ dut_probe_fifo'[k] = h
            \/ k \in DOMAIN dut_probe_fifo /\ dut_probe_fifo'[k] = dut_probe_fifo[k]
      BY <1>1, <3>2
    <3>4. QED BY <2>1, <3>1, <3>3 DEF HartZeroOnly
  <2>4. QED BY <1>4, <2>2, <2>3, ProbeMonitor
<1>5. CASE monitor_writes \/ monitor_reads
  BY <1>5 DEF monitor_writes, monitor_reads, Wakes, queues, HartZeroOnly
<1>6. CASE Scoreboard \/ Reset
  <2>1. \A t \in Threads \ {0} : pending_trace_q'[t] = <<>>
    BY <1>6, TracesMove
  <2>2. \A k \in DOMAIN trace_fifo' : trace_fifo'[k].tid = 0
    <3>1. \/ trace_fifo' = trace_fifo \/ trace_fifo' = <<>>
          \/ trace_fifo # <<>> /\ trace_fifo' = Tail(trace_fifo)
      BY <1>6, TracesMove
    <3>2. QED BY <1>1, <3>1 DEF HartZeroOnly
  <2>3. \A k \in DOMAIN dut_probe_fifo' :
          dut_probe_fifo'[k].tid = 0 /\ dut_probe_fifo'[k].source # "REGULAR"
    <3>1. \/ dut_probe_fifo' = dut_probe_fifo \/ dut_probe_fifo' = <<>>
          \/ dut_probe_fifo # <<>> /\ dut_probe_fifo' = Tail(dut_probe_fifo)
      BY <1>6, HintsMove
    <3>2. QED BY <1>1, <3>1 DEF HartZeroOnly
  <2>4. QED BY <2>1, <2>2, <2>3 DEF HartZeroOnly
<1>7. QED BY <1>2, <1>3, <1>4, <1>5, <1>6 DEF PNext, Monitoring

\* The inductive form of TagsIncrease.
TagsOrdered ==
  /\ wb_seq < wb_seq_counter
  /\ InOrder(async_wb_q[0], dut_probe_fifo, wb_seq_counter)
  /\ TagsBelow(trace_fifo, wb_seq_counter)
  /\ TagsBelow(pending_trace_q[0], wb_seq_counter)

LEMMA BelowKept ==
  ASSUME NEW S, NEW q \in Seq(S), NEW n, TagsBelow(q, n)
  PROVE  /\ TagsBelow(<<>>, n)
         /\ q # <<>> => TagsBelow(Tail(q), n)
         /\ \A p \in Seq(S) :
              p # <<>> /\ TagsBelow(p, n) => TagsBelow(Append(q, Head(p)), n)
BY DEF TagsBelow

LEMMA TagsStep ==
  PInv /\ HartZeroOnly /\ TagsOrdered /\ [PNext]_pvars => TagsOrdered'
<1> SUFFICES ASSUME PInv, HartZeroOnly, TagsOrdered, [PNext]_pvars
             PROVE  TagsOrdered'
  OBVIOUS
<1> DEFINE n == wb_seq_counter
           a == async_wb_q[0]
           f == dut_probe_fifo
<1>1. /\ trace_fifo \in Seq(TraceItem) /\ f \in Seq(Hint)
      /\ a \in Seq(Hint) /\ pending_trace_q[0] \in Seq(TraceItem)
      /\ n \in Nat /\ wb_seq \in Nat
  BY HartZero, PipelineConstantsOK DEF PInv, TypeOK, PTypeOK, PipelineConstantsOK
<1>2. CASE Edge \/ UNCHANGED pvars
  BY <1>2 DEF Edge, clock_edge, pvars, vars, fifos, queues, tagging, TagsOrdered
<1>3. CASE monitor_trace
  <2>1. trace_fifo' = HandedOver(pins.retired)
    BY <1>3, MonitorTrace
  <2>2. pins.retired \in Seq(Commits)
    BY DEF PInv, PTypeOK
  <2>3. \A k \in DOMAIN trace_fifo' : trace_fifo'[k].wb_tag = wb_seq
    BY <2>1, <2>2, TraceTxnIs DEF HandedOver
  <2>4. UNCHANGED <<queues, f, wb_seq_counter, wb_seq>>
    BY <1>3 DEF monitor_trace, Wakes, tagging
  <2>5. QED BY <2>3, <2>4 DEF queues, TagsOrdered, TagsBelow
<1>4. CASE monitor_division \/ monitor_nb_load
  <2>1. UNCHANGED <<trace_fifo, pending_trace_q, a>>
    BY <1>4 DEF monitor_division, monitor_nb_load, Wakes, queues
  <2>2. CASE UNCHANGED <<f, tagging>>
    BY <2>1, <2>2 DEF tagging, TagsOrdered
  <2>3. ASSUME NEW source \in {"DIV", "NB_LOAD"}, NEW rd \in Regs,
               NEW suppress \in BOOLEAN, Publish(source, rd, suppress)
        PROVE  TagsOrdered'
    <3> DEFINE h == NextHint(source, rd, suppress)
    <3>1. h \in Hint /\ h.wb_tag = n
      BY <2>3, PublishIs DEF NextHint
    <3>2. f' = Append(f, h) /\ n' = n + 1 /\ wb_seq' <= n
      BY <2>3, PublishIs
    <3> HIDE DEF h
    <3>3. InOrder(a, f', n')
      BY <1>1, <3>1, <3>2, PublishInOrder DEF TagsOrdered
    <3>4. TagsBelow(trace_fifo, n') /\ TagsBelow(pending_trace_q[0], n')
      <4>1. ASSUME NEW q \in Seq(TraceItem), TagsBelow(q, n)
            PROVE  TagsBelow(q, n')
        <5>1. \A k \in DOMAIN q : q[k] \in TraceItem
          OBVIOUS
        <5>2. \A k \in DOMAIN q : q[k].wb_tag \in Nat
          BY <5>1 DEF TraceItem
        <5>3. QED BY <1>1, <3>2, <4>1, <5>2 DEF TagsBelow
      <4>2. QED BY <1>1, <4>1 DEF TagsOrdered
    <3>5. wb_seq' < n'
      <4>1. wb_seq' \in 0 .. TagModulus - 1
        BY <2>3, PublishIs
      <4>2. QED BY <1>1, <3>2, <4>1, PipelineConstantsOK DEF PipelineConstantsOK
    <3>6. QED BY <2>1, <3>3, <3>4, <3>5 DEF TagsOrdered
  <2>4. QED BY <1>4, <2>2, <2>3, ProbeMonitor
<1>5. CASE monitor_writes \/ monitor_reads
  BY <1>5 DEF monitor_writes, monitor_reads, Wakes, queues, tagging, TagsOrdered
<1>6. CASE Scoreboard \/ Reset
  <2>1. wb_seq' = wb_seq /\ n' = n
    BY <1>6 DEF Scoreboard, Reset, tagging
  <2>2. InOrder(a', f', n)
    <3>1. InOrder(a, f, n)
      BY DEF TagsOrdered
    <3>2. \/ a' = a /\ f' = f
          \/ f # <<>> /\ f' = Tail(f) /\ a' = Append(a, Head(f))
          \/ f' = f /\ \E k \in 1 .. Len(a) : a' = RemoveAt(a, k)
          \/ a' = <<>> /\ f' \in {f, <<>>}
      BY <1>6, HintsMove
    <3> HIDE DEF a, f, n
    <3>3. QED BY <1>1, <3>1, <3>2, MoveInOrder, RemoveInOrder, EmptyInOrder
  <2>3. TagsBelow(trace_fifo', n) /\ TagsBelow(pending_trace_q'[0], n)
    <3>1. TagsBelow(trace_fifo, n) /\ TagsBelow(pending_trace_q[0], n)
      BY DEF TagsOrdered
    <3>2. TagsBelow(trace_fifo', n)
      BY <1>1, <1>6, <3>1, TracesMove, BelowKept
    <3>3. /\ trace_fifo # <<>> =>
               TagsBelow(Append(pending_trace_q[0], Head(trace_fifo)), n)
          /\ pending_trace_q[0] # <<>> => TagsBelow(Tail(pending_trace_q[0]), n)
          /\ TagsBelow(<<>>, n)
      BY <1>1, <3>1, BelowKept
    <3>4. TagsBelow(pending_trace_q'[0], n)
      BY <1>6, <3>1, <3>3, TracesMove
    <3>5. QED BY <3>2, <3>4
  <2>4. QED BY <2>1, <2>2, <2>3 DEF TagsOrdered
<1>7. QED BY <1>2, <1>3, <1>4, <1>5, <1>6 DEF PNext, Monitoring

\* What the properties below rest on.
PipelineInv == PInv /\ HartZeroOnly /\ TagsOrdered

LEMMA PipelineInvariant == PSpec => []PipelineInv
<1>1. PInit => PipelineInv
  <2> SUFFICES ASSUME PInit PROVE PipelineInv
    OBVIOUS
  <2>1. PInv
    BY InitPInv
  <2>2. HartZeroOnly
    BY DEF PInit, Init, EmptyQueues, HartZeroOnly
  <2>3. TagsOrdered
    BY HartZero DEF PInit, Init, EmptyQueues, TagsOrdered, InOrder, TagsBelow,
       Increasing
  <2>4. QED BY <2>1, <2>2, <2>3 DEF PipelineInv
<1>2. PipelineInv /\ [PNext]_pvars => PipelineInv'
  BY PStepType, HartZeroStep, TagsStep DEF PipelineInv
<1>3. QED BY <1>1, <1>2, PTL DEF PSpec

\* No two hints carry one tag and they are queued in the order of their tags,
\* whichever process of the probe monitor runs first and whatever is reset; no
\* instruction carries a tag not handed out yet.
THEOREM TagsIncreaseHolds == PSpec => []TagsIncrease
<1>1. PipelineInv => TagsIncrease
  <2> SUFFICES ASSUME PipelineInv PROVE TagsIncrease
    OBVIOUS
  <2>1. /\ async_wb_q[0] \in Seq(Hint) /\ dut_probe_fifo \in Seq(Hint)
        /\ wb_seq_counter \in Nat
        /\ InOrder(async_wb_q[0], dut_probe_fifo, wb_seq_counter)
    BY HartZero DEF PipelineInv, PInv, TypeOK, PTypeOK, TagsOrdered
  <2>2. Increasing(Hints) /\ TagsBelow(Hints, wb_seq_counter)
    BY <2>1, InOrderConcat DEF Hints
  <2>3. QED BY <2>2 DEF TagsIncrease, Increasing, TagsBelow, PipelineInv, TagsOrdered
<1>2. QED BY <1>1, PipelineInvariant, PTL

-----------------------------------------------------------------------------
(* Hints to come.                                                          *)

Members(q) == {q[k] : k \in DOMAIN q}

LEMMA ConcatMembers ==
  ASSUME NEW S, NEW a \in Seq(S), NEW b \in Seq(S)
  PROVE  Members(a \o b) = Members(a) \cup Members(b)
<1>1. /\ a \o b \in Seq(S) /\ Len(a \o b) = Len(a) + Len(b)
      /\ \A k \in 1 .. Len(a) + Len(b) :
           (a \o b)[k] = IF k <= Len(a) THEN a[k] ELSE b[k - Len(a)]
  BY ConcatProperties
<1>2. /\ \A k \in DOMAIN a : k \in DOMAIN (a \o b) /\ (a \o b)[k] = a[k]
      /\ \A k \in DOMAIN b : /\ k + Len(a) \in DOMAIN (a \o b)
                            /\ (a \o b)[k + Len(a)] = b[k]
  BY <1>1
<1>3. \A k \in DOMAIN (a \o b) :
        \/ k \in DOMAIN a /\ (a \o b)[k] = a[k]
        \/ k - Len(a) \in DOMAIN b /\ (a \o b)[k] = b[k - Len(a)]
  BY <1>1
<1>4. \A k \in DOMAIN (a \o b) : (a \o b)[k] \in Members(a) \cup Members(b)
  BY <1>3 DEF Members
<1>5. /\ \A k \in DOMAIN a : a[k] \in Members(a \o b)
      /\ \A k \in DOMAIN b : b[k] \in Members(a \o b)
  <2>1. \A k \in DOMAIN (a \o b) : (a \o b)[k] \in Members(a \o b)
    BY DEF Members
  <2>2. QED BY <1>2, <2>1
<1>6. Members(a \o b) \subseteq Members(a) \cup Members(b)
  BY <1>4 DEF Members
<1>7. Members(a) \subseteq Members(a \o b) /\ Members(b) \subseteq Members(a \o b)
  BY <1>5 DEF Members
<1>8. QED BY <1>6, <1>7

\* Queues only take over what was there.
LEMMA QueueMembers ==
  ASSUME NEW S, NEW q \in Seq(S)
  PROVE  /\ Members(<<>>) = {}
         /\ q # <<>> => Members(Tail(q)) \subseteq Members(q) /\ Head(q) \in Members(q)
         /\ \A k \in 1 .. Len(q) : Members(RemoveAt(q, k)) \subseteq Members(q)
         /\ \A x \in S : Members(Append(q, x)) = Members(q) \cup {x}
<1>1. Members(<<>>) = {}
  BY DEF Members
<1>2. q # <<>> => Members(Tail(q)) \subseteq Members(q) /\ Head(q) \in Members(q)
  BY DEF Members
<1>3. ASSUME NEW k \in 1 .. Len(q)
      PROVE  Members(RemoveAt(q, k)) \subseteq Members(q)
  <2>1. /\ RemoveAt(q, k) \in Seq(S) /\ Len(RemoveAt(q, k)) = Len(q) - 1
        /\ \A j \in 1 .. Len(q) - 1 :
             RemoveAt(q, k)[j] = IF j < k THEN q[j] ELSE q[j + 1]
    BY RemoveAtProperties
  <2>2. \A j \in 1 .. Len(q) - 1 : q[j] \in Members(q) /\ q[j + 1] \in Members(q)
    <3>1. \A j \in 1 .. Len(q) - 1 : j \in DOMAIN q /\ j + 1 \in DOMAIN q
      OBVIOUS
    <3>2. QED BY <3>1 DEF Members
  <2>3. \A j \in DOMAIN RemoveAt(q, k) : RemoveAt(q, k)[j] \in Members(q)
    BY <2>1, <2>2
  <2>4. QED BY <2>3 DEF Members
<1>4. ASSUME NEW x \in S
      PROVE  Members(Append(q, x)) = Members(q) \cup {x}
  <2>1. /\ \A j \in DOMAIN q : j \in DOMAIN Append(q, x) /\ Append(q, x)[j] = q[j]
        /\ Len(q) + 1 \in DOMAIN Append(q, x) /\ Append(q, x)[Len(q) + 1] = x
        /\ \A j \in DOMAIN Append(q, x) : j \in DOMAIN q \/ j = Len(q) + 1
    OBVIOUS
  <2>2. QED BY <2>1 DEF Members
<1>5. QED BY <1>1, <1>2, <1>3, <1>4

\* A hint a step adds carries the next tag.
LEMMA NewHints ==
  ASSUME PipelineInv, [PNext]_pvars, NEW h \in Members(Hints')
  PROVE  h \in Members(Hints) \/ h.wb_tag = wb_seq_counter
<1> DEFINE a == async_wb_q[0]
           f == dut_probe_fifo
<1> USE DEF PipelineInv
<1>1. a \in Seq(Hint) /\ f \in Seq(Hint) /\ a' \in Seq(Hint) /\ f' \in Seq(Hint)
  BY PStepType, HartZero DEF PInv, TypeOK
<1>2. /\ Members(Hints) = Members(a) \cup Members(f)
      /\ Members(Hints') = Members(a') \cup Members(f')
  <2> HIDE DEF a, f
  <2>1. Members(a \o f) = Members(a) \cup Members(f)
    BY <1>1, ConcatMembers
  <2>2. Members(a' \o f') = Members(a') \cup Members(f')
    BY <1>1, ConcatMembers
  <2>3. QED BY <2>1, <2>2 DEF Hints, a, f
<1>3. CASE /\ ~(Scoreboard \/ Reset \/ monitor_division \/ monitor_nb_load)
  <2>1. a' = a /\ f' = f
    BY <1>3 DEF PNext, Edge, clock_edge, Monitoring, monitor_trace,
       monitor_writes, monitor_reads, Wakes, queues, pvars, vars, fifos
  <2>2. QED BY <1>2, <2>1
<1>4. CASE monitor_division \/ monitor_nb_load
  <2>1. a' = a
    BY <1>4 DEF monitor_division, monitor_nb_load, Wakes, queues
  <2>2. CASE f' = f
    BY <1>2, <2>1, <2>2
  <2>3. ASSUME NEW source \in {"DIV", "NB_LOAD"}, NEW rd \in Regs,
               NEW suppress \in BOOLEAN, Publish(source, rd, suppress)
        PROVE  h \in Members(Hints) \/ h.wb_tag = wb_seq_counter
    <3> DEFINE new == NextHint(source, rd, suppress)
    <3>1. new \in Hint /\ f' = Append(f, new) /\ new.wb_tag = wb_seq_counter
      BY <2>3, PublishIs DEF NextHint
    <3> HIDE DEF a, f, new
    <3>2. Members(f') = Members(f) \cup {new}
      BY <1>1, <3>1, QueueMembers
    <3>3. QED BY <1>2, <2>1, <3>1, <3>2
  <2>4. QED BY <1>4, <2>2, <2>3, ProbeMonitor
<1>5. CASE Scoreboard \/ Reset
  <2>1. \/ a' = a /\ f' = f
        \/ f # <<>> /\ f' = Tail(f) /\ a' = Append(a, Head(f))
        \/ f' = f /\ \E k \in 1 .. Len(a) : a' = RemoveAt(a, k)
        \/ a' = <<>> /\ f' \in {f, <<>>}
    BY <1>5, HintsMove
  <2> HIDE DEF a, f
  <2>2. Members(a') \cup Members(f') \subseteq Members(a) \cup Members(f)
    <3>1. CASE f # <<>> /\ f' = Tail(f) /\ a' = Append(a, Head(f))
      <4>1. Head(f) \in Hint
        BY <1>1, <3>1
      <4>2. QED BY <1>1, <3>1, <4>1, QueueMembers
    <3>2. CASE f' = f /\ \E k \in 1 .. Len(a) : a' = RemoveAt(a, k)
      BY <1>1, <3>2, QueueMembers
    <3>3. CASE a' = <<>> /\ f' \in {f, <<>>}
      BY <1>1, <3>3, QueueMembers
    <3>4. QED BY <2>1, <3>1, <3>2, <3>3
  <2>3. QED BY <1>2, <2>2
<1>6. QED BY <1>3, <1>4, <1>5

\* A DIV or load no published hint fits when it is handed over is fitted by none
\* to come.
THEOREM UnmatchedStaysUnmatchedHolds == PSpec => UnmatchedStaysUnmatched
<1> DEFINE A ==
      \A i \in Range(pending_trace_q[0] \o trace_fifo) :
        needs_async_wb(i) /\ Unmatched(i, Hints) => Unmatched(i, Hints')
<1>1. PipelineInv /\ [PNext]_pvars => A
  <2> SUFFICES ASSUME PipelineInv, [PNext]_pvars,
                      NEW i \in Range(pending_trace_q[0] \o trace_fifo),
                      Unmatched(i, Hints),
                      NEW m \in DOMAIN Hints', MatchesHint(i, Hints'[m])
               PROVE  FALSE
    BY DEF Unmatched, MatchesHint, RightSource, is_div, is_load_instruction,
       writes_rd
  <2>1. pending_trace_q[0] \in Seq(TraceItem) /\ trace_fifo \in Seq(TraceItem)
          /\ wb_seq_counter \in Nat
    BY HartZero DEF PipelineInv, PInv, TypeOK, PTypeOK
  <2>2. i \in TraceItem /\ i.wb_tag < wb_seq_counter
    <3>1. i \in Members(pending_trace_q[0] \o trace_fifo)
      BY DEF Range, Members
    <3>2. i \in Members(pending_trace_q[0]) \cup Members(trace_fifo)
      BY <2>1, <3>1, ConcatMembers
    <3>3. QED BY <2>1, <3>2 DEF Members, PipelineInv, TagsOrdered, TagsBelow
  <2>3. Hints'[m] \in Members(Hints')
    BY DEF Members
  <2>4. Hints'[m].wb_tag = i.wb_tag
    BY DEF MatchesHint
  <2>5. Hints'[m] \in Members(Hints)
    <3>1. i.wb_tag \in Nat
      BY <2>2 DEF TraceItem
    <3>2. Hints'[m].wb_tag # wb_seq_counter
      BY <2>1, <2>2, <2>4, <3>1
    <3>3. QED BY <2>3, <3>2, NewHints
  <2>6. QED BY <2>5 DEF Members, Unmatched
<1>2. PipelineInv /\ [PNext]_pvars => [A]_pvars
  BY <1>1
<1>3. QED BY <1>2, PipelineInvariant, PTL DEF PSpec, UnmatchedStaysUnmatched

-----------------------------------------------------------------------------
(* Counting the elements of a queue that belong to a set.                  *)

Where(q, A) == {k \in DOMAIN q : q[k] \in A}
CountIn(q, A) == Cardinality(Where(q, A))

LEMMA CountFinite ==
  ASSUME NEW S, NEW A, NEW q \in Seq(S)
  PROVE  IsFiniteSet(Where(q, A)) /\ CountIn(q, A) \in Nat
<1>1. Where(q, A) \subseteq 1 .. Len(q)
  BY DEF Where
<1>2. IsFiniteSet(Where(q, A))
  BY <1>1, FS_Interval, FS_Subset
<1>3. QED BY <1>2, FS_CardinalityType DEF CountIn

LEMMA CountNone == ASSUME NEW A PROVE CountIn(<<>>, A) = 0
<1>1. Where(<<>>, A) = {}
  BY DEF Where
<1>2. QED BY <1>1, FS_EmptySet DEF CountIn

LEMMA CountAppend ==
  ASSUME NEW S, NEW A, NEW q \in Seq(S), NEW x \in S
  PROVE  CountIn(Append(q, x), A) = CountIn(q, A) + (IF x \in A THEN 1 ELSE 0)
<1> DEFINE n == Len(q) + 1
           r == Append(q, x)
<1>1. /\ DOMAIN r = DOMAIN q \cup {n} /\ r[n] = x /\ n \notin DOMAIN q
      /\ \A k \in DOMAIN q : r[k] = q[k]
  OBVIOUS
<1> HIDE DEF n, r
<1>2. Where(r, A) = IF x \in A THEN Where(q, A) \cup {n} ELSE Where(q, A)
  BY <1>1 DEF Where
<1>3. n \notin Where(q, A)
  BY <1>1 DEF Where
<1>4. IsFiniteSet(Where(q, A)) /\ CountIn(q, A) \in Nat
  BY CountFinite
<1>5. Cardinality(Where(q, A) \cup {n}) = CountIn(q, A) + 1
  BY <1>3, <1>4, FS_AddElement DEF CountIn
<1>6. QED BY <1>2, <1>4, <1>5 DEF CountIn, r

\* r is q without its element i.
LEMMA CountWithout ==
  ASSUME NEW S, NEW A, NEW q \in Seq(S), NEW r \in Seq(S), NEW i \in 1 .. Len(q),
         Len(r) = Len(q) - 1,
         \A j \in 1 .. Len(q) - 1 : r[j] = IF j < i THEN q[j] ELSE q[j + 1]
  PROVE  CountIn(q, A) = CountIn(r, A) + (IF q[i] \in A THEN 1 ELSE 0)
<1> DEFINE T == Where(q, A) \ {i}
           R == Where(r, A)
           f == [j \in R |-> IF j < i THEN j ELSE j + 1]
<1>1. f \in Injection(R, T)
  <2>1. \A j \in R : (IF j < i THEN j ELSE j + 1) \in T
    BY DEF Where
  <2>2. f \in [R -> T]
    BY <2>1
  <2>3. \A j \in R : j \in Nat
    BY DEF Where
  <2>4. \A j, k \in R : f[j] = f[k] => j = k
    BY <2>3
  <2>5. QED BY <2>2, <2>4 DEF Injection, IsInjective
<1>2. f \in Surjection(R, T)
  <2>1. ASSUME NEW k \in T
        PROVE  \E j \in R : f[j] = k
    <3>1. k \in 1 .. Len(q) /\ k # i /\ q[k] \in A
      BY DEF Where
    <3>2. CASE k < i
      <4>1. k \in 1 .. Len(q) - 1 /\ r[k] = q[k]
        BY <3>1, <3>2
      <4>2. k \in R
        BY <3>1, <4>1 DEF Where
      <4>3. QED BY <3>2, <4>2
    <3>3. CASE ~(k < i)
      <4>1. k - 1 \in 1 .. Len(q) - 1 /\ r[k - 1] = q[k] /\ ~(k - 1 < i)
        BY <3>1, <3>3
      <4>2. k - 1 \in R
        BY <3>1, <4>1 DEF Where
      <4>3. f[k - 1] = k
        BY <3>1, <4>1, <4>2
      <4>4. QED BY <4>2, <4>3
    <3>4. QED BY <3>2, <3>3
  <2>2. f \in [R -> T]
    BY <1>1 DEF Injection
  <2>3. QED BY <2>1, <2>2 DEF Surjection
<1>3. IsFiniteSet(R) /\ IsFiniteSet(Where(q, A)) /\ CountIn(q, A) \in Nat
  BY CountFinite
<1>4. Cardinality(T) = CountIn(r, A)
  <2> HIDE DEF R, T, f
  <2>1. ExistsBijection(R, T)
    BY <1>1, <1>2 DEF ExistsBijection, Bijection
  <2>2. Cardinality(T) = Cardinality(R)
    BY <1>3, <2>1, FS_Bijection
  <2>3. QED BY <2>2 DEF R, CountIn
<1>5. Cardinality(T) = IF i \in Where(q, A) THEN CountIn(q, A) - 1 ELSE CountIn(q, A)
  BY <1>3, FS_RemoveElement DEF CountIn
<1>6. i \in Where(q, A) <=> q[i] \in A
  BY DEF Where
<1> HIDE DEF T
<1>7. QED BY <1>3, <1>4, <1>5, <1>6

LEMMA CountRemoveAt ==
  ASSUME NEW S, NEW A, NEW q \in Seq(S), NEW i \in 1 .. Len(q)
  PROVE  CountIn(q, A) = CountIn(RemoveAt(q, i), A) + (IF q[i] \in A THEN 1 ELSE 0)
<1>1. /\ RemoveAt(q, i) \in Seq(S) /\ Len(RemoveAt(q, i)) = Len(q) - 1
      /\ \A j \in 1 .. Len(q) - 1 :
           RemoveAt(q, i)[j] = IF j < i THEN q[j] ELSE q[j + 1]
  BY RemoveAtProperties
<1>2. QED BY <1>1, CountWithout

LEMMA CountTail ==
  ASSUME NEW S, NEW A, NEW q \in Seq(S), q # <<>>
  PROVE  CountIn(q, A) = CountIn(Tail(q), A) + (IF Head(q) \in A THEN 1 ELSE 0)
<1>1. /\ Tail(q) \in Seq(S) /\ Len(Tail(q)) = Len(q) - 1 /\ 1 \in 1 .. Len(q)
      /\ \A j \in 1 .. Len(q) - 1 :
           Tail(q)[j] = IF j < 1 THEN q[j] ELSE q[j + 1]
      /\ Head(q) = q[1]
  OBVIOUS
<1>2. CountIn(q, A) = CountIn(Tail(q), A) + (IF q[1] \in A THEN 1 ELSE 0)
  BY <1>1, CountWithout
<1>3. QED BY <1>1, <1>2

-----------------------------------------------------------------------------
(* Stores and their bus writes.                                            *)

Stores == {i \in TraceItem : i.kind = "store"}
Writes == {a \in Access : a.is_store}

\* Nothing else than the core retires is queued.
KindsOK ==
  \A i \in Members(trace_fifo) \cup Members(pending_trace_q[0]) :
    i.kind \in {"alu", "store", "load", "div"}

\* The stores retired and not yet compared, wherever they are.
Uncompared == (IF "trace" \in procs THEN StoresIn(pins.retired) ELSE 0)
                + CountIn(trace_fifo, Stores)
                + CountIn(pending_trace_q[0], Stores)

\* The writes seen on the bus and not yet taken, wherever they are.
Untaken == (IF "write" \in procs THEN 1 ELSE 0)
             + CountIn(lsu_axi_fifo, Writes)
             + CountIn(pending_mem_access_q, Writes)

\* Each store not yet compared has its write, is in the store buffer, or was
\* merged; under reset the core has none.
StoresKept == /\ phase = "run" => Uncompared = storebuf + merged + Untaken
              /\ phase = "reset" => storebuf = 0 /\ merged = 0

LEMMA CountsNat ==
  ASSUME PInv
  PROVE  /\ CountIn(trace_fifo, Stores) \in Nat
         /\ CountIn(pending_trace_q[0], Stores) \in Nat
         /\ CountIn(lsu_axi_fifo, Writes) \in Nat
         /\ CountIn(pending_mem_access_q, Writes) \in Nat
         /\ StoresIn(pins.retired) \in Nat
         /\ storebuf \in Nat /\ merged \in Nat
         /\ Uncompared \in Nat /\ Untaken \in Nat
<1>1. /\ trace_fifo \in Seq(TraceItem) /\ pending_trace_q[0] \in Seq(TraceItem)
      /\ lsu_axi_fifo \in Seq(Access) /\ pending_mem_access_q \in Seq(Access)
      /\ pins.retired \in Seq(Commits) /\ storebuf \in Nat /\ merged \in Nat
  BY HartZero DEF PInv, TypeOK, PTypeOK
<1>2. /\ CountIn(trace_fifo, Stores) \in Nat
      /\ CountIn(pending_trace_q[0], Stores) \in Nat
      /\ CountIn(lsu_axi_fifo, Writes) \in Nat
      /\ CountIn(pending_mem_access_q, Writes) \in Nat
      /\ StoresIn(pins.retired) \in Nat
  BY <1>1, CountFinite, StoresInFinite
<1>3. QED BY <1>1, <1>2 DEF Uncompared, Untaken

LEMMA CountsNatAfter ==
  ASSUME PInv'
  PROVE  /\ CountIn(trace_fifo', Stores) \in Nat
         /\ CountIn(pending_trace_q'[0], Stores) \in Nat
         /\ CountIn(lsu_axi_fifo', Writes) \in Nat
         /\ CountIn(pending_mem_access_q', Writes) \in Nat
         /\ StoresIn(pins'.retired) \in Nat
         /\ Uncompared' \in Nat /\ Untaken' \in Nat
<1>1. /\ trace_fifo' \in Seq(TraceItem) /\ pending_trace_q'[0] \in Seq(TraceItem)
      /\ lsu_axi_fifo' \in Seq(Access) /\ pending_mem_access_q' \in Seq(Access)
      /\ pins'.retired \in Seq(Commits)
  BY HartZero DEF PInv, TypeOK, PTypeOK
<1>2. /\ CountIn(trace_fifo', Stores) \in Nat
      /\ CountIn(pending_trace_q'[0], Stores) \in Nat
      /\ CountIn(lsu_axi_fifo', Writes) \in Nat
      /\ CountIn(pending_mem_access_q', Writes) \in Nat
      /\ StoresIn(pins'.retired) \in Nat
  BY <1>1, CountFinite, StoresInFinite
<1>3. QED BY <1>1, <1>2 DEF Uncompared, Untaken

\* Handing over keeps the stores.
LEMMA HandedOverStores ==
  ASSUME PInv, NEW retired \in Seq(Commits)
  PROVE  /\ HandedOver(retired) \in Seq(TraceItem)
         /\ CountIn(HandedOver(retired), Stores) = StoresIn(retired)
         /\ \A i \in Members(HandedOver(retired)) :
              i.kind \in {"alu", "store", "load", "div"}
<1>1. /\ DOMAIN HandedOver(retired) = DOMAIN retired
      /\ \A k \in DOMAIN retired :
           /\ HandedOver(retired)[k] \in TraceItem
           /\ HandedOver(retired)[k].kind = retired[k].kind
           /\ retired[k] \in Commits
  BY TraceTxnIs DEF HandedOver
<1>2. HandedOver(retired) \in Seq(TraceItem)
  BY TraceTxnIs DEF HandedOver
<1>3. Where(HandedOver(retired), Stores)
        = {k \in DOMAIN retired : retired[k].kind = "store"}
  BY <1>1 DEF Where, Stores
<1>4. \A c \in Commits : c.kind \in {"alu", "store", "load", "div"}
  BY PipelineConstantsOK DEF PipelineConstantsOK, Commit
<1>5. \A i \in Members(HandedOver(retired)) :
        i.kind \in {"alu", "store", "load", "div"}
  BY <1>1, <1>4 DEF Members
<1>6. QED BY <1>2, <1>3, <1>5 DEF CountIn, StoresIn

LEMMA KindsStep ==
  PInv /\ HartZeroOnly /\ KindsOK /\ [PNext]_pvars => KindsOK'
<1> SUFFICES ASSUME PInv, HartZeroOnly, KindsOK, [PNext]_pvars PROVE KindsOK'
  OBVIOUS
<1> DEFINE g == trace_fifo
           q == pending_trace_q[0]
<1>1. g \in Seq(TraceItem) /\ q \in Seq(TraceItem)
  BY HartZero DEF PInv, TypeOK
<1>2. CASE monitor_trace
  <2>1. g' = HandedOver(pins.retired) /\ q' = q
    BY <1>2, MonitorTrace DEF monitor_trace, Wakes, queues
  <2>2. pins.retired \in Seq(Commits)
    BY DEF PInv, PTypeOK
  <2>3. QED BY <2>1, <2>2, HandedOverStores DEF KindsOK
<1>3. CASE Scoreboard \/ Reset
  <2>1. \/ q' = q /\ g' = g
        \/ g # <<>> /\ g' = Tail(g) /\ q' = Append(q, Head(g))
        \/ q # <<>> /\ g' = g /\ q' = Tail(q)
        \/ q' = <<>> /\ g' \in {g, <<>>}
    BY <1>3, TracesMove
  <2> HIDE DEF g, q
  <2>2. Members(g') \cup Members(q') \subseteq Members(g) \cup Members(q)
    <3>1. CASE g # <<>> /\ g' = Tail(g) /\ q' = Append(q, Head(g))
      <4>1. Head(g) \in TraceItem
        BY <1>1, <3>1
      <4>2. QED BY <1>1, <3>1, <4>1, QueueMembers
    <3>2. CASE q # <<>> /\ g' = g /\ q' = Tail(q)
      BY <1>1, <3>2, QueueMembers
    <3>3. CASE q' = <<>> /\ g' \in {g, <<>>}
      BY <1>1, <3>3, QueueMembers
    <3>4. QED BY <2>1, <3>1, <3>2, <3>3
  <2>3. QED BY <2>2 DEF KindsOK, g, q
<1>4. CASE ~(monitor_trace \/ Scoreboard \/ Reset)
  <2>1. UNCHANGED <<trace_fifo, pending_trace_q>>
    BY <1>4 DEF PNext, Edge, clock_edge, Monitoring, monitor_division,
       monitor_nb_load, monitor_writes, monitor_reads, Wakes, queues, pvars,
       vars, fifos
  <2>2. QED BY <2>1 DEF KindsOK
<1>5. QED BY <1>2, <1>3, <1>4

\* The account of the scoreboard is kept in the pipeline.
LEMMA PAccountStep ==
  PInv /\ StoreAccounting /\ [PNext]_pvars => StoreAccounting'
<1> SUFFICES ASSUME PInv, StoreAccounting, [PNext]_pvars PROVE StoreAccounting'
  OBVIOUS
<1>1. CASE Scoreboard \/ Reset
  BY <1>1, ScoreboardIsNext, StoreAccountingStep DEF PInv
<1>2. CASE Edge \/ Monitoring \/ UNCHANGED pvars
  <2>1. UNCHANGED <<pending_mem_access_q, store_axi_delivered, store_trace_stepped>>
    BY <1>2, MonitorsKeep DEF Edge, clock_edge, pvars, vars, queues, stores
  <2>2. QED BY <2>1, AccountIs
<1>3. QED BY <1>1, <1>2 DEF PNext

\* A comparison takes as many stores as writes.
LEMMA ComparisonKeeps ==
  ASSUME PInv, HartZeroOnly, KindsOK, StoreAccounting, NEW t \in Threads,
         Ready(t), PopHead(t)
  PROVE  CountIn(pending_trace_q'[0], Stores) + CountIn(pending_mem_access_q, Writes)
           = CountIn(pending_trace_q[0], Stores) + CountIn(pending_mem_access_q', Writes)
<1> DEFINE q == pending_trace_q[0]
           m == pending_mem_access_q
           i == Head(q)
<1>1. t = 0 /\ q # <<>> /\ TypeOK
  BY ComparesHartZero DEF PInv
<1>2. q \in Seq(TraceItem) /\ m \in Seq(Access) /\ m' \in Seq(Access)
  BY <1>1, PopType DEF TypeOK
<1>3. q' = Tail(q)
  BY <1>1 DEF PopHead, TypeOK
<1>4. i \in TraceItem /\ i \in Members(q)
  BY <1>1, <1>2, QueueMembers
<1>5. i \in Stores <=> is_store_or_amo_instruction(i)
  BY <1>4 DEF KindsOK, Stores, is_store_or_amo_instruction
<1>6. CountIn(q, Stores) = CountIn(q', Stores) + (IF i \in Stores THEN 1 ELSE 0)
  <2> HIDE DEF q
  <2>1. QED BY <1>1, <1>2, <1>3, CountTail
<1>7. CountIn(m, Writes) = CountIn(m', Writes) + (IF i \in Stores THEN 1 ELSE 0)
  <2>1. CASE TakesAccess(i)
    <3>1. PICK k \in 1 .. Len(m) :
            m[k].is_store = is_store_or_amo_instruction(i) /\ m' = RemoveAt(m, k)
      BY <1>1, <2>1, TakenAccess
    <3>2. CountIn(m, Writes) = CountIn(RemoveAt(m, k), Writes)
            + (IF m[k] \in Writes THEN 1 ELSE 0)
      BY <1>2, CountRemoveAt
    <3>3. m[k] \in Writes <=> i \in Stores
      <4>1. m[k] \in Access
        BY <1>2
      <4>2. QED BY <1>5, <3>1, <4>1 DEF Writes
    <3>4. QED BY <3>1, <3>2, <3>3
  <2>2. CASE ~TakesAccess(i)
    <3>1. i \notin Stores
      BY <1>1, <1>5, <2>2, StoreTakesAccess
    <3>2. m' = m
      BY <1>1, <2>2 DEF PopHead
    <3>3. CountIn(m, Writes) \in Nat
      BY <1>2, CountFinite
    <3>4. QED BY <3>1, <3>2, <3>3
  <2>3. QED BY <2>1, <2>2
<1>8. /\ CountIn(q, Stores) \in Nat /\ CountIn(q', Stores) \in Nat
      /\ CountIn(m, Writes) \in Nat /\ CountIn(m', Writes) \in Nat
  <2>1. q' \in Seq(TraceItem)
    BY <1>1, <1>2, <1>3
  <2> HIDE DEF q, m
  <2>2. QED BY <1>2, <2>1, CountFinite
<1>9. QED BY <1>6, <1>7, <1>8

\* A step that moves as much on either side keeps the account.
LEMMA Balanced ==
  ASSUME PInv, StoresKept, PInv', UNCHANGED <<storebuf, merged>>,
         phase' = phase \/ phase' \in {"fatal", "done"},
         Uncompared' + Untaken = Uncompared + Untaken'
  PROVE  StoresKept'
<1>1. /\ Uncompared \in Nat /\ Untaken \in Nat
      /\ Uncompared' \in Nat /\ Untaken' \in Nat
      /\ storebuf \in Nat /\ merged \in Nat
  BY CountsNat, CountsNatAfter
<1>2. CASE phase' = "run"
  <2>1. Uncompared = storebuf + merged + Untaken
    BY <1>2 DEF StoresKept
  <2>2. Uncompared' = storebuf + merged + Untaken'
    <3> DEFINE u == Uncompared'
               v == Untaken'
    <3>1. u \in Nat /\ v \in Nat /\ u + Untaken = Uncompared + v
      BY <1>1
    <3> HIDE DEF u, v
    <3>2. u = storebuf + merged + v
      BY <1>1, <2>1, <3>1
    <3>3. QED BY <3>2 DEF u, v
  <2>3. QED BY <1>2, <2>2 DEF StoresKept
<1>3. CASE phase' # "run"
  BY <1>3 DEF StoresKept
<1>4. QED BY <1>2, <1>3

\* The scoreboard takes as many stores as writes.
LEMMA ScoreboardKeeps ==
  ASSUME PInv, HartZeroOnly, KindsOK, StoreAccounting, StoresKept, Scoreboard
  PROVE  StoresKept'
<1> DEFINE g == CountIn(trace_fifo, Stores)
           q == CountIn(pending_trace_q[0], Stores)
           l == CountIn(lsu_axi_fifo, Writes)
           m == CountIn(pending_mem_access_q, Writes)
           x == IF "trace" \in procs THEN StoresIn(pins.retired) ELSE 0
           y == IF "write" \in procs THEN 1 ELSE 0
<1>1. /\ trace_fifo \in Seq(TraceItem) /\ pending_trace_q[0] \in Seq(TraceItem)
      /\ lsu_axi_fifo \in Seq(Access) /\ pending_mem_access_q \in Seq(Access)
      /\ pending_trace_q \in [Threads -> Seq(TraceItem)]
  BY HartZero DEF PInv, TypeOK
<1>2. PInv'
  BY PStepType DEF PNext
<1>3. UNCHANGED <<procs, pins, storebuf, merged>>
  BY DEF Scoreboard, core
<1>4. /\ g \in Nat /\ g' \in Nat /\ q \in Nat /\ q' \in Nat
      /\ l \in Nat /\ l' \in Nat /\ m \in Nat /\ m' \in Nat
      /\ x \in Nat /\ y \in Nat /\ x' = x /\ y' = y
  BY <1>2, <1>3, CountsNat, CountsNatAfter
<1>5. /\ Uncompared = x + g + q /\ Uncompared' = x' + g' + q'
      /\ Untaken = y + l + m /\ Untaken' = y' + l' + m'
  BY DEF Uncompared, Untaken
<1>6. ASSUME phase' = phase \/ phase' \in {"fatal", "done"},
             g' + q' + l + m = g + q + l' + m'
      PROVE  StoresKept'
  <2>1. Uncompared' + Untaken = Uncompared + Untaken'
    <3> DEFINE g1 == g'
               q1 == q'
               l1 == l'
               m1 == m'
    <3>1. /\ g1 \in Nat /\ q1 \in Nat /\ l1 \in Nat /\ m1 \in Nat
          /\ g1 + q1 + l + m = g + q + l1 + m1
      BY <1>4, <1>6
    <3> HIDE DEF g, q, l, m, x, y, g1, q1, l1, m1
    <3>2. (x + g1 + q1) + (y + l + m) = (x + g + q) + (y + l1 + m1)
      BY <1>4, <3>1
    <3>3. QED BY <1>4, <1>5, <3>2 DEF g1, q1, l1, m1
  <2>2. QED BY <1>2, <1>3, <1>6, <2>1, Balanced
<1>7. CASE run_cosim_trace
  <2>1. trace_fifo # <<>> /\ Head(trace_fifo) \in TraceItem /\ Head(trace_fifo).tid = 0
    BY <1>1, <1>7 DEF run_cosim_trace, HartZeroOnly
  <2>2. /\ trace_fifo' = Tail(trace_fifo)
        /\ pending_trace_q'[0] = Append(pending_trace_q[0], Head(trace_fifo))
        /\ UNCHANGED <<lsu_axi_fifo, pending_mem_access_q, phase>>
    BY <1>1, <1>7, <2>1, HartZero DEF run_cosim_trace, control
  <2>3. g = g' + (IF Head(trace_fifo) \in Stores THEN 1 ELSE 0)
    BY <1>1, <2>1, <2>2, CountTail
  <2>4. q' = q + (IF Head(trace_fifo) \in Stores THEN 1 ELSE 0)
    BY <1>1, <2>1, <2>2, CountAppend
  <2>5. l' = l /\ m' = m
    BY <2>2
  <2>6. g' + q' + l + m = g + q + l' + m'
    <3> HIDE DEF g, q, l, m
    <3>1. QED BY <1>4, <2>3, <2>4, <2>5
  <2>7. QED BY <1>6, <2>2, <2>6
<1>8. CASE run_cosim_dmem
  <2>1. lsu_axi_fifo # <<>> /\ Head(lsu_axi_fifo) \in Access
    BY <1>1, <1>8 DEF run_cosim_dmem
  <2>2. /\ lsu_axi_fifo' = Tail(lsu_axi_fifo)
        /\ pending_mem_access_q' = Append(pending_mem_access_q, Head(lsu_axi_fifo))
        /\ UNCHANGED <<trace_fifo, pending_trace_q, phase>>
    BY <1>8 DEF run_cosim_dmem, control
  <2>3. l = l' + (IF Head(lsu_axi_fifo) \in Writes THEN 1 ELSE 0)
    BY <1>1, <2>1, <2>2, CountTail
  <2>4. m' = m + (IF Head(lsu_axi_fifo) \in Writes THEN 1 ELSE 0)
    BY <1>1, <2>1, <2>2, CountAppend
  <2>5. g' = g /\ q' = q
    BY <2>2
  <2>6. g' + q' + l + m = g + q + l' + m'
    <3> HIDE DEF g, q, l, m
    <3>1. QED BY <1>4, <2>3, <2>4, <2>5
  <2>7. QED BY <1>6, <2>2, <2>6
<1>9. ASSUME NEW t \in Threads, compare_irq_only(t) \/ compare_instruction(t)
      PROVE  StoresKept'
  <2>1. /\ Ready(t) /\ PopHead(t) /\ UNCHANGED <<trace_fifo, lsu_axi_fifo>>
        /\ phase' \in {phase, "fatal"}
    BY <1>9 DEF compare_irq_only, compare_instruction, fifos, control
  <2>2. q' + m = q + m'
    BY <2>1, ComparisonKeeps
  <2>3. g' = g /\ l' = l
    BY <2>1
  <2>4. g' + q' + l + m = g + q + l' + m'
    <3> HIDE DEF g, q, l, m
    <3>1. QED BY <1>4, <2>2, <2>3
  <2>5. QED BY <1>6, <2>1, <2>4
<1>10. CASE Quiet /\ init_cosim
  <2>1. /\ trace_fifo' = <<>> /\ pending_trace_q'[0] = <<>>
        /\ lsu_axi_fifo' = <<>> /\ pending_mem_access_q' = <<>>
        /\ procs = {} /\ phase = "reset" /\ phase' = "run"
    BY <1>10, HartZero DEF init_cosim, Quiet, EmptyQueues, fifos
  <2>2. g' = 0 /\ q' = 0 /\ l' = 0 /\ m' = 0 /\ x' = 0 /\ y' = 0
    BY <1>3, <2>1, CountNone
  <2>3. storebuf' = 0 /\ merged' = 0
    BY <1>3, <2>1 DEF StoresKept
  <2>4. Uncompared' = 0 /\ Untaken' = 0
    <3> HIDE DEF g, q, l, m, x, y
    <3>1. QED BY <1>5, <2>2
  <2>5. QED BY <2>1, <2>3, <2>4 DEF StoresKept
<1>11. CASE run_cosim_probe_async \/ report_phase \/ \E t \in Threads : ProcessExit(t)
  <2>1. /\ UNCHANGED <<trace_fifo, pending_trace_q, lsu_axi_fifo, pending_mem_access_q>>
        /\ phase' \in {phase, "done"}
    BY <1>11 DEF run_cosim_probe_async, report_phase, ProcessExit, fifos,
       queues, control
  <2>2. g' = g /\ q' = q /\ l' = l /\ m' = m
    BY <2>1
  <2>3. g' + q' + l + m = g + q + l' + m'
    <3> HIDE DEF g, q, l, m
    <3>1. QED BY <1>4, <2>2
  <2>4. QED BY <1>6, <2>1, <2>3
<1>12. QED BY <1>7, <1>8, <1>9, <1>10, <1>11 DEF Scoreboard, Consumers, Drain

\* What an edge retires joins the stores to come, what it writes the writes to
\* come; a second store in one write is merged.
LEMMA EdgeKeeps ==
  ASSUME PInv, StoresKept, NEW retired \in Seq(Commits), clock_edge(retired)
  PROVE  StoresKept'
<1> DEFINE q == CountIn(pending_trace_q[0], Stores)
           m == CountIn(pending_mem_access_q, Writes)
           x == IF "trace" \in procs THEN StoresIn(pins.retired) ELSE 0
           y == IF "write" \in procs THEN 1 ELSE 0
           s == StoresIn(retired)
<1>1. /\ UNCHANGED <<trace_fifo, lsu_axi_fifo, pending_trace_q, pending_mem_access_q, phase>>
      /\ procs = {} /\ trace_fifo = <<>> /\ lsu_axi_fifo = <<>> /\ phase = "run"
  BY DEF clock_edge, vars, fifos, queues, control, Quiet
<1>2. PICK div_rd, nb_rd, n : CoreDrives(retired, div_rd, nb_rd, n)
  BY CoreStep
<1>3. /\ q \in Nat /\ m \in Nat /\ storebuf \in Nat /\ merged \in Nat /\ s \in Nat
      /\ CountIn(trace_fifo, Stores) = 0 /\ CountIn(lsu_axi_fifo, Writes) = 0
      /\ CountIn(trace_fifo', Stores) = 0 /\ CountIn(lsu_axi_fifo', Writes) = 0
  BY <1>1, CountsNat, StoresInFinite, CountNone
<1>4. n \in {0, 1, 2}
  BY <1>2 DEF CoreDrives
<1>5. /\ storebuf' = storebuf + s - n
      /\ merged' = merged + (IF n = 2 THEN 1 ELSE 0)
  <2>1. storebuf' = storebuf + s - n
    <3> HIDE DEF q, m, x, y
    <3>1. QED BY <1>2, <1>3, <1>4, SMTT(30) DEF CoreDrives
  <2>2. merged' = merged + (IF n = 2 THEN 1 ELSE 0)
    BY <1>2 DEF CoreDrives
  <2>3. QED BY <2>1, <2>2
<1>6. pins'.retired = retired /\ procs' = Awake(pins')
  BY <1>2 DEF CoreDrives
<1>7. pins'.write = (n > 0)
  BY <1>2, Zenon DEF CoreDrives
<1>8. /\ "write" \in procs' <=> n > 0
      /\ "trace" \in procs' <=> retired # <<>>
  BY <1>6, <1>7, AwakeIs
<1>9. q = storebuf + merged + m
  <2>1. Uncompared = 0 + 0 + q /\ Untaken = 0 + 0 + m
    BY <1>1, <1>3 DEF Uncompared, Untaken
  <2> HIDE DEF q, m
  <2>2. QED BY <1>1, <1>3, <2>1 DEF StoresKept
<1>10. q' = q /\ m' = m
  BY <1>1
<1>11. x' = s
  <2>1. CASE retired = <<>>
    <3>1. s = 0
      BY <2>1, FS_EmptySet DEF StoresIn
    <3>2. QED BY <1>8, <2>1, <3>1
  <2>2. CASE retired # <<>>
    BY <1>6, <1>8, <2>2
  <2>3. QED BY <2>1, <2>2
<1>12. y' = IF n > 0 THEN 1 ELSE 0
  BY <1>8
<1>13. Uncompared' = x' + 0 + q' /\ Untaken' = y' + 0 + m'
  BY <1>3 DEF Uncompared, Untaken
<1>14. Uncompared' = storebuf' + merged' + Untaken'
  <2> HIDE DEF x, y, q, m, s
  <2>1. Uncompared' = s + q /\ Untaken' = (IF n > 0 THEN 1 ELSE 0) + m
    BY <1>3, <1>10, <1>11, <1>12, <1>13
  <2>2. CASE n = 0
    BY <1>3, <1>5, <1>9, <2>1, <2>2
  <2>3. CASE n = 1
    BY <1>3, <1>5, <1>9, <2>1, <2>3
  <2>4. CASE n = 2
    BY <1>3, <1>5, <1>9, <2>1, <2>4
  <2>5. QED BY <1>4, <2>2, <2>3, <2>4
<1>15. QED BY <1>1, <1>14 DEF StoresKept

\* The monitors carry stores and writes on.
LEMMA MonitoringKeeps ==
  ASSUME PInv, StoresKept, Monitoring
  PROVE  StoresKept'
<1> DEFINE g == CountIn(trace_fifo, Stores)
           q == CountIn(pending_trace_q[0], Stores)
           l == CountIn(lsu_axi_fifo, Writes)
           m == CountIn(pending_mem_access_q, Writes)
           x == IF "trace" \in procs THEN StoresIn(pins.retired) ELSE 0
           y == IF "write" \in procs THEN 1 ELSE 0
<1>1. /\ UNCHANGED <<pending_trace_q, pending_mem_access_q, pins, storebuf, merged, phase>>
      /\ procs' \subseteq procs
  BY DEF Monitoring, monitor_trace, monitor_division, monitor_nb_load,
     monitor_writes, monitor_reads, Wakes, queues, core, control
<1>2. PInv'
  BY PStepType DEF PNext
<1>3. /\ g \in Nat /\ q \in Nat /\ l \in Nat /\ m \in Nat
      /\ x \in Nat /\ y \in Nat
      /\ g' \in Nat /\ l' \in Nat /\ x' \in Nat /\ y' \in Nat
  BY <1>1, <1>2, CountsNat, CountsNatAfter
<1>4. q' = q /\ m' = m
  BY <1>1
<1>5. /\ lsu_axi_fifo \in Seq(Access) /\ [is_store |-> TRUE] \in Writes
      /\ [is_store |-> FALSE] \in Access \ Writes
  BY DEF PInv, TypeOK, Access, Writes
<1>6. x' + g' = x + g /\ y' + l' = y + l
  <2>1. CASE monitor_trace
    <3>1. /\ trace_fifo' = HandedOver(pins.retired) /\ trace_fifo = <<>>
          /\ "trace" \in procs /\ procs' = procs \ {"trace"}
          /\ UNCHANGED <<lsu_axi_fifo, pins>>
      BY <1>1, <2>1, MonitorTrace DEF monitor_trace, Wakes, PInv, PinsOK
    <3>2. pins.retired \in Seq(Commits)
      BY DEF PInv, PTypeOK
    <3>3. g = 0 /\ g' = StoresIn(pins.retired)
      BY <3>1, <3>2, CountNone, HandedOverStores
    <3>4. x = StoresIn(pins.retired) /\ x' = 0 /\ y' = y /\ l' = l
      BY <3>1
    <3> HIDE DEF x, y, g, l
    <3>5. QED BY <1>3, <3>3, <3>4
  <2>2. CASE monitor_division \/ monitor_nb_load
    <3>1. /\ procs' \in {procs \ {"div"}, procs \ {"nb"}}
          /\ UNCHANGED <<trace_fifo, lsu_axi_fifo, pins>>
      BY <1>1, <2>2 DEF monitor_division, monitor_nb_load, Wakes
    <3>2. g' = g /\ l' = l /\ x' = x /\ y' = y
      BY <3>1
    <3>3. QED BY <3>2
  <2>3. CASE monitor_writes
    <3>1. /\ "write" \in procs /\ procs' = procs \ {"write"}
          /\ lsu_axi_fifo' = Append(lsu_axi_fifo, [is_store |-> TRUE])
          /\ UNCHANGED <<trace_fifo, pins>>
      BY <1>1, <2>3 DEF monitor_writes, Wakes
    <3>2. g' = g /\ x' = x /\ y = 1 /\ y' = 0
      BY <3>1
    <3>3. l' = l + 1
      BY <1>5, <3>1, CountAppend DEF Writes
    <3> HIDE DEF x, y, g, l
    <3>4. QED BY <1>3, <3>2, <3>3
  <2>4. CASE monitor_reads
    <3>1. /\ procs' = procs \ {"read"}
          /\ lsu_axi_fifo' = Append(lsu_axi_fifo, [is_store |-> FALSE])
          /\ UNCHANGED <<trace_fifo, pins>>
      BY <1>1, <2>4 DEF monitor_reads, Wakes
    <3>2. g' = g /\ x' = x /\ y' = y
      BY <3>1
    <3>3. l' = l + 0
      BY <1>5, <3>1, CountAppend
    <3> HIDE DEF x, y, g, l
    <3>4. QED BY <1>3, <3>2, <3>3
  <2>5. QED BY <2>1, <2>2, <2>3, <2>4 DEF Monitoring
<1>7. /\ Uncompared = x + g + q /\ Uncompared' = x' + g' + q'
      /\ Untaken = y + l + m /\ Untaken' = y' + l' + m'
  BY DEF Uncompared, Untaken
<1>8. Uncompared' = Uncompared /\ Untaken' = Untaken
  <2> HIDE DEF x, y, g, l, q, m
  <2>1. x' + g' + q' = x + g + q
    BY <1>3, <1>4, <1>6
  <2>2. y' + l' + m' = y + l + m
    BY <1>3, <1>4, <1>6
  <2>3. QED BY <1>7, <2>1, <2>2
<1>9. QED BY <1>1, <1>8 DEF StoresKept

\* What is inductive: the account of stores and what it rests on.
StoresInv == /\ PInv /\ HartZeroOnly /\ KindsOK
             /\ StoreAccounting /\ Wakeups /\ StoresKept

\* The wakeups of the scoreboard are not lost in the pipeline.
LEMMA PWakeupsStep ==
  PInv /\ StoreAccounting /\ Wakeups /\ [PNext]_pvars => Wakeups'
<1> SUFFICES ASSUME PInv, StoreAccounting, Wakeups, [PNext]_pvars PROVE Wakeups'
  OBVIOUS
<1>1. CASE Scoreboard \/ Reset
  BY <1>1, ScoreboardIsNext, WakeupsStep DEF PInv
<1>2. CASE Edge \/ Monitoring \/ UNCHANGED pvars
  <2>1. UNCHANGED <<queues, stores, calls, phase>>
    BY <1>2 DEF Edge, clock_edge, pvars, vars, control, Monitoring,
       monitor_trace, monitor_division, monitor_nb_load, monitor_writes,
       monitor_reads, Wakes
  <2>2. \A u \in Threads : Blocked(u) => Blocked(u)'
    BY <2>1, SameBlocked DEF queues
  <2>3. QED BY <2>1, <2>2 DEF Wakeups, Initialized
<1>3. QED BY <1>1, <1>2 DEF PNext

LEMMA StoresInvariant == PSpec => []StoresInv
<1>1. PInit => StoresInv
  <2> SUFFICES ASSUME PInit PROVE StoresInv
    OBVIOUS
  <2>1. /\ trace_fifo = <<>> /\ pending_trace_q[0] = <<>>
        /\ lsu_axi_fifo = <<>> /\ pending_mem_access_q = <<>>
        /\ procs = {} /\ storebuf = 0 /\ merged = 0 /\ phase = "reset"
        /\ store_axi_delivered = 0 /\ store_trace_stepped = 0
    BY HartZero DEF PInit, CoreInit, Init, EmptyQueues
  <2>2. HartZeroOnly
    BY DEF PInit, Init, EmptyQueues, HartZeroOnly
  <2>3. KindsOK
    BY <2>1 DEF KindsOK, Members
  <2>4. StoreAccounting
    <3>1. PendingStores = 0
      BY <2>1, FS_EmptySet DEF PendingStores
    <3>2. QED BY <2>1, <3>1 DEF StoreAccounting
  <2>5. Wakeups
    BY DEF PInit, Init, Wakeups, Blocked, EmptyQueues
  <2>6. StoresKept
    BY <2>1 DEF StoresKept
  <2>7. QED BY <2>2, <2>3, <2>4, <2>5, <2>6, InitPInv DEF StoresInv
<1>2. StoresInv /\ [PNext]_pvars => StoresInv'
  <2> SUFFICES ASSUME StoresInv, [PNext]_pvars PROVE StoresInv'
    OBVIOUS
  <2>1. /\ PInv' /\ HartZeroOnly' /\ KindsOK' /\ StoreAccounting' /\ Wakeups'
    BY PStepType, HartZeroStep, KindsStep, PAccountStep, PWakeupsStep DEF StoresInv
  <2>2. StoresKept'
    <3>1. CASE Edge
      BY <3>1, EdgeIs, EdgeKeeps DEF StoresInv
    <3>2. CASE Monitoring
      BY <3>2, MonitoringKeeps DEF StoresInv
    <3>3. CASE Scoreboard
      BY <3>3, ScoreboardKeeps DEF StoresInv
    <3>4. CASE Reset
      BY <3>4 DEF Reset, flush_state, StoresKept
    <3>5. CASE UNCHANGED pvars
      BY <3>5 DEF StoresInv, StoresKept, Uncompared, Untaken, pvars, vars,
         fifos, queues, core, control
    <3>6. QED BY <3>1, <3>2, <3>3, <3>4, <3>5 DEF PNext
  <2>3. QED BY <2>1, <2>2 DEF StoresInv
<1>3. QED BY <1>1, <1>2, PTL DEF PSpec

\* Whatever the core merges: when an edge is over, the stores not yet compared
\* are those whose write is queued, those in the store buffer and one per merge
\* since the last reset, and a store heads the queue only when no write is
\* there for it (eh2_cosim_scoreboard.sv:291-327).  A core that merges nothing
\* strands nothing; each merge strands one store until a reset.
THEOREM OnlyMergesStrandHolds == PSpec => []OnlyMergesStrand
<1>1. StoresInv => OnlyMergesStrand
  <2> DEFINE q == pending_trace_q[0]
             m == pending_mem_access_q
  <2> SUFFICES ASSUME StoresInv, Quiet, phase = "run"
               PROVE  /\ StoresIn(q) = PendingStores + storebuf + merged
                      /\ q # <<>> /\ Head(q).kind = "store" => PendingStores = 0
    BY DEF OnlyMergesStrand
  <2>1. q \in Seq(TraceItem) /\ m \in Seq(Access)
    BY HartZero DEF StoresInv, PInv, TypeOK
  <2>2. Where(q, Stores) = {k \in DOMAIN q : q[k].kind = "store"}
    BY <2>1 DEF Where, Stores
  <2>3. Where(m, Writes) = {k \in DOMAIN m : m[k].is_store}
    BY <2>1 DEF Where, Writes
  <2>4. CountIn(q, Stores) = StoresIn(q) /\ CountIn(m, Writes) = PendingStores
    BY <2>2, <2>3 DEF CountIn, StoresIn, PendingStores
  <2>5. StoresIn(q) = PendingStores + storebuf + merged
    <3>1. /\ StoresIn(q) \in Nat /\ PendingStores \in Nat
          /\ storebuf \in Nat /\ merged \in Nat
      BY <2>4, CountsNat DEF StoresInv
    <3>2. /\ trace_fifo = <<>> /\ lsu_axi_fifo = <<>> /\ procs = {}
      BY DEF Quiet
    <3>3. CountIn(trace_fifo, Stores) = 0 /\ CountIn(lsu_axi_fifo, Writes) = 0
      BY <3>2, CountNone
    <3>4. Uncompared = 0 + 0 + StoresIn(q) /\ Untaken = 0 + 0 + PendingStores
      BY <2>4, <3>2, <3>3 DEF Uncompared, Untaken
    <3>5. Uncompared = storebuf + merged + Untaken
      BY DEF StoresInv, StoresKept
    <3> HIDE DEF q, m
    <3>6. QED BY <3>1, <3>4, <3>5
  <2>6. ASSUME q # <<>>, Head(q).kind = "store" PROVE PendingStores = 0
    <3>1. Blocked(0)
      BY HartZero DEF StoresInv, Wakeups, Initialized, Quiet, Idle
    <3>2. ~WaitsForHint(0, Head(q))
      BY <2>6 DEF WaitsForHint, needs_async_wb, is_div, needs_nb_load_async_wb
    <3>3. ~has_matching_memory_access(Head(q))
      BY <2>6, <3>1, <3>2 DEF Blocked, WaitsForStore
    <3>4. \A k \in DOMAIN m : ~m[k].is_store
      BY <2>1, <2>6, <3>3 DEF has_matching_memory_access,
         is_store_or_amo_instruction, Access
    <3>5. {k \in DOMAIN m : m[k].is_store} = {}
      BY <3>4
    <3>6. QED BY <3>5, FS_EmptySet DEF PendingStores
  <2>7. QED BY <2>5, <2>6
<1>2. QED BY <1>1, StoresInvariant, PTL

=============================================================================
