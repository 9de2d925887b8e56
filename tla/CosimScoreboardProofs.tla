----------------------- MODULE CosimScoreboardProofs -----------------------
(***************************************************************************)
(* What holds of the scoreboard for any number of harts and any traffic.   *)
(*                                                                         *)
(* TypeOK is inductive.  StoreAccounting is inductive relative to it, and  *)
(* shows that CoalescedStore never holds; so a store is compared only with *)
(* a bus write (StoreTakesWrite), and a comparison of one hart never       *)
(* releases another (BlockedByOther).  That is what Wakeups, the inductive *)
(* form of NoMissedWakeup, needs.                                          *)
(***************************************************************************)
EXTENDS CosimScoreboard, SequenceTheorems, FiniteSetTheorems,
        WellFoundedInduction, TLAPS

-----------------------------------------------------------------------------
(* Sequences.                                                              *)

\* The library's Min of a nonempty set of naturals is its least element.
LEMMA MinOfNats ==
  ASSUME NEW T \in SUBSET Nat, T # {}
  PROVE  Min(T) \in T /\ \A n \in T : Min(T) <= n
<1> DEFINE R == {ss \in Nat \X Nat : ss[1] < ss[2]}
<1>1. OpToRel(<, Nat) = R
  BY Zenon DEF OpToRel
<1>2. IsWellFoundedOn(R, Nat)
  BY <1>1, NatLessThanWellFounded
<1>3. \E m \in T : \A n \in T : <<n, m>> \notin R
  <2> HIDE DEF R
  <2> QED BY <1>2, WFMin
<1>4. PICK m \in T : \A n \in T : <<n, m>> \notin R
  BY <1>3
<1>5. \A n \in T : m <= n
  <2>1. SUFFICES ASSUME NEW n \in T, n < m PROVE FALSE
    OBVIOUS
  <2>2. <<n, m>> \in R
    BY <2>1
  <2>3. QED BY <1>4, <2>2
<1>6. QED BY <1>5 DEF Min

\* What is left of a sequence without its element k.
LEMMA RemoveAtProperties ==
  ASSUME NEW S, NEW q \in Seq(S), NEW k \in 1 .. Len(q)
  PROVE  /\ RemoveAt(q, k) \in Seq(S)
         /\ Len(RemoveAt(q, k)) = Len(q) - 1
         /\ \A j \in 1 .. Len(q) - 1 :
              RemoveAt(q, k)[j] = IF j < k THEN q[j] ELSE q[j + 1]
<1> DEFINE a == SubSeq(q, 1, k - 1)
           b == SubSeq(q, k + 1, Len(q))
<1>1. /\ a \in Seq(S) /\ Len(a) = k - 1
      /\ \A j \in 1 .. k - 1 : a[j] = q[j]
  OBVIOUS
<1>2. /\ b \in Seq(S) /\ Len(b) = Len(q) - k
      /\ \A j \in 1 .. Len(q) - k : b[j] = q[k + j]
  OBVIOUS
<1>3. RemoveAt(q, k) = a \o b
  BY DEF RemoveAt
<1> HIDE DEF a, b
<1>4. /\ a \o b \in Seq(S)
      /\ Len(a \o b) = Len(a) + Len(b)
      /\ \A j \in 1 .. Len(a) + Len(b) :
           (a \o b)[j] = IF j <= Len(a) THEN a[j] ELSE b[j - Len(a)]
  BY <1>1, <1>2, ConcatProperties
<1>5. Len(a) + Len(b) = Len(q) - 1
  BY <1>1, <1>2, LenProperties
<1>6. ASSUME NEW j \in 1 .. Len(q) - 1
      PROVE  (a \o b)[j] = IF j < k THEN q[j] ELSE q[j + 1]
  <2>1. (a \o b)[j] = IF j <= k - 1 THEN a[j] ELSE b[j - (k - 1)]
    BY <1>1, <1>4, <1>5
  <2>2. CASE j < k
    <3>1. j \in 1 .. k - 1 /\ j <= k - 1
      BY <2>2
    <3>2. QED BY <1>1, <2>1, <2>2, <3>1
  <2>3. CASE ~(j < k)
    <3>1. j - (k - 1) \in 1 .. Len(q) - k /\ ~(j <= k - 1)
      BY <2>3, LenProperties
    <3>2. b[j - (k - 1)] = q[k + (j - (k - 1))]
      BY <1>2, <3>1
    <3>3. k + (j - (k - 1)) = j + 1
      OBVIOUS
    <3>4. QED BY <2>1, <2>3, <3>1, <3>2, <3>3
  <2>4. QED BY <2>2, <2>3
<1>7. QED BY <1>3, <1>4, <1>5, <1>6

\* The transaction taken is the first of its direction.
LEMMA WithoutAccessProperties ==
  ASSUME NEW q \in Seq(Access), NEW b \in BOOLEAN,
         \E k \in 1 .. Len(q) : q[k].is_store = b
  PROVE  \E k \in 1 .. Len(q) :
           /\ q[k].is_store = b
           /\ \A j \in 1 .. k - 1 : q[j].is_store # b
           /\ WithoutAccess(q, b) = RemoveAt(q, k)
<1> DEFINE T == {j \in 1 .. Len(q) : q[j].is_store = b}
<1>1. T \in SUBSET Nat /\ T # {}
  OBVIOUS
<1>2. WithoutAccess(q, b) = RemoveAt(q, Min(T))
  BY DEF WithoutAccess, RemoveFirstMatch, SelectInSeq
<1>3. Min(T) \in T /\ \A j \in T : Min(T) <= j
  <2> HIDE DEF T
  <2> QED BY <1>1, MinOfNats
<1>4. ASSUME NEW j \in 1 .. Min(T) - 1
      PROVE  q[j].is_store # b
  BY <1>3
<1>5. QED BY <1>2, <1>3, <1>4

\* The hint read and the hint removed are the same one, and it matches.
LEMMA WithoutHintProperties ==
  ASSUME NEW q \in Seq(Hint), NEW i,
         \E k \in 1 .. Len(q) : MatchesHint(i, q[k])
  PROVE  \E k \in 1 .. Len(q) :
           /\ MatchesHint(i, q[k])
           /\ FirstHint(q, i) = q[k]
           /\ WithoutHint(q, i) = RemoveAt(q, k)
<1> DEFINE T == {j \in 1 .. Len(q) : MatchesHint(i, q[j])}
<1>1. T \in SUBSET Nat /\ T # {}
  OBVIOUS
<1>2. WithoutHint(q, i) = RemoveAt(q, Min(T)) /\ FirstHint(q, i) = q[Min(T)]
  BY DEF WithoutHint, FirstHint, RemoveFirstMatch, SelectInSeq
<1>3. Min(T) \in T
  <2> HIDE DEF T
  <2> QED BY <1>1, MinOfNats
<1>4. QED BY <1>2, <1>3

-----------------------------------------------------------------------------
(* Types.                                                                  *)

\* The initial state is well typed.
LEMMA InitType == Init => TypeOK
BY ConstantsOK DEF Init, TypeOK, EmptyQueues, Zeros, NoCall, DpiCall, NoReg


\* An instruction that takes a bus transaction takes the oldest one of its
\* direction.
LEMMA TakenAccess ==
  ASSUME TypeOK, NEW t \in Threads, PopHead(t),
         TakesAccess(Head(pending_trace_q[t]))
  PROVE  \E k \in 1 .. Len(pending_mem_access_q) :
           /\ pending_mem_access_q[k].is_store
                = is_store_or_amo_instruction(Head(pending_trace_q[t]))
           /\ \A j \in 1 .. k - 1 :
                pending_mem_access_q[j].is_store
                  # is_store_or_amo_instruction(Head(pending_trace_q[t]))
           /\ pending_mem_access_q' = RemoveAt(pending_mem_access_q, k)
<1> DEFINE i == Head(pending_trace_q[t])
           b == is_store_or_amo_instruction(i)
           q == pending_mem_access_q
<1>1. q \in Seq(Access) /\ DOMAIN q = 1 .. Len(q)
  BY DEF TypeOK
<1>2. b \in BOOLEAN
  BY DEF is_store_or_amo_instruction, writes_rd
<1>3. \E k \in 1 .. Len(q) : q[k].is_store = b
  BY <1>1 DEF TakesAccess, has_matching_memory_access
<1>4. q' = WithoutAccess(q, b)
  BY DEF PopHead
<1> HIDE DEF q, b
<1>5. \E k \in 1 .. Len(q) :
        /\ q[k].is_store = b
        /\ \A j \in 1 .. k - 1 : q[j].is_store # b
        /\ WithoutAccess(q, b) = RemoveAt(q, k)
  BY <1>1, <1>2, <1>3, WithoutAccessProperties
<1>6. QED BY <1>4, <1>5 DEF q, b

\* The head of a nonempty queue and what is left are well typed.
LEMMA PopType ==
  ASSUME TypeOK, NEW t \in Threads, Ready(t), PopHead(t)
  PROVE  /\ Head(pending_trace_q[t]) \in TraceItem
         /\ pending_trace_q' \in [Threads -> Seq(TraceItem)]
         /\ pending_mem_access_q' \in Seq(Access)
         /\ store_trace_stepped' \in Nat
         /\ TakesAccess(Head(pending_trace_q[t])) \in BOOLEAN
<1> DEFINE i == Head(pending_trace_q[t])
<1>1. pending_trace_q[t] \in Seq(TraceItem) /\ pending_trace_q[t] # <<>>
  BY DEF TypeOK, Ready, Blocked
<1>2. i \in TraceItem /\ Tail(pending_trace_q[t]) \in Seq(TraceItem)
  BY <1>1
<1>3. is_store_or_amo_instruction(i) \in BOOLEAN /\ TakesAccess(i) \in BOOLEAN
  BY DEF is_store_or_amo_instruction, TakesAccess, is_memory_instruction,
         has_matching_memory_access, writes_rd
<1>4. pending_mem_access_q' \in Seq(Access)
  <2>1. CASE TakesAccess(i)
    <3>1. PICK k \in 1 .. Len(pending_mem_access_q) :
            pending_mem_access_q' = RemoveAt(pending_mem_access_q, k)
      BY <2>1, TakenAccess
    <3>2. QED BY <3>1, RemoveAtProperties DEF TypeOK
  <2>2. CASE ~TakesAccess(i)
    BY <2>2 DEF TypeOK, PopHead
  <2>3. QED BY <2>1, <2>2
<1>5. pending_trace_q' \in [Threads -> Seq(TraceItem)]
  BY <1>2 DEF TypeOK, PopHead
<1>6. store_trace_stepped' \in Nat
  BY DEF TypeOK, PopHead
<1>7. QED BY <1>2, <1>3, <1>4, <1>5, <1>6

\* What riscv_cosim_step is told is well typed.
LEMMA WritebackType ==
  ASSUME TypeOK, NEW t \in Threads, NEW i \in TraceItem
  PROVE  Writeback(t, i) \in Wb
<1>1. async_wb_q[t] \in Seq(Hint) /\ i.wb \in Regs \cup {NoReg}
  BY DEF TypeOK, TraceItem
<1>2. has_matching_async_wb(t, i) => FirstHint(async_wb_q[t], i) \in Hint
  <2>1. SUFFICES ASSUME has_matching_async_wb(t, i)
                 PROVE  FirstHint(async_wb_q[t], i) \in Hint
    OBVIOUS
  <2>2. \E k \in 1 .. Len(async_wb_q[t]) : MatchesHint(i, async_wb_q[t][k])
    BY <1>1, <2>1 DEF has_matching_async_wb
  <2>3. QED BY <1>1, <2>2, WithoutHintProperties
<1>3. has_matching_async_wb(t, i) =>
        /\ FirstHint(async_wb_q[t], i).rd \in Regs
        /\ FirstHint(async_wb_q[t], i).suppress \in BOOLEAN
  BY <1>2 DEF Hint
<1>4. has_matching_async_wb(t, i) \in BOOLEAN /\ is_div(i) \in BOOLEAN
  BY DEF has_matching_async_wb, is_div
<1>5. CASE has_matching_async_wb(t, i) /\ FirstHint(async_wb_q[t], i).suppress
  BY <1>5 DEF Writeback, Wb
<1>6. CASE has_matching_async_wb(t, i) /\ ~FirstHint(async_wb_q[t], i).suppress
  BY <1>3, <1>6 DEF Writeback, Wb
<1>7. CASE ~has_matching_async_wb(t, i) /\ is_div(i)
  BY <1>7 DEF Writeback, Wb
<1>8. CASE ~has_matching_async_wb(t, i) /\ ~is_div(i)
  BY <1>1, <1>8 DEF Writeback, Wb
<1>9. QED BY <1>4, <1>5, <1>6, <1>7, <1>8

\* A queue of hints stays one without the hint consumed.
LEMMA HintQueueType ==
  ASSUME TypeOK, NEW t \in Threads, NEW i, has_matching_async_wb(t, i)
  PROVE  WithoutHint(async_wb_q[t], i) \in Seq(Hint)
<1>1. async_wb_q[t] \in Seq(Hint)
  BY DEF TypeOK
<1>2. \E k \in 1 .. Len(async_wb_q[t]) : MatchesHint(i, async_wb_q[t][k])
  BY <1>1 DEF has_matching_async_wb
<1>3. PICK k \in 1 .. Len(async_wb_q[t]) :
        WithoutHint(async_wb_q[t], i) = RemoveAt(async_wb_q[t], k)
  BY <1>1, <1>2, WithoutHintProperties
<1>4. QED BY <1>1, <1>3, RemoveAtProperties

\* Every action keeps the types.
LEMMA StepType == TypeOK /\ [Next]_vars => TypeOK'
<1> SUFFICES ASSUME TypeOK, [Next]_vars PROVE TypeOK'
  OBVIOUS
<1> USE ConstantsOK
<1>0. NoCall \in DpiCall
  BY DEF NoCall, DpiCall
<1>1. ASSUME NEW i \in TraceInputs, TraceWrite(i) PROVE TypeOK'
  BY <1>0, <1>1 DEF TypeOK, TraceWrite, queues, stores, counts, result, mips,
     control
<1>2. ASSUME NEW h \in HintInputs, ProbeWrite(h) PROVE TypeOK'
  BY <1>0, <1>2 DEF TypeOK, ProbeWrite, queues, stores, counts, result, mips,
     control
<1>3. ASSUME NEW a \in Access, AxiWrite(a) PROVE TypeOK'
  BY <1>0, <1>3 DEF TypeOK, AxiWrite, queues, stores, counts, result, mips,
     control
<1>4. CASE run_cosim_trace
  <2>1. Head(trace_fifo) \in TraceItem /\ trace_fifo' \in Seq(TraceItem)
    BY <1>4 DEF TypeOK, run_cosim_trace
  <2>2. Head(trace_fifo).tid \in Threads
    BY <2>1 DEF TraceItem
  <2>3. /\ pending_trace_q' \in [Threads -> Seq(TraceItem)]
        /\ calls' \in Seq(Threads)
    BY <1>4, <2>1, <2>2 DEF TypeOK, run_cosim_trace
  <2>4. QED BY <1>0, <1>4, <2>1, <2>3
    DEF TypeOK, run_cosim_trace, stores, result, mips, control
<1>5. CASE run_cosim_probe_async
  <2>1. Head(dut_probe_fifo) \in Hint /\ dut_probe_fifo' \in Seq(Hint)
    BY <1>5 DEF TypeOK, run_cosim_probe_async
  <2>2. Head(dut_probe_fifo).tid \in Threads
    BY <2>1 DEF Hint
  <2>3. /\ async_wb_q' \in [Threads -> Seq(Hint)]
        /\ calls' \in Seq(Threads)
    <3>1. CASE Head(dut_probe_fifo).source = "REGULAR"
      BY <1>5, <3>1 DEF TypeOK, run_cosim_probe_async
    <3>2. CASE Head(dut_probe_fifo).source # "REGULAR"
      <4> DEFINE h == Head(dut_probe_fifo)
      <4>1. /\ async_wb_q' = [async_wb_q EXCEPT ![h.tid] = Append(@, h)]
            /\ calls' = <<h.tid>>
        BY <1>5, <3>2 DEF run_cosim_probe_async
      <4> HIDE DEF h
      <4>2. h \in Hint /\ h.tid \in Threads
        BY <2>1, <2>2 DEF h
      <4>3. async_wb_q' \in [Threads -> Seq(Hint)]
        BY <4>1, <4>2 DEF TypeOK
      <4>4. QED BY <4>1, <4>2, <4>3
    <3>3. QED BY <3>1, <3>2
  <2>4. QED BY <1>0, <1>5, <2>1, <2>3
    DEF TypeOK, run_cosim_probe_async, stores, result, mips, control
<1>6. CASE run_cosim_dmem
  <2>1. Head(lsu_axi_fifo) \in Access /\ lsu_axi_fifo' \in Seq(Access)
    BY <1>6 DEF TypeOK, run_cosim_dmem
  <2>2. calls' \in Seq(Threads)
    BY <1>6 DEF run_cosim_dmem, threads_to_drain, ConstantsOK, Threads
  <2>3. store_axi_delivered' \in Nat /\ axi_item_count' \in Nat
    BY <1>6 DEF TypeOK, run_cosim_dmem
  <2>4. pending_mem_access_q' \in Seq(Access)
    BY <1>6, <2>1 DEF TypeOK, run_cosim_dmem
  <2>5. QED BY <1>0, <1>6, <2>1, <2>2, <2>3, <2>4
    DEF TypeOK, run_cosim_dmem, result, mips, control
<1>7. ASSUME NEW t \in Threads, ProcessExit(t) PROVE TypeOK'
  BY <1>0, <1>7 DEF TypeOK, ProcessExit, fifos, queues, stores, counts, result,
     mips, control
<1>8. ASSUME NEW t \in Threads, compare_irq_only(t) PROVE TypeOK'
  <2> DEFINE i == Head(pending_trace_q[t])
  <2>1. Ready(t) /\ PopHead(t) /\ NotifySpike(t, i)
    BY <1>8 DEF compare_irq_only
  <2>2. /\ i \in TraceItem
        /\ pending_trace_q' \in [Threads -> Seq(TraceItem)]
        /\ pending_mem_access_q' \in Seq(Access)
        /\ store_trace_stepped' \in Nat
        /\ TakesAccess(i) \in BOOLEAN
    BY <2>1, PopType
  <2>3. i.mip \in Mips
    BY <2>2 DEF TraceItem
  <2>4. prev_mip' \in [Threads -> Mips] /\ spike_mip' \in [Threads -> Mips]
    BY <2>1, <2>3 DEF NotifySpike, TypeOK
  <2>5. mismatch_count' \in [Threads -> Nat]
    BY <1>8 DEF compare_irq_only, TypeOK
  <2>6. dpi' \in DpiCall
    BY <1>8, <2>2 DEF compare_irq_only, TypeOK, DpiCall
  <2>7. QED BY <1>8, <2>2, <2>4, <2>5, <2>6
    DEF TypeOK, compare_irq_only, fifos, counts, control
<1>9. ASSUME NEW t \in Threads, compare_instruction(t) PROVE TypeOK'
  <2> DEFINE i == Head(pending_trace_q[t])
  <2>1. Ready(t) /\ PopHead(t) /\ NotifySpike(t, i)
    BY <1>9 DEF compare_instruction
  <2>2. /\ i \in TraceItem
        /\ pending_trace_q' \in [Threads -> Seq(TraceItem)]
        /\ pending_mem_access_q' \in Seq(Access)
        /\ store_trace_stepped' \in Nat
        /\ TakesAccess(i) \in BOOLEAN
    BY <2>1, PopType
  <2>3. i.mip \in Mips /\ SyncTrap(i) \in BOOLEAN
    BY <2>2 DEF TraceItem, SyncTrap
  <2>4. prev_mip' \in [Threads -> Mips] /\ spike_mip' \in [Threads -> Mips]
    BY <2>1, <2>3 DEF NotifySpike, TypeOK
  <2>5. mismatch_count' \in [Threads -> Nat]
    <3>1. PICK matched \in BOOLEAN, csr \in 0 .. 2 :
            mismatch_count' = [mismatch_count EXCEPT ![t] =
              @ + (IF WrongTag(t, i) THEN 1 ELSE 0)
                + (IF matched THEN 0 ELSE 1) + csr]
      BY <1>9 DEF compare_instruction
    <3> HIDE DEF i
    <3>2. QED BY <3>1 DEF TypeOK
  <2>6. async_wb_q' \in [Threads -> Seq(Hint)]
    <3>1. CASE has_matching_async_wb(t, i)
      <4>1. WithoutHint(async_wb_q[t], i) \in Seq(Hint)
        BY <3>1, HintQueueType
      <4>2. async_wb_q' = [async_wb_q EXCEPT ![t] = WithoutHint(@, i)]
        BY <1>9, <3>1 DEF compare_instruction
      <4>3. QED BY <4>1, <4>2 DEF TypeOK
    <3>2. CASE ~has_matching_async_wb(t, i)
      BY <1>9, <3>2 DEF compare_instruction, TypeOK
    <3>3. QED BY <3>1, <3>2
  <2>7. dpi' \in DpiCall
    <3>1. Writeback(t, i) \in Wb
      BY <2>2, WritebackType
    <3>2. dpi' = [call |-> "step", tid |-> t, item |-> i,
                  pre_mip |-> prev_mip[t], access |-> TakesAccess(i),
                  sync_trap |-> SyncTrap(i), wb |-> Writeback(t, i)]
      BY <1>9 DEF compare_instruction
    <3>3. prev_mip[t] \in Mips
      BY DEF TypeOK
    <3> HIDE DEF i
    <3>4. QED BY <2>2, <2>3, <3>1, <3>2, <3>3 DEF DpiCall
  <2>8. /\ phase' \in {"reset", "run", "fatal", "done"}
        /\ calls' \in Seq(Threads)
        /\ step_count' \in Nat
    <3>1. \/ phase' = "fatal" /\ calls' = <<>> /\ UNCHANGED step_count
          \/ step_count' = step_count + 1 /\ UNCHANGED <<phase, calls>>
      BY <1>9 DEF compare_instruction
    <3>2. CASE phase' = "fatal" /\ calls' = <<>> /\ UNCHANGED step_count
      BY <3>2 DEF TypeOK
    <3>3. CASE step_count' = step_count + 1 /\ UNCHANGED <<phase, calls>>
      BY <3>3 DEF TypeOK
    <3>4. QED BY <3>1, <3>2, <3>3
  <2>9. QED BY <1>9, <2>2, <2>4, <2>5, <2>6, <2>7, <2>8
    DEF TypeOK, compare_instruction, fifos, counts
<1>10. CASE flush_state
  BY <1>0, <1>10 DEF TypeOK, flush_state, EmptyQueues, Zeros, counts, result,
     ConstantsOK
<1>11. CASE init_cosim
  BY <1>0, <1>11 DEF TypeOK, init_cosim, EmptyQueues, Zeros, fifos, stores,
     ConstantsOK
<1>12. CASE report_phase
  BY <1>0, <1>12 DEF TypeOK, report_phase, Verdict, fifos, queues, stores,
     counts, result, mips
<1>13. CASE UNCHANGED vars
  BY <1>13 DEF TypeOK, vars, fifos, queues, stores, counts, result, mips,
     control
<1>14. QED
  BY <1>1, <1>2, <1>3, <1>4, <1>5, <1>6, <1>7, <1>8, <1>9, <1>10, <1>11,
     <1>12, <1>13 DEF Next, Monitors, Consumers, Drain

\* At every moment each variable holds a value of its declared type.
THEOREM TypeCorrect == Spec => []TypeOK
<1>1. Init => TypeOK
  BY InitType
<1>2. TypeOK /\ [Next]_vars => TypeOK'
  BY StepType
<1>3. QED BY <1>1, <1>2, PTL DEF Spec

-----------------------------------------------------------------------------
(* The account of stores.                                                  *)

StorePositions(q) == {k \in DOMAIN q : q[k].is_store}
StoreCount(q) == Cardinality(StorePositions(q))

\* A queue holds finitely many bus writes.
LEMMA StorePositionsFinite ==
  ASSUME NEW q \in Seq(Access)
  PROVE  /\ StorePositions(q) \subseteq 1 .. Len(q)
         /\ IsFiniteSet(StorePositions(q))
         /\ StoreCount(q) \in Nat
<1>1. StorePositions(q) \subseteq 1 .. Len(q)
  BY DEF StorePositions
<1>2. IsFiniteSet(1 .. Len(q))
  BY FS_Interval
<1>3. IsFiniteSet(StorePositions(q))
  BY <1>1, <1>2, FS_Subset
<1>4. QED BY <1>1, <1>3, FS_CardinalityType DEF StoreCount

\* A transaction queued adds to them when it is a write.
LEMMA AppendStores ==
  ASSUME NEW q \in Seq(Access), NEW a \in Access
  PROVE  StoreCount(Append(q, a))
           = StoreCount(q) + (IF a.is_store THEN 1 ELSE 0)
<1> DEFINE n == Len(q) + 1
<1>1. a.is_store \in BOOLEAN
  BY DEF Access
<1>2. StorePositions(Append(q, a))
        = IF a.is_store THEN StorePositions(q) \cup {n} ELSE StorePositions(q)
  BY <1>1 DEF StorePositions
<1>3. n \notin StorePositions(q)
  BY DEF StorePositions
<1>4. IsFiniteSet(StorePositions(q)) /\ StoreCount(q) \in Nat
  BY StorePositionsFinite
<1>5. Cardinality(StorePositions(q) \cup {n})
        = StoreCount(q) + 1
  BY <1>3, <1>4, FS_AddElement DEF StoreCount
<1>6. QED BY <1>1, <1>2, <1>4, <1>5 DEF StoreCount

\* One removed takes itself away and nothing else.
LEMMA RemoveStores ==
  ASSUME NEW q \in Seq(Access), NEW k \in 1 .. Len(q)
  PROVE  StoreCount(RemoveAt(q, k))
           <= StoreCount(q) - (IF q[k].is_store THEN 1 ELSE 0)
<1> DEFINE r == RemoveAt(q, k)
           f == [j \in StorePositions(r) |-> IF j < k THEN j ELSE j + 1]
           T == StorePositions(q) \ {k}
<1>1. /\ r \in Seq(Access) /\ Len(r) = Len(q) - 1
      /\ \A j \in 1 .. Len(q) - 1 : r[j] = IF j < k THEN q[j] ELSE q[j + 1]
  BY RemoveAtProperties
<1>2. IsFiniteSet(StorePositions(q)) /\ StoreCount(q) \in Nat
  BY StorePositionsFinite
<1>3. /\ IsFiniteSet(T)
      /\ Cardinality(T) = IF k \in StorePositions(q)
                          THEN StoreCount(q) - 1
                          ELSE StoreCount(q)
  BY <1>2, FS_RemoveElement DEF StoreCount
<1> HIDE DEF r
<1>4. ASSUME NEW j \in StorePositions(r)
      PROVE  /\ j \in 1 .. Len(q) - 1
             /\ (IF j < k THEN j ELSE j + 1) \in T
  BY <1>1 DEF StorePositions
<1>5. f \in Injection(StorePositions(r), T)
  <2>1. f \in [StorePositions(r) -> T]
    BY <1>4
  <2>2. ASSUME NEW j \in StorePositions(r), NEW m \in StorePositions(r),
               f[j] = f[m]
        PROVE  j = m
    BY <1>4, <2>2
  <2>3. QED BY <2>1, <2>2 DEF Injection, IsInjective
<1>6. StoreCount(r) <= Cardinality(T)
  <2> HIDE DEF f, T
  <2>1. QED BY <1>3, <1>5, FS_Injection DEF StoreCount
<1>7. k \in StorePositions(q) <=> q[k].is_store
  BY DEF StorePositions
<1>8. QED BY <1>2, <1>3, <1>6, <1>7 DEF r

-----------------------------------------------------------------------------
\* StoreAccounting in terms of StoreCount.
LEMMA AccountIs ==
  /\ StoreAccounting <=>
       store_trace_stepped + StoreCount(pending_mem_access_q)
         <= store_axi_delivered
  /\ StoreAccounting' <=>
       store_trace_stepped' + StoreCount(pending_mem_access_q')
         <= store_axi_delivered'
BY DEF StoreAccounting, PendingStores, StoreCount, StorePositions

\* A store that is compared takes a bus write along: the escape of
\* CoalescedStore is never open.
LEMMA StoreTakesAccess ==
  ASSUME TypeOK, StoreAccounting, NEW t \in Threads, Ready(t),
         is_store_or_amo_instruction(Head(pending_trace_q[t]))
  PROVE  TakesAccess(Head(pending_trace_q[t]))
<1> DEFINE i == Head(pending_trace_q[t])
<1>1. must_wait_for_memory_access(i) /\ is_memory_instruction(i)
  BY DEF must_wait_for_memory_access, is_memory_instruction,
         is_load_instruction, is_store_or_amo_instruction, writes_rd
<1>2. StoreCount(pending_mem_access_q) \in Nat
  BY StorePositionsFinite DEF TypeOK
<1>3. ~CoalescedStore
  BY <1>2, AccountIs DEF CoalescedStore, TypeOK
<1>4. ~WaitsForStore(i)
  BY DEF Ready, Blocked
<1>5. QED BY <1>1, <1>3, <1>4 DEF WaitsForStore, TakesAccess

\* What a comparison does to the account.
LEMMA PopAccount ==
  ASSUME TypeOK, StoreAccounting, NEW t \in Threads, Ready(t), PopHead(t)
  PROVE  store_trace_stepped' + StoreCount(pending_mem_access_q')
           <= store_trace_stepped + StoreCount(pending_mem_access_q)
<1> DEFINE i == Head(pending_trace_q[t])
           q == pending_mem_access_q
<1>1. /\ is_store_or_amo_instruction(i) \in BOOLEAN
      /\ TakesAccess(i) \in BOOLEAN
  BY DEF is_store_or_amo_instruction, TakesAccess, is_memory_instruction,
         has_matching_memory_access, writes_rd
<1>2. store_trace_stepped' = store_trace_stepped
        + (IF is_store_or_amo_instruction(i) THEN 1 ELSE 0)
  BY DEF PopHead
<1>3. q \in Seq(Access) /\ store_trace_stepped \in Nat
  BY DEF TypeOK
<1>4. StoreCount(pending_mem_access_q) \in Nat
  BY <1>3, StorePositionsFinite
<1>5. CASE TakesAccess(i)
  <2>1. PICK k \in 1 .. Len(q) :
          /\ q[k].is_store = is_store_or_amo_instruction(i)
          /\ q' = RemoveAt(q, k)
    BY <1>5, TakenAccess
  <2>2. StoreCount(q') <= StoreCount(q) - (IF q[k].is_store THEN 1 ELSE 0)
    BY <1>3, <2>1, RemoveStores
  <2>3. StoreCount(pending_mem_access_q') \in Nat
    BY <1>3, <2>1, RemoveAtProperties, StorePositionsFinite
  <2>4. CASE is_store_or_amo_instruction(i)
    <3>1. store_trace_stepped' = store_trace_stepped + 1
      BY <1>2, <2>4
    <3>2. q[k].is_store
      BY <2>1, <2>4
    <3>3. StoreCount(pending_mem_access_q')
            <= StoreCount(pending_mem_access_q) - 1
      BY <2>2, <3>2
    <3>4. QED BY <1>3, <1>4, <2>3, <3>1, <3>3
  <2>5. CASE ~is_store_or_amo_instruction(i)
    <3>1. store_trace_stepped' = store_trace_stepped
      BY <1>2, <1>3, <2>5
    <3>2. ~q[k].is_store
      BY <2>1, <2>5
    <3>3. StoreCount(pending_mem_access_q') <= StoreCount(pending_mem_access_q)
      BY <1>4, <2>2, <3>2
    <3>4. QED BY <1>3, <1>4, <2>3, <3>1, <3>3
  <2>6. QED BY <2>4, <2>5
<1>6. CASE ~TakesAccess(i)
  <2>1. ~is_store_or_amo_instruction(i)
    BY <1>6, StoreTakesAccess
  <2>2. StoreCount(pending_mem_access_q') = StoreCount(pending_mem_access_q)
    BY <1>6 DEF PopHead
  <2>3. QED BY <1>2, <1>3, <1>4, <2>1, <2>2
<1>7. QED BY <1>1, <1>5, <1>6

\* Every action keeps the account.
LEMMA StoreAccountingStep ==
  TypeOK /\ StoreAccounting /\ [Next]_vars => StoreAccounting'
<1> SUFFICES ASSUME TypeOK, StoreAccounting, [Next]_vars
             PROVE  StoreAccounting'
  OBVIOUS
<1> USE AccountIs
<1>1. CASE UNCHANGED <<pending_mem_access_q, stores>>
  BY <1>1 DEF stores
<1>2. CASE run_cosim_dmem
  <2> DEFINE a == Head(lsu_axi_fifo)
             q == pending_mem_access_q
  <2>1. a \in Access /\ a.is_store \in BOOLEAN /\ q \in Seq(Access)
    <3>1. lsu_axi_fifo \in Seq(Access) /\ lsu_axi_fifo # <<>>
      BY <1>2 DEF run_cosim_dmem, TypeOK
    <3>2. a \in Access
      BY <3>1
    <3>3. QED BY <3>2 DEF TypeOK, Access
  <2>2. /\ q' = Append(q, a)
        /\ store_axi_delivered' = store_axi_delivered
                                    + (IF a.is_store THEN 1 ELSE 0)
        /\ store_trace_stepped' = store_trace_stepped
    BY <1>2 DEF run_cosim_dmem
  <2> HIDE DEF a
  <2>3. StoreCount(q') = StoreCount(q)
          + (IF a.is_store THEN 1 ELSE 0)
    BY <2>1, <2>2, AppendStores
  <2>4. StoreCount(pending_mem_access_q) \in Nat
    BY <2>1, StorePositionsFinite
  <2>5. QED BY <2>1, <2>2, <2>3, <2>4 DEF TypeOK
<1>3. ASSUME NEW t \in Threads, compare_irq_only(t) \/ compare_instruction(t)
      PROVE  StoreAccounting'
  <2>1. Ready(t) /\ PopHead(t) /\ UNCHANGED store_axi_delivered
    BY <1>3 DEF compare_irq_only, compare_instruction
  <2>2. store_trace_stepped' + StoreCount(pending_mem_access_q')
          <= store_trace_stepped + StoreCount(pending_mem_access_q)
    BY <2>1, PopAccount
  <2>3. /\ StoreCount(pending_mem_access_q) \in Nat
        /\ StoreCount(pending_mem_access_q') \in Nat
    <3>1. TypeOK'
      BY StepType
    <3>2. pending_mem_access_q \in Seq(Access)
            /\ pending_mem_access_q' \in Seq(Access)
      BY <3>1 DEF TypeOK
    <3>3. QED BY <3>2, StorePositionsFinite
  <2>4. store_trace_stepped' \in Nat
    BY <2>1, PopType
  <2>5. store_trace_stepped \in Nat /\ store_axi_delivered \in Nat
    BY DEF TypeOK
  <2>6. QED BY <2>1, <2>2, <2>3, <2>4, <2>5
<1>4. ASSUME pending_mem_access_q' = <<>>,
             \/ store_axi_delivered' = 0 /\ store_trace_stepped' = 0
             \/ UNCHANGED stores
      PROVE  StoreAccounting'
  <2>1. StorePositions(<<>>) = {}
    BY DEF StorePositions
  <2>2. StoreCount(pending_mem_access_q') = 0
    BY <1>4, <2>1, FS_EmptySet DEF StoreCount
  <2>3. StoreCount(pending_mem_access_q) \in Nat
    BY StorePositionsFinite DEF TypeOK
  <2>4. QED BY <1>4, <2>2, <2>3 DEF TypeOK, stores
<1>5. CASE flush_state
  BY <1>4, <1>5 DEF flush_state
<1>6. CASE init_cosim
  BY <1>4, <1>6 DEF init_cosim
<1>7. CASE \/ Monitors \/ run_cosim_trace \/ run_cosim_probe_async
           \/ (\E t \in Threads : ProcessExit(t)) \/ report_phase
           \/ UNCHANGED vars
  BY <1>1, <1>7 DEF Monitors, TraceWrite, ProbeWrite, AxiWrite,
     run_cosim_trace, run_cosim_probe_async, ProcessExit, report_phase, vars,
     queues
<1>8. QED
  BY <1>2, <1>3, <1>5, <1>6, <1>7 DEF Next, Consumers, Drain

\* Stores compared and bus writes still queued never exceed the writes
\* delivered, for any number of harts and any traffic.
THEOREM StoreAccountingHolds == Spec => []StoreAccounting
<1>1. Init => StoreAccounting
  <2>1. SUFFICES ASSUME Init PROVE StoreAccounting
    OBVIOUS
  <2>2. StorePositions(<<>>) = {}
    BY DEF StorePositions
  <2>3. StoreCount(pending_mem_access_q) = 0
    BY <2>1, <2>2, FS_EmptySet DEF Init, StoreCount
  <2>4. QED BY <2>1, <2>3, AccountIs DEF Init
<1>2. TypeOK /\ StoreAccounting /\ [Next]_vars => StoreAccounting'
  BY StoreAccountingStep
<1>3. QED BY <1>1, <1>2, TypeCorrect, PTL DEF Spec

\* No store is ever compared without taking one bus write, the oldest, out of
\* the queue.
THEOREM StoreTakesWriteHolds == Spec => StoreTakesWrite
<1> DEFINE A ==
      dpi'.call # "none" /\ is_store_or_amo_instruction(dpi'.item)
        => \E k \in DOMAIN pending_mem_access_q :
             /\ pending_mem_access_q[k].is_store
             /\ \A j \in 1 .. k - 1 : ~pending_mem_access_q[j].is_store
             /\ pending_mem_access_q' = RemoveAt(pending_mem_access_q, k)
<1>1. ASSUME TypeOK, StoreAccounting, Next PROVE A
  <2>1. CASE dpi' = NoCall
    BY <2>1 DEF NoCall
  <2>2. ASSUME NEW t \in Threads, compare_irq_only(t) \/ compare_instruction(t)
        PROVE  A
    <3> DEFINE i == Head(pending_trace_q[t])
    <3>1. Ready(t) /\ PopHead(t) /\ dpi'.item = i
      BY <2>2 DEF compare_irq_only, compare_instruction
    <3>2. SUFFICES ASSUME is_store_or_amo_instruction(i)
                   PROVE  \E k \in DOMAIN pending_mem_access_q :
             /\ pending_mem_access_q[k].is_store
             /\ \A j \in 1 .. k - 1 : ~pending_mem_access_q[j].is_store
             /\ pending_mem_access_q' = RemoveAt(pending_mem_access_q, k)
      BY <3>1
    <3>3. TakesAccess(i)
      BY <1>1, <3>1, <3>2, StoreTakesAccess
    <3>4. is_store_or_amo_instruction(i) = TRUE
      BY <3>2 DEF is_store_or_amo_instruction, writes_rd
    <3>5. PICK k \in 1 .. Len(pending_mem_access_q) :
            /\ pending_mem_access_q[k].is_store = TRUE
            /\ \A j \in 1 .. k - 1 : pending_mem_access_q[j].is_store # TRUE
            /\ pending_mem_access_q' = RemoveAt(pending_mem_access_q, k)
      BY <1>1, <3>1, <3>3, <3>4, TakenAccess
    <3>6. \A j \in 1 .. k - 1 : ~pending_mem_access_q[j].is_store
      BY <1>1, <3>5 DEF TypeOK, Access
    <3>7. k \in DOMAIN pending_mem_access_q
            /\ pending_mem_access_q[k].is_store
      BY <1>1, <3>5 DEF TypeOK
    <3>8. QED BY <3>5, <3>6, <3>7
  <2>3. QED BY <1>1, <2>1, <2>2 DEF Next, Monitors, TraceWrite, ProbeWrite,
     AxiWrite, Consumers, run_cosim_trace, run_cosim_probe_async,
     run_cosim_dmem, Drain, ProcessExit, flush_state, init_cosim, report_phase
<1>2. TypeOK /\ StoreAccounting /\ [Next]_vars => [A]_vars
  BY <1>1
<1>3. QED BY <1>2, TypeCorrect, StoreAccountingHolds, PTL
  DEF Spec, StoreTakesWrite

-----------------------------------------------------------------------------
(* Wakeups.                                                                *)

\* The inductive form of NoMissedWakeup: a thread whose head could be compared
\* is one the drain has still to serve.
Wakeups ==
  Initialized =>
    \A t \in Threads : Blocked(t) \/ \E k \in 1 .. Len(calls) : calls[k] = t

\* A thread stays blocked when only a comparison of another thread happens:
\* that may take bus transactions away but not open the escape.
LEMMA BlockedByOther ==
  ASSUME TypeOK, StoreAccounting', TypeOK', NEW t \in Threads,
         NEW u \in Threads, u # t, Ready(t), PopHead(t), Blocked(u),
         async_wb_q'[u] = async_wb_q[u], UNCHANGED store_axi_delivered
  PROVE  Blocked(u)'
<1> DEFINE i == Head(pending_trace_q[u])
<1>1. pending_trace_q'[u] = pending_trace_q[u]
  BY DEF PopHead, TypeOK
<1>2. ~CoalescedStore'
  <2>1. StoreCount(pending_mem_access_q') \in Nat
    BY StorePositionsFinite DEF TypeOK
  <2>2. store_trace_stepped' \in Nat /\ store_axi_delivered' \in Nat
    BY DEF TypeOK
  <2>3. QED BY <2>1, <2>2, AccountIs DEF CoalescedStore
<1>3. ASSUME NEW b \in BOOLEAN,
             \E k \in DOMAIN pending_mem_access_q' :
               pending_mem_access_q'[k].is_store = b
      PROVE  \E k \in DOMAIN pending_mem_access_q :
               pending_mem_access_q[k].is_store = b
  <2> DEFINE q == pending_mem_access_q
  <2>1. CASE TakesAccess(Head(pending_trace_q[t]))
    <3>1. PICK k \in 1 .. Len(q) : q' = RemoveAt(q, k)
      BY <2>1, TakenAccess
    <3>2. q \in Seq(Access)
      BY DEF TypeOK
    <3>3. PICK j \in DOMAIN q' : q'[j].is_store = b
      BY <1>3
    <3>4. /\ j \in 1 .. Len(q) - 1
          /\ q'[j] = IF j < k THEN q[j] ELSE q[j + 1]
      <4>1. /\ q' \in Seq(Access) /\ Len(q') = Len(q) - 1
            /\ \A m \in 1 .. Len(q) - 1 :
                 q'[m] = IF m < k THEN q[m] ELSE q[m + 1]
        BY <3>1, <3>2, RemoveAtProperties
      <4>2. QED BY <3>3, <4>1
    <3>5. (IF j < k THEN j ELSE j + 1) \in DOMAIN q
      BY <3>2, <3>4
    <3>6. q[IF j < k THEN j ELSE j + 1].is_store = b
      BY <3>3, <3>4
    <3>7. QED BY <3>5, <3>6
  <2>2. CASE ~TakesAccess(Head(pending_trace_q[t]))
    BY <1>3, <2>2 DEF PopHead
  <2>3. QED BY <2>1, <2>2
<1>4. is_store_or_amo_instruction(i) \in BOOLEAN
  BY DEF is_store_or_amo_instruction, writes_rd
<1>5. i' = i
  BY <1>1
<1>6. has_matching_memory_access(i)' => has_matching_memory_access(i)
  BY <1>3, <1>4, <1>5 DEF has_matching_memory_access
<1>7. WaitsForStore(i) => WaitsForStore(i)'
  BY <1>2, <1>5, <1>6 DEF WaitsForStore, must_wait_for_memory_access,
     is_load_instruction, is_store_or_amo_instruction, writes_rd
<1>8. WaitsForHint(u, i) => WaitsForHint(u, i)'
  BY <1>5 DEF WaitsForHint, needs_async_wb, has_matching_async_wb,
     MatchesHint, RightSource, is_load_instruction, is_div, writes_rd,
     needs_nb_load_async_wb
<1>9. QED BY <1>1, <1>7, <1>8 DEF Blocked

\* Nor does a thread wake when nothing its gates read changed.
LEMMA SameBlocked ==
  ASSUME NEW u \in Threads, Blocked(u),
         pending_trace_q'[u] = pending_trace_q[u],
         async_wb_q'[u] = async_wb_q[u],
         UNCHANGED <<pending_mem_access_q, stores>>
  PROVE  Blocked(u)'
BY DEF Blocked, stores, WaitsForStore, WaitsForHint, CoalescedStore,
   must_wait_for_memory_access, is_load_instruction,
   is_store_or_amo_instruction, has_matching_memory_access, needs_async_wb,
   has_matching_async_wb, MatchesHint, RightSource, is_div, writes_rd,
   needs_nb_load_async_wb

\* Every action keeps it.
LEMMA WakeupsStep ==
  TypeOK /\ StoreAccounting /\ Wakeups /\ [Next]_vars => Wakeups'
<1> SUFFICES ASSUME TypeOK, StoreAccounting, Wakeups, [Next]_vars,
                    Initialized', NEW u \in Threads
             PROVE  Blocked(u)' \/ \E k \in 1 .. Len(calls') : calls'[k] = u
  BY DEF Wakeups
<1> DEFINE Goal == Blocked(u)' \/ \E k \in 1 .. Len(calls') : calls'[k] = u
<1>0. TypeOK' /\ StoreAccounting'
  BY StepType, StoreAccountingStep
<1>1. ASSUME UNCHANGED <<queues, stores, calls>>, Initialized
      PROVE  Goal
  <2>1. CASE Blocked(u)
    BY <1>1, <2>1, SameBlocked DEF queues
  <2>2. CASE \E k \in 1 .. Len(calls) : calls[k] = u
    BY <1>1, <2>2
  <2>3. QED BY <1>1, <2>1, <2>2 DEF Wakeups
<1>2. CASE run_cosim_trace
  <2> DEFINE i == Head(trace_fifo)
  <2>1. /\ Initialized /\ calls = <<>> /\ calls' = <<i.tid>>
        /\ pending_trace_q' = [pending_trace_q EXCEPT ![i.tid] = Append(@, i)]
        /\ UNCHANGED <<async_wb_q, pending_mem_access_q, stores>>
    BY <1>2 DEF run_cosim_trace, Idle
  <2>2. CASE u = i.tid
    BY <2>1, <2>2
  <2>3. CASE u # i.tid
    <3>1. pending_trace_q'[u] = pending_trace_q[u]
      BY <2>1, <2>3 DEF TypeOK
    <3>2. Blocked(u)
      BY <2>1 DEF Wakeups
    <3>3. QED BY <2>1, <3>1, <3>2, SameBlocked
  <2>4. QED BY <2>2, <2>3
<1>3. CASE run_cosim_probe_async
  <2> DEFINE h == Head(dut_probe_fifo)
  <2>1. /\ Initialized /\ calls = <<>>
        /\ \/ UNCHANGED <<async_wb_q, calls>>
           \/ /\ async_wb_q' = [async_wb_q EXCEPT ![h.tid] = Append(@, h)]
              /\ calls' = <<h.tid>>
        /\ UNCHANGED <<pending_trace_q, pending_mem_access_q, stores>>
    BY <1>3 DEF run_cosim_probe_async, Idle
  <2>2. Blocked(u)
    BY <2>1 DEF Wakeups
  <2>3. CASE UNCHANGED <<async_wb_q, calls>>
    BY <2>1, <2>2, <2>3, SameBlocked
  <2>4. CASE u = h.tid /\ calls' = <<h.tid>>
    BY <2>4
  <2>5. CASE /\ u # h.tid
             /\ async_wb_q' = [async_wb_q EXCEPT ![h.tid] = Append(@, h)]
    <3>1. async_wb_q'[u] = async_wb_q[u]
      BY <2>5 DEF TypeOK
    <3>2. QED BY <2>1, <2>2, <3>1, SameBlocked
  <2>6. QED BY <2>1, <2>3, <2>4, <2>5
<1>4. CASE run_cosim_dmem
  <2>1. calls' = [k \in 1 .. NumThreads |-> k - 1]
    BY <1>4 DEF run_cosim_dmem, threads_to_drain
  <2>2. u + 1 \in 1 .. Len(calls') /\ calls'[u + 1] = u
    BY <2>1, ConstantsOK DEF Threads, ConstantsOK
  <2>3. QED BY <2>2
<1>5. ASSUME NEW t \in Threads, ProcessExit(t)
      PROVE  Goal
  <2>1. /\ calls # <<>> /\ Head(calls) = t /\ Blocked(t)
        /\ calls' = Tail(calls) /\ Initialized
        /\ UNCHANGED <<queues, stores>>
    BY <1>5 DEF ProcessExit, control, Initialized
  <2>2. CASE Blocked(u)
    BY <2>1, <2>2, SameBlocked DEF queues
  <2>3. CASE ~Blocked(u)
    <3>1. PICK k \in 1 .. Len(calls) : calls[k] = u
      BY <2>1, <2>3 DEF Wakeups
    <3>2. k # 1
      BY <2>1, <2>3, <3>1 DEF TypeOK
    <3>3. k - 1 \in 1 .. Len(calls') /\ calls'[k - 1] = u
      BY <2>1, <3>1, <3>2 DEF TypeOK
    <3>4. QED BY <3>3
  <2>4. QED BY <2>2, <2>3
<1>6. ASSUME NEW t \in Threads, compare_irq_only(t) \/ compare_instruction(t)
      PROVE  Goal
  <2>1. /\ Ready(t) /\ PopHead(t) /\ UNCHANGED store_axi_delivered
        /\ calls' = calls \/ phase' = "fatal"
        /\ \A v \in Threads : v # t => async_wb_q'[v] = async_wb_q[v]
    <3>1. CASE compare_irq_only(t)
      BY <3>1 DEF compare_irq_only
    <3>2. CASE compare_instruction(t)
      <4>1. /\ Ready(t) /\ PopHead(t) /\ UNCHANGED store_axi_delivered
            /\ calls' = calls \/ phase' = "fatal"
        BY <3>2 DEF compare_instruction
      <4>2. \/ async_wb_q' = async_wb_q
            \/ async_wb_q' = [async_wb_q EXCEPT ![t] =
                 WithoutHint(@, Head(pending_trace_q[t]))]
        BY <3>2 DEF compare_instruction
      <4>3. QED BY <4>1, <4>2 DEF TypeOK
    <3>3. QED BY <1>6, <3>1, <3>2
  <2>2. calls' = calls /\ Initialized
    <3>1. phase' \in {"reset", "run"}
      BY DEF Initialized
    <3>2. phase' = phase \/ phase' = "fatal"
      BY <1>6 DEF compare_irq_only, compare_instruction, control
    <3>3. QED BY <2>1, <3>1, <3>2 DEF Initialized
  <2>3. CASE \E k \in 1 .. Len(calls) : calls[k] = u
    BY <2>2, <2>3
  <2>4. CASE ~\E k \in 1 .. Len(calls) : calls[k] = u
    <3>1. Blocked(u)
      BY <2>2, <2>4 DEF Wakeups
    <3>2. u # t
      BY <2>1, <3>1 DEF Ready
    <3>3. async_wb_q'[u] = async_wb_q[u]
      BY <2>1, <3>2
    <3>4. QED BY <1>0, <2>1, <3>1, <3>2, <3>3, BlockedByOther
  <2>5. QED BY <2>3, <2>4
<1>7. CASE flush_state \/ init_cosim
  <2>1. pending_trace_q'[u] = <<>>
    BY <1>7 DEF flush_state, init_cosim, EmptyQueues
  <2>2. QED BY <2>1 DEF Blocked
<1>8. CASE Monitors \/ UNCHANGED vars
  BY <1>1, <1>8 DEF Monitors, TraceWrite, ProbeWrite, AxiWrite, vars, control,
     Initialized
<1>9. CASE report_phase
  BY <1>9 DEF report_phase, Initialized
<1>10. QED
  BY <1>2, <1>3, <1>4, <1>5, <1>6, <1>7, <1>8, <1>9 DEF Next, Consumers, Drain

\* When no function of the scoreboard runs, every queue is empty or its head
\* is held by a gate.
THEOREM NoMissedWakeupHolds == Spec => []NoMissedWakeup
<1>1. Init => Wakeups
  BY DEF Init, Wakeups, Blocked, EmptyQueues
<1>2. TypeOK /\ StoreAccounting /\ Wakeups /\ [Next]_vars => Wakeups'
  BY WakeupsStep
<1>3. TypeOK /\ Wakeups => NoMissedWakeup
  BY DEF Wakeups, NoMissedWakeup, Idle
<1>4. QED BY <1>1, <1>2, <1>3, TypeCorrect, StoreAccountingHolds, PTL DEF Spec

\* The pre-value of every set_mip is the mip Spike holds, across resets and
\* interrupt notifications.
THEOREM MipChainHolds == Spec => []MipChain
<1>1. Init => MipChain
  BY DEF Init, MipChain
<1>2. MipChain /\ [Next]_vars => MipChain'
  <2> SUFFICES ASSUME MipChain, [Next]_vars PROVE MipChain'
    OBVIOUS
  <2> USE DEF MipChain
  <2>1. CASE Monitors \/ Consumers \/ UNCHANGED vars
    BY <2>1 DEF Monitors, TraceWrite, ProbeWrite, AxiWrite, Consumers,
       run_cosim_trace, run_cosim_probe_async, run_cosim_dmem, mips, control,
       vars
  <2>2. ASSUME NEW t \in Threads, Drain(t) PROVE MipChain'
    <3>1. CASE ProcessExit(t)
      BY <3>1 DEF ProcessExit, mips, control
    <3>2. CASE compare_irq_only(t)
      BY <3>2 DEF compare_irq_only, NotifySpike, control
    <3>3. CASE compare_instruction(t)
      BY <3>3 DEF compare_instruction, NotifySpike
    <3>4. QED BY <2>2, <3>1, <3>2, <3>3 DEF Drain
  <2>3. CASE flush_state \/ init_cosim \/ report_phase
    BY <2>3 DEF flush_state, init_cosim, report_phase
  <2>4. QED BY <2>1, <2>2, <2>3 DEF Next
<1>3. QED BY <1>1, <1>2, PTL DEF Spec

-----------------------------------------------------------------------------
(* Hints.                                                                  *)

\* What a comparison does with the hints of its thread.
LEMMA ConsumedHint ==
  ASSUME TypeOK, NEW t \in Threads, compare_instruction(t),
         has_matching_async_wb(t, Head(pending_trace_q[t]))
  PROVE  \E k \in DOMAIN async_wb_q[t] :
           LET h == async_wb_q[t][k]
               i == Head(pending_trace_q[t])
           IN  /\ MatchesHint(i, h)
               /\ async_wb_q'[t] = RemoveAt(async_wb_q[t], k)
               /\ dpi'.wb = [reg |-> IF h.suppress THEN NoReg ELSE h.rd,
                             src |-> IF h.suppress THEN "none" ELSE "hint",
                             suppress |-> h.suppress]
<1> DEFINE i == Head(pending_trace_q[t])
           q == async_wb_q[t]
<1>1. q \in Seq(Hint) /\ DOMAIN q = 1 .. Len(q)
  BY DEF TypeOK
<1>2. \E k \in 1 .. Len(q) : MatchesHint(i, q[k])
  BY <1>1 DEF has_matching_async_wb
<1> HIDE DEF i, q
<1>3. PICK k \in 1 .. Len(q) : /\ MatchesHint(i, q[k])
                               /\ FirstHint(q, i) = q[k]
                               /\ WithoutHint(q, i) = RemoveAt(q, k)
  BY <1>1, <1>2, WithoutHintProperties
<1>4. async_wb_q' = [async_wb_q EXCEPT ![t] = WithoutHint(q, i)]
  BY DEF compare_instruction, i, q
<1>5. async_wb_q'[t] = RemoveAt(q, k)
  BY <1>3, <1>4 DEF TypeOK
<1>6. dpi'.wb = Writeback(t, i)
  BY DEF compare_instruction, i
<1>7. q[k].suppress \in BOOLEAN
  <2>1. q[k] \in Hint
    BY <1>1
  <2>2. QED BY <2>1 DEF Hint
<1>8. Writeback(t, i) = [reg |-> IF q[k].suppress THEN NoReg ELSE q[k].rd,
                         src |-> IF q[k].suppress THEN "none" ELSE "hint",
                         suppress |-> q[k].suppress]
  <2>1. has_matching_async_wb(t, i)
    BY DEF i
  <2>2. CASE q[k].suppress
    <3>1. FirstHint(async_wb_q[t], i).suppress
      BY <1>3, <2>2 DEF q
    <3>2. q[k].suppress = TRUE
      BY <1>7, <2>2
    <3>3. QED BY <2>1, <3>1, <3>2 DEF Writeback
  <2>3. CASE ~q[k].suppress
    <3>1. ~FirstHint(async_wb_q[t], i).suppress
            /\ FirstHint(async_wb_q[t], i).rd = q[k].rd
      BY <1>3, <2>3 DEF q
    <3>2. q[k].suppress = FALSE
      BY <1>7, <2>3
    <3>3. QED BY <2>1, <3>1, <3>2 DEF Writeback
  <2>4. QED BY <2>2, <2>3
<1>9. QED BY <1>1, <1>3, <1>5, <1>6, <1>8 DEF i, q

\* A DIV or non-blocking load is stepped with the hint of its unit and tag,
\* and a hint leaves the queue in no other way, a reset apart.
THEOREM HintDisciplineHolds == Spec => HintDiscipline
<1>1. ASSUME TypeOK, Next PROVE StepsWithOwnHint
  <2>1. ASSUME NEW t \in Threads, compare_instruction(t) PROVE StepsWithOwnHint
    <3> DEFINE i == Head(pending_trace_q[t])
    <3>1. Ready(t) /\ dpi'.tid = t /\ dpi'.item = i
      BY <2>1 DEF compare_instruction
    <3>2. SUFFICES ASSUME needs_async_wb(i) PROVE StepsWithOwnHint
      BY <3>1 DEF StepsWithOwnHint
    <3>3. has_matching_async_wb(t, i)
      BY <3>1, <3>2 DEF Ready, Blocked, WaitsForHint
    <3>4. PICK k \in DOMAIN async_wb_q[t] :
            /\ MatchesHint(i, async_wb_q[t][k])
            /\ async_wb_q'[t] = RemoveAt(async_wb_q[t], k)
            /\ dpi'.wb = [reg |-> IF async_wb_q[t][k].suppress
                                  THEN NoReg ELSE async_wb_q[t][k].rd,
                          src |-> IF async_wb_q[t][k].suppress
                                  THEN "none" ELSE "hint",
                          suppress |-> async_wb_q[t][k].suppress]
      BY <1>1, <2>1, <3>3, ConsumedHint
    <3>5. /\ async_wb_q[t][k].wb_tag = i.wb_tag
          /\ async_wb_q[t][k].source = IF is_div(i) THEN "DIV" ELSE "NB_LOAD"
      BY <3>4 DEF MatchesHint, RightSource
    <3> HIDE DEF i
    <3>6. QED BY <3>1, <3>4, <3>5 DEF StepsWithOwnHint
  <2>2. CASE dpi' = NoCall \/ dpi'.call = "notify"
    BY <2>2 DEF NoCall, StepsWithOwnHint
  <2>3. \/ dpi' = NoCall \/ dpi'.call = "notify"
        \/ \E t \in Threads : compare_instruction(t)
    BY <1>1 DEF Next, Monitors, TraceWrite, ProbeWrite,
       AxiWrite, Consumers, run_cosim_trace, run_cosim_probe_async,
       run_cosim_dmem, Drain, ProcessExit, compare_irq_only, flush_state,
       init_cosim, report_phase
  <2>4. QED BY <2>1, <2>2, <2>3
<1>2. ASSUME TypeOK, Next, NEW u \in Threads PROVE LosesNoHint(u)
  <2> USE DEF LosesNoHint
  <2>1. ASSUME NEW t \in Threads, compare_instruction(t) PROVE LosesNoHint(u)
    <3> DEFINE i == Head(pending_trace_q[t])
    <3>1. dpi'.call = "step" /\ dpi'.tid = t /\ dpi'.item = i
      BY <2>1 DEF compare_instruction
    <3>2. CASE u = t /\ has_matching_async_wb(t, i)
      <4>1. PICK k \in DOMAIN async_wb_q[t] :
              MatchesHint(i, async_wb_q[t][k])
        BY <3>2 DEF has_matching_async_wb
      <4>2. i.kind \in {"div", "load", "cmem", "lr"}
        BY <4>1 DEF MatchesHint, RightSource, is_div, is_load_instruction
      <4>3. QED BY <3>1, <3>2, <4>2
    <3>3. CASE ~(u = t /\ has_matching_async_wb(t, i))
      <4>1. async_wb_q'[u] = async_wb_q[u]
        BY <1>2, <2>1, <3>3 DEF compare_instruction, TypeOK
      <4>2. QED BY <1>2, <4>1 DEF TypeOK
    <3>4. QED BY <3>2, <3>3
  <2>2. CASE run_cosim_probe_async
    <3> DEFINE h == Head(dut_probe_fifo)
    <3>1. h \in Hint
      BY <1>2, <2>2 DEF run_cosim_probe_async, TypeOK
    <3>2. \/ async_wb_q' = async_wb_q
          \/ async_wb_q' = [async_wb_q EXCEPT ![h.tid] = Append(@, h)]
      BY <2>2 DEF run_cosim_probe_async
    <3> HIDE DEF h
    <3>3. \/ async_wb_q'[u] = async_wb_q[u]
          \/ async_wb_q'[u] = Append(async_wb_q[u], h)
      BY <1>2, <3>2 DEF TypeOK
    <3>4. QED BY <1>2, <3>1, <3>3 DEF TypeOK
  <2>3. CASE UNCHANGED async_wb_q
    BY <1>2, <2>3 DEF TypeOK
  <2>4. CASE flush_state \/ init_cosim
    BY <2>4 DEF flush_state, init_cosim
  <2>5. QED BY <1>2, <2>1, <2>2, <2>3, <2>4 DEF Next, Monitors, TraceWrite,
     ProbeWrite, AxiWrite, Consumers, run_cosim_trace, run_cosim_dmem, Drain,
     ProcessExit, compare_irq_only, report_phase, queues
<1>3. TypeOK /\ [Next]_vars
        => [StepsWithOwnHint /\ \A t \in Threads : LosesNoHint(t)]_vars
  BY <1>1, <1>2
<1>4. QED BY <1>3, TypeCorrect, PTL DEF Spec, HintDiscipline
-----------------------------------------------------------------------------
(* Refinement of Lockstep: what a FIFO holds of one hart.                  *)

\* Ranks number the elements of a finite set in their order.
LEMMA Ranks ==
  ASSUME NEW P \in SUBSET Nat, IsFiniteSet(P)
  PROVE  /\ Cardinality(P) \in Nat
         /\ \A k \in P : RankIn(P, k) \in 1 .. Cardinality(P)
         /\ \A k \in P : \A j \in P : j < k => RankIn(P, j) < RankIn(P, k)
<1> DEFINE Upto(k) == {j \in P : j <= k}
<1>1. \A k \in P : /\ Upto(k) \in SUBSET P /\ IsFiniteSet(Upto(k))
                   /\ RankIn(P, k) = Cardinality(Upto(k))
                   /\ RankIn(P, k) \in Nat /\ RankIn(P, k) <= Cardinality(P)
  <2> SUFFICES ASSUME NEW k \in P
               PROVE  /\ Upto(k) \in SUBSET P /\ IsFiniteSet(Upto(k))
                      /\ RankIn(P, k) = Cardinality(Upto(k))
                      /\ RankIn(P, k) \in Nat /\ RankIn(P, k) <= Cardinality(P)
    OBVIOUS
  <2>1. Upto(k) \in SUBSET P /\ RankIn(P, k) = Cardinality(Upto(k))
    BY DEF RankIn
  <2> HIDE DEF Upto
  <2>2. IsFiniteSet(Upto(k)) /\ Cardinality(Upto(k)) <= Cardinality(P)
    BY <2>1, FS_Subset
  <2>3. QED BY <2>1, <2>2, FS_CardinalityType
<1>2. Cardinality(P) \in Nat
  BY FS_CardinalityType
<1>3. \A k \in P : RankIn(P, k) # 0
  <2> SUFFICES ASSUME NEW k \in P, RankIn(P, k) = 0 PROVE FALSE
    OBVIOUS
  <2>1. k \in Upto(k)
    OBVIOUS
  <2> HIDE DEF Upto
  <2>2. QED BY <1>1, <2>1, FS_EmptySet
<1>4. ASSUME NEW k \in P, NEW j \in P, j < k
      PROVE  RankIn(P, j) < RankIn(P, k)
  <2>1. Upto(j) \in SUBSET Upto(k) /\ k \in Upto(k) /\ k \notin Upto(j)
    <3>1. \A x \in P : x \in Nat
      OBVIOUS
    <3>2. \A x \in P : x <= j => x <= k
      BY <1>4, <3>1
    <3>3. k <= k /\ ~(k <= j)
      BY <1>4, <3>1
    <3>4. QED BY <3>2, <3>3
  <2> HIDE DEF Upto
  <2>2. /\ Cardinality(Upto(j)) <= Cardinality(Upto(k))
        /\ Cardinality(Upto(k)) # Cardinality(Upto(j))
    BY <1>1, <2>1, FS_Subset
  <2>3. QED BY <1>1, <2>2
<1>5. \A k \in P : RankIn(P, k) \in 1 .. Cardinality(P)
  <2> SUFFICES ASSUME NEW k \in P PROVE RankIn(P, k) \in 1 .. Cardinality(P)
    OBVIOUS
  <2> HIDE DEF Upto
  <2>1. RankIn(P, k) \in Nat /\ RankIn(P, k) <= Cardinality(P)
    BY <1>1
  <2>2. RankIn(P, k) # 0
    BY <1>3
  <2>3. QED BY <1>2, <2>1, <2>2
<1>6. QED BY <1>2, <1>4, <1>5

\* Nth inverts the rank.
LEMMA NthOfRank ==
  ASSUME NEW P \in SUBSET Nat, IsFiniteSet(P)
  PROVE  /\ \A k \in P : Nth(P, RankIn(P, k)) = k
         /\ \A n \in 1 .. Cardinality(P) :
              Nth(P, n) \in P /\ RankIn(P, Nth(P, n)) = n
<1> DEFINE N == 1 .. Cardinality(P)
           f == [k \in P |-> RankIn(P, k)]
<1>1. /\ Cardinality(P) \in Nat
      /\ \A k \in P : RankIn(P, k) \in N
      /\ \A k \in P : \A j \in P : j < k => RankIn(P, j) < RankIn(P, k)
  BY Ranks
<1>2. \A j, k \in P : RankIn(P, j) = RankIn(P, k) => j = k
  <2> SUFFICES ASSUME NEW j \in P, NEW k \in P, RankIn(P, j) = RankIn(P, k)
               PROVE  j = k
    OBVIOUS
  <2>1. RankIn(P, j) \in Nat /\ j \in Nat /\ k \in Nat
    BY <1>1
  <2>2. ~(j < k) /\ ~(k < j)
    BY <1>1, <2>1
  <2>3. QED BY <2>1, <2>2
<1>3. f \in Injection(P, N)
  BY <1>1, <1>2 DEF Injection, IsInjective
<1>4. IsFiniteSet(N) /\ Cardinality(N) = Cardinality(P)
  BY <1>1, FS_Interval
<1>5. f \in Surjection(P, N)
  <2> HIDE DEF f, N
  <2>1. QED BY <1>3, <1>4, FS_Injection
<1>6. \A n \in N : \E k \in P : RankIn(P, k) = n
  BY <1>5 DEF Surjection
<1>7. \A n \in N : Nth(P, n) \in P /\ RankIn(P, Nth(P, n)) = n
  BY <1>6 DEF Nth
<1>8. ASSUME NEW k \in P PROVE Nth(P, RankIn(P, k)) = k
  <2>1. /\ Nth(P, RankIn(P, k)) \in P
        /\ RankIn(P, Nth(P, RankIn(P, k))) = RankIn(P, k)
    BY <1>1, <1>7
  <2>2. QED BY <1>2, <2>1
<1>9. QED BY <1>7, <1>8

\* What a FIFO holds of one hart is a sequence, as long as there are positions.
LEMMA OfHartType ==
  ASSUME NEW S, NEW q \in Seq(S), NEW t
  PROVE  /\ PositionsOf(q, t) \in SUBSET Nat /\ IsFiniteSet(PositionsOf(q, t))
         /\ Cardinality(PositionsOf(q, t)) \in Nat
         /\ OfHart(q, t) \in Seq(S)
         /\ Len(OfHart(q, t)) = Cardinality(PositionsOf(q, t))
         /\ \A k \in PositionsOf(q, t) :
              /\ RankIn(PositionsOf(q, t), k) \in 1 .. Len(OfHart(q, t))
              /\ OfHart(q, t)[RankIn(PositionsOf(q, t), k)] = q[k]
         /\ \A n \in 1 .. Len(OfHart(q, t)) : \E k \in PositionsOf(q, t) :
              n = RankIn(PositionsOf(q, t), k)
<1> DEFINE P == PositionsOf(q, t)
<1>1. P \subseteq 1 .. Len(q) /\ P \in SUBSET Nat
  BY DEF PositionsOf
<1>2. IsFiniteSet(P)
  BY <1>1, FS_Interval, FS_Subset
<1>3. OfHart(q, t) = [n \in 1 .. Cardinality(P) |-> q[Nth(P, n)]]
  BY DEF OfHart
<1> HIDE DEF P
<1>4. /\ Cardinality(P) \in Nat
      /\ \A k \in P : RankIn(P, k) \in 1 .. Cardinality(P)
      /\ \A k \in P : Nth(P, RankIn(P, k)) = k
      /\ \A n \in 1 .. Cardinality(P) : Nth(P, n) \in P /\ RankIn(P, Nth(P, n)) = n
  BY <1>1, <1>2, Ranks, NthOfRank
<1>5. \A n \in 1 .. Cardinality(P) : q[Nth(P, n)] \in S
  <2>1. \A k \in P : q[k] \in S
    BY <1>1
  <2>2. QED BY <1>4, <2>1
<1>6. OfHart(q, t) \in Seq(S) /\ Len(OfHart(q, t)) = Cardinality(P)
  <2> DEFINE c == Cardinality(P)
             at(n) == q[Nth(P, n)]
  <2>1. OfHart(q, t) = [n \in 1 .. c |-> at(n)] /\ c \in Nat
          /\ \A n \in 1 .. c : at(n) \in S
    BY <1>3, <1>4, <1>5
  <2> HIDE DEF c, at
  <2>2. OfHart(q, t) \in Seq(S) /\ Len(OfHart(q, t)) = c
    BY <2>1
  <2>3. QED BY <2>2 DEF c
<1>7. \A k \in P : OfHart(q, t)[RankIn(P, k)] = q[k]
  BY <1>3, <1>4
<1>8. QED BY <1>1, <1>2, <1>4, <1>6, <1>7 DEF P

LEMMA OfHartEmpty == ASSUME NEW t PROVE OfHart(<<>>, t) = <<>>
<1>1. PositionsOf(<<>>, t) = {}
  BY DEF PositionsOf
<1>2. Cardinality(PositionsOf(<<>>, t)) = 0
  BY <1>1, FS_EmptySet
<1>3. QED BY <1>2 DEF OfHart

\* An instruction that arrives is the last of its hart.
LEMMA OfHartAppend ==
  ASSUME NEW S, NEW q \in Seq(S), NEW x \in S, NEW t
  PROVE  OfHart(Append(q, x), t) =
           IF x.tid = t THEN Append(OfHart(q, t), x) ELSE OfHart(q, t)
<1> DEFINE r == Append(q, x)
           m == Len(q) + 1
           P == PositionsOf(q, t)
           R == PositionsOf(r, t)
           a == OfHart(q, t)
           b == OfHart(r, t)
           c == Cardinality(P)
<1>1. r \in Seq(S) /\ DOMAIN r = DOMAIN q \cup {m} /\ r[m] = x
        /\ \A k \in DOMAIN q : r[k] = q[k] /\ k \in Nat /\ k < m
  OBVIOUS
<1>2. R = (IF x.tid = t THEN P \cup {m} ELSE P) /\ P \subseteq DOMAIN q
  <2> HIDE DEF r, m
  <2>1. QED BY <1>1 DEF PositionsOf
<1>3. m \in Nat /\ m \notin P /\ \A k \in P : r[k] = q[k] /\ k \in Nat /\ k < m
  <2>1. m \in Nat
    OBVIOUS
  <2> HIDE DEF r, m, P
  <2>2. QED BY <1>1, <1>2, <2>1
<1>4. /\ IsFiniteSet(P) /\ c \in Nat /\ P \in SUBSET Nat
      /\ a \in Seq(S) /\ Len(a) = c
      /\ \A k \in P : RankIn(P, k) \in 1 .. Len(a) /\ a[RankIn(P, k)] = q[k]
      /\ \A n \in 1 .. Len(a) : \E k \in P : n = RankIn(P, k)
  BY OfHartType
<1>5. /\ IsFiniteSet(R) /\ Cardinality(R) \in Nat
      /\ b \in Seq(S) /\ Len(b) = Cardinality(R)
      /\ \A k \in R : b[RankIn(R, k)] = r[k]
  <2> HIDE DEF r
  <2>1. QED BY <1>1, OfHartType
<1> HIDE DEF r, m, P, R, a, b, c
<1>6. CASE x.tid # t
  <2>1. R = P
    BY <1>2, <1>6
  <2>2. Len(b) = Len(a)
    BY <1>4, <1>5, <2>1 DEF c
  <2>3. \A n \in 1 .. Len(a) : b[n] = a[n]
    <3>1. \A k \in P : b[RankIn(P, k)] = a[RankIn(P, k)]
      BY <1>3, <1>4, <1>5, <2>1
    <3>2. QED BY <1>4, <3>1
  <2>4. b = a
    BY <1>4, <1>5, <2>2, <2>3, SeqEqual
  <2>5. QED BY <1>6, <2>4 DEF a, b, r
<1>7. CASE x.tid = t
  <2>1. R = P \cup {m}
    BY <1>2, <1>7
  <2>2. Cardinality(R) = c + 1
    BY <1>3, <1>4, <2>1, FS_AddElement DEF c
  <2>3. \A k \in P : RankIn(R, k) = RankIn(P, k)
    <3>1. \A k \in P : {j \in R : j <= k} = {j \in P : j <= k}
      BY <1>3, <2>1
    <3>2. QED BY <3>1 DEF RankIn
  <2>4. RankIn(R, m) = c + 1
    <3>1. {j \in R : j <= m} = R
      BY <1>3, <2>1
    <3>2. QED BY <2>2, <3>1 DEF RankIn
  <2>5. \A n \in 1 .. Len(a) : b[n] = a[n]
    <3>1. \A k \in P : b[RankIn(P, k)] = a[RankIn(P, k)]
      BY <1>3, <1>4, <1>5, <2>1, <2>3
    <3>2. QED BY <1>4, <3>1
  <2>6. b[Len(a) + 1] = x
    <3>1. b[RankIn(R, m)] = r[m]
      BY <1>5, <2>1
    <3>2. QED BY <1>1, <1>4, <2>4, <3>1
  <2>7. Append(a, x) \in Seq(S) /\ Len(Append(a, x)) = Len(a) + 1
          /\ \A n \in 1 .. Len(a) : Append(a, x)[n] = a[n]
          /\ Append(a, x)[Len(a) + 1] = x
    BY <1>4
  <2>8. Len(b) = Len(a) + 1
    BY <1>4, <1>5, <2>2
  <2>9. b = Append(a, x)
    <3>1. \A n \in 1 .. Len(b) : b[n] = Append(a, x)[n]
      <4>1. \A n \in 1 .. Len(b) : n \in 1 .. Len(a) \/ n = Len(a) + 1
        BY <1>4, <2>8
      <4>2. QED BY <2>5, <2>6, <2>7, <4>1
    <3>2. QED BY <1>5, <2>7, <2>8, <3>1, SeqEqual
  <2>10. QED BY <1>7, <2>9 DEF a, b, r
<1>8. QED BY <1>6, <1>7

\* T shifted by one.
Shift(T) == {k + 1 : k \in T}

LEMMA ShiftFinite ==
  ASSUME NEW T \in SUBSET Nat, IsFiniteSet(T)
  PROVE  IsFiniteSet(Shift(T)) /\ Cardinality(Shift(T)) = Cardinality(T)
<1> DEFINE f == [k \in T |-> k + 1]
<1>1. \A k \in T : k \in Nat
  OBVIOUS
<1>2. f \in Bijection(T, Shift(T))
  <2>1. f \in [T -> Shift(T)]
    BY DEF Shift
  <2>2. \A j, k \in T : f[j] = f[k] => j = k
    BY <1>1
  <2>3. \A m \in Shift(T) : \E k \in T : f[k] = m
    BY DEF Shift
  <2>4. QED BY <2>1, <2>2, <2>3 DEF Bijection, Injection, Surjection, IsInjective
<1>3. ExistsBijection(T, Shift(T))
  BY <1>2 DEF ExistsBijection
<1>4. QED BY <1>3, FS_Bijection

\* The first instruction of a FIFO is the first of its hart.
LEMMA OfHartTail ==
  ASSUME NEW S, NEW q \in Seq(S), q # <<>>, NEW t
  PROVE  OfHart(q, t) = IF Head(q).tid = t
                        THEN <<Head(q)>> \o OfHart(Tail(q), t)
                        ELSE OfHart(Tail(q), t)
<1> DEFINE r == Tail(q)
           P == PositionsOf(q, t)
           R == PositionsOf(r, t)
           a == OfHart(q, t)
           b == OfHart(r, t)
           A == IF Head(q).tid = t THEN {1} ELSE {}
           d == IF Head(q).tid = t THEN 1 ELSE 0
<1>1. /\ r \in Seq(S) /\ Len(r) = Len(q) - 1 /\ Len(q) \in Nat \ {0}
      /\ Head(q) = q[1] /\ Head(q) \in S
      /\ \A k \in 1 .. Len(r) : r[k] = q[k + 1]
  OBVIOUS
<1>2. /\ DOMAIN q = {1} \cup Shift(DOMAIN r) /\ 1 \notin Shift(DOMAIN r)
      /\ \A k \in DOMAIN r : k \in Nat /\ k >= 1 /\ r[k] = q[k + 1]
  <2>1. DOMAIN q = 1 .. Len(q) /\ DOMAIN r = 1 .. Len(q) - 1
    BY <1>1
  <2>2. \A m \in 1 .. Len(q) : m = 1 \/ m - 1 \in 1 .. Len(q) - 1
    BY <1>1
  <2>3. \A k \in 1 .. Len(q) - 1 : k + 1 \in 1 .. Len(q) /\ k \in Nat /\ k >= 1
    BY <1>1
  <2>4. 1 \in 1 .. Len(q)
    BY <1>1
  <2> HIDE DEF r
  <2>5. \A m \in 1 .. Len(q) : m - 1 + 1 = m
    BY <1>1
  <2>6. 1 .. Len(q) \subseteq {1} \cup Shift(1 .. Len(q) - 1)
    BY <2>2, <2>5 DEF Shift
  <2>7. {1} \cup Shift(1 .. Len(q) - 1) \subseteq 1 .. Len(q)
    BY <2>3, <2>4 DEF Shift
  <2>8. 1 \notin Shift(1 .. Len(q) - 1)
    BY <2>3 DEF Shift
  <2>9. QED BY <1>1, <2>1, <2>3, <2>6, <2>7, <2>8
<1>3. P = A \cup Shift(R) /\ R \subseteq DOMAIN r
  <2> HIDE DEF r
  <2>1. R \subseteq DOMAIN r
    BY DEF PositionsOf
  <2>2. \A k \in DOMAIN r : k \in R <=> k + 1 \in P
    BY <1>2 DEF PositionsOf, Shift
  <2>3. 1 \in P <=> Head(q).tid = t
    BY <1>1, <1>2 DEF PositionsOf
  <2>4. P \subseteq {1} \cup Shift(DOMAIN r)
    BY <1>2 DEF PositionsOf
  <2> HIDE DEF P, R
  <2>5. QED BY <2>1, <2>2, <2>3, <2>4 DEF Shift
<1>4. /\ IsFiniteSet(P) /\ Cardinality(P) \in Nat /\ P \in SUBSET Nat
      /\ a \in Seq(S) /\ Len(a) = Cardinality(P)
      /\ \A k \in P : a[RankIn(P, k)] = q[k]
  BY OfHartType
<1>5. /\ IsFiniteSet(R) /\ Cardinality(R) \in Nat /\ R \in SUBSET Nat
      /\ b \in Seq(S) /\ Len(b) = Cardinality(R)
      /\ \A k \in R : RankIn(R, k) \in 1 .. Len(b) /\ b[RankIn(R, k)] = r[k]
      /\ \A n \in 1 .. Len(b) : \E k \in R : n = RankIn(R, k)
  <2> HIDE DEF r
  <2>1. QED BY <1>1, OfHartType
<1> HIDE DEF r, P, R, a, b
<1>6. \A T \in SUBSET R : IsFiniteSet(T) /\ Cardinality(T) \in Nat
                          /\ Cardinality(A \cup Shift(T)) = Cardinality(T) + d
  <2> SUFFICES ASSUME NEW T \in SUBSET R
               PROVE  IsFiniteSet(T) /\ Cardinality(T) \in Nat
                        /\ Cardinality(A \cup Shift(T)) = Cardinality(T) + d
    OBVIOUS
  <2>1. IsFiniteSet(T) /\ Cardinality(T) \in Nat
    BY <1>5, FS_Subset, FS_CardinalityType
  <2>2. IsFiniteSet(Shift(T)) /\ Cardinality(Shift(T)) = Cardinality(T)
    <3>1. T \in SUBSET Nat
      BY <1>5
    <3>2. QED BY <2>1, <3>1, ShiftFinite
  <2>3. 1 \notin Shift(T)
    BY <1>2, <1>3 DEF Shift
  <2>4. CASE Head(q).tid = t
    <3>1. A \cup Shift(T) = Shift(T) \cup {1} /\ d = 1
      BY <2>4
    <3>2. QED BY <2>1, <2>2, <2>3, <3>1, FS_AddElement
  <2>5. CASE Head(q).tid # t
    <3>1. A \cup Shift(T) = Shift(T) /\ d = 0
      BY <2>5
    <3> HIDE DEF A, d
    <3>2. Cardinality(A \cup Shift(T)) = Cardinality(Shift(T))
      BY <3>1, Zenon
    <3>3. Cardinality(T) + d = Cardinality(T)
      BY <2>1, <3>1
    <3>4. QED BY <2>1, <2>2, <3>2, <3>3
  <2>6. QED BY <2>4, <2>5
<1>7. Len(a) = Len(b) + d
  <2>1. Cardinality(A \cup Shift(R)) = Cardinality(R) + d
    BY <1>6
  <2>2. QED BY <1>3, <1>4, <1>5, <2>1
<1>8. \A k \in R : RankIn(P, k + 1) = RankIn(R, k) + d /\ k + 1 \in P
  <2> SUFFICES ASSUME NEW k \in R
               PROVE  RankIn(P, k + 1) = RankIn(R, k) + d /\ k + 1 \in P
    OBVIOUS
  <2> DEFINE T == {j \in R : j <= k}
  <2>1. \A j \in R : j \in Nat /\ j >= 1 /\ (j + 1 <= k + 1 <=> j <= k)
    BY <1>2, <1>3
  <2>2. 1 <= k + 1
    BY <2>1
  <2>3. {j \in P : j <= k + 1} = A \cup Shift(T)
    BY <1>3, <2>1, <2>2 DEF Shift
  <2>4. k + 1 \in P
    BY <1>3 DEF Shift
  <2>5. T \in SUBSET R
    OBVIOUS
  <2>6. RankIn(R, k) = Cardinality(T) /\ RankIn(P, k + 1) = Cardinality(A \cup Shift(T))
    BY <2>3 DEF RankIn
  <2> HIDE DEF T, A, d
  <2>7. QED BY <1>6, <2>4, <2>5, <2>6
<1>9. \A n \in 1 .. Len(b) : a[n + d] = b[n]
  <2> SUFFICES ASSUME NEW n \in 1 .. Len(b) PROVE a[n + d] = b[n]
    OBVIOUS
  <2>1. PICK k \in R : n = RankIn(R, k)
    BY <1>5
  <2>2. b[n] = r[k] /\ r[k] = q[k + 1]
    BY <1>2, <1>3, <1>5, <2>1
  <2>3. a[RankIn(P, k + 1)] = q[k + 1]
    BY <1>4, <1>8
  <2> HIDE DEF d
  <2>4. QED BY <1>8, <2>1, <2>2, <2>3
<1>10. CASE Head(q).tid # t
  <2>1. d = 0
    BY <1>10
  <2>2. Len(a) = Len(b) /\ \A n \in 1 .. Len(b) : a[n] = b[n]
    <3> HIDE DEF d
    <3>1. \A n \in 1 .. Len(b) : n + d = n
      BY <1>5, <2>1
    <3>2. QED BY <1>5, <1>7, <1>9, <2>1, <3>1
  <2>3. a = b
    BY <1>4, <1>5, <2>2, SeqEqual
  <2>4. QED BY <1>10, <2>3 DEF a, b, r
<1>11. CASE Head(q).tid = t
  <2>1. d = 1 /\ A = {1}
    BY <1>11
  <2>2. a[1] = Head(q)
    <3>1. 1 \in P
      BY <1>3, <2>1
    <3>2. {j \in P : j <= 1} = {1}
      <4>1. \A k \in R : ~(k + 1 <= 1)
        BY <1>2, <1>3
      <4>2. QED BY <1>3, <2>1, <4>1 DEF Shift
    <3>3. RankIn(P, 1) = 1
      BY <3>2, FS_Singleton DEF RankIn
    <3>4. QED BY <1>1, <1>4, <3>1, <3>3
  <2> DEFINE h == <<Head(q)>>
             c == h \o b
  <2>3. h \in Seq(S) /\ Len(h) = 1 /\ h[1] = Head(q)
    BY <1>1
  <2>4. /\ c \in Seq(S) /\ Len(c) = Len(b) + 1
        /\ \A n \in 1 .. 1 + Len(b) : c[n] = IF n <= 1 THEN h[n] ELSE b[n - 1]
    <3> HIDE DEF h
    <3>1. /\ c \in Seq(S) /\ Len(c) = Len(h) + Len(b)
          /\ \A n \in 1 .. Len(h) + Len(b) :
               c[n] = IF n <= Len(h) THEN h[n] ELSE b[n - Len(h)]
      BY <1>5, <2>3, ConcatProperties
    <3> HIDE DEF c
    <3>2. QED BY <1>5, <2>3, <3>1
  <2> HIDE DEF h, c, d, A
  <2>5. Len(a) = Len(c)
    BY <1>5, <1>7, <2>1, <2>4
  <2>6. \A n \in 1 .. Len(a) : a[n] = c[n]
    <3> SUFFICES ASSUME NEW n \in 1 .. Len(a) PROVE a[n] = c[n]
      OBVIOUS
    <3>1. CASE n = 1
      BY <1>5, <2>2, <2>3, <2>4, <3>1
    <3>2. CASE n # 1
      <4>1. n - 1 \in 1 .. Len(b) /\ n - 1 + 1 = n /\ ~(n <= 1) /\ n \in 1 .. 1 + Len(b)
        BY <1>5, <2>4, <2>5, <3>2
      <4>2. a[n - 1 + 1] = b[n - 1]
        BY <1>9, <2>1, <4>1
      <4>3. c[n] = b[n - 1]
        BY <2>4, <4>1
      <4>4. QED BY <4>1, <4>2, <4>3
    <3>3. QED BY <3>1, <3>2
  <2>7. a = c
    BY <1>4, <2>4, <2>5, <2>6, SeqEqual
  <2>8. QED BY <1>11, <2>7 DEF a, b, c, h, r
<1>12. QED BY <1>10, <1>11

\* Queues in a row.
LEMMA QueuesInARow ==
  ASSUME NEW S, NEW p \in Seq(S), NEW r \in Seq(S), NEW x \in S
  PROVE  /\ p \o r \in Seq(S)
         /\ p \o Append(r, x) = Append(p \o r, x)
         /\ p \o (<<x>> \o r) = Append(p, x) \o r
         /\ p # <<>> => /\ p \o r # <<>>
                        /\ Head(p \o r) = Head(p)
                        /\ Tail(p \o r) = Tail(p) \o r
<1>1. <<x>> \in Seq(S)
  OBVIOUS
<1>2. \A u \in Seq(S) : Append(u, x) = u \o <<x>> /\ Append(u, x) \in Seq(S)
  OBVIOUS
<1>3. p \o r \in Seq(S)
  BY ConcatProperties
<1>4. p \o (r \o <<x>>) = (p \o r) \o <<x>>
  BY <1>1, ConcatAssociative
<1>5. p \o (<<x>> \o r) = (p \o <<x>>) \o r
  BY <1>1, ConcatAssociative
<1>6. ASSUME p # <<>>
      PROVE  /\ p \o r # <<>> /\ Head(p \o r) = Head(p)
             /\ Tail(p \o r) = Tail(p) \o r
  <2>1. Head(p) \in S /\ Tail(p) \in Seq(S) /\ <<Head(p)>> \in Seq(S)
          /\ p = <<Head(p)>> \o Tail(p)
    BY <1>6
  <2>2. p \o r = <<Head(p)>> \o (Tail(p) \o r) /\ Tail(p) \o r \in Seq(S)
    BY <2>1, ConcatAssociative, ConcatProperties
  <2>3. \A h \in S : \A u \in Seq(S) :
          /\ <<h>> \o u # <<>> /\ Head(<<h>> \o u) = h /\ Tail(<<h>> \o u) = u
    OBVIOUS
  <2>4. QED BY <2>1, <2>2, <2>3
<1>7. QED BY <1>2, <1>3, <1>4, <1>5, <1>6

-----------------------------------------------------------------------------
(* Refinement of Lockstep: the steps.                                      *)

\* Under reset nothing is queued, and a function executes only while the
\* handle of the reference model is there.
NothingUnderReset ==
  /\ phase = "reset" => trace_fifo = <<>> /\ pending_trace_q = EmptyQueues
  /\ calls # <<>> => Initialized

LockstepInv == TypeOK /\ NothingUnderReset

\* A comparison takes place out of reset, of a queue that is not empty.
LEMMA ComparesInRun ==
  ASSUME LockstepInv, NEW t \in Threads, Ready(t)
  PROVE  phase = "run" /\ pending_trace_q[t] # <<>>
<1>1. pending_trace_q[t] # <<>> /\ calls # <<>>
  BY DEF Ready, Blocked
<1>2. phase # "reset"
  BY <1>1 DEF LockstepInv, NothingUnderReset, EmptyQueues
<1>3. QED BY <1>1, <1>2 DEF LockstepInv, NothingUnderReset, Initialized

LEMMA NothingUnderResetStep ==
  LockstepInv /\ [Next]_vars => NothingUnderReset'
<1> SUFFICES ASSUME LockstepInv, [Next]_vars PROVE NothingUnderReset'
  OBVIOUS
<1> USE DEF LockstepInv, NothingUnderReset, Initialized, Idle
<1>1. CASE Monitors
  BY <1>1 DEF Monitors, TraceWrite, ProbeWrite, AxiWrite, queues, control
<1>2. CASE run_cosim_trace
  BY <1>2 DEF run_cosim_trace, control
<1>3. CASE run_cosim_probe_async
  BY <1>3 DEF run_cosim_probe_async, control
<1>4. CASE run_cosim_dmem
  BY <1>4 DEF run_cosim_dmem, control
<1>5. ASSUME NEW t \in Threads, ProcessExit(t) PROVE NothingUnderReset'
  BY <1>5 DEF ProcessExit, fifos, queues, control
<1>6. ASSUME NEW t \in Threads, compare_irq_only(t) PROVE NothingUnderReset'
  <2>1. phase = "run" /\ calls' = calls /\ phase' = phase
    BY <1>6, ComparesInRun DEF compare_irq_only, control
  <2>2. QED BY <2>1
<1>7. ASSUME NEW t \in Threads, compare_instruction(t) PROVE NothingUnderReset'
  <2>1. phase = "run"
    BY <1>7, ComparesInRun DEF compare_instruction
  <2>2. \/ phase' = "fatal" /\ calls' = <<>>
        \/ phase' = phase /\ calls' = calls
    BY <1>7 DEF compare_instruction
  <2>3. QED BY <2>1, <2>2
<1>8. CASE flush_state
  BY <1>8 DEF flush_state
<1>9. CASE init_cosim
  BY <1>9 DEF init_cosim
<1>10. CASE report_phase
  BY <1>10 DEF report_phase
<1>11. CASE UNCHANGED vars
  BY <1>11 DEF vars, fifos, queues, control
<1>12. QED BY <1>1, <1>2, <1>3, <1>4, <1>5, <1>6, <1>7, <1>8, <1>9, <1>10,
              <1>11 DEF Next, Consumers, Drain

\* A step that changes no queue and no FIFO of instructions.
LEMMA BacklogSame ==
  ASSUME UNCHANGED <<pending_trace_q, trace_fifo>>
  PROVE  Backlogs' = Backlogs
BY DEF Backlogs, Backlog, OfHart, PositionsOf

LEMMA BacklogEmpty ==
  (trace_fifo = <<>> /\ pending_trace_q = EmptyQueues
     => Backlogs = [t \in Threads |-> <<>>])
  /\ (trace_fifo' = <<>> /\ pending_trace_q' = EmptyQueues
     => Backlogs' = [t \in Threads |-> <<>>])
<1>1. \A t \in Threads : EmptyQueues[t] \o OfHart(<<>>, t) = <<>>
  BY OfHartEmpty DEF EmptyQueues
<1>2. QED BY <1>1 DEF Backlogs, Backlog

\* A retired instruction joins the backlog of its hart.
LEMMA BacklogRetire ==
  ASSUME TypeOK, NEW i \in TraceItem, TraceWrite(i)
  PROVE  Backlogs' = [Backlogs EXCEPT ![i.tid] = Append(@, i)]
<1>1. /\ trace_fifo' = Append(trace_fifo, i) /\ pending_trace_q' = pending_trace_q
      /\ trace_fifo \in Seq(TraceItem) /\ i.tid \in Threads
      /\ \A t \in Threads : pending_trace_q[t] \in Seq(TraceItem)
  BY DEF TraceWrite, queues, TypeOK, TraceItem
<1>2. ASSUME NEW t \in Threads
      PROVE  Backlog(t)' = IF i.tid = t THEN Append(Backlog(t), i) ELSE Backlog(t)
  <2>1. OfHart(trace_fifo', t) =
          IF i.tid = t THEN Append(OfHart(trace_fifo, t), i) ELSE OfHart(trace_fifo, t)
    BY <1>1, OfHartAppend
  <2>2. pending_trace_q[t] \in Seq(TraceItem) /\ OfHart(trace_fifo, t) \in Seq(TraceItem)
    BY <1>1, OfHartType
  <2>3. pending_trace_q[t] \o Append(OfHart(trace_fifo, t), i)
          = Append(pending_trace_q[t] \o OfHart(trace_fifo, t), i)
    <3> DEFINE p == pending_trace_q[t]
               r == OfHart(trace_fifo, t)
    <3>1. p \in Seq(TraceItem) /\ r \in Seq(TraceItem)
      BY <2>2
    <3> HIDE DEF p, r
    <3>2. p \o Append(r, i) = Append(p \o r, i)
      BY <3>1, QueuesInARow
    <3>3. QED BY <3>2 DEF p, r
  <2>4. Backlog(t)' = pending_trace_q[t] \o OfHart(trace_fifo', t)
    BY <1>1 DEF Backlog
  <2>5. QED BY <2>1, <2>3, <2>4 DEF Backlog
<1>3. Backlogs' = [t \in Threads |-> Backlog(t)']
  BY DEF Backlogs
<1>4. QED BY <1>1, <1>2, <1>3 DEF Backlogs

\* Taking an instruction out of the FIFO does not change what is to compare.
LEMMA BacklogMove ==
  ASSUME TypeOK, run_cosim_trace
  PROVE  Backlogs' = Backlogs
<1> DEFINE i == Head(trace_fifo)
<1>1. /\ trace_fifo # <<>> /\ trace_fifo \in Seq(TraceItem)
      /\ i \in TraceItem /\ i.tid \in Threads
      /\ trace_fifo' = Tail(trace_fifo)
      /\ pending_trace_q' = [pending_trace_q EXCEPT ![i.tid] = Append(@, i)]
      /\ \A t \in Threads : pending_trace_q[t] \in Seq(TraceItem)
      /\ pending_trace_q \in [Threads -> Seq(TraceItem)]
  <2>1. trace_fifo # <<>> /\ trace_fifo \in Seq(TraceItem)
    BY DEF run_cosim_trace, TypeOK
  <2>2. i \in TraceItem
    BY <2>1
  <2>3. QED BY <2>1, <2>2 DEF run_cosim_trace, TypeOK, TraceItem
<1> HIDE DEF i
<1>2. ASSUME NEW t \in Threads PROVE Backlog(t)' = Backlog(t)
  <2>1. OfHart(trace_fifo, t) = IF i.tid = t THEN <<i>> \o OfHart(trace_fifo', t)
                                ELSE OfHart(trace_fifo', t)
    BY <1>1, OfHartTail DEF i
  <2>2. trace_fifo' \in Seq(TraceItem)
    BY <1>1
  <2>3. pending_trace_q[t] \in Seq(TraceItem) /\ OfHart(trace_fifo', t) \in Seq(TraceItem)
    BY <1>1, <2>2, OfHartType
  <2>4. pending_trace_q[t] \o (<<i>> \o OfHart(trace_fifo', t))
          = Append(pending_trace_q[t], i) \o OfHart(trace_fifo', t)
    <3> DEFINE p == pending_trace_q[t]
               r == OfHart(trace_fifo', t)
    <3>1. p \in Seq(TraceItem) /\ r \in Seq(TraceItem) /\ i \in TraceItem
      BY <1>1, <2>3
    <3> HIDE DEF p, r
    <3>2. p \o (<<i>> \o r) = Append(p, i) \o r
      BY <3>1, QueuesInARow
    <3>3. QED BY <3>2 DEF p, r
  <2>5. pending_trace_q'[t] = IF i.tid = t THEN Append(pending_trace_q[t], i)
                              ELSE pending_trace_q[t]
    BY <1>1
  <2>6. Backlog(t)' = pending_trace_q'[t] \o OfHart(trace_fifo', t)
    BY DEF Backlog
  <2>7. QED BY <2>1, <2>4, <2>5, <2>6 DEF Backlog
<1>3. Backlogs' = [t \in Threads |-> Backlog(t)']
  BY DEF Backlogs
<1>4. QED BY <1>2, <1>3 DEF Backlogs

\* A comparison takes the first of its hart.
LEMMA BacklogCompare ==
  ASSUME TypeOK, NEW t \in Threads, pending_trace_q[t] # <<>>, PopHead(t),
         trace_fifo' = trace_fifo
  PROVE  /\ Backlogs[t] # <<>>
         /\ Head(Backlogs[t]) = Head(pending_trace_q[t])
         /\ Backlogs' = [Backlogs EXCEPT ![t] = Tail(@)]
<1>1. /\ trace_fifo \in Seq(TraceItem)
      /\ \A s \in Threads : pending_trace_q[s] \in Seq(TraceItem)
      /\ pending_trace_q' = [pending_trace_q EXCEPT ![t] = Tail(@)]
      /\ pending_trace_q \in [Threads -> Seq(TraceItem)]
  BY DEF TypeOK, PopHead
<1>2. pending_trace_q[t] \in Seq(TraceItem) /\ OfHart(trace_fifo, t) \in Seq(TraceItem)
  BY <1>1, OfHartType
<1>3. /\ Backlog(t) # <<>> /\ Head(Backlog(t)) = Head(pending_trace_q[t])
      /\ Tail(Backlog(t)) = Tail(pending_trace_q[t]) \o OfHart(trace_fifo, t)
  <2> DEFINE p == pending_trace_q[t]
             r == OfHart(trace_fifo, t)
  <2>1. p \in Seq(TraceItem) /\ r \in Seq(TraceItem) /\ p # <<>>
          /\ Head(p) \in TraceItem
    BY <1>2
  <2> HIDE DEF p, r
  <2>2. p \o r # <<>> /\ Head(p \o r) = Head(p) /\ Tail(p \o r) = Tail(p) \o r
    BY <2>1, QueuesInARow
  <2>3. QED BY <2>2 DEF p, r, Backlog
<1>4. Backlog(t)' = Tail(Backlog(t))
  BY <1>1, <1>3 DEF Backlog
<1>5. ASSUME NEW s \in Threads, s # t PROVE Backlog(s)' = Backlog(s)
  BY <1>1, <1>5 DEF Backlog
<1>6. Backlogs' = [s \in Threads |-> Backlog(s)']
  BY DEF Backlogs
<1>7. QED BY <1>3, <1>4, <1>5, <1>6 DEF Backlogs

LEMMA RetireRefines ==
  ASSUME LockstepInv, NEW i \in TraceInputs, TraceWrite(i)
  PROVE  Promise!Retire(i)
<1>1. i \in TraceItem
  BY ConstantsOK DEF ConstantsOK
<1>2. Backlogs' = [Backlogs EXCEPT ![i.tid] = Append(@, i)]
  BY <1>1, BacklogRetire DEF LockstepInv
<1>3. phase = "run" /\ UNCHANGED <<mismatch_count, step_count, phase, verdict>>
  BY DEF TraceWrite, result, control
<1>4. UNCHANGED <<NoMismatch, step_count > 0, phase, verdict>>
  BY <1>3 DEF NoMismatch
<1>5. QED BY <1>2, <1>3, <1>4 DEF Promise!Retire

\* What a comparison makes of the counters is what Lockstep allows.
LEMMA NotifyRefines ==
  ASSUME LockstepInv, NEW t \in Threads, compare_irq_only(t)
  PROVE  Promise!Check(t)
<1>1. /\ Ready(t) /\ PopHead(t) /\ trace_fifo' = trace_fifo
      /\ IrqOnly(Head(pending_trace_q[t]))
      /\ UNCHANGED <<step_count, phase, verdict>>
      /\ \E csr \in 0 .. 2 :
           mismatch_count' = [mismatch_count EXCEPT ![t] = @ + csr]
  BY DEF compare_irq_only, fifos, control
<1>2. phase = "run" /\ pending_trace_q[t] # <<>>
  BY <1>1, ComparesInRun
<1>3. /\ Backlogs[t] # <<>> /\ IrqOnly(Head(Backlogs[t]))
      /\ Backlogs' = [Backlogs EXCEPT ![t] = Tail(@)]
  BY <1>1, <1>2, BacklogCompare DEF LockstepInv
<1>4. NoMismatch' \in {NoMismatch, FALSE}
  <2>1. mismatch_count \in [Threads -> Nat]
    BY DEF LockstepInv, TypeOK
  <2>2. NoMismatch' => NoMismatch
    BY <1>1, <2>1 DEF NoMismatch
  <2>3. QED BY <2>2 DEF NoMismatch
<1>5. (step_count > 0)' = (step_count > 0 \/ ~IrqOnly(Head(Backlogs[t])))
  <2>1. step_count \in Nat
    BY DEF LockstepInv, TypeOK
  <2>2. (step_count > 0)' = (step_count > 0)
    BY <1>1
  <2>3. CASE step_count > 0
    BY <2>2, <2>3
  <2>4. CASE ~(step_count > 0)
    <3>1. (step_count > 0) = FALSE /\ (~IrqOnly(Head(Backlogs[t]))) = FALSE
      BY <1>3, <2>1, <2>4
    <3>2. QED BY <2>2, <3>1
  <2>5. QED BY <2>3, <2>4
<1>6. QED BY <1>1, <1>2, <1>3, <1>4, <1>5 DEF Promise!Check

LEMMA StepRefines ==
  ASSUME LockstepInv, NEW t \in Threads, compare_instruction(t)
  PROVE  Promise!Check(t)
<1> DEFINE wrong == IF WrongTag(t, Head(pending_trace_q[t])) THEN 1 ELSE 0
<1>1. /\ Ready(t) /\ PopHead(t) /\ trace_fifo' = trace_fifo
      /\ ~IrqOnly(Head(pending_trace_q[t]))
      /\ verdict' = verdict
  BY DEF compare_instruction, fifos
<1>2. PICK matched \in BOOLEAN, csr \in 0 .. 2 :
        /\ mismatch_count' = [mismatch_count EXCEPT ![t] =
             @ + wrong + (IF matched THEN 0 ELSE 1) + csr]
        /\ IF ~matched /\ FatalOnMismatch
           THEN phase' = "fatal" /\ step_count' = step_count
           ELSE phase' = phase /\ step_count' = step_count + 1
  BY DEF compare_instruction
<1>3. phase = "run" /\ pending_trace_q[t] # <<>>
  BY <1>1, ComparesInRun
<1>4. /\ Backlogs[t] # <<>> /\ ~IrqOnly(Head(Backlogs[t]))
      /\ Backlogs' = [Backlogs EXCEPT ![t] = Tail(@)]
  BY <1>1, <1>3, BacklogCompare DEF LockstepInv
<1>5. mismatch_count \in [Threads -> Nat] /\ step_count \in Nat /\ wrong \in {0, 1}
  BY DEF LockstepInv, TypeOK
<1> HIDE DEF wrong
<1>6. NoMismatch' \in {NoMismatch, FALSE}
  <2>1. NoMismatch' => NoMismatch
    BY <1>2, <1>5 DEF NoMismatch
  <2>2. QED BY <2>1 DEF NoMismatch
<1>7. CASE ~matched /\ FatalOnMismatch
  <2>1. phase' = "fatal" /\ step_count' = step_count
    BY <1>2, <1>7
  <2>2. ~NoMismatch'
    <3>1. mismatch_count'[t] = mismatch_count[t] + wrong + 1 + csr
      BY <1>2, <1>5, <1>7
    <3>2. mismatch_count'[t] # 0
      BY <1>2, <1>5, <3>1
    <3>3. QED BY <3>2 DEF NoMismatch
  <2>3. (step_count > 0)' = (step_count > 0)
    BY <2>1
  <2>4. QED BY <1>1, <1>3, <1>4, <1>6, <2>1, <2>2, <2>3 DEF Promise!Check
<1>8. CASE ~(~matched /\ FatalOnMismatch)
  <2>1. phase' = phase /\ step_count' = step_count + 1
    BY <1>2, <1>8
  <2>2. (step_count > 0)' = TRUE
    BY <1>5, <2>1
  <2>3. (step_count > 0)' = (step_count > 0 \/ ~IrqOnly(Head(Backlogs[t])))
    BY <1>4, <2>2
  <2>4. QED BY <1>1, <1>3, <1>4, <1>6, <2>1, <2>3 DEF Promise!Check
<1>9. QED BY <1>7, <1>8

\* Reset, start and report.
LEMMA ControlRefines ==
  ASSUME LockstepInv
  PROVE  /\ flush_state => Promise!Reset
         /\ init_cosim => Promise!Start
         /\ report_phase => Promise!Report
<1>1. ASSUME flush_state PROVE Promise!Reset
  <2>1. Backlogs' = [t \in Threads |-> <<>>]
    BY <1>1, BacklogEmpty DEF flush_state
  <2>2. UNCHANGED <<mismatch_count, step_count, verdict>>
          /\ phase = "run" /\ phase' = "reset"
    BY <1>1 DEF flush_state, result
  <2>3. UNCHANGED <<NoMismatch, step_count > 0, verdict>>
    BY <2>2 DEF NoMismatch
  <2>4. QED BY <2>1, <2>2, <2>3 DEF Promise!Reset
<1>2. ASSUME init_cosim PROVE Promise!Start
  <2>1. /\ phase = "reset" /\ phase' = "run" /\ verdict' = verdict
        /\ trace_fifo' = trace_fifo /\ pending_trace_q' = EmptyQueues
        /\ step_count' = 0 /\ mismatch_count' = Zeros
    BY <1>2 DEF init_cosim, fifos
  <2>2. trace_fifo = <<>> /\ pending_trace_q = EmptyQueues
    BY <2>1 DEF LockstepInv, NothingUnderReset
  <2>3. Backlogs' = Backlogs
    BY <2>1, <2>2, BacklogEmpty
  <2>4. NoMismatch' = TRUE
    BY <2>1 DEF NoMismatch, Zeros
  <2>5. (step_count > 0)' = FALSE
    BY <2>1
  <2>6. QED BY <2>1, <2>3, <2>4, <2>5 DEF Promise!Start
<1>3. ASSUME report_phase PROVE Promise!Report
  <2>1. /\ phase \in {"reset", "run"} /\ phase' = "done"
        /\ verdict' = Verdict
        /\ UNCHANGED <<pending_trace_q, trace_fifo, mismatch_count, step_count>>
    BY <1>3 DEF report_phase, Initialized, fifos, queues, result
  <2>2. Backlogs' = Backlogs
    BY <2>1, BacklogSame
  <2>3. UNCHANGED <<NoMismatch, step_count > 0>>
    BY <2>1 DEF NoMismatch
  <2>4. verdict' \in IF NoMismatch /\ step_count > 0 THEN {"PASS"}
                     ELSE {"FAIL", "silent"}
    BY <2>1 DEF Verdict
  <2>5. verdict' = "silent" => ~(step_count > 0)
    BY <2>1 DEF Verdict, SawSomething
  <2>6. QED BY <2>1, <2>2, <2>3, <2>4, <2>5 DEF Promise!Report
<1>4. QED BY <1>1, <1>2, <1>3

\* A step that changes nothing Lockstep sees.
LEMMA Unseen ==
  ASSUME Backlogs' = Backlogs,
         UNCHANGED <<mismatch_count, step_count, phase, verdict>>
  PROVE  UNCHANGED Promise!vars
<1>1. UNCHANGED <<NoMismatch, step_count > 0>>
  BY DEF NoMismatch
<1>2. QED BY <1>1 DEF Promise!vars

LEMMA StepRefinesLockstep ==
  LockstepInv /\ [Next]_vars => [Promise!Next]_(Promise!vars)
<1> SUFFICES ASSUME LockstepInv, [Next]_vars
             PROVE  Promise!Next \/ UNCHANGED Promise!vars
  OBVIOUS
<1>1. ASSUME NEW i \in TraceInputs, TraceWrite(i) PROVE Promise!Next
  BY <1>1, RetireRefines DEF Promise!Next
<1>2. ASSUME \/ \E h \in HintInputs : ProbeWrite(h)
             \/ \E a \in Access : AxiWrite(a)
             \/ run_cosim_probe_async \/ run_cosim_dmem
             \/ \E t \in Threads : ProcessExit(t)
             \/ UNCHANGED vars
      PROVE  UNCHANGED Promise!vars
  <2>1. UNCHANGED <<pending_trace_q, trace_fifo, mismatch_count, step_count,
                    phase, verdict>>
    BY <1>2 DEF ProbeWrite, AxiWrite, run_cosim_probe_async, run_cosim_dmem,
       ProcessExit, vars, fifos, queues, result, control
  <2>2. QED BY <2>1, BacklogSame, Unseen
<1>3. ASSUME run_cosim_trace PROVE UNCHANGED Promise!vars
  <2>1. UNCHANGED <<mismatch_count, step_count, phase, verdict>>
    BY <1>3 DEF run_cosim_trace, result, control
  <2>2. QED BY <1>3, <2>1, BacklogMove, Unseen DEF LockstepInv
<1>4. ASSUME NEW t \in Threads, compare_irq_only(t) \/ compare_instruction(t)
      PROVE  Promise!Next
  BY <1>4, NotifyRefines, StepRefines DEF Promise!Next
<1>5. ASSUME flush_state \/ init_cosim \/ report_phase PROVE Promise!Next
  BY <1>5, ControlRefines DEF Promise!Next
<1>6. QED BY <1>1, <1>2, <1>3, <1>4, <1>5 DEF Next, Monitors, Consumers, Drain

\* Every thread's instructions reach Spike once each and in retirement order,
\* however the gates hold them back and the processes interleave, and the
\* verdict is what was found: for any number of harts.
THEOREM LockstepRefined == Spec => ImplementsLockstep
<1>1. Init => Promise!Init
  <2> SUFFICES ASSUME Init PROVE Promise!Init
    OBVIOUS
  <2>1. Backlogs = [t \in Threads |-> <<>>]
    BY BacklogEmpty DEF Init
  <2>2. NoMismatch = TRUE
    BY DEF Init, NoMismatch, Zeros
  <2>3. (step_count > 0) = FALSE
    BY DEF Init
  <2>4. phase = "reset" /\ verdict = "none"
    BY DEF Init
  <2>5. QED BY <2>1, <2>2, <2>3, <2>4 DEF Promise!Init
<1>2. Init => NothingUnderReset
  BY DEF Init, NothingUnderReset, Initialized
<1>3. TypeOK /\ NothingUnderReset /\ [Next]_vars => NothingUnderReset'
  BY NothingUnderResetStep DEF LockstepInv
<1>4. Spec => []NothingUnderReset
  BY <1>2, <1>3, TypeCorrect, PTL DEF Spec
<1>5. TypeOK /\ NothingUnderReset /\ [Next]_vars => [Promise!Next]_(Promise!vars)
  BY StepRefinesLockstep DEF LockstepInv
<1>6. QED
  BY <1>1, <1>4, <1>5, TypeCorrect, PTL DEF Spec, ImplementsLockstep, Promise!Spec

=============================================================================
