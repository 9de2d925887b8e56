------------------------------ MODULE CosimLoop ------------------------------
(***************************************************************************)
(* The DPI calls the scoreboard makes for one instruction, in their order: *)
(* those of pop_matching_memory_access and compare_instruction,            *)
(* composed with the layer they go to (SpikeCosim).  CosimScoreboard says  *)
(* which instruction is compared when; here any item may be next.  The     *)
(* calls of one instruction are made by a function, so no other            *)
(* instruction comes between them; set_mcycle does nothing and is left     *)
(* out.                                                                    *)
(***************************************************************************)
EXTENDS SpikeCosim

CONSTANTS
  Items,       \* the instructions the scoreboard may compare
  MaxPending   \* bound on pending_dside_accesses of a hart before a notification

VARIABLES
  item,       \* the instruction of the calls under way, or of the last ones
  todo,       \* the calls still to be made for it
  prev_mip,   \* [Threads -> the mip last sent]
  judged      \* what the last step found and returned, for the properties

loop_vars == <<item, todo, prev_mip, judged>>
vars == <<spike_vars, loop_vars>>

\* irq_only: an interrupt notification.  fetch_error: ecause is 1.
Item == [tid : Threads, insn : Insns, write_reg : BOOLEAN, suppress : BOOLEAN,
         sync_trap : BOOLEAN, irq_only : BOOLEAN, fetch_error : BOOLEAN,
         debug_req : BOOLEAN, nmi : BOOLEAN, nmi_int : BOOLEAN,
         mip : SUBSET Irqs, accs : Seq(DutAccess)]

ASSUME LoopConstantsOK == Items \subseteq Item /\ MaxPending \in Nat

NoItem == [tid |-> 0]
NotJudged == [kind |-> "none"]

Call(name) == [op |-> name]

Notifications(i) ==
  [k \in DOMAIN i.accs |-> [op |-> "notify", access |-> i.accs[k]]]

\* Mutant: the messages of a failed step are not fetched and cleared.
OnFailure_silent == <<>>

\* get_cosim_error_str, which reads and clears the messages.
OnFailure == <<Call("clear_errors")>>

\* An interrupt notification is not stepped: its trap CSRs are compared with
\* what set_mip left.
Calls(i) ==
  Notifications(i)
    \o <<Call("set_debug_req"), Call("set_nmi"), Call("set_nmi_int"),
         Call("set_mip")>>
    \o (IF i.irq_only THEN <<>>
        ELSE (IF i.fetch_error THEN <<Call("set_iside_error")>> ELSE <<>>)
               \o <<Call("step")>>)

Pending(t) == pending_dside_accesses[t]
-----------------------------------------------------------------------------
AtRest == todo = <<>>
Next_is(op) == todo # <<>> /\ Head(todo).op = op
Made == todo' = Tail(todo) /\ UNCHANGED <<item, judged>>

Compare(i) ==
  /\ AtRest
  /\ Len(Pending(i.tid)) <= MaxPending
  /\ item' = i /\ todo' = Calls(i) /\ judged' = NotJudged
  /\ UNCHANGED <<spike_vars, prev_mip>>

CallNotify ==
  /\ Next_is("notify")
  /\ notify_dside_access(item.tid, Head(todo).access)
  /\ Made /\ UNCHANGED prev_mip

CallSetDebugReq ==
  /\ Next_is("set_debug_req")
  /\ set_debug_req(item.tid, item.debug_req)
  /\ Made /\ UNCHANGED prev_mip

CallSetNmi ==
  /\ Next_is("set_nmi")
  /\ set_nmi(item.tid, item.nmi, "nmi")
  /\ Made /\ UNCHANGED prev_mip

CallSetNmiInt ==
  /\ Next_is("set_nmi_int")
  /\ set_nmi(item.tid, item.nmi_int, "nmi_int")
  /\ Made /\ UNCHANGED prev_mip

CallSetMip ==
  /\ Next_is("set_mip")
  /\ set_mip(item.tid, prev_mip[item.tid], item.mip)
  /\ prev_mip' = [prev_mip EXCEPT ![item.tid] = item.mip]
  /\ Made

CallSetIsideError ==
  /\ Next_is("set_iside_error")
  /\ set_iside_error(item.tid)
  /\ Made /\ UNCHANGED prev_mip

\* What became of the instruction of the step.
StepKind(i, e) ==
  CASE i.insn = "debug_ebreak" -> "ebreak"
    [] i.insn # "debug_ebreak" /\ RefusesSuppress(i) -> "refused"
    [] OTHER -> e.kind

CallStep ==
  /\ Next_is("step")
  /\ \E e \in Event, result \in BOOLEAN :
       /\ step(item.tid, item, e, result)
       /\ todo' = IF result THEN <<>> ELSE OnFailure
       /\ judged' = [kind |-> StepKind(item, e), accs |-> e.accs,
                     result |-> result,
                     agree |-> e.pc_ok /\ (e.reg_ok \/ item.suppress)]
  /\ UNCHANGED <<item, prev_mip>>

CallClearErrors ==
  /\ Next_is("clear_errors")
  /\ clear_errors
  /\ Made /\ UNCHANGED prev_mip

\* A reset: init_cosim makes a new instance.
init_cosim ==
  /\ AtRest
  /\ ResetSpike
  /\ item' = NoItem /\ todo' = <<>> /\ judged' = NotJudged
  /\ prev_mip' = [t \in Threads |-> {}]

Init ==
  /\ InitSpike
  /\ item = NoItem /\ todo = <<>> /\ judged = NotJudged
  /\ prev_mip = [t \in Threads |-> {}]

Next == \/ \E i \in Items : Compare(i)
        \/ CallNotify \/ CallSetDebugReq
        \/ CallSetNmi \/ CallSetNmiInt \/ CallSetMip
        \/ CallSetIsideError \/ CallStep \/ CallClearErrors
        \/ init_cosim

Spec == Init /\ [][Next]_vars
-----------------------------------------------------------------------------
\* Every variable has the type of its declaration.  Documentation: checked by hand.
LoopTypeOK ==
  /\ SpikeTypeOK
  /\ prev_mip \in [Threads -> SUBSET Irqs]
  /\ item \in Items \cup {NoItem}
  /\ todo # <<>> => item \in Items

\* Between two instructions no message is left in `errors`, which the harts
\* share (spike_cosim.h:91): a step that returns `errors.size() == 0` (lines
\* 318 and 552 of spike_cosim.cc) is judged by its own messages only.
NoErrorLeftOver == AtRest => errors = 0

\* In NMI mode the stack holds the trap state the NMI interrupted, never that
\* of the NMI itself: set_nmi and set_nmi_int, called one after the other for
\* one pin (core_eh2_tb_top.sv:848-849), do not both save it.
NmiStackHoldsInterrupted ==
  \A t \in Threads :
    thread_state[t].nmi_mode => thread_state[t].mstack \notin {"nmi", "nmi_int"}

\* The calls for one hart leave the state of the other alone, although the
\* memory callbacks find their hart through one shared variable.
OwnHartOnly ==
  [][~AtRest => \A t \in Threads \ {item.tid} :
       /\ thread_state'[t] = thread_state[t]
       /\ pending_dside_accesses'[t] = pending_dside_accesses[t]
       /\ hart'[t] = hart[t]]_vars

\* A comparison of data accesses that fails never makes a step of an
\* instruction that retired as the DUT says fail (lines 426-436).
DsideFailureHarmless ==
  [][judged' # judged /\ judged'.kind = "retire" /\ judged'.agree
       /\ ~thread_state[item.tid].pending_iside_error
     => judged'.result]_vars

\* A read the bus widened to two words.
WidenedRead(q) == Len(q) = 2 /\ is_widened_load_pair(q)

\* The one access of the instruction agrees with one the DUT was seen to make.
OneAgrees(q, accs) ==
  Len(accs) = 1 /\ \E k \in DOMAIN q : Agrees(q[k], accs[1])

\* A load that finds in the queue only its own read, widened by the bus to two
\* words, leaves nothing behind for the next access to be compared with,
\* whichever of the words it is in (lines 1371-1381 and 1562-1581).
WidenedReadConsumedWhole ==
  [][judged' # judged /\ judged'.kind = "retire"
       /\ WidenedRead(Pending(item.tid))
       /\ OneAgrees(Pending(item.tid), judged'.accs)
       /\ ~judged'.accs[1].store
     => Pending(item.tid)' = <<>>]_vars

\* The store `a` is compared with the bus write `p`, and the bytes differ.
BytesDiffer(p, a) == /\ p.store /\ a.store /\ p.word = a.word
                     /\ a.be \subseteq p.be
                     /\ ~a.data_ok

\* What ADR-0005 and the comment at spike_cosim.cc:133 say of a store whose
\* bytes differ from those on the bus: the step reports it.
StoreDifferenceReported ==
  [][judged' # judged /\ judged'.kind = "retire"
       /\ Len(judged'.accs) = 1 /\ Pending(item.tid) # <<>>
       /\ BytesDiffer(Pending(item.tid)[1], judged'.accs[1])
     => ~judged'.result]_vars

\* The set_mip of a notification makes an enabled interrupt appear on a hart
\* that may take it.
NewInterrupt(t) ==
  /\ Next_is("set_mip") /\ item.tid = t /\ item.irq_only
  /\ ~Stopped(hart[t]) /\ hart[t].mie_on
  /\ hart[t].mip \cap hart[t].mie = {}
  /\ item.mip \cap hart[t].mie # {}

\* What cosim_cpp.rst:1174 says of set_mip: a new enabled interrupt is taken
\* at once, before the scoreboard reads mcause and mepc (lines 586-602).
NewInterruptTaken ==
  [][\A t \in Threads : NewInterrupt(t) => hart'[t].trap = "irq"]_vars
=============================================================================
