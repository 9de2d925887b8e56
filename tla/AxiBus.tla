------------------------------- MODULE AxiBus -------------------------------
(***************************************************************************)
(* The LSU bus: the memory that serves it (axi4_slave_mem.sv), the error   *)
(* injector beside it (axi4_driver.sv) and the monitor that tells the      *)
(* scoreboard what was transferred (axi4_monitor.sv).                      *)
(*                                                                         *)
(* All of them act at the rising edge of one clock on what the wires held  *)
(* before it, so an edge is one step and what a process reads is unprimed. *)
(* Two things are left to the order in which the processes run: the mode   *)
(* the two halves of the injector assign at one edge, and whether a read   *)
(* sees the beat stored at the same edge.                                  *)
(*                                                                         *)
(* The core is external: it holds a request until it is taken, offers the  *)
(* data of a write with its address and takes every answer at once (its    *)
(* bready and rready are 1).  The bench resets it once, before the first   *)
(* step.                                                                   *)
(***************************************************************************)
EXTENDS Integers, Sequences

CONSTANTS
  LastAddr,        \* addresses of beats are 0 .. LastAddr
  Data,            \* contents of a beat
  Lens,            \* values of awlen and arlen: beats after the first
  RESPONSE_DELAY,  \* cycles before an answer, 0 in the bench
  Injects          \* what should_inject_error may return

Addrs == 0 .. LastAddr
Errors == {"SLVERR", "DECERR"}
Resps == {"OKAY"} \cup Errors

ASSUME BusConstantsOK ==
  /\ LastAddr \in Nat
  /\ Data # {}
  /\ Lens \subseteq Nat
  /\ RESPONSE_DELAY \in Nat
  /\ Injects \subseteq BOOLEAN /\ Injects # {}

VARIABLES
  core,       \* requests on the AW, W and AR channels
  mem,        \* the memory array
  wr, rd,     \* the two state machines of the memory, with their outputs
  inject,     \* which half of the injector waits for an answer
  sideband,   \* error_inject_mode, force_bresp, force_rresp
  mon_w,      \* the write the monitor follows
  mon_r,      \* the read it follows, with the beats collected
  written,    \* the write it published at the last edge, if any
  was_read    \* the read it published at the last edge, if any

vars == <<core, mem, wr, rd, inject, sideband, mon_w, mon_r, written, was_read>>

-----------------------------------------------------------------------------
(* The core, external.                                                     *)

None == [valid |-> FALSE]
Requests == {q \in [valid : {TRUE}, addr : Addrs, len : Lens] :
               q.addr + q.len \in Addrs}
Beats(n) == [1 .. n + 1 -> Data]
bready == TRUE

\* Handshakes of the five channels.
AW == core.aw.valid /\ wr.awready
W  == core.w # <<>> /\ wr.wready
B  == wr.bvalid /\ bready
AR == core.ar.valid /\ rd.arready
R  == rd.rvalid

Core ==
  LET aw == IF AW THEN None ELSE core.aw
      w  == IF W THEN Tail(core.w) ELSE core.w
      ar == IF AR THEN None ELSE core.ar
  IN \E r \in IF ar = None THEN Requests \cup {None} ELSE {ar} :
       \/ core' = [aw |-> aw, w |-> w, ar |-> r]
       \/ /\ aw = None /\ w = <<>>
          /\ \E q \in Requests : \E d \in Beats(q.len) :
               core' = [aw |-> q, w |-> d, ar |-> r]

-----------------------------------------------------------------------------
(* The memory.                                                             *)

Response(forced) == IF sideband.mode THEN forced ELSE "OKAY"
calc_next_addr(addr) == addr + 1

\* Mutant: awready stays up while the data is taken.
write_idle_open ==
  /\ wr.state = "WR_IDLE"
  /\ wr' = IF AW
           THEN [wr EXCEPT !.state = "WR_DATA", !.addr = core.aw.addr,
                           !.wready = TRUE]
           ELSE [wr EXCEPT !.awready = TRUE]
  /\ UNCHANGED mem

write_idle ==
  /\ wr.state = "WR_IDLE"
  /\ wr' = IF AW
           THEN [wr EXCEPT !.state = "WR_DATA", !.addr = core.aw.addr,
                           !.awready = FALSE, !.wready = TRUE]
           ELSE [wr EXCEPT !.awready = TRUE]
  /\ UNCHANGED mem

write_data ==
  /\ wr.state = "WR_DATA"
  /\ IF ~W THEN UNCHANGED <<wr, mem>>
     ELSE /\ mem' = [mem EXCEPT ![wr.addr] = Head(core.w)]
          /\ wr' = IF Len(core.w) > 1
                   THEN [wr EXCEPT !.addr = calc_next_addr(@)]
                   ELSE IF RESPONSE_DELAY = 0
                   THEN [wr EXCEPT !.state = "WR_RESP", !.wready = FALSE,
                           !.bvalid = TRUE,
                           !.bresp = Response(sideband.force_bresp)]
                   ELSE [wr EXCEPT !.state = "WR_RESP", !.wready = FALSE,
                           !.delay = RESPONSE_DELAY]

\* bvalid is set, and cleared by the same edge when bready is high already.
write_resp ==
  /\ wr.state = "WR_RESP"
  /\ wr' = IF wr.delay > 0 THEN [wr EXCEPT !.delay = @ - 1]
           ELSE [wr EXCEPT !.bvalid = ~bready,
                   !.bresp = Response(sideband.force_bresp),
                   !.state = IF bready THEN "WR_IDLE" ELSE @]
  /\ UNCHANGED mem

SlaveWrite == write_idle \/ write_data \/ write_resp

\* What a read at this edge may find: read_mem and write_mem of the two state
\* machines run in either order.
read_mem(addr) == {mem[addr], mem'[addr]}

\* Mutant: the address register is read before it is loaded.
read_idle_stale ==
  /\ rd.state = "RD_IDLE"
  /\ IF ~AR THEN rd' = [rd EXCEPT !.arready = TRUE]
     ELSE LET taken == [rd EXCEPT !.arready = FALSE, !.addr = core.ar.addr,
                                  !.len = core.ar.len, !.beat_cnt = 0]
          IN \E d \in read_mem(rd.addr) :
               rd' = [taken EXCEPT !.state = "RD_DATA", !.rvalid = TRUE,
                        !.rdata = d, !.rlast = core.ar.len = 0,
                        !.rresp = Response(sideband.force_rresp)]

read_idle ==
  /\ rd.state = "RD_IDLE"
  /\ IF ~AR THEN rd' = [rd EXCEPT !.arready = TRUE]
     ELSE LET taken == [rd EXCEPT !.arready = FALSE, !.addr = core.ar.addr,
                                  !.len = core.ar.len, !.beat_cnt = 0]
          IN IF RESPONSE_DELAY = 0
             THEN \E d \in read_mem(core.ar.addr) :
                    rd' = [taken EXCEPT !.state = "RD_DATA", !.rvalid = TRUE,
                             !.rdata = d, !.rlast = core.ar.len = 0,
                             !.rresp = Response(sideband.force_rresp)]
             ELSE rd' = [taken EXCEPT !.state = "RD_WAIT",
                                      !.delay = RESPONSE_DELAY]

read_wait ==
  /\ rd.state = "RD_WAIT"
  /\ IF rd.delay > 0 THEN rd' = [rd EXCEPT !.delay = @ - 1]
     ELSE \E d \in read_mem(rd.addr) :
            rd' = [rd EXCEPT !.state = "RD_DATA", !.rvalid = TRUE, !.rdata = d,
                     !.rlast = rd.len = 0,
                     !.rresp = Response(sideband.force_rresp)]

\* Mutant: one beat too many.
read_data_long ==
  /\ rd.state = "RD_DATA"
  /\ IF rd.beat_cnt > rd.len
     THEN rd' = [rd EXCEPT !.state = "RD_IDLE", !.rvalid = FALSE,
                           !.rlast = FALSE]
     ELSE rd' = [rd EXCEPT !.beat_cnt = @ + 1]

\* The next beat is read at the address of the one just taken.
read_data ==
  /\ rd.state = "RD_DATA"
  /\ IF ~R THEN UNCHANGED rd
     ELSE IF rd.beat_cnt = rd.len
     THEN rd' = [rd EXCEPT !.state = "RD_IDLE", !.rvalid = FALSE,
                           !.rlast = FALSE]
     ELSE \E d \in read_mem(rd.addr) :
            rd' = [rd EXCEPT !.addr = calc_next_addr(@), !.rdata = d,
                     !.beat_cnt = @ + 1, !.rlast = rd.beat_cnt + 1 = rd.len]

SlaveRead == read_idle \/ read_wait \/ read_data

-----------------------------------------------------------------------------
(* The error injector: a half decides when a request is taken, and takes   *)
(* its decision back when the answer is.                                   *)

\* What a half of the injector does at an edge.
Half(waiting, request, answer) ==
  IF waiting THEN {IF answer THEN "clear" ELSE "wait"}
  ELSE IF request THEN {IF i THEN "force" ELSE "pass" : i \in Injects}
  ELSE {"pass"}

\* The mode is shared: what is assigned last at an edge stays.
Mode(steps) ==
  LET assigned == {s = "force" : s \in steps \cap {"force", "clear"}}
  IN IF assigned = {} THEN {sideband.mode} ELSE assigned

\* Mutant: only the mode is taken back.
Forced_kept(step, resp) == IF step = "force" THEN Errors ELSE {resp}

Forced(step, resp) ==
  CASE step = "force" -> Errors [] step = "clear" -> {"OKAY"} [] OTHER -> {resp}

Injector ==
  \E ws \in Half(inject.write, AW, B), rs \in Half(inject.read, AR, R /\ rd.rlast) :
    /\ inject' = [write |-> ws \in {"force", "wait"}, read |-> rs \in {"force", "wait"}]
    /\ \E m \in Mode({ws, rs}), b \in Forced(ws, sideband.force_bresp),
          r \in Forced(rs, sideband.force_rresp) :
         sideband' = [mode |-> m, force_bresp |-> b, force_rresp |-> r]

-----------------------------------------------------------------------------
(* The monitor.                                                            *)

Txn(req, data) == [addr |-> req.addr, data |-> data]

\* The request a process follows at this edge: the one it had, else the one
\* taken now.
Followed(req, taken, now) == IF req = None /\ taken THEN now ELSE req

\* Mutant: wready is not looked at.
monitor_writes_early ==
  LET req == Followed(mon_w, AW, core.aw)
  IN IF req # None /\ core.w # <<>>
     THEN /\ mon_w' = None
          /\ written' = <<Txn(req, [i \in 1 .. req.len + 1 |-> Head(core.w)])>>
     ELSE mon_w' = req /\ written' = <<>>

\* The first beat may be there at the edge of its address; the others are
\* looked for without waiting for an edge, so they are the first again.
monitor_writes ==
  LET req == Followed(mon_w, AW, core.aw)
  IN IF req # None /\ W
     THEN /\ mon_w' = None
          /\ written' = <<Txn(req, [i \in 1 .. req.len + 1 |-> Head(core.w)])>>
     ELSE mon_w' = req /\ written' = <<>>

\* Beats are looked for from the edge after the address on.
monitor_reads ==
  LET data == Append(mon_r.data, rd.rdata)
      Collect(req, beats, txns) ==
        mon_r' = [req |-> req, data |-> beats] /\ was_read' = txns
  IN IF mon_r.req = None
     THEN Collect(Followed(None, AR, core.ar), <<>>, <<>>)
     ELSE IF ~R THEN UNCHANGED mon_r /\ was_read' = <<>>
     ELSE IF Len(data) <= mon_r.req.len THEN Collect(mon_r.req, data, <<>>)
     ELSE Collect(None, <<>>, <<Txn(mon_r.req, data)>>)

-----------------------------------------------------------------------------
\* What a register holds before it is loaded is seen by nobody.
Init ==
  /\ core = [aw |-> None, w |-> <<>>, ar |-> None]
  /\ mem \in [Addrs -> Data]
  /\ wr = [state |-> "WR_IDLE", awready |-> FALSE, wready |-> FALSE,
           bvalid |-> FALSE, bresp |-> "OKAY", addr |-> 0, delay |-> 0]
  /\ rd = [state |-> "RD_IDLE", arready |-> FALSE, rvalid |-> FALSE,
           rlast |-> FALSE, rdata |-> mem[0], rresp |-> "OKAY", addr |-> 0,
           len |-> 0, beat_cnt |-> 0, delay |-> 0]
  /\ inject = [write |-> FALSE, read |-> FALSE]
  /\ sideband = [mode |-> FALSE, force_bresp |-> "OKAY", force_rresp |-> "OKAY"]
  /\ mon_w = None /\ mon_r = [req |-> None, data |-> <<>>]
  /\ written = <<>> /\ was_read = <<>>

clock_edge ==
  /\ Core
  /\ SlaveWrite /\ SlaveRead
  /\ Injector
  /\ monitor_writes /\ monitor_reads

Spec == Init /\ [][clock_edge]_vars
FairSpec == Spec /\ WF_vars(clock_edge)

-----------------------------------------------------------------------------
(* Properties.                                                             *)

Request == Requests \cup {None}

ATypeOK ==
  /\ core \in [aw : Request, w : Seq(Data), ar : Request]
  /\ mem \in [Addrs -> Data]
  /\ wr \in [state : {"WR_IDLE", "WR_DATA", "WR_RESP"}, awready : BOOLEAN,
             wready : BOOLEAN, bvalid : BOOLEAN, bresp : Resps, addr : Addrs,
             delay : 0 .. RESPONSE_DELAY]
  /\ rd \in [state : {"RD_IDLE", "RD_WAIT", "RD_DATA"}, arready : BOOLEAN,
             rvalid : BOOLEAN, rlast : BOOLEAN, rdata : Data, rresp : Resps,
             addr : Addrs, len : Lens \cup {0}, beat_cnt : Nat,
             delay : 0 .. RESPONSE_DELAY]
  /\ rd.beat_cnt <= rd.len
  /\ inject \in [write : BOOLEAN, read : BOOLEAN]
  /\ sideband \in [mode : BOOLEAN, force_bresp : Resps, force_rresp : Resps]
  /\ mon_w \in Request /\ mon_r \in [req : Request, data : Seq(Data)]
  /\ written \in Seq([addr : Addrs, data : Seq(Data)])
  /\ was_read \in Seq([addr : Addrs, data : Seq(Data)])

\* The monitor and the memory follow the wires each with a state machine of its
\* own, and neither looks at the other: what is published at an edge is what
\* the memory stored or handed over at this edge, at the address the memory
\* used, no transfer is missed and none is told twice (transfers of one beat,
\* as the core makes them).
MonitorFaithful ==
  [][/\ written' = IF W THEN <<[addr |-> wr.addr, data |-> <<Head(core.w)>>]>>
                   ELSE <<>>
     /\ was_read' = IF R THEN <<[addr |-> rd.addr, data |-> <<rd.rdata>>]>>
                    ELSE <<>>]_vars

\* axi4_driver.sv:17: a decision is taken back after the answer, so that the
\* next transaction is answered OKAY: the two halves of the injector share one
\* mode, and still an error is seen by no request that was not chosen.
ErrorsOnlyWhereChosen ==
  /\ wr.bvalid /\ wr.bresp # "OKAY" => inject.write
  /\ rd.rvalid /\ rd.rresp # "OKAY" => inject.read

\* Every request of the core is taken and answered, a write with its data, and
\* the monitor does not wait for ever for the beats of a read.
EveryRequestServed ==
  /\ core.aw.valid \/ core.w # <<>> ~> B
  /\ core.ar.valid \/ mon_r.req.valid ~> R /\ rd.rlast

\* tests/asm/directed_axi4_error_inject.S: a load chosen for an error gets one.
ReadErrorDelivered ==
  inject.read /\ rd.rvalid => rd.rresp # "OKAY"

\* axi4_driver.sv:15: likewise a store.
WriteErrorDelivered ==
  inject.write /\ wr.bvalid => wr.bresp # "OKAY"

-----------------------------------------------------------------------------
(* What the two state machines promise the core.                           *)

Stage(state, bvalid) ==
  CASE state = "WR_IDLE" -> "idle"
    [] state = "WR_DATA" -> "data"
    [] state = "WR_RESP" -> IF bvalid THEN "answering" ELSE "stored"

WriteView == [stage |-> Stage(wr.state, wr.bvalid), addr |-> wr.addr]

ReadView ==
  CASE rd.state = "RD_IDLE" -> [stage |-> "idle"]
    [] rd.state = "RD_WAIT" -> [stage |-> "accepted", addr |-> rd.addr, left |-> rd.len]
    [] rd.state = "RD_DATA" -> [stage |-> "offered", addr |-> rd.addr,
                                left |-> rd.len - rd.beat_cnt, beat |-> rd.rdata]

Memory == INSTANCE AxiMemory WITH write <- WriteView, read <- ReadView

\* The two state machines of the memory keep the promise of AxiMemory: every
\* write is stored at its address and answered before it is over, and every
\* read returns what the memory holds.
ImplementsMemory == Memory!Spec
=============================================================================
