---------------------------- MODULE TestRunProofs ----------------------------
(***************************************************************************)
(* What holds of the bus as the bench builds it, with transfers of one     *)
(* beat and answers without delay, for any addresses, any data and any     *)
(* rate of injected errors; and of a simulation on that bus whose test has *)
(* the run phase of core_eh2_base_test, for any program and any log.       *)
(*                                                                         *)
(* Of the bus (first half): BusInv relates each machine with the           *)
(* handshakes it can take part in (WriteOK, ReadOK), the halves of the     *)
(* injector with the requests they wait for (InjectOK) and the monitor     *)
(* with the requests the memory serves (MonitorOK); none of these holds    *)
(* alone.                                                                  *)
(*                                                                         *)
(* Of the test (second half): RunInv says of each line of the log what the *)
(* program wrote (Logged, Honest), of the flag which write it stands for   *)
(* (FlagOK), and where the write of the token is while the test waits      *)
(* (DrainOK).                                                              *)
(***************************************************************************)
EXTENDS TestRun, TLAPS

-----------------------------------------------------------------------------
(***************************************************************************)
(* The bus                                                                 *)
(***************************************************************************)
\* The bench: core_eh2_tb_top.sv gives no RESPONSE_DELAY, the core no bursts.
Bench == Lens = {0} /\ RESPONSE_DELAY = 0

OneBeat(w) == w = <<>> \/ \E d \in Data : w = <<d>>

CoreOK ==
  /\ core = [aw |-> core.aw, w |-> core.w, ar |-> core.ar]
  /\ core.aw \in Request /\ core.ar \in Request
  /\ OneBeat(core.w)

WriteOK ==
  /\ mem \in [Addrs -> Data]
  /\ wr \in [state : {"WR_IDLE", "WR_DATA", "WR_RESP"}, awready : BOOLEAN,
             wready : BOOLEAN, bvalid : BOOLEAN, bresp : Resps, addr : Addrs,
             delay : {0}]
  /\ wr.awready => wr.state = "WR_IDLE"
  /\ wr.wready <=> wr.state = "WR_DATA"
  /\ wr.bvalid <=> wr.state = "WR_RESP"

ReadOK ==
  /\ rd \in [state : {"RD_IDLE", "RD_DATA"}, arready : BOOLEAN,
             rvalid : BOOLEAN, rlast : BOOLEAN, rdata : Data, rresp : Resps,
             addr : Addrs, len : {0}, beat_cnt : {0}, delay : {0}]
  /\ rd.arready => rd.state = "RD_IDLE"
  /\ rd.rvalid <=> rd.state = "RD_DATA"
  /\ rd.rlast <=> rd.state = "RD_DATA"

\* A forced value is there only while its half waits, and a half waits only
\* while the memory serves its request.
InjectOK ==
  /\ inject \in [write : BOOLEAN, read : BOOLEAN]
  /\ sideband \in [mode : BOOLEAN, force_bresp : Resps, force_rresp : Resps]
  /\ sideband.force_bresp # "OKAY" => inject.write
  /\ sideband.force_rresp # "OKAY" => inject.read
  /\ inject.write => wr.state # "WR_IDLE"
  /\ inject.read => rd.state # "RD_IDLE"
  /\ wr.bvalid /\ wr.bresp # "OKAY" => inject.write
  /\ rd.rresp = "OKAY"

\* The monitor follows the request the memory serves.
Following(req, addr) == req = [valid |-> TRUE, addr |-> addr, len |-> 0]

MonitorOK ==
  /\ IF wr.state = "WR_DATA" THEN Following(mon_w, wr.addr) ELSE mon_w = None
  /\ mon_r = [req |-> mon_r.req, data |-> <<>>]
  /\ IF rd.state = "RD_DATA" THEN Following(mon_r.req, rd.addr)
     ELSE mon_r.req = None

BusInv == CoreOK /\ WriteOK /\ ReadOK /\ InjectOK /\ MonitorOK

-----------------------------------------------------------------------------
(* Requests and beats.                                                     *)

LEMMA RequestFacts ==
  ASSUME Bench, NEW q \in Requests
  PROVE  /\ q.valid = TRUE /\ q.addr \in Addrs /\ q.len = 0
         /\ Following(q, q.addr)
<1>1. q \in [valid : {TRUE}, addr : Addrs, len : {0}]
  BY DEF Requests, Bench
<1>2. q = [valid |-> q.valid, addr |-> q.addr, len |-> q.len]
  BY <1>1
<1>3. q.valid = TRUE /\ q.addr \in Addrs /\ q.len = 0
  BY <1>1
<1> QED BY <1>2, <1>3 DEF Following

\* A request is told from none by its valid.
LEMMA NoneFacts ==
  ASSUME Bench
  PROVE  /\ None.valid = FALSE
         /\ \A q \in Request : q = None <=> ~q.valid
         /\ \A addr, q : Following(q, addr) => q # None /\ q.addr = addr /\ q.len = 0
<1>1. None.valid = FALSE
  BY DEF None
<1>2. ASSUME NEW q \in Request PROVE q = None <=> ~q.valid
  BY <1>1, <1>2, RequestFacts DEF Request
<1>3. ASSUME NEW addr, NEW q, Following(q, addr)
      PROVE  q # None /\ q.addr = addr /\ q.len = 0
  <2>1. q.valid = TRUE /\ q.addr = addr /\ q.len = 0
    BY <1>3 DEF Following
  <2> QED BY <1>1, <2>1
<1> QED BY <1>1, <1>2, <1>3

LEMMA BeatFacts ==
  ASSUME NEW d \in [1 .. 1 -> Data]
  PROVE  OneBeat(d)
<1>1. d = <<d[1]>>
  OBVIOUS
<1>2. d[1] \in Data
  OBVIOUS
<1> QED BY <1>1, <1>2 DEF OneBeat

LEMMA OneBeatFacts ==
  ASSUME NEW w, OneBeat(w), w # <<>>
  PROVE  w = <<Head(w)>> /\ Len(w) = 1 /\ Head(w) \in Data /\ Tail(w) = <<>>
<1>1. PICK d \in Data : w = <<d>>
  BY DEF OneBeat
<1> QED BY <1>1

-----------------------------------------------------------------------------
(* The core and the memory.                                                *)

LEMMA CoreStep ==
  ASSUME Bench, BusConstantsOK, CoreOK, Core
  PROVE  CoreOK'
<1> DEFINE aw == IF AW THEN None ELSE core.aw
           w  == IF W THEN Tail(core.w) ELSE core.w
           ar == IF AR THEN None ELSE core.ar
<1>1. aw \in Request /\ ar \in Request
  BY DEF CoreOK, Request
<1>2. OneBeat(w)
  <2>1. CASE W
    BY <2>1, OneBeatFacts DEF W, CoreOK, OneBeat
  <2>2. CASE ~W
    BY <2>2 DEF CoreOK
  <2> QED BY <2>1, <2>2
<1>3. PICK r \in IF ar = None THEN Requests \cup {None} ELSE {ar} :
        \/ core' = [aw |-> aw, w |-> w, ar |-> r]
        \/ /\ aw = None /\ w = <<>>
           /\ \E q \in Requests : \E d \in Beats(q.len) :
                core' = [aw |-> q, w |-> d, ar |-> r]
  BY Zenon DEF Core
<1>4. r \in Request
  BY <1>1, <1>3 DEF Request
<1>5. CASE core' = [aw |-> aw, w |-> w, ar |-> r]
  BY <1>1, <1>2, <1>4, <1>5 DEF CoreOK
<1>6. ASSUME NEW q \in Requests, NEW d \in Beats(q.len),
             core' = [aw |-> q, w |-> d, ar |-> r]
      PROVE  CoreOK'
  <2>1. OneBeat(d)
    <3>0. q.len = 0
      BY RequestFacts
    <3>1. q.len + 1 = 1
      BY <3>0
    <3>2. d \in [1 .. 1 -> Data]
      BY <3>1 DEF Beats
    <3> QED BY <3>2, BeatFacts
  <2>2. q \in Request
    BY DEF Request
  <2> QED BY <1>4, <1>6, <2>1, <2>2 DEF CoreOK
<1> QED BY <1>3, <1>5, <1>6

\* What the write machine does at an edge.
WriteMoves ==
  CASE wr.state = "WR_IDLE" ->
         /\ mem' = mem
         /\ IF AW THEN wr'.state = "WR_DATA" /\ wr'.addr = core.aw.addr
            ELSE wr'.state = "WR_IDLE" /\ wr'.addr = wr.addr
    [] wr.state = "WR_DATA" ->
         IF W THEN /\ wr'.state = "WR_RESP"
                   /\ wr'.bresp = Response(sideband.force_bresp)
                   /\ mem' = [mem EXCEPT ![wr.addr] = Head(core.w)]
         ELSE wr' = wr /\ mem' = mem
    [] wr.state = "WR_RESP" -> wr'.state = "WR_IDLE" /\ mem' = mem

LEMMA WriteStep ==
  ASSUME Bench, BusConstantsOK, CoreOK, WriteOK, InjectOK, SlaveWrite
  PROVE  WriteOK' /\ WriteMoves
<1>1. Response(sideband.force_bresp) \in Resps
  BY DEF Response, InjectOK, Resps
<1>2. CASE write_idle
  <2>1. AW => core.aw.addr \in Addrs
    BY RequestFacts, NoneFacts DEF AW, CoreOK, Request
  <2>2. mem' = mem
    BY <1>2 DEF write_idle
  <2> QED BY <1>2, <2>1, <2>2 DEF write_idle, WriteOK, WriteMoves
<1>3. CASE write_data
  <2>1. CASE ~W
    BY <1>3, <2>1 DEF write_data, WriteOK, WriteMoves
  <2>2. CASE W
    <3>1. Len(core.w) = 1 /\ Head(core.w) \in Data
      BY <2>2, OneBeatFacts DEF W, CoreOK
    <3>2. mem' = [mem EXCEPT ![wr.addr] = Head(core.w)]
      BY <1>3, <2>2 DEF write_data
    <3>3. wr' = [wr EXCEPT !.state = "WR_RESP", !.wready = FALSE, !.bvalid = TRUE,
                           !.bresp = Response(sideband.force_bresp)]
      BY <1>3, <2>2, <3>1 DEF write_data, Bench
    <3>4. mem' \in [Addrs -> Data]
      BY <3>1, <3>2 DEF WriteOK
    <3> QED BY <1>1, <1>3, <2>2, <3>2, <3>3, <3>4 DEF write_data, WriteOK, WriteMoves
  <2> QED BY <2>1, <2>2
<1>4. CASE write_resp
  <2>0. ~(wr.delay > 0)
    BY DEF WriteOK
  <2>1. wr' = [wr EXCEPT !.bvalid = FALSE,
                         !.bresp = Response(sideband.force_bresp),
                         !.state = "WR_IDLE"]
    BY <1>4, <2>0 DEF write_resp, bready
  <2>2. mem' = mem
    BY <1>4 DEF write_resp
  <2> QED BY <1>1, <1>4, <2>1, <2>2 DEF write_resp, WriteOK, WriteMoves
<1> QED BY <1>2, <1>3, <1>4 DEF SlaveWrite

\* What the read machine does at an edge.
ReadMoves ==
  IF rd.state = "RD_IDLE"
  THEN IF AR THEN /\ rd'.state = "RD_DATA" /\ rd'.addr = core.ar.addr
                  /\ rd'.rresp = Response(sideband.force_rresp)
                  /\ rd'.rdata \in read_mem(core.ar.addr)
       ELSE rd'.state = "RD_IDLE" /\ rd'.rresp = rd.rresp
  ELSE rd'.state = "RD_IDLE" /\ rd'.rresp = rd.rresp

LEMMA ReadStep ==
  ASSUME Bench, BusConstantsOK, CoreOK, WriteOK, WriteOK', ReadOK, InjectOK,
         SlaveRead
  PROVE  ReadOK' /\ ReadMoves
<1>1. Response(sideband.force_rresp) \in Resps
  BY DEF Response, InjectOK, Resps
<1>2. CASE read_idle
  <2>1. CASE ~AR
    <3>1. rd' = [rd EXCEPT !.arready = TRUE]
      BY <1>2, <2>1 DEF read_idle
    <3> QED BY <1>2, <2>1, <3>1 DEF read_idle, ReadOK, ReadMoves
  <2>2. CASE AR
    <3>1. core.ar.addr \in Addrs /\ core.ar.len = 0
      BY <2>2, RequestFacts, NoneFacts DEF AR, CoreOK, Request
    <3>2. PICK d \in read_mem(core.ar.addr) :
            rd' = [rd EXCEPT !.arready = FALSE, !.addr = core.ar.addr,
                     !.len = core.ar.len, !.beat_cnt = 0, !.state = "RD_DATA",
                     !.rvalid = TRUE, !.rdata = d, !.rlast = core.ar.len = 0,
                     !.rresp = Response(sideband.force_rresp)]
      BY <1>2, <2>2 DEF read_idle, Bench
    <3>3. d \in Data
      BY <3>1, <3>2 DEF read_mem, WriteOK
    <3> QED BY <1>1, <1>2, <2>2, <3>1, <3>2, <3>3 DEF read_idle, ReadOK, ReadMoves
  <2> QED BY <2>1, <2>2
<1>3. ~read_wait
  BY DEF read_wait, ReadOK
<1>4. CASE read_data
  <2>1. rd' = [rd EXCEPT !.state = "RD_IDLE", !.rvalid = FALSE, !.rlast = FALSE]
    BY <1>4 DEF read_data, ReadOK, R
  <2> QED BY <1>4, <2>1 DEF read_data, ReadOK, ReadMoves
<1> QED BY <1>2, <1>3, <1>4 DEF SlaveRead

-----------------------------------------------------------------------------
(* The error injector.                                                     *)

LEMMA HalfFacts ==
  ASSUME NEW waiting \in BOOLEAN, NEW request \in BOOLEAN, NEW answer \in BOOLEAN,
         NEW s \in Half(waiting, request, answer)
  PROVE  /\ s = "force" => ~waiting /\ request
         /\ s = "wait" <=> waiting /\ ~answer
         /\ s = "clear" <=> waiting /\ answer
BY DEF Half

LEMMA ForcedFacts ==
  ASSUME NEW step, NEW resp \in Resps, NEW f \in Forced(step, resp)
  PROVE  /\ f \in Resps
         /\ f # "OKAY" => step = "force" \/ (step # "clear" /\ f = resp)
<1>1. CASE step = "force"
  BY <1>1 DEF Forced, Resps
<1>2. CASE step = "clear"
  BY <1>2 DEF Forced, Resps
<1>3. CASE step \notin {"force", "clear"}
  BY <1>3 DEF Forced
<1> QED BY <1>1, <1>2, <1>3

\* The handshakes are Booleans, and each belongs to one state of its machine.
LEMMA HandshakeFacts ==
  ASSUME Bench, CoreOK, WriteOK, ReadOK
  PROVE  /\ AW \in BOOLEAN /\ B \in BOOLEAN /\ AR \in BOOLEAN
         /\ AW => wr.state = "WR_IDLE" /\ core.aw \in Requests
         /\ W => wr.state = "WR_DATA"
         /\ B <=> wr.state = "WR_RESP"
         /\ AR => rd.state = "RD_IDLE" /\ core.ar \in Requests
         /\ R <=> rd.state = "RD_DATA"
         /\ (R /\ rd.rlast) \in BOOLEAN
         /\ R /\ rd.rlast <=> rd.state = "RD_DATA"
<1>1. core.aw.valid \in BOOLEAN /\ core.ar.valid \in BOOLEAN
  BY RequestFacts, NoneFacts DEF CoreOK, Request
<1>2. AW => wr.state = "WR_IDLE" /\ core.aw \in Requests
  BY NoneFacts DEF AW, CoreOK, WriteOK, Request
<1>3. AR => rd.state = "RD_IDLE" /\ core.ar \in Requests
  BY NoneFacts DEF AR, CoreOK, ReadOK, Request
<1>4. W => wr.state = "WR_DATA"
  BY DEF W, WriteOK
<1>5. B \in BOOLEAN /\ (B <=> wr.state = "WR_RESP")
  BY DEF B, bready, WriteOK
<1>6. AW \in BOOLEAN /\ AR \in BOOLEAN
  BY <1>1 DEF AW, AR, WriteOK, ReadOK
<1>7. R <=> rd.state = "RD_DATA"
  BY DEF R, ReadOK
<1>8. (R /\ rd.rlast) \in BOOLEAN /\ (R /\ rd.rlast <=> rd.state = "RD_DATA")
  BY DEF R, ReadOK
<1> QED BY <1>2, <1>3, <1>4, <1>5, <1>6, <1>7, <1>8

\* A forced answer of a read waits for the next read, which is taken only when
\* it has been cleared: no read sees it.
LEMMA InjectStep ==
  ASSUME Bench, CoreOK, WriteOK, ReadOK, WriteOK', ReadOK', InjectOK,
         WriteMoves, ReadMoves, Injector
  PROVE  InjectOK'
<1> DEFINE last == R /\ rd.rlast
<1>1. PICK ws \in Half(inject.write, AW, B), rs \in Half(inject.read, AR, last) :
        /\ inject' = [write |-> ws \in {"force", "wait"}, read |-> rs \in {"force", "wait"}]
        /\ \E m \in Mode({ws, rs}), b \in Forced(ws, sideband.force_bresp),
              r \in Forced(rs, sideband.force_rresp) :
             sideband' = [mode |-> m, force_bresp |-> b, force_rresp |-> r]
  BY Zenon DEF Injector
<1>2. PICK m \in Mode({ws, rs}), b \in Forced(ws, sideband.force_bresp),
           r \in Forced(rs, sideband.force_rresp) :
             sideband' = [mode |-> m, force_bresp |-> b, force_rresp |-> r]
  BY <1>1
<1>3. inject.write \in BOOLEAN /\ inject.read \in BOOLEAN /\ last \in BOOLEAN
  BY HandshakeFacts DEF InjectOK
<1>4. /\ ws = "force" => ~inject.write /\ AW
      /\ ws = "wait" <=> inject.write /\ ~B
      /\ ws = "clear" <=> inject.write /\ B
  BY <1>3, HalfFacts, HandshakeFacts
<1>5. /\ rs = "force" => ~inject.read /\ AR
      /\ rs = "wait" <=> inject.read /\ ~last
      /\ rs = "clear" <=> inject.read /\ last
  BY <1>3, HalfFacts, HandshakeFacts
<1>6. /\ b \in Resps
      /\ b # "OKAY" => ws = "force" \/ (ws # "clear" /\ b = sideband.force_bresp)
  BY ForcedFacts DEF InjectOK
<1>7. /\ r \in Resps
      /\ r # "OKAY" => rs = "force" \/ (rs # "clear" /\ r = sideband.force_rresp)
  BY ForcedFacts DEF InjectOK
<1>8. m \in BOOLEAN
  BY DEF Mode, InjectOK
<1>9. inject'.write = (ws \in {"force", "wait"}) /\ inject'.read = (rs \in {"force", "wait"})
  BY <1>1
<1>10. sideband'.force_bresp = b /\ sideband'.force_rresp = r
  BY <1>2
<1>11. sideband'.force_bresp # "OKAY" => inject'.write
  BY <1>4, <1>6, <1>9, <1>10 DEF InjectOK
<1>12. sideband'.force_rresp # "OKAY" => inject'.read
  BY <1>5, <1>7, <1>9, <1>10 DEF InjectOK
<1>13. inject'.write => wr'.state # "WR_IDLE"
  BY <1>4, <1>9, HandshakeFacts DEF InjectOK, WriteMoves, WriteOK
<1>14. inject'.read => rd'.state # "RD_IDLE"
  BY <1>5, <1>9, HandshakeFacts DEF InjectOK, ReadMoves, ReadOK
<1>15. wr'.bvalid /\ wr'.bresp # "OKAY" => inject'.write
  <2>1. SUFFICES ASSUME wr'.bvalid, wr'.bresp # "OKAY" PROVE inject'.write
    OBVIOUS
  <2>2. wr'.state = "WR_RESP"
    BY <2>1 DEF WriteOK
  <2>3. wr.state = "WR_DATA"
    BY <2>2 DEF WriteMoves, WriteOK
  <2>4. W /\ wr'.bresp = Response(sideband.force_bresp)
    BY <2>2, <2>3 DEF WriteMoves
  <2>5. sideband.force_bresp # "OKAY"
    BY <2>1, <2>4 DEF Response
  <2> QED BY <1>4, <1>9, <2>3, <2>5, HandshakeFacts DEF InjectOK
<1>16. rd'.rresp = "OKAY"
  BY HandshakeFacts DEF InjectOK, ReadMoves, Response
<1> QED BY <1>1, <1>2, <1>6, <1>7, <1>8, <1>11, <1>12, <1>13, <1>14, <1>15, <1>16 DEF InjectOK

-----------------------------------------------------------------------------
(* The monitor.                                                            *)

\* What is published at an edge.
Published ==
  /\ written' = IF W THEN <<[addr |-> wr.addr, data |-> <<Head(core.w)>>]>>
                ELSE <<>>
  /\ was_read' = IF R THEN <<[addr |-> rd.addr, data |-> <<rd.rdata>>]>>
                 ELSE <<>>

LEMMA WritesStep ==
  ASSUME Bench, CoreOK, WriteOK, ReadOK, MonitorOK, WriteMoves, monitor_writes
  PROVE  /\ IF wr'.state = "WR_DATA" THEN Following(mon_w', wr'.addr)
            ELSE mon_w' = None
         /\ written' = IF W THEN <<[addr |-> wr.addr, data |-> <<Head(core.w)>>]>>
                       ELSE <<>>
<1> DEFINE req == Followed(mon_w, AW, core.aw)
<1>1. IF req # None /\ W
      THEN /\ mon_w' = None
           /\ written' = <<Txn(req, [i \in 1 .. req.len + 1 |-> Head(core.w)])>>
      ELSE mon_w' = req /\ written' = <<>>
  BY Zenon DEF monitor_writes
<1>2. CASE wr.state = "WR_IDLE"
  <2>1. mon_w = None /\ ~W
    BY <1>2, HandshakeFacts DEF MonitorOK
  <2>2. mon_w' = (IF AW THEN core.aw ELSE None) /\ written' = <<>>
    BY <1>1, <2>1, Zenon DEF Followed
  <2>3. AW => Following(core.aw, core.aw.addr)
    BY HandshakeFacts, RequestFacts
  <2> QED BY <1>2, <2>1, <2>2, <2>3 DEF WriteMoves
<1>3. CASE wr.state = "WR_DATA"
  <2>1. ~AW /\ Following(mon_w, wr.addr)
    BY <1>3, HandshakeFacts DEF MonitorOK
  <2>2. mon_w # None /\ mon_w.addr = wr.addr /\ mon_w.len = 0
    BY <2>1, NoneFacts
  <2>3. req = mon_w
    BY <2>2 DEF Followed
  <2>4. CASE W
    <3>1. [i \in 1 .. mon_w.len + 1 |-> Head(core.w)] = <<Head(core.w)>>
      BY <2>2
    <3>2. mon_w' = None /\ written' = <<Txn(mon_w, <<Head(core.w)>>)>>
      BY <1>1, <2>2, <2>3, <2>4, <3>1
    <3> QED BY <1>3, <2>2, <2>4, <3>2 DEF Txn, WriteMoves
  <2>5. CASE ~W
    <3>1. mon_w' = mon_w /\ written' = <<>>
      BY <1>1, <2>3, <2>5
    <3> QED BY <1>3, <2>1, <2>5, <3>1 DEF WriteMoves
  <2> QED BY <2>4, <2>5
<1>4. CASE wr.state = "WR_RESP"
  <2>1. mon_w = None /\ ~W /\ ~AW
    BY <1>4, HandshakeFacts DEF MonitorOK
  <2>2. mon_w' = None /\ written' = <<>>
    BY <1>1, <2>1 DEF Followed
  <2> QED BY <1>4, <2>1, <2>2 DEF WriteMoves
<1> QED BY <1>2, <1>3, <1>4 DEF WriteOK

LEMMA ReadsStep ==
  ASSUME Bench, CoreOK, WriteOK, ReadOK, MonitorOK, ReadMoves, monitor_reads
  PROVE  /\ mon_r' = [req |-> mon_r'.req, data |-> <<>>]
         /\ IF rd'.state = "RD_DATA" THEN Following(mon_r'.req, rd'.addr)
            ELSE mon_r'.req = None
         /\ was_read' = IF R THEN <<[addr |-> rd.addr, data |-> <<rd.rdata>>]>>
                        ELSE <<>>
<1>1. mon_r.data = <<>>
  BY DEF MonitorOK
<1>2. CASE rd.state = "RD_IDLE"
  <2>1. mon_r.req = None /\ ~R
    BY <1>2, HandshakeFacts DEF MonitorOK
  <2>2. mon_r' = [req |-> IF AR THEN core.ar ELSE None, data |-> <<>>] /\ was_read' = <<>>
    BY <2>1, Zenon DEF monitor_reads, Followed
  <2>3. AR => Following(core.ar, core.ar.addr)
    BY HandshakeFacts, RequestFacts
  <2>4. mon_r'.req = (IF AR THEN core.ar ELSE None)
    BY <2>2
  <2> QED BY <1>2, <2>1, <2>2, <2>3, <2>4 DEF ReadMoves
<1>3. CASE rd.state = "RD_DATA"
  <2>1. R /\ Following(mon_r.req, rd.addr)
    BY <1>3, HandshakeFacts DEF MonitorOK
  <2>2. mon_r.req # None /\ mon_r.req.addr = rd.addr /\ mon_r.req.len = 0
    BY <2>1, NoneFacts
  <2>3. Append(mon_r.data, rd.rdata) = <<rd.rdata>> /\ Len(<<rd.rdata>>) = 1
    BY <1>1
  <2>4. /\ mon_r' = [req |-> None, data |-> <<>>]
        /\ was_read' = <<Txn(mon_r.req, <<rd.rdata>>)>>
    BY <2>1, <2>2, <2>3 DEF monitor_reads
  <2> QED BY <1>3, <2>1, <2>2, <2>4 DEF Txn, ReadMoves
<1> QED BY <1>2, <1>3 DEF ReadOK

LEMMA MonitorStep ==
  ASSUME Bench, CoreOK, WriteOK, ReadOK, MonitorOK, WriteMoves, ReadMoves,
         monitor_writes, monitor_reads
  PROVE  MonitorOK' /\ Published
BY WritesStep, ReadsStep DEF MonitorOK, Published
-----------------------------------------------------------------------------
(* The invariant.                                                          *)

LEMMA BusInit ==
  ASSUME Bench, BusConstantsOK, Init
  PROVE  BusInv
<1>1. 0 \in Addrs /\ "OKAY" \in Resps
  BY DEF BusConstantsOK, Addrs, Resps
<1>2. mem \in [Addrs -> Data] /\ mem[0] \in Data
  BY <1>1 DEF Init
<1>3. CoreOK
  BY DEF Init, CoreOK, Request, OneBeat
<1>4. WriteOK
  BY <1>1, <1>2 DEF Init, WriteOK
<1>5. ReadOK
  BY <1>1, <1>2 DEF Init, ReadOK
<1>6. InjectOK
  BY <1>1 DEF Init, InjectOK
<1>7. MonitorOK
  BY DEF Init, MonitorOK
<1> QED BY <1>3, <1>4, <1>5, <1>6, <1>7 DEF BusInv

LEMMA BusStep ==
  ASSUME Bench, BusConstantsOK, BusInv, clock_edge
  PROVE  BusInv' /\ WriteMoves /\ ReadMoves /\ Published
<1>1. CoreOK'
  BY CoreStep DEF BusInv, clock_edge
<1>2. WriteOK' /\ WriteMoves
  BY WriteStep DEF BusInv, clock_edge
<1>3. ReadOK' /\ ReadMoves
  BY <1>2, ReadStep DEF BusInv, clock_edge
<1>4. InjectOK'
  BY <1>2, <1>3, InjectStep DEF BusInv, clock_edge
<1>5. MonitorOK' /\ Published
  BY <1>2, <1>3, MonitorStep DEF BusInv, clock_edge
<1> QED BY <1>1, <1>2, <1>3, <1>4, <1>5 DEF BusInv

LEMMA BusStutter ==
  ASSUME BusInv, UNCHANGED vars
  PROVE  BusInv'
BY DEF BusInv, vars, CoreOK, WriteOK, ReadOK, InjectOK, MonitorOK

\* The handshakes, the injector and the monitor agree in every reachable state.
THEOREM BusInvariant ==
  ASSUME Bench
  PROVE  Spec => []BusInv
<1>1. Init => BusInv
  BY BusInit, BusConstantsOK
<1>2. BusInv /\ [clock_edge]_vars => BusInv'
  BY BusStep, BusStutter, BusConstantsOK
<1> QED BY <1>1, <1>2, PTL DEF Spec

\* What the monitor publishes are transfers.
PublishedOK ==
  /\ written \in Seq([addr : Addrs, data : Seq(Data)])
  /\ was_read \in Seq([addr : Addrs, data : Seq(Data)])

LEMMA PublishedStep ==
  ASSUME BusInv, Published
  PROVE  PublishedOK'
<1> DEFINE Txns == [addr : Addrs, data : Seq(Data)]
<1>1. \A addr \in Addrs, d \in Data : <<[addr |-> addr, data |-> <<d>>]>> \in Seq(Txns)
  <2>1. SUFFICES ASSUME NEW addr \in Addrs, NEW d \in Data
                 PROVE  <<[addr |-> addr, data |-> <<d>>]>> \in Seq(Txns)
    OBVIOUS
  <2>2. <<d>> \in Seq(Data)
    OBVIOUS
  <2>3. [addr |-> addr, data |-> <<d>>] \in Txns
    BY <2>2
  <2> HIDE DEF Txns
  <2> QED BY <2>3
<1>2. <<>> \in Seq(Txns)
  OBVIOUS
<1>3. W => wr.addr \in Addrs /\ Head(core.w) \in Data
  BY OneBeatFacts DEF BusInv, CoreOK, WriteOK, W
<1>4. rd.addr \in Addrs /\ rd.rdata \in Data
  BY DEF BusInv, ReadOK
<1>5. written' \in Seq(Txns)
  BY <1>1, <1>2, <1>3, Zenon DEF Published
<1>6. was_read' \in Seq(Txns)
  BY <1>1, <1>2, <1>4, Zenon DEF Published
<1> QED BY <1>5, <1>6 DEF PublishedOK

LEMMA InvTypes ==
  ASSUME Bench, BusConstantsOK, BusInv, PublishedOK
  PROVE  ATypeOK
<1>1. core \in [aw : Request, w : Seq(Data), ar : Request]
  <2>1. core.w \in Seq(Data)
    <3>1. <<>> \in Seq(Data) /\ \A d \in Data : <<d>> \in Seq(Data)
      OBVIOUS
    <3> QED BY <3>1 DEF BusInv, CoreOK, OneBeat
  <2> QED BY <2>1 DEF BusInv, CoreOK
<1>2. wr \in [state : {"WR_IDLE", "WR_DATA", "WR_RESP"}, awready : BOOLEAN,
              wready : BOOLEAN, bvalid : BOOLEAN, bresp : Resps, addr : Addrs,
              delay : 0 .. RESPONSE_DELAY]
  BY DEF BusInv, WriteOK, Bench
<1>3. rd \in [state : {"RD_IDLE", "RD_WAIT", "RD_DATA"}, arready : BOOLEAN,
              rvalid : BOOLEAN, rlast : BOOLEAN, rdata : Data, rresp : Resps,
              addr : Addrs, len : Lens \cup {0}, beat_cnt : Nat,
              delay : 0 .. RESPONSE_DELAY]
  BY DEF BusInv, ReadOK, Bench
<1>4. rd.beat_cnt <= rd.len
  BY DEF BusInv, ReadOK
<1>5. \A q, addr : addr \in Addrs /\ Following(q, addr) => q \in Request
  BY DEF Following, Request, Requests, Bench, Addrs
<1>6. mon_w \in Request
  BY <1>5 DEF BusInv, MonitorOK, WriteOK, Request
<1>7. mon_r \in [req : Request, data : Seq(Data)]
  <2>1. mon_r.req \in Request
    BY <1>5 DEF BusInv, MonitorOK, ReadOK, Request
  <2>2. mon_r = [req |-> mon_r.req, data |-> <<>>]
    BY DEF BusInv, MonitorOK
  <2>3. <<>> \in Seq(Data)
    OBVIOUS
  <2>4. \A q \in Request, d \in Seq(Data) :
           [req |-> q, data |-> d] \in [req : Request, data : Seq(Data)]
    OBVIOUS
  <2> QED BY <2>1, <2>2, <2>3, <2>4, Zenon
<1> QED
  BY <1>1, <1>2, <1>3, <1>4, <1>6, <1>7 DEF ATypeOK, BusInv, WriteOK, InjectOK, PublishedOK

\* Every variable keeps its type.
THEOREM BusTypes ==
  ASSUME Bench
  PROVE  Spec => []ATypeOK
<1>1. Init => PublishedOK
  BY DEF Init, PublishedOK
<1>2. BusInv /\ PublishedOK /\ [clock_edge]_vars => PublishedOK'
  <2>1. ASSUME BusInv, clock_edge PROVE PublishedOK'
    BY <2>1, BusStep, PublishedStep, BusConstantsOK
  <2>2. ASSUME PublishedOK, UNCHANGED vars PROVE PublishedOK'
    BY <2>2 DEF PublishedOK, vars
  <2> QED BY <2>1, <2>2
<1>3. BusInv /\ PublishedOK => ATypeOK
  BY InvTypes, BusConstantsOK
<1> QED BY <1>1, <1>2, <1>3, BusInvariant, PTL DEF Spec

\* No answer carries an error that was not chosen for its request, though the
\* two halves of the injector share one mode (axi4_driver.sv).
THEOREM ErrorsOnlyWhereChosenHolds ==
  ASSUME Bench
  PROVE  Spec => []ErrorsOnlyWhereChosen
<1>1. BusInv => ErrorsOnlyWhereChosen
  BY DEF BusInv, InjectOK, ErrorsOnlyWhereChosen
<1> QED BY <1>1, BusInvariant, PTL

\* With answers that are not delayed, no load is ever answered with an error,
\* whatever the injector chooses (axi4_slave_mem.sv answers at the edge at
\* which the injector forces the response).
THEOREM ReadsNeverFail ==
  ASSUME Bench
  PROVE  Spec => [](rd.rresp = "OKAY")
<1>1. BusInv => rd.rresp = "OKAY"
  BY DEF BusInv, InjectOK
<1> QED BY <1>1, BusInvariant, PTL

\* The monitor publishes each transfer of the memory at its edge, once, with
\* the address and the data of the memory (axi4_monitor.sv).
THEOREM MonitorFaithfulHolds ==
  ASSUME Bench
  PROVE  Spec => MonitorFaithful
<1>1. BusInv /\ [clock_edge]_vars => [Published]_vars
  BY BusStep, BusConstantsOK
<1> QED BY <1>1, BusInvariant, PTL DEF Spec, MonitorFaithful, Published

-----------------------------------------------------------------------------
(* The memory keeps its promise.                                           *)

LEMMA WriteRefines ==
  ASSUME Bench, CoreOK, WriteOK, WriteOK', WriteMoves
  PROVE  Memory!WriteStep
<1>1. CASE wr.state = "WR_IDLE"
  <2>1. WriteView.stage = "idle" /\ mem' = mem
    BY <1>1 DEF WriteView, Stage, WriteMoves
  <2>2. CASE AW
    <3>1. WriteView' = [stage |-> "data", addr |-> core.aw.addr]
      BY <1>1, <2>2 DEF WriteView, Stage, WriteMoves
    <3> QED BY <2>1, <3>1 DEF Memory!WriteStep
  <2>3. CASE ~AW
    <3>1. WriteView' = WriteView
      BY <1>1, <2>3 DEF WriteView, Stage, WriteMoves
    <3> QED BY <2>1, <3>1 DEF Memory!WriteStep
  <2> QED BY <2>2, <2>3
<1>2. CASE wr.state = "WR_DATA"
  <2>1. CASE W
    <3>1. core.w # <<>> /\ Len(core.w) = 1
      BY <2>1, OneBeatFacts DEF W, CoreOK
    <3>2. WriteView.stage = "data" /\ WriteView.addr = wr.addr
      BY <1>2 DEF WriteView, Stage
    <3>3. wr'.state = "WR_RESP" /\ mem' = [mem EXCEPT ![wr.addr] = Head(core.w)]
      BY <1>2, <2>1 DEF WriteMoves
    <3>4. WriteView'.stage = "answering"
      BY <3>3 DEF WriteView, Stage, WriteOK
    <3> QED BY <3>1, <3>2, <3>3, <3>4 DEF Memory!WriteStep, Memory!StoreBeat
  <2>2. CASE ~W
    <3>1. WriteView' = WriteView /\ mem' = mem
      BY <1>2, <2>2 DEF WriteView, Stage, WriteMoves
    <3> QED BY <3>1 DEF Memory!WriteStep
  <2> QED BY <2>1, <2>2
<1>3. CASE wr.state = "WR_RESP"
  <2>1. WriteView.stage = "answering"
    BY <1>3 DEF WriteView, Stage, WriteOK
  <2>2. WriteView'.stage = "idle" /\ mem' = mem
    BY <1>3 DEF WriteView, Stage, WriteMoves
  <2> QED BY <2>1, <2>2 DEF Memory!WriteStep
<1> QED BY <1>1, <1>2, <1>3 DEF WriteOK

LEMMA ReadRefines ==
  ASSUME Bench, CoreOK, WriteOK, ReadOK, ReadOK', ReadMoves
  PROVE  Memory!ReadStep
<1>1. CASE rd.state = "RD_IDLE"
  <2>1. ReadView = [stage |-> "idle"]
    BY <1>1 DEF ReadView
  <2>2. CASE AR
    <3>1. core.ar.len = 0
      BY <2>2, HandshakeFacts, RequestFacts
    <3>2. /\ rd'.state = "RD_DATA" /\ rd'.addr = core.ar.addr
          /\ rd'.rdata \in {mem[core.ar.addr], mem'[core.ar.addr]}
      BY <1>1, <2>2 DEF ReadMoves, read_mem
    <3>3. rd'.len - rd'.beat_cnt = 0
      BY DEF ReadOK
    <3>4. ReadView' = [stage |-> "offered", addr |-> core.ar.addr,
                       left |-> core.ar.len, beat |-> rd'.rdata]
      BY <3>1, <3>2, <3>3 DEF ReadView
    <3>5. Memory!Offer(core.ar.addr, core.ar.len)
      BY <3>2, <3>4 DEF Memory!Offer
    <3> QED BY <2>1, <3>5 DEF Memory!ReadStep
  <2>3. CASE ~AR
    <3>1. rd'.state = "RD_IDLE"
      BY <1>1, <2>3 DEF ReadMoves
    <3>2. ReadView' = ReadView
      BY <2>1, <3>1 DEF ReadView
    <3> QED BY <3>2 DEF Memory!ReadStep
  <2> QED BY <2>2, <2>3
<1>2. CASE rd.state = "RD_DATA"
  <2>1. rd.len - rd.beat_cnt = 0
    BY DEF ReadOK
  <2>2. ReadView.stage = "offered" /\ ~(ReadView.left > 0)
    BY <1>2, <2>1 DEF ReadView
  <2>3. ReadView'.stage = "idle"
    BY <1>2 DEF ReadView, ReadMoves
  <2> QED BY <2>2, <2>3 DEF Memory!ReadStep
<1> QED BY <1>1, <1>2 DEF ReadOK

\* The two state machines of axi4_slave_mem.sv implement a memory, at any
\* addresses and with any data.
THEOREM MemoryRefined ==
  ASSUME Bench
  PROVE  Spec => ImplementsMemory
<1>1. Init => Memory!Init
  BY DEF Init, Memory!Init, WriteView, ReadView, Stage
<1>2. BusInv /\ BusInv' /\ [clock_edge]_vars => [Memory!Next]_(Memory!vars)
  <2>1. ASSUME BusInv, BusInv', clock_edge PROVE Memory!Next
    BY <2>1, BusStep, BusConstantsOK, WriteRefines, ReadRefines DEF BusInv, Memory!Next
  <2>2. ASSUME UNCHANGED vars PROVE UNCHANGED Memory!vars
    BY <2>2 DEF vars, Memory!vars, WriteView, ReadView, Stage
  <2> QED BY <2>1, <2>2
<1> QED BY <1>1, <1>2, BusInvariant, PTL DEF Spec, ImplementsMemory, Memory!Spec

-----------------------------------------------------------------------------
(***************************************************************************)
(* The test                                                                *)
(***************************************************************************)
Base == Bench /\ Forms = {"sequence"}

Places == {"start", "waiting", "draining", "over", "ended"}

\* The data of a write are offered with its address and until they are taken.
Offered ==
  /\ core.aw.valid => core.w # <<>>
  /\ wr.state = "WR_DATA" => core.w # <<>> /\ ~core.aw.valid

RunTypes ==
  /\ test \in [form : {"sequence"}, at : Places, left : 0 .. Drain]
  /\ mailbox_test_done \in BOOLEAN
  /\ TokensWritten \subseteq Tokens

TokenLine(t) == Line(IF t = PASS THEN "pass" ELSE "fail", "mailbox")

\* Every token is in the log, the flag stands for one, and nothing ends the
\* test but a token or a complaint.
Logged ==
  /\ \A t \in TokensWritten : TokenLine(t) \in log
  /\ mailbox_test_done => TokensWritten # {}
  /\ test.at = "draining" => mailbox_test_done
  /\ test.at \in {"over", "ended"} =>
       \/ mailbox_test_done
       \/ Line("error", "limit") \in log
       \/ Line("fatal", "load") \in log

\* The flag is acted on while the data of its token are still on the wires.
FlagOK ==
  test.at = "waiting" /\ mailbox_test_done =>
    wr.state = "WR_DATA" /\ wr.addr = MAILBOX /\ Head(core.w) \in Tokens

LogLines ==
  {Line("pass", "mailbox"), Line("fail", "mailbox"), Line("pass", "signature"),
   Line("error", "signature"), Line("error", "limit"), Line("fatal", "load"),
   Line("error", "scoreboard"), Line("pass", "server"), Line("fail", "server")}

\* No line speaks of a failure that was not there.
Honest ==
  /\ log \subseteq LogLines
  /\ test.at = "start" => log = {} /\ TokensWritten = {}
  /\ Line("fail", "mailbox") \in log => FAIL \in TokensWritten
  /\ Line("error", "signature") \in log => FAIL \in TokensWritten
  /\ Line("fatal", "load") \in log =>
       TokensWritten = {} /\ test.at \in {"over", "ended"}
  /\ Line("fail", "server") \in log => Complaints # {}

SignatureRead ==
  Line("pass", "signature") \in log \/ Line("error", "signature") \in log

\* Where the write of the token is while edges pass.
DrainOK ==
  /\ test.at \in {"start", "waiting"} => ~SignatureRead
  /\ test.at = "draining" =>
       \/ wr.state = "WR_DATA" /\ mailbox_test_done /\ test.left = Drain
       \/ wr.state = "WR_RESP" /\ history.published /\ test.left >= Drain - 1
       \/ history.answered /\ history.published
  /\ test.at \in {"over", "ended"} /\ SignatureRead /\ Drain >= 2
       => \/ Line("error", "limit") \in log
          \/ history.answered /\ history.published

RunInv ==
  BusInv /\ Offered /\ RunTypes /\ Logged /\ FlagOK /\ Honest /\ DrainOK

-----------------------------------------------------------------------------
(* The write channel and the tokens on it.                                 *)

LEMMA CoreMoves ==
  ASSUME BusInv, clock_edge
  PROVE  /\ core.w # <<>> /\ ~W => core'.w = core.w
         /\ core'.aw.valid => (core.aw.valid /\ ~AW) \/ core'.w # <<>>
         /\ AW => core'.aw = None \/ core.w = <<>> \/ W
<1> DEFINE aw == IF AW THEN None ELSE core.aw
           w  == IF W THEN Tail(core.w) ELSE core.w
           ar == IF AR THEN None ELSE core.ar
<1>1. PICK r \in IF ar = None THEN Requests \cup {None} ELSE {ar} :
        \/ core' = [aw |-> aw, w |-> w, ar |-> r]
        \/ /\ aw = None /\ w = <<>>
           /\ \E q \in Requests : \E d \in Beats(q.len) :
                core' = [aw |-> q, w |-> d, ar |-> r]
  BY Zenon DEF clock_edge, Core
<1>2. CASE core' = [aw |-> aw, w |-> w, ar |-> r]
  BY <1>2, NoneFacts DEF None
<1>3. ASSUME aw = None, w = <<>>, NEW q \in Requests, NEW d \in Beats(q.len),
             core' = [aw |-> q, w |-> d, ar |-> r]
      PROVE  /\ core.w # <<>> /\ ~W => core'.w = core.w
             /\ core'.aw.valid => (core.aw.valid /\ ~AW) \/ core'.w # <<>>
             /\ AW => core'.aw = None \/ core.w = <<>> \/ W
  <2>1. q.len \in Nat
    BY BusConstantsOK DEF Requests, BusConstantsOK
  <2>2. d # <<>>
    BY <2>1 DEF Beats
  <2> QED BY <1>3, <2>2
<1> QED BY <1>1, <1>2, <1>3

LEMMA OfferedStep ==
  ASSUME Bench, BusInv, Offered, clock_edge
  PROVE  Offered'
<1>1. WriteMoves /\ BusInv'
  BY BusStep, BusConstantsOK
<1>2. CASE wr.state = "WR_IDLE"
  <2>1. ~W
    BY <1>2 DEF W, BusInv, WriteOK
  <2>2. core'.aw.valid => core'.w # <<>>
    BY <2>1, CoreMoves DEF Offered
  <2>3. CASE AW
    <3>1. core.w # <<>>
      BY <2>3 DEF Offered, AW
    <3>2. core'.w = core.w /\ core'.aw = None
      BY <2>1, <2>3, <3>1, CoreMoves
    <3> QED BY <3>1, <3>2 DEF Offered, None
  <2>4. CASE ~AW
    <3>1. wr'.state = "WR_IDLE"
      BY <1>1, <1>2, <2>4 DEF WriteMoves
    <3> QED BY <2>2, <3>1 DEF Offered
  <2> QED BY <2>3, <2>4
<1>3. CASE wr.state = "WR_DATA"
  <2>1. W
    BY <1>3 DEF W, BusInv, WriteOK, Offered
  <2>2. wr'.state = "WR_RESP"
    BY <1>1, <1>3, <2>1 DEF WriteMoves
  <2>3. core'.aw.valid => core'.w # <<>>
    BY <1>3, CoreMoves DEF Offered
  <2> QED BY <2>2, <2>3 DEF Offered
<1>4. CASE wr.state = "WR_RESP"
  <2>1. ~W
    BY <1>4 DEF W, BusInv, WriteOK
  <2>2. wr'.state = "WR_IDLE"
    BY <1>1, <1>4 DEF WriteMoves
  <2>3. core'.aw.valid => core'.w # <<>>
    BY <2>1, CoreMoves DEF Offered
  <2> QED BY <2>2, <2>3 DEF Offered
<1> QED BY <1>2, <1>3, <1>4 DEF BusInv, WriteOK

\* What an edge does to the write of a token.
LEMMA TokenMoves ==
  ASSUME Bench, BusInv, Offered, clock_edge, Remember
  PROVE  /\ TokensWritten' = TokensWritten \cup Written
         /\ Written # {} => /\ wr'.state = "WR_DATA" /\ wr'.addr = MAILBOX
                            /\ Head(core'.w) \in Written
                            /\ Written = {Head(core'.w)}
         /\ wr.state = "WR_DATA" => /\ wr'.state = "WR_RESP" /\ Written = {}
                                    /\ mailbox_test_done => history'.published
         /\ wr.state = "WR_RESP" /\ mailbox_test_done => history'.answered
         /\ history.published => history'.published
         /\ history.answered => history'.answered
<1>1. WriteMoves /\ Published
  BY BusStep, BusConstantsOK
<1>2. history.published => history'.published
  BY DEF Remember
<1>3. history.answered => history'.answered
  BY DEF Remember
<1>4. CASE wr.state = "WR_IDLE"
  <2>1. ~W
    BY <1>4 DEF W, BusInv, WriteOK
  <2>2. history'.tokens = history.tokens
    BY <2>1 DEF Remember
  <2>3. CASE AW
    <3>1. core.w # <<>>
      BY <2>3 DEF Offered, AW
    <3>2. core'.w = core.w
      BY <2>1, <3>1, CoreMoves
    <3>3. wr'.state = "WR_DATA" /\ wr'.addr = core.aw.addr
      BY <1>1, <1>4, <2>3 DEF WriteMoves
    <3>4. Written = IF core.aw.addr = MAILBOX THEN {Head(core.w)} \cap Tokens ELSE {}
      BY <2>3, <3>1 DEF Written, mailbox_write, mailbox_data
    <3> QED BY <1>2, <1>3, <1>4, <2>2, <3>2, <3>3, <3>4 DEF TokensWritten
  <2>4. CASE ~AW
    <3>1. wr'.state = "WR_IDLE"
      BY <1>1, <1>4, <2>4 DEF WriteMoves
    <3>2. Written = {}
      BY <2>4 DEF Written, mailbox_write
    <3> QED BY <1>2, <1>3, <1>4, <2>2, <3>1, <3>2 DEF TokensWritten
  <2> QED BY <2>3, <2>4
<1>5. CASE wr.state = "WR_DATA"
  <2>1. W /\ ~AW
    BY <1>5 DEF W, AW, BusInv, WriteOK, Offered
  <2>2. wr'.state = "WR_RESP"
    BY <1>1, <1>5, <2>1 DEF WriteMoves
  <2>3. Written = {}
    BY <2>1 DEF Written, mailbox_write
  <2>4. history'.tokens = history.tokens \cup
          IF wr.addr = MAILBOX THEN {Head(core.w)} \cap Tokens ELSE {}
    BY <2>1 DEF Remember
  <2>5. written' # <<>>
    BY <1>1, <2>1 DEF Published
  <2>6. mailbox_test_done => history'.published
    BY <2>5 DEF Remember
  <2> QED BY <1>2, <1>3, <1>5, <2>2, <2>3, <2>4, <2>6 DEF TokensWritten
<1>6. CASE wr.state = "WR_RESP"
  <2>1. ~W /\ ~AW /\ B
    BY <1>6 DEF W, AW, B, bready, BusInv, WriteOK
  <2>2. wr'.state = "WR_IDLE"
    BY <1>1, <1>6 DEF WriteMoves
  <2>3. Written = {}
    BY <2>1 DEF Written, mailbox_write
  <2>4. history'.tokens = history.tokens /\ (mailbox_test_done => history'.answered)
    BY <2>1 DEF Remember
  <2> QED BY <1>2, <1>3, <1>6, <2>2, <2>3, <2>4 DEF TokensWritten
<1> QED BY <1>4, <1>5, <1>6 DEF BusInv, WriteOK

-----------------------------------------------------------------------------
(* The invariant.                                                          *)

LEMMA RunInit ==
  ASSUME Base, TestInit
  PROVE  RunInv
<1>1. BusInv
  BY BusInit, BusConstantsOK DEF Base, TestInit
<1>2. Offered /\ TokensWritten = {}
  <2>1. core.aw = None
    BY DEF TestInit, Init
  <2>2. ~core.aw.valid
    BY <2>1, NoneFacts DEF Base
  <2>3. wr.state = "WR_IDLE"
    BY DEF TestInit, Init
  <2>4. history.tokens = {}
    BY DEF TestInit
  <2> QED BY <2>2, <2>3, <2>4 DEF Offered, TokensWritten
<1>3. RunTypes
  <2>1. 0 \in 0 .. Drain /\ "start" \in Places
    BY TestConstantsOK DEF TestConstantsOK, Places
  <2>2. test \in [form : {"sequence"}, at : Places, left : 0 .. Drain]
    BY <2>1 DEF Base, TestInit
  <2> QED BY <1>2, <2>2 DEF TestInit, RunTypes
<1>4. Logged /\ FlagOK
  BY <1>2 DEF TestInit, Logged, FlagOK
<1>5. Honest /\ DrainOK
  BY <1>2 DEF TestInit, Honest, DrainOK, SignatureRead
<1> QED BY <1>1, <1>2, <1>3, <1>4, <1>5 DEF RunInv

\* The steps of UVM leave the bus and the mailbox alone.
LEMMA QuietStep ==
  ASSUME BusInv, Offered, UNCHANGED <<vars, mailbox_test_done, history>>
  PROVE  BusInv' /\ Offered' /\ TokensWritten' = TokensWritten
<1>1. BusInv'
  BY BusStutter
<1>2. Offered' /\ TokensWritten' = TokensWritten
  BY DEF vars, Offered, TokensWritten
<1> QED BY <1>1, <1>2

LEMMA RunPhaseStep ==
  ASSUME Base, RunInv, run_phase
  PROVE  RunInv'
<1>1. BusInv' /\ Offered' /\ TokensWritten' = TokensWritten
  BY QuietStep DEF RunInv, run_phase
<1>2. TokensWritten = {} /\ ~mailbox_test_done /\ log = {}
  BY DEF RunInv, Logged, Honest, run_phase
<1>3. mailbox_test_done' = mailbox_test_done
  BY DEF run_phase
<1>4. \/ test' = [test EXCEPT !.at = "waiting"] /\ log' = {}
      \/ test' = [test EXCEPT !.at = "over"] /\ log' = {Line("fatal", "load")}
  BY <1>2 DEF run_phase, At, RunInv, RunTypes
<1>5. RunTypes'
  BY <1>1, <1>3, <1>4 DEF RunInv, RunTypes, Places
<1>6. Logged' /\ FlagOK'
  BY <1>1, <1>2, <1>3, <1>4 DEF RunInv, RunTypes, Logged, FlagOK
<1>7. Honest' /\ DrainOK'
  BY <1>1, <1>2, <1>4 DEF RunInv, RunTypes, Honest, DrainOK, SignatureRead, LogLines, Line
<1> QED BY <1>1, <1>5, <1>6, <1>7 DEF RunInv

LEMMA LimitStep ==
  ASSUME Base, RunInv, limit
  PROVE  RunInv'
<1>1. BusInv' /\ Offered' /\ TokensWritten' = TokensWritten
  BY QuietStep DEF RunInv, limit
<1>2. /\ mailbox_test_done' = mailbox_test_done
      /\ test' = [test EXCEPT !.at = "over"]
      /\ log' = log \cup {Line("error", "limit")}
  BY DEF limit, At
<1>3. RunTypes'
  BY <1>1, <1>2 DEF RunInv, RunTypes, Places
<1>4. Logged' /\ FlagOK'
  BY <1>1, <1>2 DEF RunInv, RunTypes, Logged, FlagOK
<1>5. Complaints \subseteq Complaints'
  BY <1>2 DEF Complaints
<1>6. Honest'
  BY <1>1, <1>2, <1>5 DEF RunInv, RunTypes, Honest, LogLines, Line
<1>7. DrainOK'
  BY <1>2 DEF RunInv, RunTypes, DrainOK
<1> QED BY <1>1, <1>3, <1>4, <1>6, <1>7 DEF RunInv

LEMMA ReportStep ==
  ASSUME Base, RunInv, report_phase
  PROVE  RunInv'
<1>1. BusInv' /\ Offered' /\ TokensWritten' = TokensWritten
  BY QuietStep DEF RunInv, report_phase
<1>2. /\ mailbox_test_done' = mailbox_test_done
      /\ UNCHANGED history
      /\ test.at = "over" /\ test' = [test EXCEPT !.at = "ended"]
  BY DEF report_phase, At
<1>3. PICK found \in {{}, {Line("error", "scoreboard")}} :
        log' = log \cup found \cup {report_summarize(log \cup found)}
  BY DEF report_phase
<1>4. RunTypes'
  BY <1>1, <1>2 DEF RunInv, RunTypes, Places
<1>5. Logged' /\ FlagOK'
  BY <1>1, <1>2, <1>3 DEF RunInv, RunTypes, Logged, FlagOK
<1>6. report_summarize(log \cup found) = Line("pass", "server")
      \/ /\ report_summarize(log \cup found) = Line("fail", "server")
         /\ Complaints' # {}
  BY <1>3 DEF report_summarize, Complaints
<1>7. Complaints \subseteq Complaints'
  BY <1>3 DEF Complaints
<1>8. \A l \in log' :
        \/ l \in log
        \/ l \in {Line("error", "scoreboard"), Line("pass", "server")}
        \/ l = Line("fail", "server") /\ Complaints' # {}
  <2>1. \A l \in log' : l \in log \/ l \in found
                            \/ l = report_summarize(log \cup found)
    BY <1>3
  <2>2. \A l \in found : l = Line("error", "scoreboard")
    BY <1>3
  <2> QED BY <1>6, <2>1, <2>2
<1>9. Honest'
  BY <1>1, <1>2, <1>7, <1>8 DEF RunInv, RunTypes, Honest, LogLines, Line
<1>10. DrainOK'
  <2>1. test' = [test EXCEPT !.at = "ended"] /\ test'.at = "ended"
    BY <1>2 DEF RunInv, RunTypes
  <2>2. SignatureRead' => SignatureRead
    BY <1>8 DEF SignatureRead, Line
  <2>3. Line("error", "limit") \in log => Line("error", "limit") \in log'
    BY <1>3
  <2> QED BY <1>2, <2>1, <2>2, <2>3 DEF RunInv, DrainOK
<1> QED BY <1>1, <1>4, <1>5, <1>9, <1>10 DEF RunInv

\* A test that sees the flag reads the token it stands for.
LEMMA SeesToken ==
  ASSUME Base, RunInv, clock_edge, MailboxMonitor, Remember,
         test.at = "waiting",
         NEW done \in {mailbox_test_done, mailbox_test_done'}, done,
         NEW d \in mailbox_data
  PROVE  /\ d \in Tokens /\ d \in TokensWritten' /\ mailbox_test_done'
         /\ \/ wr'.state = "WR_DATA"
            \/ wr'.state = "WR_RESP" /\ history'.published
<1>1. CASE mailbox_test_done
  <2>1. wr.state = "WR_DATA" /\ wr.addr = MAILBOX /\ Head(core.w) \in Tokens
    BY <1>1 DEF RunInv, FlagOK
  <2>2. core.w # <<>>
    BY <2>1 DEF RunInv, Offered
  <2>3. d = Head(core.w)
    BY <2>2 DEF mailbox_data
  <2>4. d \in TokensWritten
    BY <2>1, <2>3 DEF TokensWritten
  <2> QED BY <1>1, <2>1, <2>3, <2>4, TokenMoves DEF Base, RunInv, MailboxMonitor
<1>2. CASE ~mailbox_test_done
  <2>1. mailbox_test_done' /\ Written # {}
    BY <1>2 DEF MailboxMonitor
  <2>2. core.w # <<>>
    BY <2>1 DEF Written, mailbox_write, AW, RunInv, Offered
  <2>3. d \in Written
    BY <2>1, <2>2 DEF Written, mailbox_data
  <2> QED BY <2>1, <2>3, TokenMoves DEF Base, RunInv, Written
<1> QED BY <1>1, <1>2

LEMMA ClockStep ==
  ASSUME Base, RunInv, clock
  PROVE  RunInv'
<1> USE DEF Base
<1>1. clock_edge /\ MailboxMonitor /\ wait_for_signature /\ Remember
  BY DEF clock
<1>2. BusInv' /\ Offered'
  BY <1>1, BusStep, OfferedStep, BusConstantsOK DEF RunInv
<1>3. /\ TokensWritten' = TokensWritten \cup Written
      /\ Written # {} => /\ wr'.state = "WR_DATA" /\ wr'.addr = MAILBOX
                         /\ Head(core'.w) \in Written
      /\ wr.state = "WR_DATA" => /\ wr'.state = "WR_RESP"
                                 /\ mailbox_test_done => history'.published
      /\ wr.state = "WR_RESP" /\ mailbox_test_done => history'.answered
      /\ history.published => history'.published
      /\ history.answered => history'.answered
  BY <1>1, TokenMoves DEF RunInv
<1>4. /\ mailbox_test_done' = (mailbox_test_done \/ Written # {})
      /\ Written \subseteq Tokens
  BY <1>1 DEF MailboxMonitor, Written
<1>5. PICK done \in {mailbox_test_done, mailbox_test_done'}, d \in mailbox_data :
        IF test.at = "waiting" /\ done
        THEN /\ test' = [test EXCEPT !.at = "draining", !.left = Drain]
             /\ log' = log \cup MailboxLines \cup
                   {Line(IF d = PASS THEN "pass" ELSE "error", "signature")}
        ELSE /\ log' = log \cup MailboxLines
             /\ test' = IF test.at # "draining" THEN test
                        ELSE IF test.left > 1 THEN [test EXCEPT !.left = @ - 1]
                        ELSE [test EXCEPT !.at = "over"]
  BY <1>1 DEF wait_for_signature, At
<1>6. MailboxLines = {TokenLine(t) : t \in Written}
  BY DEF MailboxLines, TokenLine
<1>7. /\ \A t \in TokensWritten' : TokenLine(t) \in log'
      /\ mailbox_test_done' => TokensWritten' # {}
  BY <1>3, <1>4, <1>5, <1>6 DEF RunInv, Logged
<1>8. test.at \in {"waiting", "draining"}
  BY DEF clock, Waits
<1>9. Line("fatal", "load") \notin log
  BY <1>8 DEF RunInv, Honest
<1>10. Complaints \subseteq Complaints'
  BY <1>5 DEF Complaints
<1>11. \A l \in MailboxLines :
         \/ l = Line("pass", "mailbox")
         \/ l = Line("fail", "mailbox") /\ FAIL \in TokensWritten'
  BY <1>3, <1>4, <1>6 DEF TokenLine, Tokens
<1>12. CASE test.at = "waiting" /\ done
  <2>1. /\ d \in Tokens /\ d \in TokensWritten' /\ mailbox_test_done'
        /\ \/ wr'.state = "WR_DATA"
           \/ wr'.state = "WR_RESP" /\ history'.published
    BY <1>1, <1>12, SeesToken
  <2>2. test' = [test EXCEPT !.at = "draining", !.left = Drain]
    BY <1>5, <1>12
  <2>3. Drain \in 0 .. Drain /\ Drain >= Drain - 1
    BY TestConstantsOK DEF TestConstantsOK
  <2>4. RunTypes'
    BY <1>3, <1>4, <2>2, <2>3 DEF RunInv, RunTypes, Places
  <2>5. test'.at = "draining" /\ test'.left = Drain
    BY <2>2 DEF RunInv, RunTypes
  <2>6. Logged' /\ FlagOK'
    BY <1>7, <2>1, <2>5 DEF Logged, FlagOK
  <2>7. \A l \in log' :
          \/ l \in log
          \/ l \in {Line("pass", "mailbox"), Line("pass", "signature")}
          \/ /\ l \in {Line("fail", "mailbox"), Line("error", "signature")}
             /\ FAIL \in TokensWritten'
    BY <1>5, <1>11, <1>12, <2>1 DEF Tokens
  <2>8. Honest'
    BY <1>3, <1>9, <1>10, <2>5, <2>7 DEF RunInv, Honest, LogLines, Line
  <2>9. DrainOK'
    BY <2>1, <2>3, <2>5 DEF DrainOK
  <2> QED BY <1>2, <2>4, <2>6, <2>8, <2>9 DEF RunInv
<1>13. CASE ~(test.at = "waiting" /\ done)
  <2>1. log' = log \cup MailboxLines
    BY <1>5, <1>13
  <2>2. \A l \in log' :
          \/ l \in log
          \/ l = Line("pass", "mailbox")
          \/ l = Line("fail", "mailbox") /\ FAIL \in TokensWritten'
    BY <1>11, <2>1
  <2>3. SignatureRead' = SignatureRead
    BY <2>1, <2>2 DEF SignatureRead, Line
  <2>4. CASE test.at = "waiting"
    <3>1. test' = test /\ test'.at = "waiting" /\ ~mailbox_test_done
      BY <1>4, <1>5, <1>13, <2>4
    <3>2. RunTypes'
      BY <1>3, <1>4, <3>1 DEF RunInv, RunTypes
    <3>3. Logged' /\ FlagOK'
      BY <1>3, <1>4, <1>7, <3>1 DEF Logged, FlagOK
    <3>4. Honest'
      BY <1>3, <1>9, <1>10, <2>2, <3>1 DEF RunInv, Honest, LogLines, Line
    <3>5. DrainOK'
      BY <2>3, <3>1 DEF RunInv, DrainOK
    <3> QED BY <1>2, <3>2, <3>3, <3>4, <3>5 DEF RunInv
  <2>5. CASE test.at = "draining" /\ test.left > 1
    <3>1. test' = [test EXCEPT !.left = @ - 1]
      BY <1>5, <2>5
    <3>2. test'.at = "draining" /\ test'.left = test.left - 1
      BY <2>5, <3>1 DEF RunInv, RunTypes
    <3>3. test.left - 1 \in 0 .. Drain
      BY <2>5, TestConstantsOK DEF RunInv, RunTypes, TestConstantsOK
    <3>4. RunTypes'
      BY <1>3, <1>4, <3>1, <3>3 DEF RunInv, RunTypes
    <3>5. mailbox_test_done
      BY <2>5 DEF RunInv, Logged
    <3>6. Logged' /\ FlagOK'
      BY <1>4, <1>7, <3>2, <3>5 DEF Logged, FlagOK
    <3>7. Honest'
      BY <1>3, <1>9, <1>10, <2>2, <3>2 DEF RunInv, Honest, LogLines, Line
    <3>8. DrainOK'
      <4>1. CASE wr.state = "WR_DATA" /\ test.left = Drain
        BY <1>3, <3>2, <3>5, <4>1, TestConstantsOK DEF DrainOK, TestConstantsOK
      <4>2. CASE wr.state = "WR_RESP" /\ history.published
        BY <1>3, <3>2, <3>5, <4>2 DEF DrainOK
      <4>3. CASE history.answered /\ history.published
        BY <1>3, <3>2, <4>3 DEF DrainOK
      <4> QED BY <2>5, <4>1, <4>2, <4>3 DEF RunInv, DrainOK
    <3> QED BY <1>2, <3>4, <3>6, <3>7, <3>8 DEF RunInv
  <2>6. CASE test.at = "draining" /\ ~(test.left > 1)
    <3>1. test' = [test EXCEPT !.at = "over"]
      BY <1>5, <2>6
    <3>2. test'.at = "over"
      BY <3>1 DEF RunInv, RunTypes
    <3>3. RunTypes'
      BY <1>3, <1>4, <3>1 DEF RunInv, RunTypes, Places
    <3>4. mailbox_test_done
      BY <2>6 DEF RunInv, Logged
    <3>5. Logged' /\ FlagOK'
      BY <1>4, <1>7, <3>2, <3>4 DEF Logged, FlagOK
    <3>6. Honest'
      BY <1>3, <1>9, <1>10, <2>2, <3>2 DEF RunInv, Honest, LogLines, Line
    <3>7. Drain >= 2 => history'.answered /\ history'.published
      <4>1. CASE wr.state = "WR_DATA" /\ test.left = Drain
        BY <2>6, <4>1, TestConstantsOK DEF TestConstantsOK
      <4>2. CASE wr.state = "WR_RESP" /\ history.published
        BY <1>3, <3>4, <4>2
      <4>3. CASE history.answered /\ history.published
        BY <1>3, <4>3
      <4> QED BY <2>6, <4>1, <4>2, <4>3 DEF RunInv, DrainOK
    <3>8. DrainOK'
      BY <3>2, <3>7 DEF DrainOK
    <3> QED BY <1>2, <3>3, <3>5, <3>6, <3>8 DEF RunInv
  <2> QED BY <1>8, <2>4, <2>5, <2>6
<1> QED BY <1>12, <1>13
LEMMA RunStutter ==
  ASSUME Base, RunInv, UNCHANGED tvars
  PROVE  RunInv'
<1>1. UNCHANGED <<vars, mailbox_test_done, history>> /\ test' = test /\ log' = log
  BY DEF tvars
<1>2. BusInv' /\ Offered' /\ TokensWritten' = TokensWritten
  BY <1>1, QuietStep DEF RunInv
<1>3. wr' = wr /\ core' = core
  BY <1>1 DEF vars
<1>4. RunTypes' /\ Logged' /\ FlagOK'
  BY <1>1, <1>2, <1>3 DEF RunInv, RunTypes, Logged, FlagOK
<1>5. Honest' /\ DrainOK'
  BY <1>1, <1>2, <1>3 DEF RunInv, Honest, Complaints, DrainOK, SignatureRead
<1> QED BY <1>2, <1>4, <1>5 DEF RunInv

\* Along every run of a test with the base run phase: the log is what the
\* mailbox, the test and the report server wrote of the tokens of the program.
THEOREM RunInvariant ==
  ASSUME Base
  PROVE  TestSpec => []RunInv
<1>1. TestInit => RunInv
  BY RunInit
<1>2. RunInv /\ [TestNext]_tvars => RunInv'
  BY RunPhaseStep, ClockStep, LimitStep, ReportStep, RunStutter DEF TestNext
<1> QED BY <1>1, <1>2, PTL DEF TestSpec

-----------------------------------------------------------------------------
(* The properties.                                                         *)

\* A log passes if it has a line of a pass and none of the kinds of a failure
\* that the bench prints, and not if it has one of these.
LEMMA PassedMeans ==
  ASSUME log \subseteq LogLines
  PROVE  Passed <=> /\ \E l \in log : l[1] = "pass"
                    /\ \A l \in log : l[1] \notin {"fatal", "fail", "error"}
<1> DEFINE kinds == {l[1] : l \in log}
<1>1. "crash" \notin kinds /\ "timeout" \notin kinds
  BY DEF LogLines, Line
<1>2. LogMode(kinds, FALSE, FALSE) = "NONE"
        <=> /\ "pass" \in kinds
            /\ "fatal" \notin kinds /\ "fail" \notin kinds /\ "error" \notin kinds
  <2> HIDE DEF kinds
  <2> QED BY <1>1 DEF LogMode
<1>3. Passed <=> LogMode(kinds, FALSE, FALSE) = "NONE"
  BY DEF Passed, CheckLines, Verdict
<1> QED BY <1>2, <1>3

LEMMA PassNeedsTokenFollows ==
  ASSUME Base, RunInv
  PROVE  PassNeedsToken
<1> SUFFICES ASSUME test.at = "ended", Passed
             PROVE  TokensWritten = {PASS}
  BY DEF PassNeedsToken
<1>1. \A l \in log : l[1] \notin {"fatal", "fail", "error"}
  BY PassedMeans DEF RunInv, Honest
<1>2. Line("error", "limit") \notin log /\ Line("fatal", "load") \notin log
      /\ Line("fail", "mailbox") \notin log
  BY <1>1 DEF Line
<1>3. mailbox_test_done /\ TokensWritten # {}
  BY <1>2 DEF RunInv, Logged
<1>4. FAIL \notin TokensWritten
  BY <1>2, TestConstantsOK DEF RunInv, Logged, TokenLine, TestConstantsOK
<1> QED BY <1>3, <1>4 DEF RunInv, RunTypes, Tokens

\* A simulation passes only if its program wrote the token of a pass and no
\* other, whatever the size of the memory, the data and the drain.
THEOREM PassNeedsTokenHolds ==
  ASSUME Base
  PROVE  TestSpec => []PassNeedsToken
BY RunInvariant, PassNeedsTokenFollows, PTL

LEMMA TokenIsHeardFollows ==
  ASSUME Base, RunInv
  PROVE  TokenIsHeard
<1> SUFFICES ASSUME test.at = "ended", TokensWritten = {PASS},
                    \A l \in Complaints : l[2] \notin {"limit", "scoreboard"}
             PROVE  Passed
  BY DEF TokenIsHeard
<1>1. FAIL \notin TokensWritten
  BY TestConstantsOK DEF TestConstantsOK
<1>2. \A l \in log : l \in {Line("pass", "mailbox"), Line("pass", "signature"),
                            Line("error", "limit"), Line("error", "scoreboard"),
                            Line("pass", "server"), Line("fail", "server")}
  BY <1>1 DEF RunInv, Honest, LogLines
<1>3. Line("error", "limit") \notin log /\ Line("error", "scoreboard") \notin log
  BY DEF Complaints, Line
<1>4. Complaints = {}
  BY <1>2, <1>3 DEF Complaints, Line
<1>5. Line("fail", "server") \notin log
  BY <1>4 DEF RunInv, Honest
<1>6. Line("pass", "mailbox") \in log
  BY DEF RunInv, Logged, TokenLine
<1>7. \A l \in log : l[1] = "pass"
  BY <1>2, <1>3, <1>5 DEF Line
<1> QED BY <1>6, <1>7, PassedMeans DEF RunInv, Honest

\* The token of a pass makes the simulation pass, or a limit or the scoreboard
\* has complained.
THEOREM TokenIsHeardHolds ==
  ASSUME Base
  PROVE  TestSpec => []TokenIsHeard
BY RunInvariant, TokenIsHeardFollows, PTL

LEMMA DrainSufficesFollows ==
  ASSUME Base, Drain >= 2, RunInv
  PROVE  DrainSuffices
<1> SUFFICES ASSUME test.at = "ended",
                    \E l \in log : l[2] = "signature",
                    \A l \in log : l[2] # "limit"
             PROVE  history.answered /\ history.published
  BY DEF DrainSuffices
<1>1. SignatureRead
  BY DEF RunInv, Honest, LogLines, Line, SignatureRead
<1>2. Line("error", "limit") \notin log
  BY DEF Line
<1> QED BY <1>1, <1>2 DEF RunInv, DrainOK

\* Two edges are enough for the write of the token to be answered and
\* published; the ten of the code have eight to spare.
THEOREM DrainSufficesHolds ==
  ASSUME Base, Drain >= 2
  PROVE  TestSpec => []DrainSuffices
BY RunInvariant, DrainSufficesFollows, PTL
=============================================================================
