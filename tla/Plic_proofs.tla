---------------------------- MODULE Plic_proofs ----------------------------
(***************************************************************************)
(* The interrupt controller, for every set of interrupts and contexts and  *)
(* every register write: its registers keep their ranges, a claim hands an *)
(* interrupt out once, the pipeline settles on the best interrupt, and an  *)
(* eligible interrupt is shown in time.                                    *)
(*                                                                         *)
(* The first half follows an access through axi_slv: the bus master makes  *)
(* one at a time, so each of the two channels runs through its states in a *)
(* fixed order, and the controller never sees two requests within three    *)
(* cycles.  That is what the claims rest on.                               *)
(***************************************************************************)
EXTENDS Plic, TLAPS

-----------------------------------------------------------------------------
(* The steps of axi_slv.                                                   *)

\* the registers of axi_slv
Fields ==
    {"rstate", "wstate", "ar_ready", "ar_addr", "ar_len", "ar_bytes", "ar_last", "ar_id",
     "aw_ready", "aw_addr", "aw_bytes", "aw_id", "w_ready", "r_valid", "r_last", "r_data",
     "r_data_buf", "r_last_buf", "b_valid", "b_err", "req_valid", "req_addr", "req_last",
     "req_write", "req_wdata", "req_bytes", "req_addr_buf", "req_last_buf", "req_wdata_buf",
     "requested", "resp_last"}

\* those that decide how an access goes on
Followed ==
    {"rstate", "wstate", "ar_ready", "aw_ready", "w_ready", "r_valid", "r_last", "b_valid",
     "req_valid", "req_addr", "req_last", "req_write", "req_wdata"}

\* v and w differ at most in the registers of S and in those not followed
SameBut(v, w, S) ==
    /\ DOMAIN w = Fields
    /\ \A f \in Followed \ S : w[f] = v[f]

\* The handshakes of a cycle lower the valid and ready bits that were answered.
LEMMA HandshakesFields ==
    ASSUME NEW s, NEW i, DOMAIN s = Fields
    PROVE  LET h == AX!Handshakes(s, i) IN
           /\ SameBut(s, h, {"ar_ready", "aw_ready", "w_ready", "r_valid", "r_last", "b_valid",
                             "req_valid"})
           /\ h.r_valid <=> s.r_valid /\ ~i.r_ready
           /\ h.b_valid <=> s.b_valid /\ ~i.b_ready
           /\ h.req_valid <=> s.req_valid /\ ~i.req_ready
BY DEF AX!Handshakes, SameBut, Fields, Followed

\* The read channel at rest raises its ready bit,
LEMMA RIdleWaits ==
    ASSUME NEW s, NEW i, NEW v, DOMAIN v = Fields, ~(s.ar_ready /\ i.ar_valid)
    PROVE  LET w == AX!RIdle(s, i, v) IN SameBut(v, w, {"ar_ready"}) /\ w.ar_ready
BY ZenonT(60) DEF AX!RIdle, SameBut, Fields, Followed

\* and asks for the first beat of a burst it accepts when nothing is written.
LEMMA RIdleTakes ==
    ASSUME NEW s, NEW i, NEW v, DOMAIN v = Fields, s.ar_ready, i.ar_valid,
           ~i.aw_valid, s.wstate = "w_idle"
    PROVE  LET w == AX!RIdle(s, i, v) IN
           /\ SameBut(v, w, {"rstate", "req_valid", "req_write", "req_addr", "req_last"})
           /\ w.rstate = "r_addr" /\ w.req_valid /\ ~w.req_write
           /\ w.req_last <=> i.ar_len = 0
BY ZenonT(60) DEF AX!RIdle, SameBut, Fields, Followed

\* The last beat that was asked for is waited for,
LEMMA RAddrStep ==
    ASSUME NEW s, NEW i, NEW v, DOMAIN v = Fields, i.req_ready, s.req_last
    PROVE  LET w == AX!RAddr(s, i, v) IN SameBut(v, w, {"rstate"}) /\ w.rstate = "r_resp_last"
BY DEF AX!RAddr, SameBut, Fields, Followed

\* it goes onto the channel when it comes,
LEMMA RRespLastStep ==
    ASSUME NEW s, NEW i, NEW v, DOMAIN v = Fields, i.resp_valid, i.r_ready
    PROVE  LET w == AX!RRespLast(s, i, v) IN
           /\ SameBut(v, w, {"rstate", "r_valid", "r_last"})
           /\ w.rstate = "r_wait_accept" /\ w.r_valid /\ w.r_last
BY DEF AX!RRespLast, AX!TakeBeat, SameBut, Fields, Followed

\* and the channel rests when it has been taken.
LEMMA RWaitAcceptStep ==
    ASSUME NEW s, NEW i, NEW v, DOMAIN v = Fields, i.r_ready, s.r_last
    PROVE  LET w == AX!RWaitAccept(s, i, v) IN
           SameBut(v, w, {"rstate", "r_last"}) /\ w.rstate = "r_idle"
BY ZenonT(60) DEF AX!RWaitAccept, AX!RAccepted, SameBut, Fields, Followed

\* The write channel at rest raises its ready bit,
LEMMA WIdleWaits ==
    ASSUME NEW s, NEW i, NEW v, DOMAIN v = Fields, ~(s.aw_ready /\ i.aw_valid)
    PROVE  LET w == AX!WIdle(s, i, v) IN SameBut(v, w, {"aw_ready"}) /\ w.aw_ready
BY ZenonT(60) DEF AX!WIdle, SameBut, Fields, Followed

\* and takes the address of a burst it accepts when nothing is read.
LEMMA WIdleTakes ==
    ASSUME NEW s, NEW i, NEW v, DOMAIN v = Fields, s.aw_ready, i.aw_valid, s.rstate = "r_idle"
    PROVE  LET w == AX!WIdle(s, i, v) IN
           /\ SameBut(v, w, {"wstate", "w_ready", "req_write", "req_addr"})
           /\ w.wstate = "w_req" /\ w.w_ready /\ w.req_write /\ w.req_addr = i.aw_addr
BY ZenonT(60) DEF AX!WIdle, SameBut, Fields, Followed

\* The data makes the request,
LEMMA WReqStep ==
    ASSUME NEW s, NEW i, NEW v, DOMAIN v = Fields, i.w_valid
    PROVE  LET w == AX!WReq(s, i, v) IN
           /\ SameBut(v, w, {"wstate", "w_ready", "req_valid", "req_wdata", "req_last"})
           /\ w.wstate = "w_pipe" /\ w.req_valid /\ w.req_wdata = i.w_data
           /\ w.req_last <=> i.w_last
BY DEF AX!WReq, AX!AskWrite, SameBut, Fields, Followed

\* the answer to the last one is waited for,
LEMMA WPipeStep ==
    ASSUME NEW s, NEW i, NEW v, DOMAIN v = Fields,
           ~i.w_valid, i.req_ready, s.req_valid, s.req_last
    PROVE  LET w == AX!WPipe(s, i, v) IN
           SameBut(v, w, {"wstate", "w_ready"}) /\ w.wstate = "w_resp"
BY DEF AX!WPipe, SameBut, Fields, Followed

\* it goes onto the B channel when it comes,
LEMMA WRespStep ==
    ASSUME NEW s, NEW i, NEW v, DOMAIN v = Fields, i.resp_valid
    PROVE  LET w == AX!WResp(s, i, v) IN
           SameBut(v, w, {"wstate", "b_valid"}) /\ w.wstate = "b" /\ w.b_valid
BY DEF AX!WResp, SameBut, Fields, Followed

\* and the channel rests when it has been taken.
LEMMA WBStep ==
    ASSUME NEW s, NEW i, NEW v, DOMAIN v = Fields, s.b_valid, i.b_ready
    PROVE  LET w == AX!WB(s, i, v) IN
           /\ SameBut(v, w, {"wstate", "b_valid", "aw_ready"})
           /\ w.wstate = "w_idle" /\ ~w.b_valid /\ w.aw_ready
BY DEF AX!WB, SameBut, Fields, Followed

-----------------------------------------------------------------------------
(* One access at a time.                                                   *)

\* nothing is on its way to the registers
Resting ==
    /\ mst.st \in {"idle", "ar", "aw"}
    /\ slv.rstate = "r_idle" /\ slv.wstate = "w_idle"
    /\ ~slv.req_valid /\ ~slv.r_valid /\ ~slv.b_valid /\ ~r.resp_valid
    /\ mst.st # "idle" => slv.ar_ready /\ slv.aw_ready

\* a read is asked for, answered, taken by the master
ReadAsks ==
    /\ slv.rstate = "r_addr"
    /\ slv.req_valid /\ ~slv.req_write /\ slv.req_last /\ ~slv.r_valid /\ ~r.resp_valid

ReadWaits ==
    /\ slv.rstate = "r_resp_last"
    /\ ~slv.req_valid /\ ~slv.r_valid /\ r.resp_valid

ReadEnds ==
    /\ slv.rstate = "r_wait_accept"
    /\ ~slv.req_valid /\ slv.r_valid /\ slv.r_last /\ ~r.resp_valid

Reading ==
    /\ mst.st = "r" /\ slv.wstate = "w_idle" /\ ~slv.b_valid
    /\ ReadAsks \/ ReadWaits \/ ReadEnds

\* a write waits for its data, is asked for, answered, taken by the master
WriteTakes ==
    /\ mst.st = "w" /\ slv.wstate = "w_req" /\ slv.w_ready
    /\ slv.req_write /\ slv.req_addr = mst.addr
    /\ ~slv.req_valid /\ ~slv.b_valid /\ ~r.resp_valid

WriteAsks ==
    /\ mst.st = "b" /\ slv.wstate = "w_pipe"
    /\ slv.req_valid /\ slv.req_write /\ slv.req_last /\ ~slv.b_valid /\ ~r.resp_valid
    /\ slv.req_addr = mst.addr /\ slv.req_wdata = mst.data

WriteWaits ==
    /\ mst.st = "b" /\ slv.wstate = "w_resp"
    /\ ~slv.req_valid /\ ~slv.b_valid /\ r.resp_valid

WriteEnds ==
    /\ mst.st = "b" /\ slv.wstate = "b"
    /\ ~slv.req_valid /\ slv.b_valid /\ ~r.resp_valid

Writing ==
    /\ slv.rstate = "r_idle" /\ ~slv.r_valid
    /\ WriteTakes \/ WriteAsks \/ WriteWaits \/ WriteEnds

\* the access of the master: none, the read of a claim, a write of software
MstOK ==
    \/ mst = Idle
    \/ /\ mst.st \in {"ar", "r"}
       /\ mst = [st |-> mst.st, addr |-> mst.addr]
    \/ /\ mst.st \in {"aw", "w", "b"}
       /\ \E x \in Writes : mst = [st |-> mst.st, addr |-> x.addr, data |-> x.data]

BusInv == DOMAIN slv = Fields /\ MstOK /\ (Resting \/ Reading \/ Writing)

\* the wires of the controller to its axi_slv
LEMMA Wires ==
    /\ SlvIn.req_ready /\ SlvIn.r_ready /\ SlvIn.b_ready
    /\ SlvIn.ar_len = 0
    /\ SlvIn.ar_valid <=> mst.st = "ar"
    /\ SlvIn.aw_valid <=> mst.st = "aw"
    /\ mst.st = "aw" => SlvIn.aw_addr = mst.addr
    /\ SlvIn.w_valid <=> mst.st = "w"
    /\ mst.st = "w" => SlvIn.w_last /\ SlvIn.w_data = mst.data
    /\ SlvIn.resp_valid <=> r.resp_valid
BY DEF SlvIn

\* A cycle of axi_slv with both channels at rest accepts what the master asks.
LEMMA RestingStep ==
    ASSUME DOMAIN slv = Fields, Resting, slv' = AX!Comb(slv, SlvIn)
    PROVE  /\ DOMAIN slv' = Fields
           /\ ~slv'.r_valid /\ ~slv'.b_valid
           /\ mst.st = "idle" => /\ slv'.rstate = "r_idle" /\ slv'.wstate = "w_idle"
                                 /\ slv'.ar_ready /\ slv'.aw_ready /\ ~slv'.req_valid
                                 /\ slv'.req_addr = slv.req_addr
           /\ mst.st = "ar" => /\ slv'.rstate = "r_addr" /\ slv'.wstate = "w_idle"
                               /\ slv'.req_valid /\ ~slv'.req_write /\ slv'.req_last
           /\ mst.st = "aw" => /\ slv'.rstate = "r_idle" /\ slv'.wstate = "w_req"
                               /\ slv'.w_ready /\ slv'.req_write /\ slv'.req_addr = mst.addr
                               /\ ~slv'.req_valid
<1> DEFINE h == AX!Handshakes(slv, SlvIn)
           v == AX!RIdle(slv, SlvIn, h)
<1>1. slv' = AX!WIdle(slv, SlvIn, v)
  BY DEF AX!Comb, AX!WriteChannel, AX!ReadChannel, Resting
<1>2. /\ DOMAIN h = Fields
      /\ ~h.r_valid /\ ~h.b_valid /\ ~h.req_valid
      /\ h.rstate = "r_idle" /\ h.wstate = "w_idle" /\ h.req_addr = slv.req_addr
  BY HandshakesFields, Wires DEF SameBut, Followed, Resting
<1> HIDE DEF h
<1>3. /\ DOMAIN v = Fields
      /\ ~v.r_valid /\ ~v.b_valid /\ v.wstate = "w_idle"
      /\ mst.st = "ar" => v.rstate = "r_addr" /\ v.req_valid /\ ~v.req_write /\ v.req_last
      /\ mst.st # "ar" => /\ v.rstate = "r_idle" /\ v.ar_ready /\ ~v.req_valid
                          /\ v.req_addr = slv.req_addr
  <2>1. CASE mst.st = "ar"
    BY <1>2, <2>1, RIdleTakes, Wires DEF SameBut, Followed, Resting
  <2>2. CASE mst.st # "ar"
    BY <1>2, <2>2, RIdleWaits, Wires DEF SameBut, Followed
  <2> QED
    BY <2>1, <2>2
<1> HIDE DEF v
<1>4. CASE mst.st = "aw"
  BY <1>1, <1>3, <1>4, WIdleTakes, Wires DEF SameBut, Followed, Resting
<1>5. CASE mst.st # "aw"
  BY <1>1, <1>3, <1>5, WIdleWaits, Wires DEF SameBut, Followed
<1> QED
  BY <1>4, <1>5

\* A cycle of a read takes it to its next state.
LEMMA ReadingStep ==
    ASSUME DOMAIN slv = Fields, Reading, slv' = AX!Comb(slv, SlvIn)
    PROVE  /\ DOMAIN slv' = Fields
           /\ slv'.wstate = "w_idle" /\ ~slv'.req_valid /\ ~slv'.b_valid
           /\ slv'.req_addr = slv.req_addr
           /\ ReadAsks => slv'.rstate = "r_resp_last" /\ ~slv'.r_valid
           /\ ReadWaits => slv'.rstate = "r_wait_accept" /\ slv'.r_valid /\ slv'.r_last
           /\ ReadEnds => slv'.rstate = "r_idle" /\ ~slv'.r_valid
<1> DEFINE h == AX!Handshakes(slv, SlvIn)
           v == AX!ReadChannel(slv, SlvIn, h)
<1>1. slv' = AX!WIdle(slv, SlvIn, v)
  BY DEF AX!Comb, AX!WriteChannel, Reading
<1>2. /\ DOMAIN h = Fields
      /\ ~h.r_valid /\ ~h.b_valid /\ ~h.req_valid
      /\ h.rstate = slv.rstate /\ h.wstate = "w_idle" /\ h.req_addr = slv.req_addr
  BY HandshakesFields, Wires DEF SameBut, Followed, Reading
<1> HIDE DEF h
<1>3. /\ DOMAIN v = Fields
      /\ v.wstate = "w_idle" /\ ~v.req_valid /\ ~v.b_valid /\ v.req_addr = slv.req_addr
      /\ ReadAsks => v.rstate = "r_resp_last" /\ ~v.r_valid
      /\ ReadWaits => v.rstate = "r_wait_accept" /\ v.r_valid /\ v.r_last
      /\ ReadEnds => v.rstate = "r_idle" /\ ~v.r_valid
  <2>1. CASE ReadAsks
    <3>1. v = AX!RAddr(slv, SlvIn, h)
      BY <2>1 DEF AX!ReadChannel, ReadAsks
    <3> QED
      BY <1>2, <2>1, <3>1, RAddrStep, Wires
         DEF SameBut, Followed, ReadAsks, ReadWaits, ReadEnds
  <2>2. CASE ReadWaits
    <3>1. v = AX!RRespLast(slv, SlvIn, h)
      BY <2>2 DEF AX!ReadChannel, ReadWaits
    <3> QED
      BY <1>2, <2>2, <3>1, RRespLastStep, Wires
         DEF SameBut, Followed, ReadAsks, ReadWaits, ReadEnds
  <2>3. CASE ReadEnds
    <3>1. v = AX!RWaitAccept(slv, SlvIn, h)
      BY <2>3 DEF AX!ReadChannel, ReadEnds
    <3> QED
      BY <1>2, <2>3, <3>1, RWaitAcceptStep, Wires
         DEF SameBut, Followed, ReadAsks, ReadWaits, ReadEnds
  <2> QED
    BY <2>1, <2>2, <2>3 DEF Reading
<1> HIDE DEF v
<1>4. ~SlvIn.aw_valid
  BY Wires DEF Reading
<1> QED
  BY <1>1, <1>3, <1>4, WIdleWaits DEF SameBut, Followed

\* A cycle of a write takes it to its next state.
LEMMA WritingStep ==
    ASSUME DOMAIN slv = Fields, Writing, slv' = AX!Comb(slv, SlvIn)
    PROVE  /\ DOMAIN slv' = Fields
           /\ slv'.rstate = "r_idle" /\ ~slv'.r_valid /\ slv'.ar_ready
           /\ slv'.req_addr = slv.req_addr
           /\ WriteTakes => /\ slv'.wstate = "w_pipe" /\ ~slv'.b_valid
                            /\ slv'.req_valid /\ slv'.req_write /\ slv'.req_last
                            /\ slv'.req_addr = mst.addr /\ slv'.req_wdata = mst.data
           /\ WriteAsks => slv'.wstate = "w_resp" /\ ~slv'.req_valid /\ ~slv'.b_valid
           /\ WriteWaits => slv'.wstate = "b" /\ ~slv'.req_valid /\ slv'.b_valid
           /\ WriteEnds => /\ slv'.wstate = "w_idle" /\ ~slv'.req_valid /\ ~slv'.b_valid
                           /\ slv'.aw_ready
<1> DEFINE h == AX!Handshakes(slv, SlvIn)
           v == AX!RIdle(slv, SlvIn, h)
<1>1. slv' = AX!WriteChannel(slv, SlvIn, v)
  BY DEF AX!Comb, AX!ReadChannel, Writing
<1>2. /\ DOMAIN h = Fields
      /\ ~h.r_valid /\ ~h.b_valid /\ ~h.req_valid
      /\ h.rstate = "r_idle" /\ h.req_addr = slv.req_addr /\ h.req_write = slv.req_write
  BY HandshakesFields, Wires DEF SameBut, Followed, Writing
<1> HIDE DEF h
<1>3. ~SlvIn.ar_valid
  BY Wires DEF Writing, WriteTakes, WriteAsks, WriteWaits, WriteEnds
<1>4. /\ DOMAIN v = Fields
      /\ ~v.r_valid /\ ~v.b_valid /\ ~v.req_valid /\ v.ar_ready
      /\ v.rstate = "r_idle" /\ v.req_addr = slv.req_addr /\ v.req_write = slv.req_write
  BY <1>2, <1>3, RIdleWaits DEF SameBut, Followed
<1> HIDE DEF v
<1>5. CASE WriteTakes
  <2>1. slv' = AX!WReq(slv, SlvIn, v)
    BY <1>1, <1>5 DEF AX!WriteChannel, WriteTakes
  <2>2. /\ SlvIn.w_valid /\ SlvIn.w_last /\ SlvIn.w_data = mst.data
        /\ slv.req_write /\ slv.req_addr = mst.addr
        /\ ~WriteAsks /\ ~WriteWaits /\ ~WriteEnds
    BY <1>5, Wires DEF WriteTakes, WriteAsks, WriteWaits, WriteEnds
  <2>3. /\ SameBut(v, slv', {"wstate", "w_ready", "req_valid", "req_wdata", "req_last"})
        /\ slv'.wstate = "w_pipe" /\ slv'.req_valid /\ slv'.req_wdata = mst.data
        /\ slv'.req_last
    BY <1>4, <2>1, <2>2, WReqStep
  <2> QED
    BY <1>4, <2>2, <2>3, ZenonT(60) DEF SameBut, Followed
<1>6. CASE WriteAsks
  <2>1. slv' = AX!WPipe(slv, SlvIn, v)
    BY <1>1, <1>6 DEF AX!WriteChannel, WriteAsks
  <2> QED
    BY <1>4, <1>6, <2>1, WPipeStep, Wires
       DEF SameBut, Followed, WriteTakes, WriteAsks, WriteWaits, WriteEnds
<1>7. CASE WriteWaits
  <2>1. slv' = AX!WResp(slv, SlvIn, v)
    BY <1>1, <1>7 DEF AX!WriteChannel, WriteWaits
  <2> QED
    BY <1>4, <1>7, <2>1, WRespStep, Wires
       DEF SameBut, Followed, WriteTakes, WriteAsks, WriteWaits, WriteEnds
<1>8. CASE WriteEnds
  <2>1. slv' = AX!WB(slv, SlvIn, v)
    BY <1>1, <1>8 DEF AX!WriteChannel, WriteEnds
  <2> QED
    BY <1>4, <1>8, <2>1, WBStep, Wires
       DEF SameBut, Followed, WriteTakes, WriteAsks, WriteWaits, WriteEnds
<1> QED
  BY <1>5, <1>6, <1>7, <1>8 DEF Writing

\* Every cycle keeps the order of an access; a read passes through the states
\* r_resp_last and r_wait_accept before anything else is asked.
LEMMA BusNext ==
    ASSUME BusInv, NEW irqs, NEW x \in (IF mst.st = "idle" THEN Accesses ELSE {Idle}),
           Cycle(irqs, x)
    PROVE  /\ BusInv'
           /\ slv.rstate = "r_addr" => slv'.rstate = "r_resp_last"
           /\ slv.rstate = "r_resp_last" => slv'.rstate = "r_wait_accept"
<1>1. /\ slv' = AX!Comb(slv, SlvIn)
      /\ mst' = MstNext(x)
      /\ r'.resp_valid = slv.req_valid
      /\ DOMAIN slv = Fields
  BY DEF Cycle, PlicNext, BusInv
<1>2. CASE Resting
  <2>1. CASE mst.st = "idle"
    <3>1. mst' = x /\ x \in Accesses
      BY <1>1, <2>1 DEF MstNext
    <3>2. MstOK' /\ mst'.st \in {"idle", "ar", "aw"}
      BY <3>1 DEF Accesses, Idle, ReadOf, MstOK
    <3>3. Resting'
      BY <1>1, <1>2, <2>1, <3>2, RestingStep DEF Resting
    <3> QED
      BY <1>1, <1>2, <3>2, <3>3, RestingStep DEF BusInv, Resting
  <2>2. CASE mst.st = "ar"
    <3>1. mst' = [mst EXCEPT !.st = "r"]
      BY <1>1, <1>2, <2>2 DEF MstNext, Resting
    <3>2. MstOK' /\ mst'.st = "r"
      BY <2>2, <3>1 DEF BusInv, MstOK, Idle
    <3>3. Reading'
      BY <1>1, <1>2, <2>2, <3>2, RestingStep DEF Resting, Reading, ReadAsks
    <3> QED
      BY <1>1, <1>2, <3>2, <3>3, RestingStep DEF BusInv, Resting
  <2>3. CASE mst.st = "aw"
    <3>1. mst' = [mst EXCEPT !.st = "w"]
      BY <1>1, <1>2, <2>3 DEF MstNext, Resting
    <3>2. MstOK' /\ mst'.st = "w" /\ mst'.addr = mst.addr
      BY <2>3, <3>1 DEF BusInv, MstOK, Idle
    <3>3. Writing'
      BY <1>1, <1>2, <2>3, <3>2, RestingStep DEF Resting, Writing, WriteTakes
    <3> QED
      BY <1>1, <1>2, <3>2, <3>3, RestingStep DEF BusInv, Resting
  <2> QED
    BY <1>2, <2>1, <2>2, <2>3 DEF Resting
<1>3. CASE Reading
  <2>1. mst.st = "r"
    BY <1>3 DEF Reading
  <2>2. CASE ReadAsks \/ ReadWaits
    <3>1. mst' = mst
      BY <1>1, <2>1, <2>2 DEF MstNext, ReadAsks, ReadWaits
    <3>2. MstOK'
      BY <3>1 DEF BusInv, MstOK
    <3>3. CASE ReadAsks
      BY <1>1, <1>3, <2>1, <3>1, <3>2, <3>3, ReadingStep
         DEF BusInv, Reading, ReadAsks, ReadWaits
    <3>4. CASE ReadWaits
      BY <1>1, <1>3, <2>1, <3>1, <3>2, <3>4, ReadingStep
         DEF BusInv, Reading, ReadWaits, ReadEnds
    <3> QED
      BY <2>2, <3>3, <3>4
  <2>3. CASE ReadEnds
    <3>1. mst' = Idle
      BY <1>1, <2>1, <2>3 DEF MstNext, ReadEnds
    <3>2. MstOK' /\ mst'.st = "idle"
      BY <3>1 DEF MstOK, Idle
    <3>3. Resting'
      BY <1>1, <1>3, <2>3, <3>2, ReadingStep DEF Resting, ReadEnds
    <3> QED
      BY <1>1, <1>3, <2>3, <3>2, <3>3, ReadingStep DEF BusInv, ReadEnds
  <2> QED
    BY <1>3, <2>2, <2>3 DEF Reading
<1>4. CASE Writing
  <2>0. slv.rstate = "r_idle"
    BY <1>4 DEF Writing
  <2>1. CASE WriteTakes
    <3>1. mst' = [mst EXCEPT !.st = "b"]
      BY <1>1, <2>1 DEF MstNext, WriteTakes
    <3>2. MstOK' /\ mst'.st = "b" /\ mst'.addr = mst.addr /\ mst'.data = mst.data
      BY <2>1, <3>1 DEF BusInv, MstOK, Idle, WriteTakes
    <3>3. WriteAsks'
      BY <1>1, <1>4, <2>1, <3>2, WritingStep DEF WriteTakes, WriteAsks
    <3> QED
      BY <1>1, <1>4, <2>0, <3>2, <3>3, WritingStep DEF BusInv, Writing
  <2>2. CASE WriteAsks \/ WriteWaits
    <3>1. mst' = mst
      BY <1>1, <2>2 DEF MstNext, WriteAsks, WriteWaits
    <3>2. MstOK'
      BY <3>1 DEF BusInv, MstOK
    <3>3. CASE WriteAsks
      BY <1>1, <1>4, <2>0, <3>1, <3>2, <3>3, WritingStep
         DEF BusInv, Writing, WriteAsks, WriteWaits
    <3>4. CASE WriteWaits
      BY <1>1, <1>4, <2>0, <3>1, <3>2, <3>4, WritingStep
         DEF BusInv, Writing, WriteWaits, WriteEnds
    <3> QED
      BY <2>2, <3>3, <3>4
  <2>3. CASE WriteEnds
    <3>1. mst' = Idle
      BY <1>1, <2>3 DEF MstNext, WriteEnds
    <3>2. MstOK' /\ mst'.st = "idle"
      BY <3>1 DEF MstOK, Idle
    <3>3. Resting'
      BY <1>1, <1>4, <2>3, <3>2, WritingStep DEF Resting, WriteEnds
    <3> QED
      BY <1>1, <1>4, <2>0, <3>2, <3>3, WritingStep DEF BusInv
  <2> QED
    BY <1>4, <2>1, <2>2, <2>3 DEF Writing
<1> QED
  BY <1>2, <1>3, <1>4 DEF BusInv

\* At power-on there is no access.
LEMMA BusInit ==
    ASSUME Init
    PROVE  BusInv
<1>1. DOMAIN slv = Fields
  BY DEF Init, AX!SlvReset, Fields
<1>2. Resting /\ MstOK
  BY DEF Init, AX!SlvReset, PlicReset, Idle, Resting, MstOK
<1> QED
  BY <1>1, <1>2 DEF BusInv

\* A write that reaches the registers is one of the writes of software, and a
\* read reaches them in one state only.
LEMMA BusRequests ==
    ASSUME BusInv, slv.req_valid
    PROVE  /\ slv.req_write => \E x \in Writes : slv.req_addr = x.addr /\ slv.req_wdata = x.data
           /\ ~slv.req_write => slv.rstate = "r_addr"
<1>1. CASE Resting
  BY <1>1 DEF Resting
<1>2. CASE Reading
  BY <1>2 DEF Reading, ReadAsks, ReadWaits, ReadEnds
<1>3. CASE Writing
  <2>1. WriteAsks
    BY <1>3 DEF Writing, WriteTakes, WriteWaits, WriteEnds
  <2>2. PICK x \in Writes : mst = [st |-> mst.st, addr |-> x.addr, data |-> x.data]
    BY <2>1 DEF BusInv, MstOK, Idle, WriteAsks
  <2> QED
    BY <2>1, <2>2 DEF WriteAsks
<1> QED
  BY <1>1, <1>2, <1>3 DEF BusInv

-----------------------------------------------------------------------------
(* The highest of a set of numbers.                                        *)

HasHighest(k) ==
    \A S \in SUBSET (0 .. k) : S # {} => \E x \in S : \A y \in S : y <= x

\* The upper half of an interval has a highest number if the lower half has.
LEMMA HighestDoubled ==
    ASSUME NEW k \in Nat, HasHighest(k)
    PROVE  HasHighest(2 * k + 1)
<1> SUFFICES ASSUME NEW S \in SUBSET (0 .. 2 * k + 1), S # {}
             PROVE  \E x \in S : \A y \in S : y <= x
  BY DEF HasHighest
<1> DEFINE T == {x \in 0 .. k : x + k + 1 \in S}
<1>1. CASE T = {}
  <2>1. S \in SUBSET (0 .. k)
    <3> SUFFICES ASSUME NEW y \in S, y \notin 0 .. k
                 PROVE  FALSE
      OBVIOUS
    <3>1. y - (k + 1) \in 0 .. k /\ (y - (k + 1)) + k + 1 = y
      OBVIOUS
    <3> QED
      BY <1>1, <3>1
  <2> QED
    BY <2>1 DEF HasHighest
<1>2. CASE T # {}
  <2>1. PICK x \in T : \A y \in T : y <= x
    BY <1>2 DEF HasHighest
  <2>2. x + k + 1 \in S
    BY <2>1
  <2>3. ASSUME NEW y \in S
        PROVE  y <= x + k + 1
    <3>1. CASE y <= k
      BY <2>1, <3>1
    <3>2. CASE y > k
      <4>1. PICK z \in 0 .. k : y = z + k + 1
        <5>1. y - (k + 1) \in 0 .. k /\ y = (y - (k + 1)) + k + 1
          BY <3>2
        <5> QED
          BY <5>1
      <4>2. z \in T
        BY <4>1
      <4> QED
        BY <2>1, <4>1, <4>2
    <3> QED
      BY <3>1, <3>2
  <2> QED
    BY <2>2, <2>3
<1> QED
  BY <1>1, <1>2

\* Highest gives the greatest number of a set of priorities or interrupts.
LEMMA HighestIs ==
    ASSUME NEW S \in SUBSET (0 .. 31)
    PROVE  /\ S = {} => Highest(S) = 0
           /\ S # {} => Highest(S) \in S /\ \A y \in S : y <= Highest(S)
<1>1. HasHighest(0)
  <2> SUFFICES ASSUME NEW T \in SUBSET (0 .. 0), T # {}
               PROVE  \E x \in T : \A y \in T : y <= x
    BY DEF HasHighest
  <2>1. \A y \in T : y = 0
    OBVIOUS
  <2>2. 0 \in T
    BY <2>1
  <2> QED
    BY <2>1, <2>2
<1>2. HasHighest(1)
  BY <1>1, HighestDoubled
<1>3. HasHighest(3)
  BY <1>2, HighestDoubled
<1>4. HasHighest(7)
  BY <1>3, HighestDoubled
<1>5. HasHighest(15)
  BY <1>4, HighestDoubled
<1>6. HasHighest(31)
  BY <1>5, HighestDoubled
<1>7. CASE S # {}
  <2>1. \E x \in S : \A y \in S : y <= x
    BY <1>6, <1>7 DEF HasHighest
  <2> QED
    BY <1>7, <2>1 DEF Highest
<1> QED
  BY <1>7 DEF Highest

-----------------------------------------------------------------------------
(* Ranges.                                                                 *)

\* The second stage selects one of the priorities of the first, if there is one.
LEMMA SelPrioIs ==
    ASSUME NEW c, c.ip_prio \in [Irqs -> Prios]
    PROVE  /\ SelPrio(c) \in Prios
           /\ \A i \in Irqs : c.ip_prio[i] <= SelPrio(c)
           /\ SelPrio(c) # 0 => \E i \in Irqs : c.ip_prio[i] = SelPrio(c)
<1>1. PrioMask(c) \in SUBSET Prios /\ PrioMask(c) \in SUBSET (0 .. 31)
  BY DEF PrioMask, Prios
<1>2. ASSUME NEW i \in Irqs
      PROVE  c.ip_prio[i] \in Prios /\ (c.ip_prio[i] \in PrioMask(c) \/ c.ip_prio[i] = 0)
  BY DEF PrioMask
<1>3. CASE PrioMask(c) = {}
  <2>1. SelPrio(c) = 0
    BY <1>1, <1>3, HighestIs DEF SelPrio
  <2> QED
    BY <1>2, <1>3, <2>1 DEF Prios
<1>4. CASE PrioMask(c) # {}
  <2>1. SelPrio(c) \in PrioMask(c) /\ \A y \in PrioMask(c) : y <= SelPrio(c)
    BY <1>1, <1>4, HighestIs DEF SelPrio
  <2>2. SelPrio(c) \in Prios
    BY <1>1, <2>1
  <2>3. \A i \in Irqs : c.ip_prio[i] <= SelPrio(c)
    BY <1>2, <2>1, <2>2 DEF Prios
  <2>4. \E i \in Irqs : c.ip_prio[i] = SelPrio(c)
    BY <2>1 DEF PrioMask
  <2> QED
    BY <2>2, <2>3, <2>4
<1> QED
  BY <1>3, <1>4

\* The third stage shows an interrupt of the selected priority or none.
LEMMA IrqIdxIs ==
    ASSUME NEW c
    PROVE  \/ IrqIdx(c) = 0
           \/ /\ IrqIdx(c) \in Irqs
              /\ c.sel_prio # 0
              /\ c.ip_prio[IrqIdx(c)] = c.sel_prio
<1> DEFINE S == {i \in Irqs : c.ip_prio[i] = c.sel_prio}
<1>1. S \in SUBSET (0 .. 31)
  BY IrqAssumption
<1>2. CASE c.sel_prio = 0
  BY <1>2 DEF IrqIdx
<1>3. CASE c.sel_prio # 0
  <2>1. IrqIdx(c) = Highest(S)
    BY <1>3 DEF IrqIdx
  <2>2. S = {} => Highest(S) = 0
    BY <1>1, HighestIs
  <2>3. S # {} => Highest(S) \in S
    BY <1>1, HighestIs
  <2> QED
    BY <1>3, <2>1, <2>2, <2>3
<1> QED
  BY <1>2, <1>3

\* The first stage holds priorities.
LEMMA IpPrioType ==
    ASSUME TypeOK, NEW n \in Contexts
    PROVE  IpPrio(n) \in [Irqs -> Prios]
BY DEF TypeOK, IpPrio, Prios

\* What a write brings to the registers is of their kind.
LEMMA WriteType ==
    ASSUME BusInv
    PROVE  /\ slv.req_valid /\ slv.req_write /\ slv.req_addr < 512
                => \A k \in {1, 2} : slv.req_wdata[k] \in Prios \cup {NoWord}
           /\ WriteTo(PendingAddr) => slv.req_wdata[1] \subseteq Irqs
           /\ \A n \in Contexts : WriteTo(IeAddr(n)) => slv.req_wdata[1] \subseteq Irqs
           /\ \A n \in Contexts : WriteTo(CtxAddr(n)) => slv.req_wdata[1] \in Prios \cup {NoWord}
<1> SUFFICES ASSUME slv.req_valid, slv.req_write
             PROVE  /\ slv.req_addr < 512 => \A k \in {1, 2} : slv.req_wdata[k] \in Prios \cup {NoWord}
                    /\ slv.req_addr = PendingAddr => slv.req_wdata[1] \subseteq Irqs
                    /\ \A n \in Contexts : slv.req_addr = IeAddr(n) => slv.req_wdata[1] \subseteq Irqs
                    /\ \A n \in Contexts : slv.req_addr = CtxAddr(n)
                                              => slv.req_wdata[1] \in Prios \cup {NoWord}
  BY DEF WriteTo
<1>1. PICK x \in Writes : slv.req_addr = x.addr /\ slv.req_wdata = x.data
  BY BusRequests
<1>2. /\ PendingAddr = 512
      /\ \A n \in Contexts : IeAddr(n) \in Int /\ IeAddr(n) >= 1024 /\ IeAddr(n) < 2000
      /\ \A n \in Contexts : CtxAddr(n) \in Int /\ CtxAddr(n) >= 262144
  BY ContextAssumption, SMT DEF PendingAddr, IeAddr, CtxAddr
<1>3. CASE x.addr \in 0 .. 31 /\ \A k \in {1, 2} : x.data[k] \in Prios \cup {NoWord}
  <2>0. x.addr \in Int /\ x.addr <= 31
    BY <1>3
  <2>1. x.addr # PendingAddr /\ \A n \in Contexts : x.addr # IeAddr(n) /\ x.addr # CtxAddr(n)
    BY <1>2, <2>0, SMT
  <2> QED
    BY <1>1, <1>3, <2>1
<1>4. CASE x.addr \in {PendingAddr} \cup {IeAddr(n) : n \in Contexts} /\ x.data[1] \subseteq Irqs
  <2>0. x.addr \in Int /\ x.addr >= 512 /\ x.addr < 2000
    BY <1>2, <1>4, SMT
  <2>1. ~(x.addr < 512) /\ \A n \in Contexts : x.addr # CtxAddr(n)
    BY <1>2, <2>0, SMT
  <2> QED
    BY <1>1, <1>4, <2>1
<1>5. CASE x.addr \in {CtxAddr(n) : n \in Contexts}
           /\ \A k \in {1, 2} : x.data[k] \in Prios \cup {NoWord}
  <2>1. /\ ~(x.addr < 512) /\ x.addr # PendingAddr
        /\ \A n \in Contexts : x.addr # IeAddr(n)
    BY <1>2, <1>5, SMT
  <2> QED
    BY <1>1, <1>5, <2>1
<1> QED
  BY <1>3, <1>4, <1>5, WriteAssumption

\* Every cycle keeps the ranges.
LEMMA PlicTypeNext ==
    ASSUME TypeOK, BusInv, BusInv', NEW irqs \in SUBSET Irqs, r' = PlicNext(irqs)
    PROVE  TypeOK'
<1>1. r'.src_priority \in [Irqs -> Prios]
  <2>1. r'.src_priority = [i \in Irqs |-> PrioNext(i)]
    BY DEF PlicNext
  <2>2. ASSUME NEW i \in Irqs
        PROVE  PrioNext(i) \in Prios
    BY WriteType DEF PrioNext, Word, TypeOK
  <2> QED
    BY <2>1, <2>2
<1>2. r'.pending \subseteq Irqs
  <2>1. r'.pending = PendingNext(irqs)
    BY DEF PlicNext
  <2>2. Latched(irqs) \subseteq Irqs /\ r.pending \subseteq Irqs
    BY DEF Latched, TypeOK
  <2> QED
    BY <2>1, <2>2, WriteType DEF PendingNext, Word
<1>3. r'.ip \subseteq Contexts
  BY DEF PlicNext
<1>4. ASSUME NEW n \in Contexts
      PROVE  /\ r'.ctx[n].priority_th \in Prios
             /\ r'.ctx[n].ie \subseteq Irqs
             /\ r'.ctx[n].ip_prio \in [Irqs -> Prios]
             /\ r'.ctx[n].sel_prio \in Prios
             /\ r'.ctx[n].irq_idx \in {0} \cup Irqs
  <2>1. r'.ctx[n] = CtxNext(n)
    BY DEF PlicNext
  <2>2. r'.ctx[n].priority_th \in Prios /\ r'.ctx[n].ie \subseteq Irqs
    BY <2>1, WriteType DEF CtxNext, Word, TypeOK
  <2>3. r'.ctx[n].ip_prio \in [Irqs -> Prios]
    BY <2>1, IpPrioType DEF CtxNext
  <2>4. r'.ctx[n].sel_prio \in Prios
    BY <2>1, SelPrioIs DEF CtxNext, TypeOK
  <2>5. r'.ctx[n].irq_idx \in {0} \cup Irqs
    BY <2>1, IrqIdxIs DEF CtxNext
  <2> QED
    BY <2>2, <2>3, <2>4, <2>5
<1>5. /\ slv'.rstate \in {"r_idle", "r_addr", "r_resp_last", "r_wait_accept"}
      /\ slv'.wstate \in {"w_idle", "w_req", "w_pipe", "w_resp", "b"}
  BY DEF BusInv, Resting, Reading, ReadAsks, ReadWaits, ReadEnds, Writing, WriteTakes,
         WriteAsks, WriteWaits, WriteEnds
<1> QED
  BY <1>1, <1>2, <1>3, <1>4, <1>5 DEF TypeOK

\* The registers are in their ranges at power-on.
LEMMA PlicTypeInit ==
    ASSUME Init
    PROVE  TypeOK
<1>1. 0 \in Prios
  BY DEF Prios
<1>2. \A n \in Contexts : r.ctx[n] = CtxReset
  BY DEF Init, PlicReset
<1>3. /\ slv.rstate = "r_idle" /\ slv.wstate = "w_idle"
      /\ r.src_priority = [i \in Irqs |-> 0] /\ r.pending = {} /\ r.ip = {}
  BY DEF Init, PlicReset, AX!SlvReset
<1> QED
  BY <1>1, <1>2, <1>3 DEF CtxReset, TypeOK

\* A step is a cycle.
LEMMA NextIsCycle ==
    ASSUME Next
    PROVE  \E irqs \in SUBSET Irqs :
             \E x \in (IF mst.st = "idle" THEN Accesses ELSE {Idle}) : Cycle(irqs, x)
BY DEF Next

\* Stuttering changes nothing an invariant looks at.
LEMMA BusTypeNext ==
    ASSUME BusInv, TypeOK, [Next]_vars
    PROVE  BusInv' /\ TypeOK'
<1>1. CASE Next
  <2>1. PICK irqs \in SUBSET Irqs :
          \E x \in (IF mst.st = "idle" THEN Accesses ELSE {Idle}) : Cycle(irqs, x)
    BY <1>1, NextIsCycle
  <2>2. PICK x \in (IF mst.st = "idle" THEN Accesses ELSE {Idle}) : Cycle(irqs, x)
    BY <2>1
  <2>3. BusInv'
    BY <2>2, BusNext
  <2>4. r' = PlicNext(irqs)
    BY <2>2 DEF Cycle
  <2> QED
    BY <2>3, <2>4, PlicTypeNext
<1>2. CASE UNCHANGED vars
  BY <1>2 DEF vars, BusInv, MstOK, Resting, Reading, ReadAsks, ReadWaits, ReadEnds, Writing,
              WriteTakes, WriteAsks, WriteWaits, WriteEnds, TypeOK
<1> QED
  BY <1>1, <1>2

\* The registers of the controller keep their ranges, for every set of
\* interrupts and contexts, and its axi_slv never leaves the states that single
\* accesses need.
THEOREM PlicTypeCorrect == Spec => []TypeOK
<1>1. Init => BusInv /\ TypeOK
  BY BusInit, PlicTypeInit
<1>2. BusInv /\ TypeOK /\ [Next]_vars => (BusInv /\ TypeOK)'
  BY BusTypeNext
<1> QED
  BY <1>1, <1>2, PTL DEF Spec

-----------------------------------------------------------------------------
(* A claim hands an interrupt out once.                                    *)

\* How far the pipeline is behind: an interrupt that was handed out and not
\* raised again has left pending at once, the first stage when the answer to the
\* claim is waited for, and the last stage when the answer is taken.  The next
\* claim can only be asked after that.
ClaimInv ==
    /\ r.pending \subseteq owed
    /\ \A n \in Contexts, i \in Irqs \ owed :
         /\ slv.rstate # "r_resp_last" => r.ctx[n].ip_prio[i] = 0
         /\ slv.rstate \notin {"r_resp_last", "r_wait_accept"} => r.ctx[n].irq_idx # i
    /\ \A n \in Contexts : r.ctx[n].irq_idx # 0 => n \in r.ip

\* A context shows an interrupt only while its ip is up, and only one that
\* was in the first stage.
LEMMA ShownFromStage ==
    ASSUME NEW irqs, r' = PlicNext(irqs), NEW n \in Contexts, r'.ctx[n].irq_idx # 0
    PROVE  /\ n \in r'.ip
           /\ r'.ctx[n].irq_idx \in Irqs
           /\ r.ctx[n].ip_prio[r'.ctx[n].irq_idx] # 0
<1>1. r'.ctx[n] = CtxNext(n) /\ r'.ip = {m \in Contexts : IrqIdx(r.ctx[m]) # 0}
  BY DEF PlicNext
<1>2. r'.ctx[n].irq_idx = IrqIdx(r.ctx[n])
  BY <1>1 DEF CtxNext
<1> QED
  BY <1>1, <1>2, IrqIdxIs

\* What is handed out leaves pending in the same cycle.
LEMMA HandedOutCleared ==
    ASSUME ClaimInv, NEW irqs, r' = PlicNext(irqs), NEW i \in HandedOut
    PROVE  i \notin r'.pending
<1>1. PICK n \in ClaimRead : i = r.ctx[n].irq_idx
  BY DEF HandedOut
<1>2. n \in AtClaim(slv.req_addr) /\ n \in Contexts /\ i # 0 /\ ~slv.req_write
  BY <1>1 DEF HandedOut, ClaimRead, AtClaim
<1>3. i \in ClaimCleared
  BY <1>1, <1>2 DEF ClaimInv, ClaimCleared
<1>4. ~WriteTo(PendingAddr)
  BY <1>2 DEF WriteTo
<1> QED
  BY <1>3, <1>4 DEF PlicNext, PendingNext

\* Every cycle keeps ClaimInv.
LEMMA ClaimCycle ==
    ASSUME BusInv, TypeOK, ClaimInv, NEW irqs \in SUBSET Irqs,
           NEW x \in (IF mst.st = "idle" THEN Accesses ELSE {Idle}), Cycle(irqs, x)
    PROVE  ClaimInv'
<1>1. /\ r' = PlicNext(irqs)
      /\ owed' = (owed \ HandedOut) \cup (r'.pending \ r.pending)
  BY DEF Cycle
<1>2. /\ slv.rstate = "r_addr" => slv'.rstate = "r_resp_last"
      /\ slv.rstate = "r_resp_last" => slv'.rstate = "r_wait_accept"
  BY BusNext
<1>3. slv.rstate # "r_addr" => HandedOut = {}
  BY BusRequests DEF HandedOut, ClaimRead
<1>4. r'.pending \subseteq owed'
  <2> SUFFICES ASSUME NEW i \in r'.pending
               PROVE  i \in owed'
    OBVIOUS
  <2>1. i \notin HandedOut
    BY <1>1, HandedOutCleared
  <2> QED
    BY <1>1, <2>1 DEF ClaimInv
<1>5. ASSUME NEW n \in Contexts, NEW i \in Irqs \ owed'
      PROVE  /\ slv'.rstate # "r_resp_last" => r'.ctx[n].ip_prio[i] = 0
             /\ slv'.rstate \notin {"r_resp_last", "r_wait_accept"} => r'.ctx[n].irq_idx # i
  <2>1. CASE slv.rstate = "r_addr"
    BY <1>2, <2>1
  <2>2. CASE slv.rstate # "r_addr"
    <3>1. i \notin owed /\ i \notin r.pending
      BY <1>1, <1>3, <1>5, <2>2 DEF ClaimInv
    <3>2. r'.ctx[n].ip_prio[i] = 0
      <4>1. r'.ctx[n].ip_prio = IpPrio(n)
        BY <1>1 DEF PlicNext, CtxNext
      <4> QED
        BY <3>1, <4>1 DEF IpPrio, Eligible
    <3>3. slv.rstate # "r_resp_last" => r'.ctx[n].irq_idx # i
      <4> SUFFICES ASSUME slv.rstate # "r_resp_last", r'.ctx[n].irq_idx = i
                   PROVE  FALSE
        OBVIOUS
      <4>1. i # 0
        BY IrqAssumption
      <4>2. r.ctx[n].ip_prio[i] # 0
        BY <1>1, <4>1, ShownFromStage
      <4> QED
        BY <3>1, <4>2 DEF ClaimInv
    <3> QED
      BY <1>2, <3>2, <3>3
  <2> QED
    BY <2>1, <2>2
<1>6. \A n \in Contexts : r'.ctx[n].irq_idx # 0 => n \in r'.ip
  BY <1>1, ShownFromStage
<1> QED
  BY <1>4, <1>5, <1>6 DEF ClaimInv

\* Every step keeps ClaimInv.
LEMMA ClaimNext ==
    ASSUME BusInv, TypeOK, ClaimInv, [Next]_vars
    PROVE  ClaimInv'
<1>1. CASE Next
  <2>1. PICK irqs \in SUBSET Irqs :
          \E x \in (IF mst.st = "idle" THEN Accesses ELSE {Idle}) : Cycle(irqs, x)
    BY <1>1, NextIsCycle
  <2> QED
    BY <2>1, ClaimCycle
<1>2. CASE UNCHANGED vars
  BY <1>2 DEF vars, ClaimInv
<1> QED
  BY <1>1, <1>2

\* An interrupt is handed out once: no two claims, of whatever contexts and
\* however close, return the same interrupt unless a source raised it again in
\* between, for every set of interrupts and contexts.
THEOREM ClaimedOnce == Spec => []HandedOutOnce
<1> DEFINE Inv == BusInv /\ TypeOK /\ ClaimInv
<1>1. Init => Inv
  <2>1. Init => ClaimInv
    <3> SUFFICES ASSUME Init
                 PROVE  ClaimInv
      OBVIOUS
    <3>1. r.pending = {} /\ \A n \in Contexts : r.ctx[n] = CtxReset
      BY DEF Init, PlicReset
    <3>2. \A n \in Contexts : r.ctx[n].irq_idx = 0 /\ \A i \in Irqs : r.ctx[n].ip_prio[i] = 0
      BY <3>1 DEF CtxReset
    <3>3. 0 \notin Irqs
      BY IrqAssumption
    <3> QED
      BY <3>1, <3>2, <3>3 DEF ClaimInv
  <2> QED
    BY <2>1, BusInit, PlicTypeInit
<1>2. Inv /\ [Next]_vars => Inv'
  BY BusTypeNext, ClaimNext
<1>3. Inv => HandedOutOnce
  <2> SUFFICES ASSUME Inv, NEW i \in HandedOut
               PROVE  i \in owed
    BY DEF HandedOutOnce
  <2>1. PICK n \in ClaimRead : i = r.ctx[n].irq_idx /\ i # 0
    BY DEF HandedOut
  <2>2. n \in Contexts /\ slv.rstate = "r_addr"
    BY <2>1, BusRequests DEF ClaimRead, AtClaim
  <2>3. i \in Irqs
    BY <2>1, <2>2 DEF TypeOK
  <2> QED
    BY <2>1, <2>2, <2>3 DEF ClaimInv
<1> HIDE DEF Inv
<1> QED
  BY <1>1, <1>2, <1>3, PTL DEF Spec

-----------------------------------------------------------------------------
(* The pipeline settles.                                                   *)

\* What each cycle without a change brings: one more stage agrees with the
\* stage before it.
SettleInv ==
    /\ calm \in 0 .. 3
    /\ calm >= 1 => \A n \in Contexts : r.ctx[n].ip_prio = IpPrio(n)
    /\ calm >= 2 => \A n \in Contexts : r.ctx[n].sel_prio = SelPrio(r.ctx[n])
    /\ calm >= 3 => \A n \in Contexts : /\ r.ctx[n].irq_idx = IrqIdx(r.ctx[n])
                                        /\ n \in r.ip <=> IrqIdx(r.ctx[n]) # 0

\* The inputs of the pipeline do not change in this step.
CalmStep ==
    /\ r'.pending = r.pending
    /\ r'.src_priority = r.src_priority
    /\ \A n \in Contexts :
         /\ r'.ctx[n].ie = r.ctx[n].ie
         /\ r'.ctx[n].priority_th = r.ctx[n].priority_th
         /\ ~WriteTo(CtxAddr(n))

\* Every cycle keeps SettleInv.
LEMMA SettleCycle ==
    ASSUME SettleInv, NEW irqs, NEW x, Cycle(irqs, x)
    PROVE  SettleInv'
<1>1. /\ r' = PlicNext(irqs)
      /\ CalmStep => calm' = IF calm = 3 THEN 3 ELSE calm + 1
      /\ ~CalmStep => calm' = 0
  BY Zenon DEF Cycle, CalmStep
<1>2. calm \in 0 .. 3
  BY DEF SettleInv
<1>3. CASE ~CalmStep
  BY <1>1, <1>3 DEF SettleInv
<1>4. CASE CalmStep
  <2>1. /\ calm' \in 0 .. 3
        /\ calm' >= 2 => calm >= 1
        /\ calm' >= 3 => calm >= 2
    BY <1>1, <1>2, <1>4
  <2>2. ASSUME NEW n \in Contexts
        PROVE  /\ r'.ctx[n].ip_prio = IpPrio(n)
               /\ r'.ctx[n].sel_prio = SelPrio(r.ctx[n])
               /\ r'.ctx[n].irq_idx = IrqIdx(r.ctx[n])
               /\ n \in r'.ip <=> IrqIdx(r.ctx[n]) # 0
    <3>1. r'.ctx[n] = CtxNext(n) /\ r'.ip = {m \in Contexts : IrqIdx(r.ctx[m]) # 0}
      BY <1>1 DEF PlicNext
    <3>2. ~WriteTo(CtxAddr(n))
      BY <1>4 DEF CalmStep
    <3> QED
      BY <3>1, <3>2 DEF CtxNext
  <2>3. ASSUME NEW n \in Contexts
        PROVE  IpPrio(n)' = IpPrio(n)
    <3>1. ASSUME NEW i \in Irqs
          PROVE  Eligible(n, i)' <=> Eligible(n, i)
      BY <1>4 DEF Eligible, CalmStep
    <3> QED
      BY <1>4, <3>1 DEF IpPrio, CalmStep
  <2>4. ASSUME NEW n \in Contexts, calm' >= 2
        PROVE  /\ r'.ctx[n].ip_prio = r.ctx[n].ip_prio
               /\ SelPrio(r.ctx[n])' = SelPrio(r.ctx[n])
    <3>1. r'.ctx[n].ip_prio = r.ctx[n].ip_prio
      BY <2>1, <2>2, <2>4 DEF SettleInv
    <3> QED
      BY <3>1 DEF SelPrio, PrioMask
  <2>5. ASSUME NEW n \in Contexts, calm' >= 3
        PROVE  IrqIdx(r.ctx[n])' = IrqIdx(r.ctx[n])
    <3>1. r'.ctx[n].ip_prio = r.ctx[n].ip_prio
      BY <2>1, <2>4, <2>5
    <3>2. r'.ctx[n].sel_prio = r.ctx[n].sel_prio
      BY <2>1, <2>2, <2>5 DEF SettleInv
    <3> QED
      BY <3>1, <3>2 DEF IrqIdx
  <2> QED
    BY <2>1, <2>2, <2>3, <2>4, <2>5 DEF SettleInv
<1> QED
  BY <1>3, <1>4

\* Stages that agree show the eligible interrupt of the highest priority.
LEMMA StagesShowBest ==
    ASSUME TypeOK, NEW n \in Contexts, r.ctx[n].ip_prio = IpPrio(n),
           r.ctx[n].sel_prio = SelPrio(r.ctx[n])
    PROVE  IrqIdx(r.ctx[n]) = Best(n)
<1> DEFINE c == r.ctx[n]
           E == {i \in Irqs : Eligible(n, i)}
           P == {r.src_priority[i] : i \in E}
<1>1. ASSUME NEW i \in Irqs
      PROVE  /\ r.src_priority[i] \in Prios /\ r.ctx[n].priority_th \in Prios
             /\ Eligible(n, i) => r.src_priority[i] > 0 /\ c.ip_prio[i] = r.src_priority[i]
             /\ ~Eligible(n, i) => c.ip_prio[i] = 0
  BY DEF TypeOK, IpPrio, Eligible, Prios
<1>2. PrioMask(c) = P
  <2>1. ASSUME NEW p \in PrioMask(c)
        PROVE  p \in P
    <3>1. PICK i \in Irqs : p = c.ip_prio[i] /\ p # 0
      BY <2>1 DEF PrioMask
    <3> QED
      BY <1>1, <3>1
  <2>2. ASSUME NEW p \in P
        PROVE  p \in PrioMask(c)
    <3>1. PICK i \in Irqs : p = r.src_priority[i] /\ Eligible(n, i)
      BY <2>2
    <3>2. p = c.ip_prio[i] /\ p # 0
      BY <1>1, <3>1 DEF Prios
    <3> QED
      BY <3>2 DEF PrioMask
  <2> QED
    BY <2>1, <2>2
<1>3. c.sel_prio = Highest(P)
  BY <1>2 DEF SelPrio
<1>4. Best(n) = Highest({i \in E : r.src_priority[i] = c.sel_prio})
  BY <1>3 DEF Best
<1>5. CASE c.sel_prio = 0
  <2>1. E = {}
    <3> SUFFICES ASSUME E # {}
                 PROVE  FALSE
      OBVIOUS
    <3>1. P # {} /\ P \in SUBSET (0 .. 31)
      BY <1>1 DEF Prios
    <3>2. c.sel_prio \in P
      BY <1>3, <3>1, HighestIs
    <3> QED
      BY <1>1, <1>5, <3>2
  <2>2. Best(n) = Highest({})
    BY <1>4, <2>1
  <2> QED
    BY <1>5, <2>2 DEF IrqIdx, Highest
<1>6. CASE c.sel_prio # 0
  <2>1. {i \in Irqs : c.ip_prio[i] = c.sel_prio} = {i \in E : r.src_priority[i] = c.sel_prio}
    BY <1>1, <1>6
  <2> QED
    BY <1>4, <1>6, <2>1 DEF IrqIdx
<1> QED
  BY <1>5, <1>6

\* Every step keeps SettleInv.
LEMMA SettleNext ==
    ASSUME SettleInv, [Next]_vars
    PROVE  SettleInv'
<1>1. CASE Next
  BY <1>1, NextIsCycle, SettleCycle
<1>2. CASE UNCHANGED vars
  BY <1>2 DEF vars, SettleInv, IpPrio, Eligible
<1> QED
  BY <1>1, <1>2

\* Three cycles after the last change of a pending bit, a priority, an enable
\* bit or a threshold, every context shows the eligible interrupt of the highest
\* priority, for every set of interrupts and contexts.
THEOREM PipelineSettles == Spec => []SettlesOnBest
<1> DEFINE Inv == BusInv /\ TypeOK /\ SettleInv
<1>1. Init => Inv
  <2>1. Init => SettleInv
    BY DEF Init, SettleInv
  <2> QED
    BY <2>1, BusInit, PlicTypeInit
<1>2. Inv /\ [Next]_vars => Inv'
  BY BusTypeNext, SettleNext
<1>3. Inv => SettlesOnBest
  BY StagesShowBest DEF SettleInv, SettlesOnBest
<1> HIDE DEF Inv
<1> QED
  BY <1>1, <1>2, <1>3, PTL DEF Spec

-----------------------------------------------------------------------------
(* An eligible interrupt is shown in time.                                 *)

\* an access has just brought its address
Fresh == slv.rstate = "r_addr" \/ slv.wstate = "w_req"

\* interrupt i is eligible in context n as soon as it is pending
Wanted(n, i) == i \in r.ctx[n].ie /\ r.src_priority[i] > r.ctx[n].priority_th

\* the interrupts of the highest priority of the first stage have all gone
Lost(n) ==
    /\ SelPrio(r.ctx[n]) # 0
    /\ \A j \in Irqs : Eligible(n, j) => r.src_priority[j] # SelPrio(r.ctx[n])

\* the last stage finds an interrupt of the selected priority
Agree(n) == r.ctx[n].sel_prio # 0 /\ \E j \in Irqs : r.ctx[n].ip_prio[j] = r.ctx[n].sel_prio

\* The priorities in the first stage are those of the registers.
StagePrio ==
    (slv.wstate = "w_resp" => AtClaim(slv.req_addr) # {})
      => \A c \in Contexts, j \in Irqs : r.ctx[c].ip_prio[j] \in {0, r.src_priority[j]}

\* What a context shows is not above what it selects.
ShownPrio ==
    (slv.wstate \in {"w_resp", "b"} => AtClaim(slv.req_addr) # {})
      => \A c \in Contexts : r.ctx[c].irq_idx # 0
                               => r.src_priority[r.ctx[c].irq_idx] <= r.ctx[c].sel_prio

\* A context has in its first stage what another one has, if it wants it,
StageAlike ==
    slv.wstate # "w_resp"
      => \A c, n \in Contexts, y \in Irqs :
           r.ctx[c].ip_prio[y] # 0 /\ Wanted(n, y) => r.ctx[n].ip_prio[y] # 0

\* and what another one shows is not above what it selects.
ShownAlike ==
    slv.wstate \notin {"w_resp", "b"}
      => \A c, n \in Contexts, y \in Irqs :
           r.ctx[c].irq_idx = y /\ Wanted(n, y) => r.src_priority[y] <= r.ctx[n].sel_prio

\* What was cleared in the last cycle is not above what the context at the claim
\* register shows now.
ClearedBelow ==
    \A c \in AtClaim(slv.req_addr), y \in Irqs :
      r.ctx[c].irq_idx # 0 /\ r.ctx[c].ip_prio[y] # 0 /\ y \notin r.pending
        => r.src_priority[y] <= r.src_priority[r.ctx[c].irq_idx]

\* The address stays: what a context has just lost, it lost to the context at the
\* claim register, which now shows nothing below it,
LostBelow ==
    ~Fresh => \A c \in AtClaim(slv.req_addr), n \in Contexts :
                c # n /\ Lost(n) /\ r.ctx[c].irq_idx # 0
                  => SelPrio(r.ctx[n]) <= r.src_priority[r.ctx[c].irq_idx]

\* and nothing above it that has just become pending again.
LostAbove ==
    ~Fresh => \A c \in AtClaim(slv.req_addr), n \in Contexts, y \in Irqs :
                c # n /\ Lost(n) /\ r.ctx[c].irq_idx = y /\ Wanted(n, y) /\ r.ctx[n].ip_prio[y] = 0
                  => r.src_priority[y] <= SelPrio(r.ctx[n])

\* What a waiting context has just lost it lost to the claim of another context,
LostToClaim ==
    \A n \in Contexts, i \in Irqs :
      waited[n][i] >= 1 /\ Lost(n) /\ ~Fresh /\ slv.wstate # "w_resp"
        => \E c \in AtClaim(slv.req_addr) : c # n

\* and had not lost anything in the cycle before, if the address is new.
LostOnce ==
    \A n \in Contexts, i \in Irqs :
      waited[n][i] >= 1 /\ Lost(n) /\ Fresh /\ r.ctx[n].sel_prio # 0 => Agree(n)

\* How far an interrupt has come after one, two, three and four cycles.
WaitStages ==
    \A n \in Contexts, i \in Irqs :
      /\ waited[n][i] \in 0 .. WaitBound
      /\ waited[n][i] >= 1 => r.ctx[n].ip_prio[i] # 0
      /\ waited[n][i] >= 2 => r.ctx[n].sel_prio # 0
      /\ waited[n][i] >= 2 /\ n \notin r.ip /\ ~Agree(n) => ~Lost(n)
      /\ waited[n][i] >= 3 /\ n \notin r.ip => Agree(n)
      /\ waited[n][i] >= 4 => n \in r.ip

\* a write reaches the registers in this cycle
WriteActs == slv.req_valid /\ slv.req_write

\* How an access goes on: the address changes only when both channels were at rest,
\* and a write is followed by two cycles at the same address.
LEMMA Phases ==
    ASSUME BusInv, NEW irqs, NEW x \in (IF mst.st = "idle" THEN Accesses ELSE {Idle}),
           Cycle(irqs, x)
    PROVE  /\ WriteActs => ~Fresh /\ slv.wstate = "w_pipe" /\ slv'.wstate = "w_resp"
           /\ slv.wstate = "w_resp" => slv'.wstate = "b" /\ ~Fresh
           /\ slv.wstate = "b" => ~Fresh
           /\ slv'.wstate = "w_resp" => WriteActs
           /\ slv'.wstate = "b" => slv.wstate = "w_resp"
           /\ slv'.wstate \in {"w_resp", "b"} => ~Fresh'
           /\ ~Fresh' => slv'.req_addr = slv.req_addr
           /\ Fresh' => ~Fresh /\ slv.wstate = "w_idle" /\ ~WriteActs
<1>1. slv' = AX!Comb(slv, SlvIn) /\ DOMAIN slv = Fields
  BY DEF Cycle, BusInv
<1>2. CASE Resting
  <2>1. slv.rstate = "r_idle" /\ slv.wstate = "w_idle" /\ ~slv.req_valid
    BY <1>2 DEF Resting
  <2>2. /\ slv'.wstate \in {"w_idle", "w_req"}
        /\ slv'.rstate # "r_addr" /\ slv'.wstate # "w_req" => slv'.req_addr = slv.req_addr
    BY <1>1, <1>2, RestingStep DEF Resting
  <2> QED
    BY <2>1, <2>2 DEF Fresh, WriteActs
<1>3. CASE Reading
  <2>1. /\ slv'.req_addr = slv.req_addr /\ slv'.wstate = "w_idle"
        /\ slv'.rstate # "r_addr"
    BY <1>1, <1>3, ReadingStep DEF Reading
  <2>2. ~WriteActs /\ slv.wstate = "w_idle"
    BY <1>3 DEF Reading, ReadAsks, ReadWaits, ReadEnds, WriteActs
  <2> QED
    BY <2>1, <2>2 DEF Fresh
<1>4. CASE Writing
  <2>1. /\ slv'.req_addr = slv.req_addr /\ slv'.rstate = "r_idle" /\ slv.rstate = "r_idle"
    BY <1>1, <1>4, WritingStep DEF Writing
  <2>2. CASE WriteTakes
    <3>1. slv'.wstate = "w_pipe" /\ slv.wstate = "w_req" /\ ~WriteActs
      BY <1>1, <1>4, <2>2, WritingStep DEF WriteTakes, WriteActs
    <3> QED
      BY <2>1, <3>1 DEF Fresh
  <2>3. CASE WriteAsks
    <3>1. slv'.wstate = "w_resp" /\ slv.wstate = "w_pipe" /\ WriteActs
      BY <1>1, <1>4, <2>3, WritingStep DEF WriteAsks, WriteActs
    <3> QED
      BY <2>1, <3>1 DEF Fresh
  <2>4. CASE WriteWaits
    <3>1. slv'.wstate = "b" /\ slv.wstate = "w_resp" /\ ~WriteActs
      BY <1>1, <1>4, <2>4, WritingStep DEF WriteWaits, WriteActs
    <3> QED
      BY <2>1, <3>1 DEF Fresh
  <2>5. CASE WriteEnds
    <3>1. slv'.wstate = "w_idle" /\ slv.wstate = "b" /\ ~WriteActs
      BY <1>1, <1>4, <2>5, WritingStep DEF WriteEnds, WriteActs
    <3> QED
      BY <2>1, <3>1 DEF Fresh
  <2> QED
    BY <1>4, <2>2, <2>3, <2>4, <2>5 DEF Writing
<1> QED
  BY <1>2, <1>3, <1>4 DEF BusInv

\* nothing but a context is written
Undisturbed == WriteActs => AtClaim(slv.req_addr) # {}

\* The addresses of the claim registers are apart from each other and from those
\* of the other registers.
LEMMA ClaimApart ==
    /\ \A c, n \in Contexts : CtxAddr(c) = CtxAddr(n) => c = n
    /\ \A c, n \in AtClaim(slv.req_addr) : c = n
    /\ \A c \in AtClaim(slv.req_addr) :
         /\ c \in Contexts /\ slv.req_addr = CtxAddr(c)
         /\ ~(slv.req_addr < 512) /\ slv.req_addr # PendingAddr
         /\ \A n \in Contexts : slv.req_addr # IeAddr(n)
<1>1. \A n \in Contexts : n \in Int /\ n >= 0 /\ n <= 31
  BY ContextAssumption
<1>2. \A c, n \in Contexts : CtxAddr(c) = CtxAddr(n) => c = n
  BY <1>1, SMT DEF CtxAddr
<1>3. \A c \in Contexts : ~(CtxAddr(c) < 512) /\ CtxAddr(c) # PendingAddr
  BY <1>1, SMT DEF CtxAddr, PendingAddr
<1>4. \A c, n \in Contexts : CtxAddr(c) # IeAddr(n)
  BY <1>1, SMT DEF CtxAddr, IeAddr
<1> QED
  BY <1>2, <1>3, <1>4 DEF AtClaim

\* What a cycle leaves alone if nothing but a context is written: the priorities,
\* the enable bits, and the thresholds of the other contexts.
LEMMA UndisturbedKeeps ==
    ASSUME TypeOK, Undisturbed, NEW irqs, r' = PlicNext(irqs)
    PROVE  /\ \A i \in Irqs : r'.src_priority[i] = r.src_priority[i]
           /\ \A n \in Contexts : r'.ctx[n].ie = r.ctx[n].ie
           /\ \A n \in Contexts : ~WriteActs \/ n \notin AtClaim(slv.req_addr)
                => r'.ctx[n].priority_th = r.ctx[n].priority_th
           /\ \A i \in r.pending \ r'.pending :
                \E c \in AtClaim(slv.req_addr) \cap r.ip : r.ctx[c].irq_idx = i
<1>1. WriteActs => \E c \in AtClaim(slv.req_addr) : TRUE
  BY DEF Undisturbed
<1>2. ASSUME NEW i \in Irqs PROVE r'.src_priority[i] = r.src_priority[i]
  <2>1. r'.src_priority[i] = PrioNext(i)
    BY DEF PlicNext
  <2>2. ~(slv.req_valid /\ slv.req_write /\ slv.req_addr < 512)
    BY <1>1, ClaimApart DEF WriteActs
  <2> QED
    BY <2>1, <2>2 DEF PrioNext
<1>3. ASSUME NEW n \in Contexts
      PROVE  /\ r'.ctx[n].ie = r.ctx[n].ie
             /\ ~WriteActs \/ n \notin AtClaim(slv.req_addr)
                  => r'.ctx[n].priority_th = r.ctx[n].priority_th
  <2>1. r'.ctx[n] = CtxNext(n)
    BY DEF PlicNext
  <2>2. ~WriteTo(IeAddr(n))
    BY <1>1, ClaimApart DEF WriteActs, WriteTo
  <2>3. ~WriteActs \/ n \notin AtClaim(slv.req_addr) => ~WriteTo(CtxAddr(n))
    BY DEF WriteActs, WriteTo, AtClaim
  <2> QED
    BY <2>1, <2>2, <2>3 DEF CtxNext
<1>4. ASSUME NEW i \in r.pending \ r'.pending
      PROVE  \E c \in AtClaim(slv.req_addr) \cap r.ip : r.ctx[c].irq_idx = i
  <2>1. r'.pending = PendingNext(irqs)
    BY DEF PlicNext
  <2>2. ~WriteTo(PendingAddr)
    BY <1>1, ClaimApart DEF WriteActs, WriteTo
  <2>3. i \in ClaimCleared
    BY <2>1, <2>2 DEF PendingNext
  <2> QED
    BY <2>3 DEF ClaimCleared
<1> QED
  BY <1>2, <1>3, <1>4

\* An interrupt is found by the last stage exactly if one has the selected priority.
LEMMA AgreeIs ==
    ASSUME NEW n \in Contexts
    PROVE  Agree(n) <=> IrqIdx(r.ctx[n]) # 0
<1> DEFINE c == r.ctx[n]
           S == {i \in Irqs : c.ip_prio[i] = c.sel_prio}
<1>0. 0 \notin Irqs
  BY IrqAssumption
<1>1. S \in SUBSET (0 .. 31)
  <2>1. Irqs \subseteq 0 .. 31
    BY IrqAssumption
  <2> QED
    BY <2>1, Zenon
<1>2. ASSUME Agree(n) PROVE IrqIdx(c) # 0
  <2>1. c.sel_prio # 0 /\ S # {}
    BY <1>2 DEF Agree
  <2>2. Highest(S) \in S
    BY <1>1, <2>1, HighestIs
  <2> QED
    BY <1>0, <2>1, <2>2 DEF IrqIdx
<1>3. ASSUME IrqIdx(c) # 0 PROVE Agree(n)
  BY <1>3, IrqIdxIs DEF Agree
<1> QED
  BY <1>2, <1>3

\* What a cycle does to the stages of a context.
LEMMA StagesNext ==
    ASSUME TypeOK, NEW irqs, r' = PlicNext(irqs), NEW n \in Contexts
    PROVE  /\ \A i \in Irqs : /\ Eligible(n, i) => r'.ctx[n].ip_prio[i] = r.src_priority[i]
                              /\ ~Eligible(n, i) => r'.ctx[n].ip_prio[i] = 0
                              /\ r.src_priority[i] \in Nat
                              /\ Eligible(n, i) => r.src_priority[i] > 0
                              /\ r.ctx[n].ip_prio[i] \in Nat
                              /\ r.ctx[n].ip_prio[i] <= SelPrio(r.ctx[n])
           /\ r'.ctx[n].sel_prio = SelPrio(r.ctx[n])
           /\ SelPrio(r.ctx[n]) \in Nat /\ r.ctx[n].sel_prio \in Nat
           /\ SelPrio(r.ctx[n]) # 0 => \E i \in Irqs : r.ctx[n].ip_prio[i] = SelPrio(r.ctx[n])
           /\ r'.ctx[n].irq_idx # 0 =>
                /\ r'.ctx[n].irq_idx \in Irqs
                /\ r.ctx[n].sel_prio # 0
                /\ r.ctx[n].ip_prio[r'.ctx[n].irq_idx] = r.ctx[n].sel_prio
           /\ n \in r'.ip <=> Agree(n)
<1>1. r'.ctx[n] = CtxNext(n) /\ r'.ip = {m \in Contexts : IrqIdx(r.ctx[m]) # 0}
  BY DEF PlicNext
<1>2. r'.ctx[n].ip_prio = IpPrio(n) /\ r'.ctx[n].sel_prio = SelPrio(r.ctx[n])
  BY <1>1 DEF CtxNext
<1>3. r'.ctx[n].irq_idx # 0 => r'.ctx[n].irq_idx = IrqIdx(r.ctx[n])
  BY <1>1 DEF CtxNext
<1>4. /\ r.ctx[n].ip_prio \in [Irqs -> Prios] /\ r.src_priority \in [Irqs -> Prios]
      /\ r.ctx[n].sel_prio \in Prios /\ r.ctx[n].priority_th \in Prios
      /\ Prios \subseteq Nat
  BY DEF TypeOK, Prios
<1>5. ASSUME NEW i \in Irqs
      PROVE  /\ Eligible(n, i) => r'.ctx[n].ip_prio[i] = r.src_priority[i]
             /\ ~Eligible(n, i) => r'.ctx[n].ip_prio[i] = 0
             /\ Eligible(n, i) => r.src_priority[i] > 0
  <2>1. r.src_priority[i] \in Nat /\ r.ctx[n].priority_th \in Nat
    BY <1>4
  <2>2. Eligible(n, i) => r.src_priority[i] > r.ctx[n].priority_th
    BY DEF Eligible
  <2>3. r'.ctx[n].ip_prio[i] = IF Eligible(n, i) THEN r.src_priority[i] ELSE 0
    BY <1>2 DEF IpPrio
  <2> QED
    BY <2>1, <2>2, <2>3
<1>6. /\ SelPrio(r.ctx[n]) \in Prios
      /\ \A i \in Irqs : r.ctx[n].ip_prio[i] <= SelPrio(r.ctx[n])
      /\ SelPrio(r.ctx[n]) # 0 => \E i \in Irqs : r.ctx[n].ip_prio[i] = SelPrio(r.ctx[n])
  BY <1>4, SelPrioIs
<1>7. n \in r'.ip <=> Agree(n)
  BY <1>1, AgreeIs
<1>8. IrqIdx(r.ctx[n]) # 0 => /\ IrqIdx(r.ctx[n]) \in Irqs /\ r.ctx[n].sel_prio # 0
                              /\ r.ctx[n].ip_prio[IrqIdx(r.ctx[n])] = r.ctx[n].sel_prio
  BY IrqIdxIs
<1> QED
  BY <1>2, <1>3, <1>4, <1>5, <1>6, <1>7, <1>8

\* The best of a context are lost only to a claim of another context, if its own
\* registers are not written.
LEMMA LostToOne ==
    ASSUME TypeOK, TypeOK', Undisturbed, NEW irqs, r' = PlicNext(irqs), NEW n \in Contexts,
           ~WriteActs \/ n \notin AtClaim(slv.req_addr), Lost(n)'
    PROVE  \E c \in AtClaim(slv.req_addr) \cap r.ip :
             /\ r.ctx[c].irq_idx \in Irqs
             /\ Eligible(n, r.ctx[c].irq_idx)
             /\ r.src_priority[r.ctx[c].irq_idx] = SelPrio(r'.ctx[n])
<1> DEFINE top == SelPrio(r'.ctx[n])
<1>1. top # 0 /\ \A j \in Irqs : Eligible(n, j)' => r'.src_priority[j] # top
  BY DEF Lost
<1>2. r'.ctx[n].ip_prio \in [Irqs -> Prios]
  BY DEF TypeOK
<1>3. PICK j \in Irqs : r'.ctx[n].ip_prio[j] = top
  BY <1>1, <1>2, SelPrioIs
<1> HIDE DEF top
<1>4. Eligible(n, j) /\ r.src_priority[j] = top
  BY <1>1, <1>3, StagesNext
<1>5. r'.src_priority[j] = top
  BY <1>4, UndisturbedKeeps
<1>6. ~Eligible(n, j)'
  BY <1>1, <1>5
<1>7. j \notin r'.pending
  BY <1>4, <1>5, <1>6, UndisturbedKeeps DEF Eligible
<1>8. j \in r.pending
  BY <1>4 DEF Eligible
<1> QED
  BY <1>4, <1>7, <1>8, UndisturbedKeeps DEF top

\* The inductive invariant, in three layers.
AlikeInv == StagePrio /\ ShownPrio /\ StageAlike /\ ShownAlike
LossInv == ClearedBelow /\ LostBelow /\ LostAbove
WaitInv == LostToClaim /\ LostOnce /\ WaitStages

\* A cycle keeps what the contexts have in common.
LEMMA AlikeCycle ==
    ASSUME BusInv, TypeOK, AlikeInv, NEW irqs \in SUBSET Irqs,
           NEW x \in (IF mst.st = "idle" THEN Accesses ELSE {Idle}), Cycle(irqs, x)
    PROVE  AlikeInv'
<1>1. r' = PlicNext(irqs)
  BY DEF Cycle
<1>2. ASSUME slv'.wstate = "w_resp" => AtClaim(slv'.req_addr) # {}
      PROVE  Undisturbed
  BY <1>2, Phases DEF Undisturbed
<1>3. 0 \notin Irqs
  BY IrqAssumption
<1>4. StagePrio'
  <2> SUFFICES ASSUME slv'.wstate = "w_resp" => AtClaim(slv'.req_addr) # {},
                      NEW c \in Contexts, NEW j \in Irqs
               PROVE  r'.ctx[c].ip_prio[j] \in {0, r'.src_priority[j]}
    BY DEF StagePrio, AtClaim
  <2>1. r'.src_priority[j] = r.src_priority[j]
    BY <1>1, <1>2, UndisturbedKeeps
  <2> QED
    BY <1>1, <2>1, StagesNext
<1>5. ShownPrio'
  <2> SUFFICES ASSUME slv'.wstate \in {"w_resp", "b"} => AtClaim(slv'.req_addr) # {},
                      NEW c \in Contexts, r'.ctx[c].irq_idx # 0
               PROVE  r'.src_priority[r'.ctx[c].irq_idx] <= r'.ctx[c].sel_prio
    BY DEF ShownPrio, AtClaim
  <2> DEFINE j == r'.ctx[c].irq_idx
  <2>1. j \in Irqs /\ r.ctx[c].ip_prio[j] # 0
    BY <1>1, StagesNext
  <2>2. r'.src_priority[j] = r.src_priority[j]
    BY <1>1, <1>2, <2>1, UndisturbedKeeps
  <2>3. slv.wstate = "w_resp" => AtClaim(slv.req_addr) # {}
    BY Phases
  <2>4. r.ctx[c].ip_prio[j] = r.src_priority[j]
    BY <2>1, <2>3 DEF AlikeInv, StagePrio
  <2>5. r.ctx[c].ip_prio[j] <= r'.ctx[c].sel_prio
    BY <1>1, <2>1, StagesNext
  <2> QED
    BY <2>2, <2>4, <2>5
<1>6. StageAlike'
  <2> SUFFICES ASSUME slv'.wstate # "w_resp", NEW c \in Contexts, NEW n \in Contexts,
                      NEW y \in Irqs, r'.ctx[c].ip_prio[y] # 0, Wanted(n, y)'
               PROVE  r'.ctx[n].ip_prio[y] # 0
    BY DEF StageAlike, Wanted
  <2>1. ~WriteActs /\ Undisturbed
    BY Phases DEF Undisturbed
  <2>2. Wanted(n, y)
    BY <1>1, <2>1, UndisturbedKeeps DEF Wanted
  <2>3. y \in r.pending
    BY <1>1, StagesNext DEF Eligible
  <2>4. Eligible(n, y)
    BY <2>2, <2>3 DEF Eligible, Wanted
  <2> QED
    BY <1>1, <2>4, StagesNext
<1>7. ShownAlike'
  <2> SUFFICES ASSUME slv'.wstate \notin {"w_resp", "b"}, NEW c \in Contexts, NEW n \in Contexts,
                      NEW y \in Irqs, r'.ctx[c].irq_idx = y, Wanted(n, y)'
               PROVE  r'.src_priority[y] <= r'.ctx[n].sel_prio
    BY DEF ShownAlike, Wanted
  <2>1. ~WriteActs /\ Undisturbed /\ slv.wstate # "w_resp"
    BY Phases DEF Undisturbed
  <2>2. Wanted(n, y) /\ r'.src_priority[y] = r.src_priority[y]
    BY <1>1, <2>1, UndisturbedKeeps DEF Wanted
  <2>3. r.ctx[c].ip_prio[y] # 0
    BY <1>1, <1>3, StagesNext
  <2>4. r.ctx[n].ip_prio[y] = r.src_priority[y]
    BY <2>1, <2>2, <2>3 DEF AlikeInv, StageAlike, StagePrio
  <2> QED
    BY <1>1, <2>2, <2>4, StagesNext
<1> QED
  BY <1>4, <1>5, <1>6, <1>7 DEF AlikeInv

\* At a claim register a context shows an interrupt of the priority selected
\* before; what it showed before was not above that.
LEMMA ShownAtClaim ==
    ASSUME TypeOK, AlikeInv, Undisturbed, AtClaim(slv.req_addr) # {},
           NEW irqs, r' = PlicNext(irqs), NEW c \in Contexts
    PROVE  /\ r'.ctx[c].irq_idx # 0
                => r'.src_priority[r'.ctx[c].irq_idx] = r.ctx[c].sel_prio
           /\ r.ctx[c].irq_idx # 0
                => r.src_priority[r.ctx[c].irq_idx] <= r.ctx[c].sel_prio
<1>1. ASSUME r'.ctx[c].irq_idx # 0
      PROVE  r'.src_priority[r'.ctx[c].irq_idx] = r.ctx[c].sel_prio
  <2> DEFINE j == r'.ctx[c].irq_idx
  <2>1. j \in Irqs /\ r.ctx[c].ip_prio[j] # 0 /\ r.ctx[c].ip_prio[j] = r.ctx[c].sel_prio
    BY <1>1, StagesNext
  <2>2. r'.src_priority[j] = r.src_priority[j]
    BY <2>1, UndisturbedKeeps
  <2>3. r.ctx[c].ip_prio[j] = r.src_priority[j]
    BY <2>1 DEF AlikeInv, StagePrio
  <2> QED
    BY <2>1, <2>2, <2>3
<1> QED
  BY <1>1 DEF AlikeInv, ShownPrio

\* A cycle keeps what is known of interrupts that were cleared.
LEMMA LossCycle ==
    ASSUME BusInv, TypeOK, TypeOK', AlikeInv, LossInv, NEW irqs \in SUBSET Irqs,
           NEW x \in (IF mst.st = "idle" THEN Accesses ELSE {Idle}), Cycle(irqs, x)
    PROVE  LossInv'
<1>1. r' = PlicNext(irqs)
  BY DEF Cycle
<1>2. 0 \notin Irqs
  BY IrqAssumption
<1>3. ClearedBelow'
  <2> SUFFICES ASSUME NEW c \in AtClaim(slv'.req_addr), NEW y \in Irqs, r'.ctx[c].irq_idx # 0,
                      r'.ctx[c].ip_prio[y] # 0, y \notin r'.pending
               PROVE  r'.src_priority[y] <= r'.src_priority[r'.ctx[c].irq_idx]
    BY DEF ClearedBelow, AtClaim
  <2>1. Undisturbed
    BY Phases DEF Undisturbed
  <2>2. c \in Contexts
    BY DEF AtClaim
  <2>3. Eligible(c, y)
    BY <1>1, <2>2, StagesNext
  <2>4. y \in r.pending /\ Wanted(c, y)
    BY <2>3 DEF Eligible, Wanted
  <2>5. PICK k \in AtClaim(slv.req_addr) : r.ctx[k].irq_idx = y
    BY <1>1, <2>1, <2>4, UndisturbedKeeps
  <2>6. k \in Contexts /\ slv.req_addr = CtxAddr(k) /\ slv'.req_addr = CtxAddr(c)
    BY DEF AtClaim
  <2>7. /\ r'.src_priority[r'.ctx[c].irq_idx] = r.ctx[c].sel_prio
        /\ r'.src_priority[y] = r.src_priority[y]
    BY <1>1, <2>1, <2>2, <2>5, ShownAtClaim, UndisturbedKeeps
  <2>8. CASE k = c
    BY <1>1, <1>2, <2>1, <2>2, <2>5, <2>7, <2>8, ShownAtClaim
  <2>9. CASE k # c
    <3>1. slv'.req_addr # slv.req_addr
      BY <2>2, <2>6, <2>9, ClaimApart
    <3>2. slv.wstate = "w_idle"
      BY <3>1, Phases
    <3>3. r.src_priority[y] <= r.ctx[c].sel_prio
      BY <2>2, <2>4, <2>5, <2>6, <3>2 DEF AlikeInv, ShownAlike
    <3> QED
      BY <2>7, <3>3
  <2> QED
    BY <2>8, <2>9
<1>4. ASSUME ~Fresh', NEW c \in AtClaim(slv'.req_addr), NEW n \in Contexts, c # n, Lost(n)'
      PROVE  /\ Undisturbed /\ c \in AtClaim(slv.req_addr) /\ c \in Contexts
             /\ n \notin AtClaim(slv.req_addr)
             /\ r.ctx[c].irq_idx \in Irqs
             /\ r.src_priority[r.ctx[c].irq_idx] = SelPrio(r'.ctx[n])
  <2>1. c \in AtClaim(slv.req_addr)
    BY <1>4, Phases
  <2>2. Undisturbed /\ c \in Contexts /\ n \notin AtClaim(slv.req_addr)
    BY <1>4, <2>1, ClaimApart DEF Undisturbed
  <2>3. PICK k \in AtClaim(slv.req_addr) \cap r.ip :
               /\ r.ctx[k].irq_idx \in Irqs
               /\ r.src_priority[r.ctx[k].irq_idx] = SelPrio(r'.ctx[n])
    BY <1>1, <1>4, <2>2, LostToOne
  <2>4. k = c
    BY <2>1, ClaimApart
  <2> QED
    BY <2>1, <2>2, <2>3, <2>4
<1>5. LostBelow'
  <2> SUFFICES ASSUME ~Fresh', NEW c \in AtClaim(slv'.req_addr), NEW n \in Contexts, c # n,
                      Lost(n)', r'.ctx[c].irq_idx # 0
               PROVE  SelPrio(r'.ctx[n]) <= r'.src_priority[r'.ctx[c].irq_idx]
    BY Zenon DEF LostBelow, AtClaim
  <2>1. /\ Undisturbed /\ c \in AtClaim(slv.req_addr) /\ c \in Contexts
        /\ r.ctx[c].irq_idx \in Irqs
        /\ r.src_priority[r.ctx[c].irq_idx] = SelPrio(r'.ctx[n])
    BY <1>4
  <2> QED
    BY <1>1, <1>2, <2>1, ShownAtClaim
<1>6. LostAbove'
  <2> SUFFICES ASSUME ~Fresh', NEW c \in AtClaim(slv'.req_addr), NEW n \in Contexts, c # n,
                      NEW y \in Irqs, Lost(n)', r'.ctx[c].irq_idx = y, Wanted(n, y)',
                      r'.ctx[n].ip_prio[y] = 0
               PROVE  r'.src_priority[y] <= SelPrio(r'.ctx[n])
    BY Zenon DEF LostAbove, AtClaim
  <2>1. /\ Undisturbed /\ c \in AtClaim(slv.req_addr) /\ c \in Contexts
        /\ n \notin AtClaim(slv.req_addr)
        /\ r.ctx[c].irq_idx \in Irqs
        /\ r.src_priority[r.ctx[c].irq_idx] = SelPrio(r'.ctx[n])
    BY <1>4
  <2>2. Wanted(n, y) /\ r'.src_priority[y] = r.src_priority[y]
    BY <1>1, <2>1, UndisturbedKeeps DEF Wanted
  <2>3. ~Eligible(n, y)
    BY <1>1, StagesNext
  <2>4. y \notin r.pending
    BY <2>2, <2>3 DEF Eligible, Wanted
  <2>5. r.ctx[c].ip_prio[y] # 0
    BY <1>1, <1>2, <2>1, StagesNext
  <2>6. r.src_priority[y] <= r.src_priority[r.ctx[c].irq_idx]
    BY <1>2, <2>1, <2>4, <2>5 DEF LossInv, ClearedBelow
  <2> QED
    BY <2>1, <2>2, <2>6
<1> QED
  BY <1>3, <1>5, <1>6 DEF LossInv

\* While an address stays, the best of a context that has just lost its best are
\* not cleared: the interrupt another context shows is above the one it cleared
\* before, and it would have been among the best itself.
LEMMA NotLostTwice ==
    ASSUME TypeOK, AlikeInv, LossInv, ~Fresh, NEW n \in Contexts, Lost(n),
           NEW c \in AtClaim(slv.req_addr), c # n,
           r.ctx[c].irq_idx \in Irqs, Eligible(n, r.ctx[c].irq_idx)
    PROVE  FALSE
<1> DEFINE y == r.ctx[c].irq_idx
           top == SelPrio(r.ctx[n])
<1>1. y # 0 /\ y \in Irqs
  BY IrqAssumption
<1>2. Wanted(n, y)
  BY DEF Eligible, Wanted
<1>3. /\ r.ctx[n].ip_prio \in [Irqs -> Prios] /\ r.src_priority \in [Irqs -> Prios]
      /\ Prios \subseteq Nat
  BY DEF TypeOK, Prios
<1>4. top \in Nat /\ r.ctx[n].ip_prio[y] <= top
  BY <1>1, <1>3, SelPrioIs
<1>5. top <= r.src_priority[y]
  BY <1>1 DEF LossInv, LostBelow
<1>6. r.src_priority[y] # top
  BY <1>1 DEF Lost
<1>7. r.ctx[n].ip_prio[y] \in {0, r.src_priority[y]}
  BY <1>1 DEF AlikeInv, StagePrio
<1>8. r.src_priority[y] \in Nat
  BY <1>1, <1>3
<1> HIDE DEF top
<1>9. r.ctx[n].ip_prio[y] = 0
  BY <1>4, <1>5, <1>6, <1>7, <1>8
<1>10. r.src_priority[y] <= top
  BY <1>1, <1>2, <1>9 DEF LossInv, LostAbove, top
<1> QED
  BY <1>4, <1>5, <1>6, <1>8, <1>10

\* A context that waits and has just lost its best keeps those it has now.
LEMMA BestKept ==
    ASSUME BusInv, TypeOK, TypeOK', AlikeInv, LossInv, WaitInv, NEW irqs \in SUBSET Irqs,
           NEW x \in (IF mst.st = "idle" THEN Accesses ELSE {Idle}), Cycle(irqs, x),
           NEW n \in Contexts, NEW i \in Irqs, waited[n][i] >= 1, n \notin r.ip,
           ~Agree(n), Lost(n)
    PROVE  ~Lost(n)'
<1> SUFFICES ASSUME Lost(n)'
             PROVE  FALSE
  OBVIOUS
<1>1. r' = PlicNext(irqs)
  BY DEF Cycle
<1>2. Undisturbed /\ (~WriteActs \/ n \notin AtClaim(slv.req_addr))
  <2>1. CASE WriteActs
    <3>1. ~Fresh /\ slv.wstate # "w_resp"
      BY <2>1, Phases
    <3>2. PICK c \in AtClaim(slv.req_addr) : c # n
      BY <3>1 DEF WaitInv, LostToClaim
    <3> QED
      BY <3>2, ClaimApart DEF Undisturbed
  <2>2. CASE ~WriteActs
    BY <2>2 DEF Undisturbed
  <2> QED
    BY <2>1, <2>2
<1>3. PICK c \in AtClaim(slv.req_addr) \cap r.ip :
             r.ctx[c].irq_idx \in Irqs /\ Eligible(n, r.ctx[c].irq_idx)
  BY <1>1, <1>2, LostToOne
<1>4. c # n /\ c \in Contexts
  BY <1>3 DEF AtClaim
<1>5. CASE ~Fresh
  BY <1>3, <1>4, <1>5, NotLostTwice
<1>6. CASE Fresh
  <2> DEFINE y == r.ctx[c].irq_idx
  <2>1. slv.wstate \notin {"w_resp", "b"}
    BY <1>6, Phases
  <2>2. Wanted(n, y) /\ y \in Irqs
    BY <1>3 DEF Eligible, Wanted
  <2>3. r.src_priority[y] <= r.ctx[n].sel_prio
    BY <1>4, <2>1, <2>2 DEF AlikeInv, ShownAlike
  <2>4. r.src_priority[y] \in Nat /\ r.src_priority[y] > 0 /\ r.ctx[n].sel_prio \in Nat
    BY <1>1, <1>3, StagesNext
  <2>5. r.ctx[n].sel_prio # 0
    BY <2>3, <2>4
  <2> QED
    BY <1>6, <2>5 DEF WaitInv, LostOnce
<1> QED
  BY <1>5, <1>6

\* A cycle keeps WaitInv: the third cycle of waiting that finds no interrupt of the
\* selected priority is the last one.
LEMMA WaitCycle ==
    ASSUME BusInv, TypeOK, TypeOK', AlikeInv, LossInv, WaitInv, NEW irqs \in SUBSET Irqs,
           NEW x \in (IF mst.st = "idle" THEN Accesses ELSE {Idle}), Cycle(irqs, x)
    PROVE  WaitInv'
<1>1. r' = PlicNext(irqs)
  BY DEF Cycle
<1>2. ASSUME NEW n \in Contexts, NEW i \in Irqs
      PROVE  /\ waited[n][i] \in 0 .. 4 /\ waited'[n][i] \in 0 .. 4
             /\ waited'[n][i] >= 1 => Eligible(n, i) /\ n \notin r.ip
             /\ waited'[n][i] >= 2 => waited[n][i] >= 1
             /\ waited'[n][i] >= 3 => waited[n][i] >= 2
             /\ waited'[n][i] >= 4 => waited[n][i] >= 3
  <2>1. /\ waited[n][i] \in 0 .. 4
        /\ waited[n][i] >= 4 => n \in r.ip
    BY DEF WaitInv, WaitStages, WaitBound
  <2>2. waited'[n][i] = IF Eligible(n, i) /\ n \notin r.ip
                        THEN (IF waited[n][i] = WaitCap THEN WaitCap ELSE waited[n][i] + 1)
                        ELSE 0
    BY DEF Cycle
  <2> QED
    BY <2>1, <2>2 DEF WaitCap, WaitBound
<1>3. LostToClaim'
  <2> SUFFICES ASSUME NEW n \in Contexts, NEW i \in Irqs, waited'[n][i] >= 1, Lost(n)', ~Fresh',
                      slv'.wstate # "w_resp"
               PROVE  \E c \in AtClaim(slv'.req_addr) : c # n
    BY Zenon DEF LostToClaim, AtClaim
  <2>1. ~WriteActs /\ Undisturbed
    BY Phases DEF Undisturbed
  <2>2. PICK c \in AtClaim(slv.req_addr) \cap r.ip : TRUE
    BY <1>1, <2>1, LostToOne
  <2>3. n \notin r.ip /\ slv'.req_addr = slv.req_addr
    BY <1>2, Phases
  <2> QED
    BY <2>2, <2>3
<1>4. ASSUME NEW n \in Contexts, ~Lost(n), r'.ctx[n].sel_prio # 0
      PROVE  Agree(n)'
  <2>1. r'.ctx[n].sel_prio = SelPrio(r.ctx[n])
    BY <1>1, StagesNext
  <2>2. PICK j \in Irqs : Eligible(n, j) /\ r.src_priority[j] = SelPrio(r.ctx[n])
    BY <1>4, <2>1 DEF Lost
  <2>3. r'.ctx[n].ip_prio[j] = r'.ctx[n].sel_prio
    BY <1>1, <2>1, <2>2, StagesNext
  <2> QED
    BY <1>4, <2>3 DEF Agree
<1>5. LostOnce'
  <2> SUFFICES ASSUME NEW n \in Contexts, NEW i \in Irqs, waited'[n][i] >= 1, Lost(n)', Fresh',
                      r'.ctx[n].sel_prio # 0
               PROVE  Agree(n)'
    BY Zenon DEF LostOnce
  <2>1. ~WriteActs /\ Undisturbed /\ ~Fresh
    BY Phases DEF Undisturbed
  <2>2. PICK c \in AtClaim(slv.req_addr) \cap r.ip :
               r.ctx[c].irq_idx \in Irqs /\ Eligible(n, r.ctx[c].irq_idx)
    BY <1>1, <2>1, LostToOne
  <2>3. c # n
    BY <1>2, <2>2
  <2>4. ~Lost(n)
    BY <2>1, <2>2, <2>3, NotLostTwice
  <2> QED
    BY <1>4, <2>4
<1>6. ASSUME NEW n \in Contexts, NEW i \in Irqs
      PROVE  /\ waited'[n][i] \in 0 .. WaitBound
             /\ waited'[n][i] >= 1 => r'.ctx[n].ip_prio[i] # 0
             /\ waited'[n][i] >= 2 => r'.ctx[n].sel_prio # 0
             /\ waited'[n][i] >= 2 /\ n \notin r'.ip /\ ~Agree(n)' => ~Lost(n)'
             /\ waited'[n][i] >= 3 /\ n \notin r'.ip => Agree(n)'
             /\ waited'[n][i] >= 4 => n \in r'.ip
  <2>0. n \in r'.ip <=> Agree(n)
    BY <1>1, StagesNext
  <2>1. waited'[n][i] \in 0 .. WaitBound
    BY <1>2 DEF WaitBound
  <2>2. waited'[n][i] >= 1 => r'.ctx[n].ip_prio[i] # 0
    BY <1>1, <1>2, StagesNext
  <2>3. ASSUME waited'[n][i] >= 2 PROVE r'.ctx[n].sel_prio # 0 /\ n \notin r.ip
    <3>1. r.ctx[n].ip_prio[i] # 0
      BY <1>2, <2>3 DEF WaitInv, WaitStages
    <3>2. /\ r.ctx[n].ip_prio[i] \in Nat /\ SelPrio(r.ctx[n]) \in Nat
          /\ r.ctx[n].ip_prio[i] <= SelPrio(r.ctx[n])
          /\ r'.ctx[n].sel_prio = SelPrio(r.ctx[n])
      BY <1>1, StagesNext
    <3>3. waited'[n][i] >= 1
      BY <1>2, <2>3
    <3> QED
      BY <1>2, <3>1, <3>2, <3>3
  <2>4. ASSUME waited'[n][i] >= 2, n \notin r'.ip, ~Agree(n)' PROVE ~Lost(n)'
    <3>1. Lost(n)
      BY <1>4, <2>3, <2>4
    <3>2. waited[n][i] >= 1 /\ n \notin r.ip /\ ~Agree(n)
      BY <1>2, <2>0, <2>3, <2>4
    <3> QED
      BY <3>1, <3>2, BestKept
  <2>5. ASSUME waited'[n][i] >= 3, n \notin r'.ip PROVE Agree(n)'
    <3>1. waited[n][i] >= 2 /\ waited'[n][i] >= 2
      BY <1>2, <2>5
    <3>2. ~Lost(n)
      BY <2>0, <2>3, <2>5, <3>1 DEF WaitInv, WaitStages
    <3> QED
      BY <1>4, <2>3, <3>1, <3>2
  <2>6. ASSUME waited'[n][i] >= 4 PROVE n \in r'.ip
    <3>1. waited[n][i] >= 3 /\ waited'[n][i] >= 2
      BY <1>2, <2>6
    <3> QED
      BY <2>0, <2>3, <3>1 DEF WaitInv, WaitStages
  <2> QED
    BY <2>1, <2>2, <2>3, <2>4, <2>5, <2>6
<1>7. WaitStages'
  BY <1>6, Zenon DEF WaitStages, WaitBound
<1> QED
  BY <1>3, <1>5, <1>7 DEF WaitInv

\* Every step keeps the three invariants.
LEMMA WaitNext ==
    ASSUME BusInv, TypeOK, TypeOK', AlikeInv, LossInv, WaitInv, [Next]_vars
    PROVE  AlikeInv' /\ LossInv' /\ WaitInv'
<1>1. CASE Next
  <2>1. PICK irqs \in SUBSET Irqs :
          \E x \in (IF mst.st = "idle" THEN Accesses ELSE {Idle}) : Cycle(irqs, x)
    BY <1>1, NextIsCycle
  <2> QED
    BY <2>1, AlikeCycle, LossCycle, WaitCycle
<1>2. CASE UNCHANGED vars
  <2>1. r' = r /\ slv' = slv /\ waited' = waited
    BY <1>2 DEF vars
  <2>2. Fresh' = Fresh /\ (\A n : Lost(n)' = Lost(n) /\ Agree(n)' = Agree(n))
        /\ (\A n, i : Wanted(n, i)' = Wanted(n, i))
    BY <2>1 DEF Fresh, Lost, Agree, Wanted, Eligible
  <2>3. AlikeInv'
    BY <2>1, <2>2 DEF AlikeInv, StagePrio, ShownPrio, StageAlike, ShownAlike, AtClaim
  <2>4. LossInv'
    BY <2>1, <2>2 DEF LossInv, ClearedBelow, LostBelow, LostAbove, AtClaim
  <2>5. WaitInv'
    BY <2>1, <2>2 DEF WaitInv, LostToClaim, LostOnce, WaitStages, AtClaim
  <2> QED
    BY <2>3, <2>4, <2>5
<1> QED
  BY <1>1, <1>2

\* At power-on the pipeline is empty and nothing has waited.
LEMMA WaitInit ==
    ASSUME Init
    PROVE  AlikeInv /\ LossInv /\ WaitInv
<1>1. \A n \in Contexts : /\ r.ctx[n].irq_idx = 0 /\ r.ctx[n].sel_prio = 0
                          /\ \A i \in Irqs : r.ctx[n].ip_prio[i] = 0
  BY DEF Init, PlicReset, CtxReset
<1>2. \A n \in Contexts, i \in Irqs : waited[n][i] = 0
  BY DEF Init
<1>3. 0 \notin Irqs
  BY IrqAssumption
<1>4. AlikeInv
  BY <1>1, <1>3 DEF AlikeInv, StagePrio, ShownPrio, StageAlike, ShownAlike
<1>5. LossInv
  BY <1>1, <1>3 DEF LossInv, ClearedBelow, LostBelow, LostAbove, AtClaim
<1>6. WaitInv
  BY <1>2 DEF WaitInv, LostToClaim, LostOnce, WaitStages, WaitBound
<1> QED
  BY <1>4, <1>5, <1>6

\* An interrupt that stays eligible in a context raises ip of that context within
\* WaitBound cycles, for every set of interrupts and contexts and whatever the other
\* interrupts, the claims and the register writes do meanwhile.
THEOREM RaisedInTime == Spec => []AnsweredInTime
<1> DEFINE Inv == BusInv /\ TypeOK /\ AlikeInv /\ LossInv /\ WaitInv
<1>1. Init => Inv
  BY BusInit, PlicTypeInit, WaitInit
<1>2. Inv /\ [Next]_vars => Inv'
  BY BusTypeNext, WaitNext
<1>3. Inv => AnsweredInTime
  BY DEF WaitInv, WaitStages, AnsweredInTime, WaitBound
<1> HIDE DEF Inv
<1> QED
  BY <1>1, <1>2, <1>3, PTL DEF Spec

=============================================================================
