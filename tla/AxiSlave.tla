----------------------------- MODULE AxiSlave -----------------------------
(***************************************************************************)
(* axi_slv: the AXI4 slave port in front of every memory and register bank *)
(* of bus 0 (src/sc/rtl/internal/ambalib/axi_slv.cpp).  It turns bursts    *)
(* of the bus into single requests on a ready/valid request port and the   *)
(* answers of that port into beats, and lets only one of its two channels  *)
(* use the port at a time.                                                 *)
(*                                                                         *)
(* The circuit is one clocked process: Comb(s, i) is the value its         *)
(* registers s take at the next edge when its input wires are i.  The      *)
(* steps of the process keep their order: the handshakes first, then the   *)
(* read channel, then the write channel, each of which may overrule what   *)
(* the one before it left.                                                 *)
(*                                                                         *)
(* An address counts beats; the burst type is INCR, the only one the       *)
(* masters of this repository issue.  A data beat is a pair of words; the  *)
(* error flag of a read answer travels with it (ErrBeat).                  *)
(***************************************************************************)
EXTENDS Integers

CONSTANTS NoWord,  \* a data word nobody has driven
          ErrWord  \* a data word of an answer that carries the error flag

RStates == {"r_idle", "r_addr", "r_pipe", "r_resp_last", "r_wait_accept",
            "r_buf", "r_wait_writing"}

WStates == {"w_idle", "w_wait_reading", "w_req", "w_pipe", "w_buf",
            "w_resp", "b"}

NoBeat == <<NoWord, NoWord>>
ErrBeat == <<ErrWord, ErrWord>>

\* axi_slv_r_reset
SlvReset ==
  [rstate |-> "r_idle", wstate |-> "w_idle",
   ar_ready |-> FALSE, ar_addr |-> 0, ar_len |-> 0, ar_bytes |-> 0,
   ar_last |-> FALSE, ar_id |-> 0,
   aw_ready |-> FALSE, aw_addr |-> 0, aw_bytes |-> 0, aw_id |-> 0,
   w_ready |-> FALSE,
   r_valid |-> FALSE, r_last |-> FALSE, r_data |-> NoBeat,
   r_data_buf |-> NoBeat, r_last_buf |-> FALSE, b_valid |-> FALSE,
   b_err |-> FALSE,
   req_valid |-> FALSE, req_addr |-> 0, req_last |-> FALSE,
   req_write |-> FALSE, req_wdata |-> NoBeat, req_bytes |-> 0,
   req_addr_buf |-> 0, req_last_buf |-> FALSE, req_wdata_buf |-> NoBeat,
   requested |-> FALSE, resp_last |-> FALSE]

\* what every cycle does to the valid and ready bits before the channels run
Handshakes(s, i) ==
  [s EXCEPT !.ar_ready  = @ /\ ~i.ar_valid,
            !.aw_ready  = @ /\ ~i.aw_valid,
            !.w_ready   = @ /\ ~i.w_valid,
            !.r_valid   = @ /\ ~i.r_ready,
            !.r_last    = @ /\ ~(i.r_ready /\ s.r_valid),
            !.b_err     = @ /\ ~(i.b_ready /\ s.b_valid),
            !.b_valid   = @ /\ ~i.b_ready,
            !.req_valid = @ /\ ~i.req_ready,
            !.requested = (s.req_valid /\ i.req_ready)
                            \/ (@ /\ ~i.resp_valid)]

----------------------------------------------------------------------------
\* vb_ar_len_next: the 8-bit count of beats still to be asked for
LenNext(len) == (len + 255) % 256

\* the request of the next beat of the read burst
AskNextBeat(s, v) ==
  [v EXCEPT !.ar_len = LenNext(s.ar_len), !.req_addr = s.req_addr + 1,
            !.req_last = (LenNext(s.ar_len) = 0), !.req_valid = TRUE]

\* the answer of the request port becomes the beat on the R channel
TakeBeat(v, i, last) ==
  [v EXCEPT !.r_valid = TRUE, !.r_data = i.resp_data, !.r_last = last]

\* the answer is kept while the master has not taken the beat before it
BufferBeat(v, i, last) ==
  [v EXCEPT !.r_data_buf = i.resp_data, !.r_last_buf = last,
            !.rstate = "r_buf"]

RIdle(s, i, v0) ==
  LET v == [v0 EXCEPT !.ar_addr = i.ar_addr, !.ar_len = i.ar_len,
                      !.ar_bytes = i.ar_bytes, !.ar_last = (i.ar_len = 0),
                      !.ar_id = i.ar_id]
  IN  IF ~(s.ar_ready /\ i.ar_valid)
      THEN [v EXCEPT !.ar_ready = TRUE]
      ELSE IF (i.aw_valid /\ s.aw_ready) \/ s.wstate # "w_idle"
      THEN [v EXCEPT !.rstate = "r_wait_writing"]
      ELSE [v EXCEPT !.rstate = "r_addr", !.req_valid = TRUE,
                     !.req_write = FALSE, !.req_addr = i.ar_addr,
                     !.req_last = (i.ar_len = 0), !.req_bytes = i.ar_bytes]

RAddr(s, i, v) ==
  IF ~i.req_ready THEN v
  ELSE IF s.req_last
  THEN [v EXCEPT !.resp_last = TRUE, !.rstate = "r_resp_last"]
  ELSE [AskNextBeat(s, v) EXCEPT !.resp_last = FALSE, !.rstate = "r_pipe"]

RPipe(s, i, v) ==
  LET a == IF ~i.resp_valid THEN v
           ELSE [TakeBeat(v, i, FALSE) EXCEPT !.rstate =
                   IF ~i.r_ready THEN "r_wait_accept"
                   ELSE IF ~i.req_ready THEN "r_addr" ELSE @]
      b == [a EXCEPT !.resp_last = s.req_last]
  IN  IF ~i.req_ready THEN a
      ELSE IF s.req_last THEN [b EXCEPT !.rstate = "r_resp_last"]
      ELSE IF ~i.r_ready THEN b
      ELSE AskNextBeat(s, b)

RRespLast(s, i, v) ==
  IF ~i.resp_valid THEN v
  ELSE IF s.r_valid /\ ~i.r_ready THEN BufferBeat(v, i, TRUE)
  ELSE [TakeBeat(v, i, TRUE) EXCEPT !.rstate = "r_wait_accept"]

\* State_r_wait_accept when the master takes the beat on the channel
RAccepted(s, i, v) ==
  IF s.r_last THEN [v EXCEPT !.rstate = "r_idle", !.r_last = FALSE]
  ELSE IF i.resp_valid THEN TakeBeat(v, i, s.resp_last)
  ELSE IF s.req_valid
  THEN [v EXCEPT !.rstate = IF ~i.req_ready THEN "r_addr"
                            ELSE IF s.req_last THEN "r_resp_last"
                            ELSE "r_pipe"]
  ELSE IF s.requested THEN v
  ELSE [AskNextBeat(s, v) EXCEPT !.rstate = "r_addr"]

\* Mutant: a beat that arrives while one waits on the channel replaces it.
RWaitAcceptNoBuf(s, i, v) ==
  LET a == IF i.r_ready THEN RAccepted(s, i, v)
           ELSE IF s.r_last \/ ~i.resp_valid THEN v
           ELSE TakeBeat(v, i, s.resp_last)
  IN  IF i.req_ready THEN [a EXCEPT !.resp_last = s.req_last] ELSE a

RWaitAccept(s, i, v) ==
  LET a == IF i.r_ready THEN RAccepted(s, i, v)
           ELSE IF s.r_last \/ ~i.resp_valid THEN v
           ELSE IF s.r_valid THEN BufferBeat(v, i, s.resp_last)
           ELSE TakeBeat(v, i, s.resp_last)
  IN  IF i.req_ready THEN [a EXCEPT !.resp_last = s.req_last] ELSE a

RBuf(s, i, v) ==
  IF ~i.r_ready THEN v
  ELSE [v EXCEPT !.r_valid = TRUE, !.r_last = s.r_last_buf,
                 !.r_data = s.r_data_buf, !.rstate = "r_wait_accept"]

\* Mutant: the read starts behind any beat of the write.
RWaitWritingEarly(s, i, v) ==
  IF (s.wstate = "w_idle" /\ ~i.aw_valid) \/ (s.req_valid /\ i.req_ready)
  THEN [v EXCEPT !.req_valid = TRUE, !.req_write = FALSE,
                 !.req_addr = s.ar_addr, !.req_bytes = s.ar_bytes,
                 !.req_last = s.ar_last, !.rstate = "r_addr"]
  ELSE v

RWaitWriting(s, i, v) ==
  IF \/ s.wstate = "w_idle" /\ ~i.aw_valid
     \/ s.req_valid /\ s.req_last /\ i.req_ready
  THEN [v EXCEPT !.req_valid = TRUE, !.req_write = FALSE,
                 !.req_addr = s.ar_addr, !.req_bytes = s.ar_bytes,
                 !.req_last = s.ar_last, !.rstate = "r_addr"]
  ELSE v

ReadChannel(s, i, v) ==
  CASE s.rstate = "r_idle"         -> RIdle(s, i, v)
    [] s.rstate = "r_addr"         -> RAddr(s, i, v)
    [] s.rstate = "r_pipe"         -> RPipe(s, i, v)
    [] s.rstate = "r_resp_last"    -> RRespLast(s, i, v)
    [] s.rstate = "r_wait_accept"  -> RWaitAccept(s, i, v)
    [] s.rstate = "r_buf"          -> RBuf(s, i, v)
    [] s.rstate = "r_wait_writing" -> RWaitWriting(s, i, v)

----------------------------------------------------------------------------
\* the beat on the W channel becomes a request at address a
AskWrite(v, i, a) ==
  [v EXCEPT !.req_valid = TRUE, !.req_addr = a, !.req_wdata = i.w_data,
            !.req_last = i.w_last]

WIdle(s, i, v0) ==
  LET v == [v0 EXCEPT !.aw_addr = i.aw_addr, !.aw_bytes = i.aw_bytes,
                      !.aw_id = i.aw_id]
  IN  IF ~(s.aw_ready /\ i.aw_valid)
      THEN [v EXCEPT !.aw_ready = TRUE]
      ELSE IF s.rstate # "r_idle"
      THEN [v EXCEPT !.wstate = "w_wait_reading"]
      ELSE [v EXCEPT !.req_addr = i.aw_addr, !.req_bytes = i.aw_bytes,
                     !.req_write = TRUE, !.w_ready = TRUE,
                     !.wstate = "w_req"]

\* Mutant: the data of the first beat is not taken over.
WReqOldData(s, i, v) ==
  IF ~i.w_valid THEN v
  ELSE [v EXCEPT !.req_valid = TRUE, !.req_last = i.w_last,
                 !.w_ready = i.req_ready /\ ~i.w_last, !.wstate = "w_pipe"]

WReq(s, i, v) ==
  IF ~i.w_valid THEN v
  ELSE [AskWrite(v, i, v.req_addr) EXCEPT
          !.w_ready = i.req_ready /\ ~i.w_last, !.wstate = "w_pipe"]

WPipe(s, i, v) ==
  LET ready == (i.req_ready \/ i.resp_valid) /\ ~s.req_last
      a == [v EXCEPT !.w_ready = ready]
      b == IF ~(s.w_ready /\ i.w_valid) THEN a
           ELSE IF i.req_ready THEN AskWrite(a, i, s.req_addr + 1)
           ELSE [a EXCEPT !.wstate = "w_buf", !.w_ready = FALSE,
                          !.req_addr_buf = s.req_addr + 1,
                          !.req_wdata_buf = i.w_data,
                          !.req_last_buf = i.w_last]
      c == IF s.req_valid /\ s.req_last /\ i.req_ready
           THEN [b EXCEPT !.wstate = "w_resp"] ELSE b
  IN  IF i.resp_valid /\ ~i.w_valid /\ ~s.req_valid
      THEN [c EXCEPT !.w_ready = TRUE, !.req_addr = s.req_addr + 1,
                     !.wstate = "w_req"]
      ELSE c

\* Mutant: the buffered data is written to the address before its own.
WBufOldAddr(s, i, v) ==
  IF ~i.req_ready THEN v
  ELSE [v EXCEPT !.req_valid = TRUE, !.req_last = s.req_last_buf,
                 !.req_wdata = s.req_wdata_buf, !.wstate = "w_pipe"]

WBuf(s, i, v) ==
  IF ~i.req_ready THEN v
  ELSE [v EXCEPT !.req_valid = TRUE, !.req_last = s.req_last_buf,
                 !.req_addr = s.req_addr_buf, !.req_wdata = s.req_wdata_buf,
                 !.wstate = "w_pipe"]

WResp(s, i, v) ==
  IF ~i.resp_valid THEN v
  ELSE [v EXCEPT !.b_valid = TRUE, !.b_err = (i.resp_data = ErrBeat),
                 !.wstate = "b"]

WWaitReading(s, i, v) ==
  IF s.rstate = "r_idle" \/ (s.r_valid /\ s.r_last /\ i.r_ready)
  THEN [v EXCEPT !.w_ready = TRUE, !.req_write = TRUE,
                 !.req_addr = s.aw_addr, !.req_bytes = s.aw_bytes,
                 !.wstate = "w_req"]
  ELSE v

WB(s, i, v) ==
  IF s.b_valid /\ i.b_ready
  THEN [v EXCEPT !.b_valid = FALSE, !.b_err = FALSE, !.aw_ready = TRUE,
                 !.wstate = "w_idle"]
  ELSE v

WriteChannel(s, i, v) ==
  CASE s.wstate = "w_idle"         -> WIdle(s, i, v)
    [] s.wstate = "w_req"          -> WReq(s, i, v)
    [] s.wstate = "w_pipe"         -> WPipe(s, i, v)
    [] s.wstate = "w_buf"          -> WBuf(s, i, v)
    [] s.wstate = "w_resp"         -> WResp(s, i, v)
    [] s.wstate = "w_wait_reading" -> WWaitReading(s, i, v)
    [] s.wstate = "b"              -> WB(s, i, v)

\* axi_slv::comb
Comb(s, i) == WriteChannel(s, i, ReadChannel(s, i, Handshakes(s, i)))

\* Registers that are written before a device can depend on them are
\* forgotten when both channels rest.  The write request stays when the write
\* enable of the device is req_write alone: such a device goes on writing it.
Forget(v, keep) ==
  IF v.rstate = "r_idle" /\ v.wstate = "w_idle" /\ ~v.req_valid
  THEN [v EXCEPT !.r_data = NoBeat, !.r_data_buf = NoBeat,
                 !.r_last_buf = FALSE, !.req_last = FALSE, !.req_bytes = 0,
                 !.req_addr = IF keep /\ v.req_write THEN @ ELSE 0,
                 !.req_write = keep /\ @,
                 !.req_wdata = IF keep THEN @ ELSE NoBeat,
                 !.req_addr_buf = 0, !.req_last_buf = FALSE,
                 !.req_wdata_buf = NoBeat, !.resp_last = FALSE]
  ELSE v

----------------------------------------------------------------------------
\* The two channels wait for each other: a read that was accepted while a
\* write was being finished, and a write accepted while that read waited.
WaitForEachOther(s) ==
  s.rstate = "r_wait_writing" /\ s.wstate = "w_wait_reading"
=============================================================================
