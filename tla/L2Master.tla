----------------------------- MODULE L2Master -----------------------------
(***************************************************************************)
(* The master port of the CPU cluster: L2Amba, which turns one request of  *)
(* the L2 cache into one access of a whole line, and L2SerDes behind it,   *)
(* which cuts the line into beats of the bus                               *)
(* (src/sc/rtl/internal/riverlib/l2cache/l2_amba.cpp, l2serdes.cpp).       *)
(*                                                                         *)
(* r holds the registers of both: state is L2Amba's, ser L2SerDes's.  q is *)
(* the request of the L2 cache, or NoReq.  A line is a function from beat  *)
(* numbers; the L2 cache writes BeatAt(a) to the beat at address a.  rmux  *)
(* is the number of the one bit set in the code's register, LineBeats for  *)
(* none.  What an idle L2SerDes still holds in line, rmux and req_len is   *)
(* forgotten.                                                              *)
(***************************************************************************)
EXTENDS Integers, Sequences

CONSTANTS NoReq,
          LineBeats, \* beats of a cache line: SERDES_BURST_LEN
          NoBeat,    \* content of a beat nobody has written
          BeatAt(_)  \* what the L2 cache writes to the beat at an address

\* L2Amba_r_reset, L2SerDes_r_reset
L2Reset ==
  [state |-> "idle", ser |-> "Idle", req_len |-> 0, b_wait |-> FALSE,
   line |-> [k \in 0 .. LineBeats - 1 |-> NoBeat], rmux |-> 0]

\* size2len: beats after the first one
ReqLen(q) == IF q.line THEN LineBeats - 1 ELSE 0

----------------------------------------------------------------------------
\* L2SerDes hands the whole line, the answer of a write or the end of the
\* data phase to L2Amba (vl2i.r_valid, vl2i.b_valid, vl2i.w_ready)
LineDone(r, rin) == r.ser = "Read" /\ rin.valid /\ r.req_len = 0
AckDone(r, bin) == bin /\ r.b_wait
DataDone(r, w_ready) == r.ser = "Write" /\ w_ready /\ r.req_len = 0

\* v_next_ready of L2Amba
NextReady(r, rin, bin) ==
  \/ r.state = "idle"
  \/ r.state = "reading" /\ LineDone(r, rin)
  \/ r.state = "wack" /\ AckDone(r, bin)

\* the wires driven to the crossbar (o_msto of L2SerDes)
L2Out(r, q, rin, bin) ==
  LET go == NextReady(r, rin, bin) /\ q # NoReq
  IN  [ar_valid |-> go /\ ~q.write,
       ar_dst   |-> IF go THEN q.dst ELSE NoReq,
       ar_addr  |-> IF go THEN q.addr ELSE 0,
       ar_len   |-> IF go THEN ReqLen(q) ELSE 0,
       ar_bytes |-> IF go THEN q.bytes ELSE 0,
       aw_valid |-> go /\ q.write,
       aw_dst   |-> IF go THEN q.dst ELSE NoReq,
       aw_addr  |-> IF go THEN q.addr ELSE 0,
       aw_bytes |-> IF go THEN q.bytes ELSE 0,
       w_valid  |-> r.ser = "Write",
       w_last   |-> r.ser = "Write" /\ r.req_len = 0,
       w_data   |-> r.line[0],
       r_ready  |-> TRUE,
       b_ready  |-> TRUE]

----------------------------------------------------------------------------
\* Mutant: the beats that came before are not kept.
FilledAlone(r, rin) ==
  [k \in DOMAIN r.line |-> IF k = r.rmux THEN rin.data ELSE NoBeat]

\* vb_line_o: the line with the beat on the R channel in its place
Filled(r, rin) ==
  [k \in DOMAIN r.line |-> IF k = r.rmux THEN rin.data ELSE r.line[k]]

\* the written line moves down by one beat
Shifted(line) ==
  [k \in DOMAIN line |-> IF k + 1 \in DOMAIN line THEN line[k + 1] ELSE NoBeat]

\* L2Amba::comb: the next value of state
AmbaNext(r, rin, bin, ar_ready, aw_ready, w_ready) ==
  IF ar_ready THEN "reading"
  ELSE IF aw_ready THEN "writing"
  ELSE IF r.state = "writing" /\ DataDone(r, w_ready) THEN "wack"
  ELSE IF r.state # "writing" /\ NextReady(r, rin, bin) THEN "idle"
  ELSE r.state

\* Mutant: every cycle of a read moves the place of the next beat.
SerDesBeatAnyCycle(r, rin, bin, w_ready) ==
  LET a == [r EXCEPT !.b_wait = @ /\ ~bin]
  IN  IF r.ser = "Read" THEN [a EXCEPT !.rmux = @ + 1]
      ELSE IF r.ser = "Write" /\ w_ready
      THEN [a EXCEPT !.line = Shifted(@),
                     !.b_wait = IF r.req_len = 0 THEN TRUE ELSE @,
                     !.req_len = IF @ = 0 THEN @ ELSE @ - 1]
      ELSE a

\* Mutant: the answer of a write is not waited for.
SerDesBeatNoWait(r, rin, bin, w_ready) ==
  IF r.ser = "Read" /\ rin.valid
  THEN [r EXCEPT !.line = Filled(r, rin),
                 !.rmux = IF @ = LineBeats THEN @ ELSE @ + 1,
                 !.req_len = IF @ = 0 THEN @ ELSE @ - 1]
  ELSE IF r.ser = "Write" /\ w_ready
  THEN [r EXCEPT !.line = Shifted(@),
                 !.req_len = IF @ = 0 THEN @ ELSE @ - 1]
  ELSE r

\* L2SerDes::comb before a new request is looked at
SerDesBeat(r, rin, bin, w_ready) ==
  LET a == [r EXCEPT !.b_wait = @ /\ ~bin]
  IN  IF r.ser = "Read" /\ rin.valid
      THEN [a EXCEPT !.line = Filled(r, rin),
                     !.rmux = IF @ = LineBeats THEN @ ELSE @ + 1,
                     !.req_len = IF @ = 0 THEN @ ELSE @ - 1]
      ELSE IF r.ser = "Write" /\ w_ready
      THEN [a EXCEPT !.line = Shifted(@),
                     !.b_wait = IF r.req_len = 0 THEN TRUE ELSE @,
                     !.req_len = IF @ = 0 THEN @ ELSE @ - 1]
      ELSE a

\* both registers at the next edge; ar_ready and aw_ready are the ready wires
\* that answer this master's own valid wires
L2Next(r, q, rin, bin, ar_ready, aw_ready, w_ready) ==
  LET a == SerDesBeat(r, rin, bin, w_ready)
      v == [a EXCEPT !.state =
              AmbaNext(r, rin, bin, ar_ready, aw_ready, w_ready)]
      free == r.ser = "Idle" \/ LineDone(r, rin) \/ DataDone(r, w_ready)
  IN  IF ~free THEN v
      ELSE IF ar_ready
      THEN [v EXCEPT !.ser = "Read", !.rmux = 0, !.req_len = ReqLen(q)]
      ELSE IF aw_ready
      THEN [v EXCEPT !.ser = "Write", !.req_len = ReqLen(q),
              !.line = [k \in DOMAIN r.line |-> BeatAt(q.addr + k)]]
      ELSE [v EXCEPT !.ser = "Idle", !.req_len = 0, !.rmux = 0,
                     !.line = L2Reset.line]

\* o_resp_ack: the L2 cache gets its answer in this cycle
RespAck(r, rin, bin) ==
  \/ r.state = "reading" /\ LineDone(r, rin)
  \/ r.state = "wack" /\ AckDone(r, bin)
=============================================================================
