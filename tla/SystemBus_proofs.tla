-------------------------- MODULE SystemBus_proofs --------------------------
(***************************************************************************)
(* Bus 0, for every length of a line, every set of requests of the L2      *)
(* cache and every set of bursts of the second master: the answers of a    *)
(* slave port are not mixed up, one master at a time writes to a slave     *)
(* port, a peripheral sees each word of a request once, the beats of       *)
(* every write and of every read arrive complete and in order, a write     *)
(* that is answered is in the memory of the SRAM, the line handed to the   *)
(* L2 cache is whole, and the registers keep their ranges.                 *)
(*                                                                         *)
(* The first part is about axi_slv alone, in front of any device that      *)
(* keeps a contract of two lines (Contract); the SRAM and the bridge keep  *)
(* it, each in its own way.  The invariants of the bus then grow in        *)
(* layers: PortInv, the control of the ports; WordsInv, the bridge;        *)
(* WritesInv, where the beats of a write are; MemInv, the memory of the    *)
(* SRAM; ReadsInv, where the beats of a read are; TypesInv.                *)
(***************************************************************************)
EXTENDS SystemBus, SequenceTheorems, TLAPS

-----------------------------------------------------------------------------
(* A slave port: what its control registers say of each other.             *)

\* the registers of axi_slv
Fields ==
    {"rstate", "wstate", "ar_ready", "ar_addr", "ar_len", "ar_bytes", "ar_last", "ar_id",
     "aw_ready", "aw_addr", "aw_bytes", "aw_id", "w_ready", "r_valid", "r_last", "r_data",
     "r_data_buf", "r_last_buf", "b_valid", "b_err", "req_valid", "req_addr", "req_last",
     "req_write", "req_wdata", "req_bytes", "req_addr_buf", "req_last_buf", "req_wdata_buf",
     "requested", "resp_last"}

\* u and v are the same registers but for those of S
SameBut(v, u, S) ==
    /\ DOMAIN u = Fields
    /\ "rstate" \in S \/ u.rstate = v.rstate
    /\ "wstate" \in S \/ u.wstate = v.wstate
    /\ "ar_ready" \in S \/ u.ar_ready = v.ar_ready
    /\ "ar_addr" \in S \/ u.ar_addr = v.ar_addr
    /\ "ar_len" \in S \/ u.ar_len = v.ar_len
    /\ "ar_bytes" \in S \/ u.ar_bytes = v.ar_bytes
    /\ "ar_last" \in S \/ u.ar_last = v.ar_last
    /\ "ar_id" \in S \/ u.ar_id = v.ar_id
    /\ "aw_ready" \in S \/ u.aw_ready = v.aw_ready
    /\ "aw_addr" \in S \/ u.aw_addr = v.aw_addr
    /\ "aw_bytes" \in S \/ u.aw_bytes = v.aw_bytes
    /\ "aw_id" \in S \/ u.aw_id = v.aw_id
    /\ "w_ready" \in S \/ u.w_ready = v.w_ready
    /\ "r_valid" \in S \/ u.r_valid = v.r_valid
    /\ "r_last" \in S \/ u.r_last = v.r_last
    /\ "r_data" \in S \/ u.r_data = v.r_data
    /\ "r_data_buf" \in S \/ u.r_data_buf = v.r_data_buf
    /\ "r_last_buf" \in S \/ u.r_last_buf = v.r_last_buf
    /\ "b_valid" \in S \/ u.b_valid = v.b_valid
    /\ "b_err" \in S \/ u.b_err = v.b_err
    /\ "req_valid" \in S \/ u.req_valid = v.req_valid
    /\ "req_addr" \in S \/ u.req_addr = v.req_addr
    /\ "req_last" \in S \/ u.req_last = v.req_last
    /\ "req_write" \in S \/ u.req_write = v.req_write
    /\ "req_wdata" \in S \/ u.req_wdata = v.req_wdata
    /\ "req_bytes" \in S \/ u.req_bytes = v.req_bytes
    /\ "req_addr_buf" \in S \/ u.req_addr_buf = v.req_addr_buf
    /\ "req_last_buf" \in S \/ u.req_last_buf = v.req_last_buf
    /\ "req_wdata_buf" \in S \/ u.req_wdata_buf = v.req_wdata_buf
    /\ "requested" \in S \/ u.requested = v.requested
    /\ "resp_last" \in S \/ u.resp_last = v.resp_last

\* What a device owes its port: it answers nothing it was not asked, and takes a request
\* only when no other is open or the answer of the other comes in the same cycle.
Contract(x, i) ==
    /\ i.resp_valid => x.requested
    /\ i.req_ready /\ x.requested => i.resp_valid

\* the channel is not using the request port
Resting(x) == x.rstate \in {"r_idle", "r_wait_writing"}

\* the write channel waits for a beat or has one that the device has not taken
InData(x) == x.wstate \in {"w_req", "w_pipe", "w_buf"}

\* The read channel.  A request is open in r_pipe and r_resp_last; a beat is on the channel in
\* the last three states only, and the last beat only in r_wait_accept, when nothing is asked
\* for or open any more.
ReadSide(x) ==
    /\ x.rstate \in AX!RStates
    /\ ~Resting(x) => ~x.req_write
    /\ x.rstate = "r_addr" => x.req_valid
    /\ x.rstate = "r_pipe" => x.requested /\ (x.req_valid \/ ~x.req_last)
    /\ x.rstate = "r_resp_last" => x.requested /\ ~x.req_valid
    /\ x.rstate = "r_buf" => ~x.requested /\ ~x.req_valid /\ x.r_valid
    /\ x.rstate = "r_wait_accept" /\ x.requested => ~x.req_valid
    /\ x.rstate = "r_wait_accept" /\ ~x.requested => x.r_valid
    /\ x.r_valid => x.rstate \in {"r_resp_last", "r_wait_accept", "r_buf"}
    /\ x.r_last => x.rstate = "r_wait_accept" /\ x.r_valid /\ ~x.req_valid /\ ~x.requested

\* The write channel.  It has the request port for itself from the first beat to the last
\* request; behind that request the read channel may already ask (r_addr in w_resp).
WriteSide(x) ==
    /\ x.wstate \in AX!WStates
    /\ x.aw_ready => x.wstate = "w_idle"
    /\ x.wstate = "w_req" => x.w_ready
    /\ x.w_ready => x.wstate \in {"w_req", "w_pipe"}
    /\ x.b_valid <=> x.wstate = "b"
    /\ InData(x) => Resting(x) /\ x.req_write
    /\ Resting(x) /\ x.req_valid => x.wstate \in {"w_pipe", "w_buf"}
    /\ (Resting(x) \/ x.rstate = "r_addr") /\ x.requested
         => x.wstate \in {"w_pipe", "w_buf", "w_resp"}
    /\ x.wstate = "w_pipe" /\ x.req_last => x.req_valid
    /\ x.wstate = "w_buf" => ~x.req_last
    /\ x.wstate = "w_resp" => x.requested /\ (Resting(x) \/ x.rstate = "r_addr")

\* the last beat of the write is in the port and has not been taken by the device
HoldsLast(x) == \/ x.wstate = "w_pipe" /\ x.req_last
                \/ x.wstate = "w_buf" /\ x.req_last_buf

\* the states in which beats of the write may still come
WaitsForBeats(x) == x.wstate \in {"w_wait_reading", "w_req", "w_pipe", "w_buf"}

-----------------------------------------------------------------------------
(* The states of the read channel.                                         *)

\* The handshakes of a cycle lower the valid and ready bits that were answered.
LEMMA HandshakesStep ==
    ASSUME NEW s, NEW i, DOMAIN s = Fields
    PROVE  LET h == AX!Handshakes(s, i) IN
           /\ SameBut(s, h, {"ar_ready", "aw_ready", "w_ready", "r_valid", "r_last", "b_valid",
                             "b_err", "req_valid", "requested"})
           /\ h.aw_ready <=> s.aw_ready /\ ~i.aw_valid
           /\ h.w_ready <=> s.w_ready /\ ~i.w_valid
           /\ h.r_valid <=> s.r_valid /\ ~i.r_ready
           /\ h.r_last <=> s.r_last /\ ~(i.r_ready /\ s.r_valid)
           /\ h.b_valid <=> s.b_valid /\ ~i.b_ready
           /\ h.req_valid <=> s.req_valid /\ ~i.req_ready
           /\ h.requested <=> (s.req_valid /\ i.req_ready) \/ (s.requested /\ ~i.resp_valid)
BY ZenonT(60) DEF AX!Handshakes, SameBut, Fields

\* the registers that hold the read burst
ReadBurst == {"ar_addr", "ar_len", "ar_bytes", "ar_last", "ar_id"}

\* At rest the channel accepts a burst; it asks for the first beat at once when the write
\* channel is idle and stays idle.
LEMMA RIdleStep ==
    ASSUME NEW s, NEW i, NEW v, DOMAIN v = Fields
    PROVE  LET u == AX!RIdle(s, i, v) IN
           /\ u.ar_addr = i.ar_addr /\ u.ar_len = i.ar_len /\ u.ar_bytes = i.ar_bytes
           /\ u.ar_id = i.ar_id /\ (u.ar_last <=> i.ar_len = 0)
           /\ \/ ~(s.ar_ready /\ i.ar_valid) /\ SameBut(v, u, ReadBurst \cup {"ar_ready"})
              \/ /\ s.ar_ready /\ i.ar_valid
                 /\ SameBut(v, u, ReadBurst \cup {"rstate"}) /\ u.rstate = "r_wait_writing"
              \/ /\ s.ar_ready /\ i.ar_valid
                 /\ SameBut(v, u, ReadBurst \cup {"rstate", "req_valid", "req_write", "req_addr",
                                                  "req_last", "req_bytes"})
                 /\ u.rstate = "r_addr" /\ u.req_valid /\ ~u.req_write
                 /\ u.req_addr = i.ar_addr /\ u.req_bytes = i.ar_bytes
                 /\ u.req_last <=> i.ar_len = 0
                 /\ s.wstate = "w_idle" /\ ~(s.aw_ready /\ i.aw_valid)
<1>1. CASE ~(s.ar_ready /\ i.ar_valid)
  BY <1>1, ZenonT(60) DEF AX!RIdle, SameBut, Fields, ReadBurst
<1>2. CASE /\ s.ar_ready /\ i.ar_valid
           /\ (i.aw_valid /\ s.aw_ready) \/ s.wstate # "w_idle"
  BY <1>2, ZenonT(60) DEF AX!RIdle, SameBut, Fields, ReadBurst
<1>3. CASE /\ s.ar_ready /\ i.ar_valid
           /\ ~((i.aw_valid /\ s.aw_ready) \/ s.wstate # "w_idle")
  BY <1>3, ZenonT(60) DEF AX!RIdle, SameBut, Fields, ReadBurst
<1> QED
  BY <1>1, <1>2, <1>3

\* u asks for the beat behind the one s asked for
AsksNext(s, u) == /\ u.req_valid /\ u.req_addr = s.req_addr + 1
                  /\ u.ar_len = AX!LenNext(s.ar_len)
                  /\ u.req_last <=> AX!LenNext(s.ar_len) = 0

\* The device takes the request, and the channel asks for the next beat unless it was the last.
LEMMA RAddrStep ==
    ASSUME NEW s, NEW i, NEW v, DOMAIN v = Fields
    PROVE  LET u == AX!RAddr(s, i, v) IN
           \/ ~i.req_ready /\ SameBut(v, u, {})
           \/ /\ i.req_ready /\ s.req_last /\ SameBut(v, u, {"rstate", "resp_last"})
              /\ u.rstate = "r_resp_last"
           \/ /\ i.req_ready /\ ~s.req_last
              /\ SameBut(v, u, {"rstate", "ar_len", "req_valid", "req_addr", "req_last",
                                "resp_last"})
              /\ u.rstate = "r_pipe" /\ AsksNext(s, u)
<1>1. CASE ~i.req_ready
  BY <1>1, ZenonT(60) DEF AX!RAddr, SameBut
<1>2. CASE i.req_ready /\ s.req_last
  BY <1>2, ZenonT(60) DEF AX!RAddr, SameBut, Fields
<1>3. CASE i.req_ready /\ ~s.req_last
  BY <1>3, ZenonT(60) DEF AX!RAddr, AX!AskNextBeat, AsksNext, SameBut, Fields
<1> QED
  BY <1>1, <1>2, <1>3

\* A beat comes while the next one is asked for.
LEMMA RPipeStep ==
    ASSUME NEW s, NEW i, NEW v, DOMAIN v = Fields, i.req_ready => i.resp_valid
    PROVE  LET u == AX!RPipe(s, i, v) IN
           \/ ~i.resp_valid /\ SameBut(v, u, {})
           \/ /\ i.resp_valid
              /\ SameBut(v, u, {"rstate", "r_valid", "r_last", "r_data", "resp_last"})
              /\ u.r_valid /\ ~u.r_last /\ u.r_data = i.resp_data
              /\ i.req_ready => (u.resp_last <=> s.req_last)
              /\ \/ ~i.req_ready /\ i.r_ready /\ u.rstate = "r_addr"
                 \/ ~i.req_ready /\ ~i.r_ready /\ u.rstate = "r_wait_accept"
                 \/ i.req_ready /\ s.req_last /\ u.rstate = "r_resp_last"
                 \/ i.req_ready /\ ~s.req_last /\ ~i.r_ready /\ u.rstate = "r_wait_accept"
           \/ /\ i.resp_valid /\ i.req_ready /\ i.r_ready
              /\ SameBut(v, u, {"r_valid", "r_last", "r_data", "ar_len", "req_valid", "req_addr",
                                "req_last", "resp_last"})
              /\ u.r_valid /\ ~u.r_last /\ u.req_valid
<1>1. CASE ~i.resp_valid
  BY <1>1, ZenonT(60) DEF AX!RPipe, SameBut
<1>2. CASE i.resp_valid /\ ~i.req_ready
  BY <1>2, ZenonT(60) DEF AX!RPipe, AX!TakeBeat, SameBut, Fields
<1>3. CASE i.resp_valid /\ i.req_ready /\ s.req_last
  BY <1>3, ZenonT(60) DEF AX!RPipe, AX!TakeBeat, SameBut, Fields
<1>4. CASE i.resp_valid /\ i.req_ready /\ ~s.req_last /\ ~i.r_ready
  BY <1>4, ZenonT(60) DEF AX!RPipe, AX!TakeBeat, SameBut, Fields
<1>5. CASE i.resp_valid /\ i.req_ready /\ ~s.req_last /\ i.r_ready
  BY <1>5, ZenonT(60) DEF AX!RPipe, AX!TakeBeat, AX!AskNextBeat, SameBut, Fields
<1> QED
  BY <1>1, <1>2, <1>3, <1>4, <1>5

\* The last beat comes: it goes onto the channel, or into the buffer behind another.
LEMMA RRespLastStep ==
    ASSUME NEW s, NEW i, NEW v, DOMAIN v = Fields
    PROVE  LET u == AX!RRespLast(s, i, v) IN
           \/ ~i.resp_valid /\ SameBut(v, u, {})
           \/ /\ i.resp_valid /\ s.r_valid /\ ~i.r_ready
              /\ SameBut(v, u, {"rstate", "r_data_buf", "r_last_buf"})
              /\ u.rstate = "r_buf" /\ u.r_data_buf = i.resp_data /\ u.r_last_buf
           \/ /\ i.resp_valid /\ ~(s.r_valid /\ ~i.r_ready)
              /\ SameBut(v, u, {"rstate", "r_valid", "r_last", "r_data"})
              /\ u.rstate = "r_wait_accept" /\ u.r_valid /\ u.r_last /\ u.r_data = i.resp_data
<1>1. CASE ~i.resp_valid
  BY <1>1, ZenonT(60) DEF AX!RRespLast, SameBut
<1>2. CASE i.resp_valid /\ s.r_valid /\ ~i.r_ready
  BY <1>2, ZenonT(60) DEF AX!RRespLast, AX!BufferBeat, SameBut, Fields
<1>3. CASE i.resp_valid /\ ~(s.r_valid /\ ~i.r_ready)
  BY <1>3, ZenonT(60) DEF AX!RRespLast, AX!TakeBeat, SameBut, Fields
<1> QED
  BY <1>1, <1>2, <1>3

\* The master takes the beat on the channel.
LEMMA RAcceptedStep ==
    ASSUME NEW s, NEW i, NEW v, DOMAIN v = Fields
    PROVE  LET u == AX!RAccepted(s, i, v) IN
           \/ s.r_last /\ SameBut(v, u, {"rstate", "r_last"}) /\ u.rstate = "r_idle" /\ ~u.r_last
           \/ /\ ~s.r_last /\ i.resp_valid /\ SameBut(v, u, {"r_valid", "r_last", "r_data"})
              /\ u.r_valid /\ u.r_data = i.resp_data /\ u.r_last = s.resp_last
           \/ /\ ~s.r_last /\ ~i.resp_valid /\ s.req_valid /\ SameBut(v, u, {"rstate"})
              /\ \/ ~i.req_ready /\ u.rstate = "r_addr"
                 \/ i.req_ready /\ s.req_last /\ u.rstate = "r_resp_last"
                 \/ i.req_ready /\ ~s.req_last /\ u.rstate = "r_pipe"
           \/ ~s.r_last /\ ~i.resp_valid /\ ~s.req_valid /\ s.requested /\ SameBut(v, u, {})
           \/ /\ ~s.r_last /\ ~i.resp_valid /\ ~s.req_valid /\ ~s.requested
              /\ SameBut(v, u, {"rstate", "ar_len", "req_valid", "req_addr", "req_last"})
              /\ u.rstate = "r_addr" /\ AsksNext(s, u)
<1>1. CASE s.r_last
  BY <1>1, ZenonT(60) DEF AX!RAccepted, SameBut, Fields
<1>2. CASE ~s.r_last /\ i.resp_valid
  BY <1>2, ZenonT(60) DEF AX!RAccepted, AX!TakeBeat, SameBut, Fields
<1>3. CASE ~s.r_last /\ ~i.resp_valid /\ s.req_valid
  BY <1>3, ZenonT(60) DEF AX!RAccepted, SameBut, Fields
<1>4. CASE ~s.r_last /\ ~i.resp_valid /\ ~s.req_valid /\ s.requested
  BY <1>4, ZenonT(60) DEF AX!RAccepted, SameBut
<1>5. CASE ~s.r_last /\ ~i.resp_valid /\ ~s.req_valid /\ ~s.requested
  BY <1>5, ZenonT(60) DEF AX!RAccepted, AX!AskNextBeat, AsksNext, SameBut, Fields
<1> QED
  BY <1>1, <1>2, <1>3, <1>4, <1>5

\* A beat waits on the channel; another one may come meanwhile.
LEMMA RWaitAcceptStep ==
    ASSUME NEW s, NEW i, NEW v, DOMAIN v = Fields
    PROVE  LET u == AX!RWaitAccept(s, i, v)
               a == AX!RAccepted(s, i, v)
           IN  \/ /\ i.r_ready /\ SameBut(a, u, {"resp_last"})
                  /\ u.resp_last = IF i.req_ready THEN s.req_last ELSE a.resp_last
               \/ /\ ~i.r_ready
                  /\ u.resp_last = IF i.req_ready THEN s.req_last ELSE v.resp_last
                  /\ \/ (s.r_last \/ ~i.resp_valid) /\ SameBut(v, u, {"resp_last"})
                     \/ /\ ~s.r_last /\ i.resp_valid /\ s.r_valid
                        /\ SameBut(v, u, {"rstate", "r_data_buf", "r_last_buf", "resp_last"})
                        /\ u.rstate = "r_buf" /\ u.r_data_buf = i.resp_data
                        /\ u.r_last_buf = s.resp_last
                     \/ /\ ~s.r_last /\ i.resp_valid /\ ~s.r_valid
                        /\ SameBut(v, u, {"r_valid", "r_last", "r_data", "resp_last"})
                        /\ u.r_valid /\ u.r_data = i.resp_data /\ u.r_last = s.resp_last
<1> DEFINE a == AX!RAccepted(s, i, v)
<1>1. DOMAIN a = Fields
  BY RAcceptedStep DEF SameBut
<1> HIDE DEF a
<1>2. CASE i.r_ready
  <2>1. AX!RWaitAccept(s, i, v) = IF i.req_ready THEN [a EXCEPT !.resp_last = s.req_last] ELSE a
    BY <1>2 DEF AX!RWaitAccept, a
  <2> QED
    BY <1>1, <1>2, <2>1 DEF SameBut, Fields, a
<1>3. CASE ~i.r_ready /\ (s.r_last \/ ~i.resp_valid)
  BY <1>3, ZenonT(60) DEF AX!RWaitAccept, SameBut, Fields
<1>4. CASE ~i.r_ready /\ ~s.r_last /\ i.resp_valid /\ s.r_valid
  BY <1>4, ZenonT(60) DEF AX!RWaitAccept, AX!BufferBeat, SameBut, Fields
<1>5. CASE ~i.r_ready /\ ~s.r_last /\ i.resp_valid /\ ~s.r_valid
  BY <1>5, ZenonT(60) DEF AX!RWaitAccept, AX!TakeBeat, SameBut, Fields
<1> QED
  BY <1>2, <1>3, <1>4, <1>5

\* The buffered beat follows the one that was taken.
LEMMA RBufStep ==
    ASSUME NEW s, NEW i, NEW v, DOMAIN v = Fields
    PROVE  LET u == AX!RBuf(s, i, v) IN
           \/ ~i.r_ready /\ SameBut(v, u, {})
           \/ /\ i.r_ready /\ SameBut(v, u, {"rstate", "r_valid", "r_last", "r_data"})
              /\ u.rstate = "r_wait_accept" /\ u.r_valid
              /\ u.r_last = s.r_last_buf /\ u.r_data = s.r_data_buf
BY ZenonT(60) DEF AX!RBuf, SameBut, Fields

\* A read that was accepted during a write asks when the write has ended or its last
\* request is taken.
LEMMA RWaitWritingStep ==
    ASSUME NEW s, NEW i, NEW v, DOMAIN v = Fields
    PROVE  LET u == AX!RWaitWriting(s, i, v) IN
           \/ SameBut(v, u, {})
           \/ /\ SameBut(v, u, {"rstate", "req_valid", "req_write", "req_addr", "req_bytes",
                                "req_last"})
              /\ u.rstate = "r_addr" /\ u.req_valid /\ ~u.req_write
              /\ u.req_addr = s.ar_addr /\ u.req_bytes = s.ar_bytes /\ u.req_last = s.ar_last
              /\ \/ s.wstate = "w_idle" /\ ~i.aw_valid
                 \/ s.req_valid /\ s.req_last /\ i.req_ready
BY ZenonT(60) DEF AX!RWaitWriting, SameBut, Fields

-----------------------------------------------------------------------------
(* The read channel in one cycle.                                          *)

\* the wires of a port that the crossbar and the device drive
Wires(x, i) == Contract(x, i) /\ (i.r_ready => x.r_valid) /\ (i.b_ready => x.b_valid)

\* what the handshakes and the read channel leave to the write channel
AfterRead(x, i, v) ==
    /\ DOMAIN v = Fields
    /\ v.wstate = x.wstate /\ v.aw_id = x.aw_id /\ v.aw_addr = x.aw_addr
    /\ v.req_last_buf = x.req_last_buf /\ v.req_addr_buf = x.req_addr_buf
    /\ v.req_wdata = x.req_wdata /\ v.req_wdata_buf = x.req_wdata_buf
    /\ v.b_valid <=> x.b_valid /\ ~i.b_ready
    /\ v.aw_ready <=> x.aw_ready /\ ~i.aw_valid
    /\ v.w_ready <=> x.w_ready /\ ~i.w_valid
    /\ v.requested <=> (x.req_valid /\ i.req_ready) \/ (x.requested /\ ~i.resp_valid)

\* the read channel leaves the request port alone
PortKept(x, i, v) ==
    /\ v.req_valid <=> x.req_valid /\ ~i.req_ready
    /\ v.req_last = x.req_last /\ v.req_addr = x.req_addr /\ v.req_write = x.req_write

\* What a cycle of the read channel does: ReadSide holds again, it does not touch the request
\* port during the data phase of a write unless the last request is being taken, it does
\* not leave a request behind when it rests, and it goes on to later beats only when the
\* answer of a write has come.
ReadGoesOn(x, i, v) ==
    /\ AfterRead(x, i, v)
    /\ ReadSide(v)
    /\ InData(x) => \/ Resting(v) /\ PortKept(x, i, v)
                    \/ /\ v.rstate = "r_addr" /\ v.req_valid
                       /\ x.wstate = "w_pipe" /\ x.req_valid /\ x.req_last /\ i.req_ready
    /\ ~InData(x) /\ Resting(v) => ~v.req_valid
    /\ x.wstate = "w_resp" => Resting(v) \/ v.rstate = "r_addr" \/ i.resp_valid
    /\ (Resting(v) \/ v.rstate = "r_addr") /\ v.requested
         => \/ x.wstate \in {"w_pipe", "w_buf"}
            \/ x.wstate = "w_resp" /\ ~i.resp_valid
    /\ x.wstate = "w_idle" /\ x.aw_ready /\ i.aw_valid /\ x.rstate = "r_idle" => Resting(v)
    /\ x.wstate = "w_wait_reading" /\ (x.rstate = "r_idle" \/ (x.r_last /\ i.r_ready))
         => Resting(v)

\* A cycle of the handshakes and the read channel, state by state.
LEMMA ReadStep ==
    ASSUME NEW x, NEW i, DOMAIN x = Fields, ReadSide(x), WriteSide(x), Wires(x, i)
    PROVE  ReadGoesOn(x, i, AX!ReadChannel(x, i, AX!Handshakes(x, i)))
<1> DEFINE h == AX!Handshakes(x, i)
           v == AX!ReadChannel(x, i, h)
<1> SUFFICES ReadGoesOn(x, i, v)
  OBVIOUS
<1>1. /\ AfterRead(x, i, h) /\ PortKept(x, i, h)
      /\ h.rstate = x.rstate
      /\ h.r_valid <=> x.r_valid /\ ~i.r_ready
      /\ h.r_last <=> x.r_last /\ ~(i.r_ready /\ x.r_valid)
  BY HandshakesStep DEF SameBut, AfterRead, PortKept
<1> HIDE DEF h
<1>2. DOMAIN h = Fields
  BY <1>1 DEF AfterRead
<1>3. CASE x.rstate = "r_idle"
  <2>1. v = AX!RIdle(x, i, h)
    BY <1>3 DEF AX!ReadChannel
  <2> HIDE DEF v
  <2> QED
    BY <1>1, <1>2, <1>3, <2>1, RIdleStep
       DEF SameBut, AsksNext, ReadBurst, ReadGoesOn, AfterRead, PortKept, ReadSide, WriteSide, Resting,
           InData, Wires, Contract, AX!RStates, AX!WStates
<1>4. CASE x.rstate = "r_addr"
  <2>1. v = AX!RAddr(x, i, h)
    BY <1>4 DEF AX!ReadChannel
  <2> HIDE DEF v
  <2> QED
    BY <1>1, <1>2, <1>4, <2>1, RAddrStep
       DEF SameBut, AsksNext, ReadBurst, ReadGoesOn, AfterRead, PortKept, ReadSide, WriteSide, Resting,
           InData, Wires, Contract, AX!RStates, AX!WStates
<1>5. CASE x.rstate = "r_pipe"
  <2>1. v = AX!RPipe(x, i, h)
    BY <1>5 DEF AX!ReadChannel
  <2>2. i.req_ready => i.resp_valid
    BY <1>5 DEF ReadSide, Wires, Contract
  <2> HIDE DEF v
  <2> QED
    BY <1>1, <1>2, <1>5, <2>1, <2>2, RPipeStep
       DEF SameBut, AsksNext, ReadBurst, ReadGoesOn, AfterRead, PortKept, ReadSide, WriteSide, Resting,
           InData, Wires, Contract, AX!RStates, AX!WStates
<1>6. CASE x.rstate = "r_resp_last"
  <2>1. v = AX!RRespLast(x, i, h)
    BY <1>6 DEF AX!ReadChannel
  <2> HIDE DEF v
  <2> QED
    BY <1>1, <1>2, <1>6, <2>1, RRespLastStep
       DEF SameBut, AsksNext, ReadBurst, ReadGoesOn, AfterRead, PortKept, ReadSide, WriteSide, Resting,
           InData, Wires, Contract, AX!RStates, AX!WStates
<1>7. CASE x.rstate = "r_wait_accept"
  <2> DEFINE a == AX!RAccepted(x, i, h)
  <2>1. v = AX!RWaitAccept(x, i, h)
    BY <1>7 DEF AX!ReadChannel
  <2>2. i.r_ready => AfterRead(x, i, a)
    <3>1. a = AX!RAccepted(x, i, h)
      OBVIOUS
    <3> HIDE DEF v, a
    <3>2. \/ SameBut(h, a, {"rstate", "r_last"})
          \/ SameBut(h, a, {"r_valid", "r_last", "r_data"})
          \/ SameBut(h, a, {"rstate"})
          \/ SameBut(h, a, {})
          \/ SameBut(h, a, {"rstate", "ar_len", "req_valid", "req_addr", "req_last"})
      BY <1>2, <3>1, RAcceptedStep
    <3> QED
      BY <1>1, <3>2 DEF SameBut, AfterRead
  <2>3. i.r_ready => ReadGoesOn(x, i, a)
    <3> SUFFICES ASSUME i.r_ready PROVE ReadGoesOn(x, i, a)
      OBVIOUS
    <3>1. a = AX!RAccepted(x, i, h)
      OBVIOUS
    <3> HIDE DEF v, a
    <3>2. CASE x.r_last /\ SameBut(h, a, {"rstate", "r_last"}) /\ a.rstate = "r_idle" /\ ~a.r_last
      BY <1>1, <1>7, <2>2, <3>2
         DEF SameBut, AsksNext, ReadGoesOn, AfterRead, PortKept, ReadSide, WriteSide, Resting,
             InData, Wires, Contract, AX!RStates, AX!WStates
    <3>3. CASE /\ ~x.r_last /\ i.resp_valid /\ SameBut(h, a, {"r_valid", "r_last", "r_data"})
               /\ a.r_valid /\ a.r_last = x.resp_last
      BY <1>1, <1>7, <2>2, <3>3
         DEF SameBut, AsksNext, ReadGoesOn, AfterRead, PortKept, ReadSide, WriteSide, Resting,
             InData, Wires, Contract, AX!RStates, AX!WStates
    <3>4. CASE /\ ~x.r_last /\ ~i.resp_valid /\ x.req_valid /\ SameBut(h, a, {"rstate"})
               /\ \/ ~i.req_ready /\ a.rstate = "r_addr"
                  \/ i.req_ready /\ x.req_last /\ a.rstate = "r_resp_last"
                  \/ i.req_ready /\ ~x.req_last /\ a.rstate = "r_pipe"
      BY <1>1, <1>7, <2>2, <3>4
         DEF SameBut, AsksNext, ReadGoesOn, AfterRead, PortKept, ReadSide, WriteSide, Resting,
             InData, Wires, Contract, AX!RStates, AX!WStates
    <3>5. CASE /\ ~x.r_last /\ ~i.resp_valid /\ ~x.req_valid /\ x.requested
               /\ SameBut(h, a, {})
      BY <1>1, <1>7, <2>2, <3>5
         DEF SameBut, AsksNext, ReadGoesOn, AfterRead, PortKept, ReadSide, WriteSide, Resting,
             InData, Wires, Contract, AX!RStates, AX!WStates
    <3>6. CASE /\ ~x.r_last /\ ~i.resp_valid /\ ~x.req_valid /\ ~x.requested
               /\ SameBut(h, a, {"rstate", "ar_len", "req_valid", "req_addr", "req_last"})
               /\ a.rstate = "r_addr" /\ AsksNext(x, a)
      BY <1>1, <1>7, <2>2, <3>6
         DEF SameBut, AsksNext, ReadGoesOn, AfterRead, PortKept, ReadSide, WriteSide, Resting,
             InData, Wires, Contract, AX!RStates, AX!WStates
    <3> QED
      BY <1>2, <3>1, <3>2, <3>3, <3>4, <3>5, <3>6, RAcceptedStep
  <2> HIDE DEF v, a
  <2>4. \/ i.r_ready /\ SameBut(a, v, {"resp_last"})
        \/ ~i.r_ready /\ (x.r_last \/ ~i.resp_valid) /\ SameBut(h, v, {"resp_last"})
        \/ /\ ~i.r_ready /\ ~x.r_last /\ i.resp_valid /\ x.r_valid
           /\ SameBut(h, v, {"rstate", "r_data_buf", "r_last_buf", "resp_last"})
           /\ v.rstate = "r_buf"
        \/ /\ ~i.r_ready /\ ~x.r_last /\ i.resp_valid
           /\ SameBut(h, v, {"r_valid", "r_last", "r_data", "resp_last"}) /\ v.r_valid
    BY <1>2, <2>1, RWaitAcceptStep DEF a
  <2>5. CASE i.r_ready
    <3>1. SameBut(a, v, {"resp_last"})
      BY <2>4, <2>5
    <3> QED
      BY <2>3, <2>5, <3>1
         DEF SameBut, ReadGoesOn, AfterRead, PortKept, ReadSide, Resting
  <2>6. CASE ~i.r_ready
    <3>1. CASE (x.r_last \/ ~i.resp_valid) /\ SameBut(h, v, {"resp_last"})
      BY <1>1, <1>7, <2>6, <3>1
         DEF SameBut, ReadGoesOn, AfterRead, PortKept, ReadSide, WriteSide, Resting, InData,
             Wires, Contract, AX!RStates, AX!WStates
    <3>2. CASE /\ ~x.r_last /\ i.resp_valid /\ x.r_valid
               /\ SameBut(h, v, {"rstate", "r_data_buf", "r_last_buf", "resp_last"})
               /\ v.rstate = "r_buf"
      BY <1>1, <1>7, <2>6, <3>2
         DEF SameBut, ReadGoesOn, AfterRead, PortKept, ReadSide, WriteSide, Resting, InData,
             Wires, Contract, AX!RStates, AX!WStates
    <3>3. CASE /\ ~x.r_last /\ i.resp_valid
               /\ SameBut(h, v, {"r_valid", "r_last", "r_data", "resp_last"}) /\ v.r_valid
      BY <1>1, <1>7, <2>6, <3>3
         DEF SameBut, ReadGoesOn, AfterRead, PortKept, ReadSide, WriteSide, Resting, InData,
             Wires, Contract, AX!RStates, AX!WStates
    <3> QED
      BY <2>4, <2>6, <3>1, <3>2, <3>3
  <2> QED
    BY <2>5, <2>6
<1>8. CASE x.rstate = "r_buf"
  <2>1. v = AX!RBuf(x, i, h)
    BY <1>8 DEF AX!ReadChannel
  <2> HIDE DEF v
  <2> QED
    BY <1>1, <1>2, <1>8, <2>1, RBufStep
       DEF SameBut, AsksNext, ReadBurst, ReadGoesOn, AfterRead, PortKept, ReadSide, WriteSide, Resting,
           InData, Wires, Contract, AX!RStates, AX!WStates
<1>9. CASE x.rstate = "r_wait_writing"
  <2>1. v = AX!RWaitWriting(x, i, h)
    BY <1>9 DEF AX!ReadChannel
  <2> HIDE DEF v
  <2> QED
    BY <1>1, <1>2, <1>9, <2>1, RWaitWritingStep
       DEF SameBut, AsksNext, ReadBurst, ReadGoesOn, AfterRead, PortKept, ReadSide, WriteSide, Resting,
           InData, Wires, Contract, AX!RStates, AX!WStates
<1> QED
  BY <1>3, <1>4, <1>5, <1>6, <1>7, <1>8, <1>9 DEF ReadSide, AX!RStates

-----------------------------------------------------------------------------
(* The states of the write channel.                                        *)

\* the registers that hold the write burst
WriteBurst == {"aw_addr", "aw_bytes", "aw_id"}

\* At rest the channel accepts a burst, and waits for its beats at once unless a read runs.
LEMMA WIdleStep ==
    ASSUME NEW s, NEW i, NEW v, DOMAIN v = Fields
    PROVE  LET u == AX!WIdle(s, i, v) IN
           \/ ~(s.aw_ready /\ i.aw_valid) /\ SameBut(v, u, WriteBurst \cup {"aw_ready"})
           \/ /\ s.aw_ready /\ i.aw_valid /\ s.rstate # "r_idle"
              /\ SameBut(v, u, WriteBurst \cup {"wstate"})
              /\ u.aw_id = i.aw_id /\ u.aw_addr = i.aw_addr /\ u.wstate = "w_wait_reading"
           \/ /\ s.aw_ready /\ i.aw_valid /\ s.rstate = "r_idle"
              /\ SameBut(v, u, WriteBurst \cup {"wstate", "w_ready", "req_addr", "req_bytes",
                                                "req_write"})
              /\ u.aw_id = i.aw_id /\ u.wstate = "w_req" /\ u.w_ready
              /\ u.req_write /\ u.req_addr = i.aw_addr
<1>1. CASE ~(s.aw_ready /\ i.aw_valid)
  BY <1>1, ZenonT(60) DEF AX!WIdle, SameBut, Fields, WriteBurst
<1>2. CASE s.aw_ready /\ i.aw_valid /\ s.rstate # "r_idle"
  BY <1>2, ZenonT(60) DEF AX!WIdle, SameBut, Fields, WriteBurst
<1>3. CASE s.aw_ready /\ i.aw_valid /\ s.rstate = "r_idle"
  BY <1>3, ZenonT(60) DEF AX!WIdle, SameBut, Fields, WriteBurst
<1> QED
  BY <1>1, <1>2, <1>3

\* A beat becomes a request.
LEMMA WReqStep ==
    ASSUME NEW s, NEW i, NEW v, DOMAIN v = Fields
    PROVE  LET u == AX!WReq(s, i, v) IN
           \/ ~i.w_valid /\ SameBut(v, u, {})
           \/ /\ i.w_valid
              /\ SameBut(v, u, {"wstate", "w_ready", "req_valid", "req_wdata", "req_last"})
              /\ u.wstate = "w_pipe" /\ u.req_valid
              /\ u.req_last = i.w_last /\ u.req_wdata = i.w_data
<1>1. CASE ~i.w_valid
  BY <1>1, ZenonT(60) DEF AX!WReq, SameBut, Fields
<1>2. CASE i.w_valid
  BY <1>2, ZenonT(60) DEF AX!WReq, AX!AskWrite, SameBut, Fields
<1> QED
  BY <1>1, <1>2

\* A beat follows another: it becomes the request when the device takes the one before,
\* and waits in the buffer otherwise.  The last request ends the data phase.
LEMMA WPipeStep ==
    ASSUME NEW s, NEW i, NEW v, DOMAIN v = Fields,
           s.req_last => s.req_valid /\ ~i.w_valid
    PROVE  LET u == AX!WPipe(s, i, v) IN
           \/ /\ s.req_last /\ i.req_ready /\ SameBut(v, u, {"wstate", "w_ready"})
              /\ u.wstate = "w_resp" /\ ~u.w_ready
           \/ /\ ~(s.req_last /\ i.req_ready) /\ ~(s.w_ready /\ i.w_valid)
              /\ SameBut(v, u, {"w_ready"})
           \/ /\ ~s.req_last /\ s.w_ready /\ i.w_valid /\ i.req_ready
              /\ SameBut(v, u, {"w_ready", "req_valid", "req_addr", "req_wdata", "req_last"})
              /\ u.req_valid /\ u.req_addr = s.req_addr + 1
              /\ u.req_last = i.w_last /\ u.req_wdata = i.w_data
           \/ /\ ~s.req_last /\ s.w_ready /\ i.w_valid /\ ~i.req_ready
              /\ SameBut(v, u, {"wstate", "w_ready", "req_addr_buf", "req_wdata_buf",
                                "req_last_buf"})
              /\ u.wstate = "w_buf" /\ ~u.w_ready /\ u.req_addr_buf = s.req_addr + 1
              /\ u.req_last_buf = i.w_last /\ u.req_wdata_buf = i.w_data
           \/ /\ ~s.req_last /\ ~s.req_valid /\ i.resp_valid /\ ~i.w_valid
              /\ SameBut(v, u, {"wstate", "w_ready", "req_addr"})
              /\ u.wstate = "w_req" /\ u.w_ready /\ u.req_addr = s.req_addr + 1
<1>1. CASE s.req_last /\ i.req_ready
  BY <1>1, ZenonT(60) DEF AX!WPipe, SameBut, Fields
<1>2. CASE s.req_last /\ ~i.req_ready
  BY <1>2, ZenonT(60) DEF AX!WPipe, SameBut, Fields
<1>3. CASE ~s.req_last /\ s.w_ready /\ i.w_valid /\ i.req_ready
  BY <1>3, ZenonT(60) DEF AX!WPipe, AX!AskWrite, SameBut, Fields
<1>4. CASE ~s.req_last /\ s.w_ready /\ i.w_valid /\ ~i.req_ready
  BY <1>4, ZenonT(120) DEF AX!WPipe, SameBut, Fields
<1>5. CASE ~s.req_last /\ ~(s.w_ready /\ i.w_valid) /\ i.resp_valid /\ ~i.w_valid /\ ~s.req_valid
  <2>1. AX!WPipe(s, i, v) =
          [[v EXCEPT !.w_ready = (i.req_ready \/ i.resp_valid) /\ ~s.req_last]
             EXCEPT !.w_ready = TRUE, !.req_addr = s.req_addr + 1, !.wstate = "w_req"]
    BY <1>5 DEF AX!WPipe
  <2> QED
    BY <1>5, <2>1 DEF SameBut, Fields
<1>6. CASE /\ ~s.req_last /\ ~(s.w_ready /\ i.w_valid)
           /\ ~(i.resp_valid /\ ~i.w_valid /\ ~s.req_valid)
  BY <1>6, ZenonT(120) DEF AX!WPipe, SameBut, Fields
<1> QED
  BY <1>1, <1>2, <1>3, <1>4, <1>5, <1>6

\* The buffered beat becomes the request.
LEMMA WBufStep ==
    ASSUME NEW s, NEW i, NEW v, DOMAIN v = Fields
    PROVE  LET u == AX!WBuf(s, i, v) IN
           \/ ~i.req_ready /\ SameBut(v, u, {})
           \/ /\ i.req_ready
              /\ SameBut(v, u, {"wstate", "req_valid", "req_addr", "req_wdata", "req_last"})
              /\ u.wstate = "w_pipe" /\ u.req_valid /\ u.req_addr = s.req_addr_buf
              /\ u.req_last = s.req_last_buf /\ u.req_wdata = s.req_wdata_buf
BY ZenonT(60) DEF AX!WBuf, SameBut, Fields

\* The answer of the last request becomes the answer of the write.
LEMMA WRespStep ==
    ASSUME NEW s, NEW i, NEW v, DOMAIN v = Fields
    PROVE  LET u == AX!WResp(s, i, v) IN
           \/ ~i.resp_valid /\ SameBut(v, u, {})
           \/ /\ i.resp_valid /\ SameBut(v, u, {"wstate", "b_valid", "b_err"})
              /\ u.wstate = "b" /\ u.b_valid
BY ZenonT(60) DEF AX!WResp, SameBut, Fields

\* A write that was accepted during a read starts when the read has ended.
LEMMA WWaitReadingStep ==
    ASSUME NEW s, NEW i, NEW v, DOMAIN v = Fields
    PROVE  LET u == AX!WWaitReading(s, i, v) IN
           \/ SameBut(v, u, {})
           \/ /\ s.rstate = "r_idle" \/ (s.r_valid /\ s.r_last /\ i.r_ready)
              /\ SameBut(v, u, {"wstate", "w_ready", "req_addr", "req_bytes", "req_write"})
              /\ u.wstate = "w_req" /\ u.w_ready /\ u.req_write /\ u.req_addr = s.aw_addr
BY ZenonT(60) DEF AX!WWaitReading, SameBut, Fields

\* The master takes the answer of the write.
LEMMA WBStep ==
    ASSUME NEW s, NEW i, NEW v, DOMAIN v = Fields
    PROVE  LET u == AX!WB(s, i, v) IN
           \/ ~(s.b_valid /\ i.b_ready) /\ SameBut(v, u, {})
           \/ /\ s.b_valid /\ i.b_ready
              /\ SameBut(v, u, {"wstate", "aw_ready", "b_valid", "b_err"})
              /\ u.wstate = "w_idle" /\ ~u.b_valid
BY ZenonT(60) DEF AX!WB, SameBut, Fields

-----------------------------------------------------------------------------
(* The port in one cycle.                                                  *)

\* What a cycle of the port does: its control state is sound again, a burst it accepts
\* belongs to the master that asked, the data phase ends with the last beat only, and
\* the last beat is one that came over the W channel while the port was ready.
PortGoesOn(x, i, u) ==
    /\ DOMAIN u = Fields
    /\ ReadSide(u) /\ WriteSide(u)
    /\ u.requested <=> (x.req_valid /\ i.req_ready) \/ (x.requested /\ ~i.resp_valid)
    /\ x.aw_ready /\ i.aw_valid => u.aw_id = i.aw_id /\ WaitsForBeats(u) /\ ~HoldsLast(u)
    /\ WaitsForBeats(x) => u.aw_id = x.aw_id /\ (WaitsForBeats(u) \/ HoldsLast(x))
    /\ HoldsLast(u) => /\ WaitsForBeats(x)
                       /\ HoldsLast(x) \/ (i.w_valid /\ i.w_last /\ x.w_ready)

\* A cycle of axi_slv in front of a device that keeps its contract, when no beat comes
\* behind the last one.
LEMMA PortStep ==
    ASSUME NEW x, NEW i, DOMAIN x = Fields, ReadSide(x), WriteSide(x), Wires(x, i),
           HoldsLast(x) => ~i.w_valid
    PROVE  PortGoesOn(x, i, AX!Comb(x, i))
<1> DEFINE v == AX!ReadChannel(x, i, AX!Handshakes(x, i))
           u == AX!WriteChannel(x, i, v)
<1> SUFFICES PortGoesOn(x, i, u)
  BY DEF AX!Comb
<1>1. ReadGoesOn(x, i, v)
  BY ReadStep
<1> HIDE DEF v
<1>2. DOMAIN v = Fields
  BY <1>1 DEF ReadGoesOn, AfterRead
<1>3. CASE x.wstate = "w_idle"
  <2>1. u = AX!WIdle(x, i, v)
    BY <1>3 DEF AX!WriteChannel
  <2> HIDE DEF u
  <2>2. CASE ~(x.aw_ready /\ i.aw_valid) /\ SameBut(v, u, WriteBurst \cup {"aw_ready"})
    BY <1>1, <1>3, <2>2
       DEF SameBut, WriteBurst, ReadGoesOn, AfterRead, PortKept, ReadSide, WriteSide, Resting,
           InData, Wires, Contract, PortGoesOn, WaitsForBeats, HoldsLast, AX!WStates
  <2>3. CASE /\ x.aw_ready /\ i.aw_valid /\ x.rstate # "r_idle"
             /\ SameBut(v, u, WriteBurst \cup {"wstate"})
             /\ u.aw_id = i.aw_id /\ u.wstate = "w_wait_reading"
    BY <1>1, <1>3, <2>3
       DEF SameBut, WriteBurst, ReadGoesOn, AfterRead, PortKept, ReadSide, WriteSide, Resting,
           InData, Wires, Contract, PortGoesOn, WaitsForBeats, HoldsLast, AX!WStates
  <2>4. CASE /\ x.aw_ready /\ i.aw_valid /\ x.rstate = "r_idle"
             /\ SameBut(v, u, WriteBurst \cup {"wstate", "w_ready", "req_addr", "req_bytes",
                                               "req_write"})
             /\ u.aw_id = i.aw_id /\ u.wstate = "w_req" /\ u.w_ready /\ u.req_write
    BY <1>1, <1>3, <2>4
       DEF SameBut, WriteBurst, ReadGoesOn, AfterRead, PortKept, ReadSide, WriteSide, Resting,
           InData, Wires, Contract, PortGoesOn, WaitsForBeats, HoldsLast, AX!WStates
  <2> QED
    BY <1>2, <2>1, <2>2, <2>3, <2>4, WIdleStep
<1>4. CASE x.wstate = "w_req"
  <2>1. u = AX!WReq(x, i, v)
    BY <1>4 DEF AX!WriteChannel
  <2> HIDE DEF u
  <2> QED
    BY <1>1, <1>2, <1>4, <2>1, WReqStep
       DEF SameBut, WriteBurst, ReadGoesOn, AfterRead, PortKept, ReadSide, WriteSide, Resting,
           InData, Wires, Contract, PortGoesOn, WaitsForBeats, HoldsLast, AX!WStates
<1>5. CASE x.wstate = "w_pipe"
  <2>1. u = AX!WPipe(x, i, v)
    BY <1>5 DEF AX!WriteChannel
  <2>2. x.req_last => x.req_valid /\ ~i.w_valid
    BY <1>5 DEF WriteSide, HoldsLast
  <2> HIDE DEF u
  <2>3. CASE /\ x.req_last /\ i.req_ready /\ SameBut(v, u, {"wstate", "w_ready"})
             /\ u.wstate = "w_resp" /\ ~u.w_ready
    <3>1. DOMAIN u = Fields /\ ReadSide(u)
      BY <1>1, <2>3 DEF SameBut, ReadGoesOn, ReadSide, Resting
    <3>2. /\ u.aw_id = x.aw_id /\ ~u.aw_ready /\ ~u.b_valid /\ u.requested
          /\ u.rstate = v.rstate /\ u.req_valid = v.req_valid
          /\ u.requested <=> (x.req_valid /\ i.req_ready) \/ (x.requested /\ ~i.resp_valid)
      BY <1>1, <1>5, <2>2, <2>3 DEF SameBut, ReadGoesOn, AfterRead, WriteSide
    <3>3. /\ Resting(v) \/ v.rstate = "r_addr"
          /\ Resting(v) => ~v.req_valid
      BY <1>1, <1>5, <2>3 DEF ReadGoesOn, InData, PortKept, Resting
    <3>4. WriteSide(u)
      BY <2>3, <3>2, <3>3 DEF WriteSide, Resting, InData, AX!WStates
    <3>5. ~(x.aw_ready /\ i.aw_valid) /\ HoldsLast(x) /\ ~HoldsLast(u)
      BY <1>5, <2>3 DEF WriteSide, HoldsLast
    <3> QED
      BY <3>1, <3>2, <3>4, <3>5 DEF PortGoesOn
  <2>4. CASE /\ ~(x.req_last /\ i.req_ready) /\ ~(x.w_ready /\ i.w_valid)
             /\ SameBut(v, u, {"w_ready"})
    BY <1>1, <1>2, <1>5, <2>2, <2>4
       DEF SameBut, ReadGoesOn, AfterRead, PortKept, ReadSide, WriteSide, Resting, InData,
           Wires, Contract, PortGoesOn, WaitsForBeats, HoldsLast, AX!WStates
  <2>5. CASE /\ ~x.req_last /\ x.w_ready /\ i.w_valid /\ i.req_ready
             /\ SameBut(v, u, {"w_ready", "req_valid", "req_addr", "req_wdata", "req_last"})
             /\ u.req_valid /\ u.req_last = i.w_last
    BY <1>1, <1>2, <1>5, <2>2, <2>5
       DEF SameBut, ReadGoesOn, AfterRead, PortKept, ReadSide, WriteSide, Resting, InData,
           Wires, Contract, PortGoesOn, WaitsForBeats, HoldsLast, AX!WStates
  <2>6. CASE /\ ~x.req_last /\ x.w_ready /\ i.w_valid /\ ~i.req_ready
             /\ SameBut(v, u, {"wstate", "w_ready", "req_addr_buf", "req_wdata_buf",
                               "req_last_buf"})
             /\ u.wstate = "w_buf" /\ ~u.w_ready /\ u.req_last_buf = i.w_last
    BY <1>1, <1>2, <1>5, <2>2, <2>6
       DEF SameBut, ReadGoesOn, AfterRead, PortKept, ReadSide, WriteSide, Resting, InData,
           Wires, Contract, PortGoesOn, WaitsForBeats, HoldsLast, AX!WStates
  <2>7. CASE /\ ~x.req_last /\ ~x.req_valid /\ i.resp_valid /\ ~i.w_valid
             /\ SameBut(v, u, {"wstate", "w_ready", "req_addr"})
             /\ u.wstate = "w_req" /\ u.w_ready
    BY <1>1, <1>2, <1>5, <2>2, <2>7
       DEF SameBut, ReadGoesOn, AfterRead, PortKept, ReadSide, WriteSide, Resting, InData,
           Wires, Contract, PortGoesOn, WaitsForBeats, HoldsLast, AX!WStates
  <2> QED
    BY <1>2, <2>1, <2>2, <2>3, <2>4, <2>5, <2>6, <2>7, WPipeStep
<1>6. CASE x.wstate = "w_buf"
  <2>1. u = AX!WBuf(x, i, v)
    BY <1>6 DEF AX!WriteChannel
  <2> HIDE DEF u
  <2> QED
    BY <1>1, <1>2, <1>6, <2>1, WBufStep
       DEF SameBut, WriteBurst, ReadGoesOn, AfterRead, PortKept, ReadSide, WriteSide, Resting,
           InData, Wires, Contract, PortGoesOn, WaitsForBeats, HoldsLast, AX!WStates
<1>7. CASE x.wstate = "w_resp"
  <2>1. u = AX!WResp(x, i, v)
    BY <1>7 DEF AX!WriteChannel
  <2> HIDE DEF u
  <2> QED
    BY <1>1, <1>2, <1>7, <2>1, WRespStep
       DEF SameBut, WriteBurst, ReadGoesOn, AfterRead, PortKept, ReadSide, WriteSide, Resting,
           InData, Wires, Contract, PortGoesOn, WaitsForBeats, HoldsLast, AX!WStates
<1>8. CASE x.wstate = "w_wait_reading"
  <2>1. u = AX!WWaitReading(x, i, v)
    BY <1>8 DEF AX!WriteChannel
  <2> HIDE DEF u
  <2> QED
    BY <1>1, <1>2, <1>8, <2>1, WWaitReadingStep
       DEF SameBut, WriteBurst, ReadGoesOn, AfterRead, PortKept, ReadSide, WriteSide, Resting,
           InData, Wires, Contract, PortGoesOn, WaitsForBeats, HoldsLast, AX!WStates
<1>9. CASE x.wstate = "b"
  <2>1. u = AX!WB(x, i, v)
    BY <1>9 DEF AX!WriteChannel
  <2> HIDE DEF u
  <2> QED
    BY <1>1, <1>2, <1>9, <2>1, WBStep
       DEF SameBut, WriteBurst, ReadGoesOn, AfterRead, PortKept, ReadSide, WriteSide, Resting,
           InData, Wires, Contract, PortGoesOn, WaitsForBeats, HoldsLast, AX!WStates
<1> QED
  BY <1>3, <1>4, <1>5, <1>6, <1>7, <1>8, <1>9 DEF WriteSide, AX!WStates

\* What a resting port forgets is data.
LEMMA ForgetStep ==
    ASSUME NEW x, NEW i, NEW v, NEW keep, PortGoesOn(x, i, v)
    PROVE  PortGoesOn(x, i, AX!Forget(v, keep))
<1> DEFINE u == AX!Forget(v, keep)
<1> SUFFICES PortGoesOn(x, i, u)
  OBVIOUS
<1>1. DOMAIN v = Fields
  BY DEF PortGoesOn
<1>2. /\ SameBut(v, u, {"r_data", "r_data_buf", "r_last_buf", "req_addr", "req_last", "req_write",
                        "req_wdata", "req_bytes", "req_addr_buf", "req_last_buf",
                        "req_wdata_buf", "resp_last"})
      /\ (u.rstate = "r_idle" /\ u.wstate = "w_idle") \/ u = v
  <2>1. CASE v.rstate = "r_idle" /\ v.wstate = "w_idle" /\ ~v.req_valid
    BY <1>1, <2>1, ZenonT(60) DEF AX!Forget, SameBut, Fields
  <2>2. CASE ~(v.rstate = "r_idle" /\ v.wstate = "w_idle" /\ ~v.req_valid)
    BY <1>1, <2>2, ZenonT(60) DEF AX!Forget, SameBut
  <2> QED
    BY <2>1, <2>2
<1> HIDE DEF u
<1> QED
  BY <1>2 DEF SameBut, PortGoesOn, ReadSide, WriteSide, Resting, InData, WaitsForBeats, HoldsLast

-----------------------------------------------------------------------------
(* The crossbar.                                                           *)

\* A write address that is selected reaches the port with the number of its master.
LEMMA AddressRouted ==
    ASSUME NEW M, NEW s, NEW m \in Masters, XB!AwSelect(M, m, s)
    PROVE  /\ XB!SlaveIn(M, slv, w, s).aw_valid
           /\ XB!SlaveIn(M, slv, w, s).aw_id = m
           /\ XB!SlaveIn(M, slv, w, s).aw_addr = M[m].aw_addr
<1>1. {k \in Masters : XB!AwSelect(M, k, s)} = {m}
  BY DEF XB!AwSelect, Masters, L2M, DMAM
<1>2. (CHOOSE k \in {m} : TRUE) = m
  OBVIOUS
<1> QED
  BY <1>1, <1>2 DEF XB!SlaveIn

\* When only master m may send beats to a port, a beat on its wires is one of m.
LEMMA BeatRouted ==
    ASSUME NEW M, NEW s, NEW m \in Masters,
           \A k \in Masters : w.active[k] /\ w.select[k] = s => k = m,
           XB!SlaveIn(M, slv, w, s).w_valid
    PROVE  /\ XB!OnW(M, w, m, s)
           /\ XB!SlaveIn(M, slv, w, s).w_last <=> M[m].w_last
           /\ XB!SlaveIn(M, slv, w, s).w_data = M[m].w_data
<1> DEFINE on == {k \in Masters : XB!OnW(M, w, k, s)}
<1>1. on # {} /\ on \subseteq {m}
  BY DEF XB!SlaveIn, XB!OnW
<1>2. on = {m}
  BY <1>1
<1>3. (CHOOSE k \in {m} : \A j \in {m} : j <= k) = m
  BY DEF Masters, L2M, DMAM
<1>4. /\ XB!SlaveIn(M, slv, w, s).w_last = M[m].w_last
      /\ XB!SlaveIn(M, slv, w, s).w_data = M[m].w_data
  BY <1>2, <1>3 DEF XB!SlaveIn
<1> QED
  BY <1>2, <1>4

\* the wires of the masters at an edge, and the wires of the port of s
Driven ==
    [m \in Masters |-> IF m = L2M
       THEN LM!L2Out(l2, lreq, XB!RIn(slv, L2M), XB!BIn(slv, L2M))
       ELSE DmaOut(dma, in.dma)]
PortIn(s) == Joined(XB!SlaveIn(Driven, slv, w, s), Device(s))

\* the ready wires of master m at an edge
ArTaken(m) == XB!ArReady(Driven, slv, m)
AwTaken(m) == XB!AwReady(Driven, slv, m)
WTaken(m) == XB!WReady(Driven, slv, w, m)

\* What an edge does to the registers.
LEMMA EdgeIs ==
    ASSUME Edge
    PROVE  /\ slv' = [s \in Slaves |-> AX!Forget(AX!Comb(slv[s], PortIn(s)), s = "sram")]
           /\ w' = XB!WNext(Driven, slv, w)
           /\ sram' = IF "sram" \in Slaves THEN SramNext(sram, slv["sram"]) ELSE sram
           /\ bridge' = IF "pbridge" \in Slaves
                        THEN BR!BridgeNext(bridge, slv["pbridge"], apb) ELSE bridge
           /\ apb' = BR!ApbNext(bridge, apb)
           /\ words' = WordsNext
           /\ l2' = LM!L2Next(l2, lreq, XB!RIn(slv, L2M), XB!BIn(slv, L2M),
                              ArTaken(L2M), AwTaken(L2M), WTaken(L2M))
           /\ dma' = DmaNext(dma, in.dma, XB!RIn(slv, DMAM), XB!BIn(slv, DMAM),
                             ArTaken(DMAM), AwTaken(DMAM), WTaken(DMAM))
           /\ taken' = [s \in Slaves |-> TakenNext(s, slv[s].b_valid /\ PortIn(s).b_ready)]
           /\ \/ lreq' = lreq
              \/ lreq' = NoReq
              \/ lreq' = in.l2
           /\ in # NoInput /\ in' = NoInput
<1>1. /\ slv' = [s \in Slaves |-> AX!Forget(AX!Comb(slv[s], PortIn(s)), s = "sram")]
      /\ w' = XB!WNext(Driven, slv, w)
      /\ sram' = IF "sram" \in Slaves THEN SramNext(sram, slv["sram"]) ELSE sram
      /\ bridge' = IF "pbridge" \in Slaves
                   THEN BR!BridgeNext(bridge, slv["pbridge"], apb) ELSE bridge
      /\ apb' = BR!ApbNext(bridge, apb)
      /\ words' = WordsNext
      /\ l2' = LM!L2Next(l2, lreq, XB!RIn(slv, L2M), XB!BIn(slv, L2M),
                         ArTaken(L2M), AwTaken(L2M), WTaken(L2M))
      /\ dma' = DmaNext(dma, in.dma, XB!RIn(slv, DMAM), XB!BIn(slv, DMAM),
                        ArTaken(DMAM), AwTaken(DMAM), WTaken(DMAM))
      /\ taken' = [s \in Slaves |-> TakenNext(s, slv[s].b_valid /\ PortIn(s).b_ready)]
      /\ in # NoInput /\ in' = NoInput
  BY DEF Edge, Driven, PortIn, ArTaken, AwTaken, WTaken
<1>2. \E ack, granted : lreq' = LreqNext(ack, granted, in.l2)
  BY DEF Edge
<1>3. lreq' = lreq \/ lreq' = NoReq \/ lreq' = in.l2
  BY <1>2 DEF LreqNext
<1> QED
  BY <1>1, <1>3

\* The wires of a port are those of the crossbar and of the device behind it.
LEMMA PortWires ==
    ASSUME NEW s
    PROVE  /\ PortIn(s).req_ready = Device(s).req_ready
           /\ PortIn(s).resp_valid = Device(s).resp_valid
           /\ PortIn(s).aw_valid = XB!SlaveIn(Driven, slv, w, s).aw_valid
           /\ PortIn(s).aw_id = XB!SlaveIn(Driven, slv, w, s).aw_id
           /\ PortIn(s).w_valid = XB!SlaveIn(Driven, slv, w, s).w_valid
           /\ PortIn(s).w_last = XB!SlaveIn(Driven, slv, w, s).w_last
           /\ PortIn(s).ar_addr = XB!SlaveIn(Driven, slv, w, s).ar_addr
           /\ PortIn(s).aw_addr = XB!SlaveIn(Driven, slv, w, s).aw_addr
           /\ PortIn(s).w_data = XB!SlaveIn(Driven, slv, w, s).w_data
           /\ PortIn(s).resp_data = Device(s).resp_data
           /\ PortIn(s).ar_valid = XB!SlaveIn(Driven, slv, w, s).ar_valid
           /\ PortIn(s).ar_len = XB!SlaveIn(Driven, slv, w, s).ar_len
           /\ PortIn(s).ar_bytes = XB!SlaveIn(Driven, slv, w, s).ar_bytes
           /\ PortIn(s).ar_id = XB!SlaveIn(Driven, slv, w, s).ar_id
           /\ PortIn(s).r_ready <=> slv[s].r_valid /\ Driven[slv[s].ar_id].r_ready
           /\ PortIn(s).b_ready <=> slv[s].b_valid /\ Driven[slv[s].aw_id].b_ready
<1> DEFINE x == XB!SlaveIn(Driven, slv, w, s)
           d == Device(s)
<1>1. DOMAIN x = {"ar_valid", "ar_addr", "ar_len", "ar_bytes", "ar_id", "aw_valid", "aw_addr",
                  "aw_bytes", "aw_id", "w_valid", "w_data", "w_last", "r_ready", "b_ready"}
  BY DEF XB!SlaveIn
<1>2. DOMAIN d = {"req_ready", "resp_valid", "resp_data"}
  BY DEF Device
<1>3. /\ x.r_ready <=> slv[s].r_valid /\ Driven[slv[s].ar_id].r_ready
      /\ x.b_ready <=> slv[s].b_valid /\ Driven[slv[s].aw_id].b_ready
  BY DEF XB!SlaveIn
<1> HIDE DEF x, d
<1>4. PortIn(s) = Joined(x, d)
  BY DEF PortIn, x, d
<1>5. /\ PortIn(s).req_ready = d.req_ready /\ PortIn(s).resp_valid = d.resp_valid
      /\ PortIn(s).aw_valid = x.aw_valid /\ PortIn(s).aw_id = x.aw_id
      /\ PortIn(s).w_valid = x.w_valid /\ PortIn(s).w_last = x.w_last
      /\ PortIn(s).ar_addr = x.ar_addr /\ PortIn(s).aw_addr = x.aw_addr
      /\ PortIn(s).w_data = x.w_data /\ PortIn(s).resp_data = d.resp_data
      /\ PortIn(s).ar_valid = x.ar_valid /\ PortIn(s).ar_len = x.ar_len
      /\ PortIn(s).ar_bytes = x.ar_bytes /\ PortIn(s).ar_id = x.ar_id
      /\ PortIn(s).r_ready = x.r_ready /\ PortIn(s).b_ready = x.b_ready
  BY <1>1, <1>2, <1>4 DEF Joined
<1> QED
  BY <1>3, <1>5 DEF x, d

-----------------------------------------------------------------------------
(* The invariant of the ports, the crossbar and the devices.               *)

\* the SRAM answers what it took in the cycle before
SramOpen == "sram" \in Slaves => (sram.valid <=> slv["sram"].requested)

\* the bridge is busy with what it took until it has shown the answer
BridgeOpen ==
    /\ bridge.state \in {"Idle", "setup", "access", "out"}
    /\ bridge.pvalid <=> bridge.state = "out"
    /\ "pbridge" \in Slaves => (bridge.state # "Idle" <=> slv["pbridge"].requested)

\* nobody sends beats behind the last one
LastEnds == \A s \in Slaves : HoldsLast(slv[s]) =>
               \A m \in Masters : ~(w.active[m] /\ w.select[m] = s)

PortInv ==
    /\ \A s \in Slaves : DOMAIN slv[s] = Fields /\ ReadSide(slv[s]) /\ WriteSide(slv[s])
    /\ SramOpen /\ BridgeOpen
    /\ LastEnds
    /\ OneWriter

\* The reset state satisfies the invariant.
LEMMA PortInit == Init => PortInv
<1> SUFFICES ASSUME Init PROVE PortInv
  OBVIOUS
<1>1. /\ DOMAIN AX!SlvReset = Fields
      /\ AX!SlvReset.rstate = "r_idle" /\ AX!SlvReset.wstate = "w_idle"
      /\ ~AX!SlvReset.aw_ready /\ ~AX!SlvReset.r_last /\ ~AX!SlvReset.r_valid
      /\ ~AX!SlvReset.w_ready /\ ~AX!SlvReset.b_valid
      /\ ~AX!SlvReset.req_valid /\ ~AX!SlvReset.requested
  BY DEF AX!SlvReset, Fields
<1>2. \A s \in Slaves : slv[s] = AX!SlvReset
  BY DEF Init
<1>3. \A m \in Masters : ~w.active[m]
  BY DEF Init, XB!WReset
<1>4. /\ ~sram.valid /\ bridge.state = "Idle" /\ ~bridge.pvalid
  BY DEF Init, BR!BridgeReset
<1>5. \A s \in Slaves : DOMAIN slv[s] = Fields /\ ReadSide(slv[s]) /\ WriteSide(slv[s])
  BY <1>1, <1>2 DEF ReadSide, WriteSide, Resting, InData, AX!RStates, AX!WStates
<1> QED
  BY <1>1, <1>2, <1>3, <1>4, <1>5 DEF PortInv, SramOpen, BridgeOpen, LastEnds, OneWriter

\* Both devices keep the contract.
LEMMA DevicesKeepContract ==
    ASSUME PortInv, NEW s \in Slaves
    PROVE  Contract(slv[s], PortIn(s))
<1>1. s \in {"sram", "pbridge"}
  BY SlavesAssumption
<1>2. CASE s = "sram"
  BY <1>2, PortWires DEF Device, Contract, PortInv, SramOpen
<1>3. CASE s = "pbridge"
  BY <1>3, PortWires, ZenonT(60) DEF Device, Contract, PortInv, BridgeOpen
<1> QED
  BY <1>1, <1>2, <1>3

\* Every port goes on as PortStep says.
LEMMA PortsGoOn ==
    ASSUME PortInv, Edge, NEW s \in Slaves
    PROVE  PortGoesOn(slv[s], PortIn(s), slv'[s])
<1>1. HoldsLast(slv[s]) => ~PortIn(s).w_valid
  <2>1. XB!SlaveIn(Driven, slv, w, s).w_valid <=> \E k \in Masters : XB!OnW(Driven, w, k, s)
    BY DEF XB!SlaveIn
  <2> QED
    BY <2>1, PortWires DEF PortInv, LastEnds, XB!OnW
<1>2. Wires(slv[s], PortIn(s))
  BY DevicesKeepContract, PortWires DEF Wires
<1>3. PortGoesOn(slv[s], PortIn(s), AX!Comb(slv[s], PortIn(s)))
  BY <1>1, <1>2, PortStep DEF PortInv
<1>4. slv'[s] = AX!Forget(AX!Comb(slv[s], PortIn(s)), s = "sram")
  BY EdgeIs
<1> QED
  BY <1>3, <1>4, ForgetStep

\* The W channel after an edge: a master whose address was taken sends to that slave until
\* its last beat is taken.
LEMMA WAfter ==
    ASSUME Edge, NEW m \in Masters
    PROVE  /\ w'.active[m] <=> /\ w.active[m] \/ AwTaken(m)
                               /\ ~(Driven[m].w_last /\ WTaken(m))
           /\ ~AwTaken(m) => w'.select[m] = w.select[m]
           /\ AwTaken(m) => /\ w'.select[m] \in Slaves
                            /\ XB!AwSelect(Driven, m, w'.select[m])
                            /\ slv[w'.select[m]].aw_ready
<1> DEFINE T(n) == {x \in Slaves : XB!AwSelect(Driven, n, x) /\ slv[x].aw_ready}
           E(n) == Driven[n].w_last /\ XB!WReady(Driven, slv, w, n)
<1>1. w' = XB!WNext(Driven, slv, w)
  BY EdgeIs
<1>2. w' = [select |-> [n \in Masters |-> IF T(n) = {} THEN w.select[n]
                                         ELSE CHOOSE x \in T(n) : TRUE],
            active |-> [n \in Masters |-> (w.active[n] \/ T(n) # {}) /\ ~E(n)]]
  BY <1>1 DEF XB!WNext
<1>3. AwTaken(m) <=> T(m) # {}
  BY DEF AwTaken, XB!AwReady
<1>4. \A x \in T(m) : x \in Slaves /\ XB!AwSelect(Driven, m, x) /\ slv[x].aw_ready
  OBVIOUS
<1>5. E(m) <=> Driven[m].w_last /\ WTaken(m)
  BY DEF WTaken
<1> HIDE DEF T, E
<1>6. /\ w'.active[m] <=> (w.active[m] \/ T(m) # {}) /\ ~E(m)
      /\ w'.select[m] = IF T(m) = {} THEN w.select[m] ELSE CHOOSE x \in T(m) : TRUE
  BY <1>2
<1> QED
  BY <1>3, <1>4, <1>5, <1>6

\* A master that may send beats to s after the edge was accepted by s at this edge, or could
\* before and did not send the last beat.
LEMMA ActiveAfter ==
    ASSUME Edge, NEW m \in Masters, NEW s \in Slaves, w'.active[m], w'.select[m] = s
    PROVE  \/ XB!AwSelect(Driven, m, s) /\ slv[s].aw_ready
           \/ /\ w.active[m] /\ w.select[m] = s
              /\ ~(Driven[m].w_last /\ XB!OnW(Driven, w, m, s) /\ slv[s].w_ready)
<1>1. CASE AwTaken(m)
  BY <1>1, WAfter
<1>2. CASE ~AwTaken(m)
  BY <1>2, WAfter DEF WTaken, XB!WReady
<1> QED
  BY <1>1, <1>2

\* An edge keeps one writer per port, and no beats behind the last one.
LEMMA WriterEdge ==
    ASSUME PortInv, Edge
    PROVE  OneWriter' /\ LastEnds'
<1>1. ASSUME NEW s \in Slaves, NEW m \in Masters, w'.active[m], w'.select[m] = s
      PROVE  slv'[s].aw_id = m /\ WaitsForBeats(slv'[s]) /\ ~HoldsLast(slv'[s])
  <2>1. PortGoesOn(slv[s], PortIn(s), slv'[s])
    BY PortsGoOn
  <2>2. CASE XB!AwSelect(Driven, m, s) /\ slv[s].aw_ready
    <3>1. PortIn(s).aw_valid /\ PortIn(s).aw_id = m
      BY <2>2, AddressRouted, PortWires
    <3> QED
      BY <2>1, <2>2, <3>1 DEF PortGoesOn
  <2>3. CASE /\ w.active[m] /\ w.select[m] = s
             /\ ~(Driven[m].w_last /\ XB!OnW(Driven, w, m, s) /\ slv[s].w_ready)
    <3>1. slv[s].aw_id = m /\ WaitsForBeats(slv[s]) /\ ~HoldsLast(slv[s])
      BY <2>3 DEF PortInv, OneWriter, LastEnds, WaitsForBeats
    <3>2. slv'[s].aw_id = m /\ WaitsForBeats(slv'[s])
      BY <2>1, <3>1 DEF PortGoesOn
    <3>3. ASSUME HoldsLast(slv'[s]) PROVE FALSE
      <4>1. PortIn(s).w_valid /\ PortIn(s).w_last /\ slv[s].w_ready
        BY <2>1, <3>1, <3>3 DEF PortGoesOn
      <4>2. \A k \in Masters : w.active[k] /\ w.select[k] = s => k = m
        BY <3>1 DEF PortInv, OneWriter
      <4>3. XB!OnW(Driven, w, m, s) /\ Driven[m].w_last
        BY <4>1, <4>2, BeatRouted, PortWires
      <4> QED
        BY <2>3, <4>1, <4>3
    <3> QED
      BY <3>2, <3>3
  <2> QED
    BY <1>1, <2>2, <2>3, ActiveAfter
<1> QED
  BY <1>1 DEF OneWriter, LastEnds, WaitsForBeats

\* An edge keeps what the ports know of the open requests of their devices.
LEMMA DevicesEdge ==
    ASSUME PortInv, Edge
    PROVE  SramOpen' /\ BridgeOpen'
<1>1. SramOpen'
  <2> SUFFICES ASSUME "sram" \in Slaves
               PROVE  sram'.valid <=> slv'["sram"].requested
    BY DEF SramOpen
  <2>1. sram'.valid = slv["sram"].req_valid
    BY EdgeIs DEF SramNext
  <2>2. /\ PortIn("sram").req_ready
        /\ PortIn("sram").resp_valid <=> slv["sram"].requested
    BY PortWires DEF Device, PortInv, SramOpen
  <2>3. PortGoesOn(slv["sram"], PortIn("sram"), slv'["sram"])
    BY PortsGoOn
  <2> QED
    BY <2>1, <2>2, <2>3 DEF PortGoesOn
<1>2. CASE "pbridge" \notin Slaves
  BY <1>1, <1>2, EdgeIs DEF BridgeOpen, PortInv
<1>3. CASE "pbridge" \in Slaves
  <2> DEFINE q == slv["pbridge"]
  <2>1. bridge' = BR!BridgeNext(bridge, q, apb)
    BY <1>3, EdgeIs
  <2>2. /\ PortIn("pbridge").req_ready <=> bridge.state = "Idle"
        /\ PortIn("pbridge").resp_valid <=> bridge.state = "out"
        /\ q.requested <=> bridge.state # "Idle"
        /\ bridge.state \in {"Idle", "setup", "access", "out"}
        /\ bridge.pvalid <=> bridge.state = "out"
    BY <1>3, PortWires, ZenonT(60) DEF Device, PortInv, BridgeOpen
  <2>3. slv'["pbridge"].requested <=> \/ q.req_valid /\ bridge.state = "Idle"
                                      \/ bridge.state \notin {"Idle", "out"}
    <3>1. PortGoesOn(q, PortIn("pbridge"), slv'["pbridge"])
      BY <1>3, PortsGoOn
    <3> QED
      BY <2>2, <3>1 DEF PortGoesOn
  <2>4. /\ bridge'.state \in {"Idle", "setup", "access", "out"}
        /\ bridge'.pvalid <=> bridge'.state = "out"
        /\ bridge'.state # "Idle" <=> \/ q.req_valid /\ bridge.state = "Idle"
                                      \/ bridge.state \notin {"Idle", "out"}
    BY <2>1, <2>2 DEF BR!BridgeNext, BR!BIdle, BR!BAccess, BR!BridgeReset
  <2> QED
    BY <1>1, <2>3, <2>4 DEF BridgeOpen
<1> QED
  BY <1>1, <1>2, <1>3

\* Every step keeps the invariant.
LEMMA PortNext ==
    ASSUME PortInv, [Next]_vars
    PROVE  PortInv'
<1>1. CASE Edge
  <2>1. ASSUME NEW s \in Slaves
        PROVE  DOMAIN slv'[s] = Fields /\ ReadSide(slv'[s]) /\ WriteSide(slv'[s])
    BY <1>1, PortsGoOn DEF PortGoesOn
  <2> QED
    BY <1>1, <2>1, WriterEdge, DevicesEdge DEF PortInv
<1>2. CASE UNCHANGED <<slv, w, sram, bridge>>
  BY <1>2 DEF PortInv, SramOpen, BridgeOpen, LastEnds, OneWriter
<1>3. ASSUME NEW c \in DmaChoices, NEW q \in L2Choices, Drive(c, q)
      PROVE  UNCHANGED <<slv, w, sram, bridge>>
  BY <1>3 DEF Drive
<1>4. UNCHANGED vars => UNCHANGED <<slv, w, sram, bridge>>
  BY DEF vars
<1> QED
  BY <1>1, <1>2, <1>3, <1>4 DEF Next

\* A slave port gets the beats of a write only from the master whose address it accepted,
\* and only while it waits for beats (gencpu64_axictrl_bus0 w_select, w_active).
THEOREM OneWriterPerSlave == Spec => []OneWriter
<1>1. PortInv => OneWriter
  BY DEF PortInv
<1> QED
  BY <1>1, PortInit, PortNext, PTL DEF Spec

\* The answer of a write is never taken for read data (axi_slv State_r_wait_writing).
THEOREM AnswersKeptApart == Spec => []AnswersNotMixed
<1>1. PortInv => AnswersNotMixed
  BY DEF PortInv, AnswersNotMixed, WriteSide, InData, Resting, AX!WStates
<1> QED
  BY <1>1, PortInit, PortNext, PTL DEF Spec

-----------------------------------------------------------------------------
(* The bridge and the peripheral.                                          *)

\* the addresses in a port are numbers
Addressed(x) == /\ x.ar_addr \in Int /\ x.aw_addr \in Int
                /\ x.req_addr \in Int /\ x.req_addr_buf \in Int

\* u takes its addresses from v, from those of s, the one behind the request of s, or i
AddressKept(s, i, v, u) ==
    /\ DOMAIN u = Fields
    /\ u.ar_addr \in {v.ar_addr, i.ar_addr}
    /\ u.aw_addr \in {v.aw_addr, i.aw_addr}
    /\ u.req_addr \in {v.req_addr, s.req_addr + 1, s.ar_addr, s.aw_addr, s.req_addr_buf,
                       i.ar_addr, i.aw_addr}
    /\ u.req_addr_buf \in {v.req_addr_buf, s.req_addr + 1}

\* The read channel takes its addresses from the bus and counts them up.
LEMMA ReadAddresses ==
    ASSUME NEW s, NEW i, NEW v, DOMAIN v = Fields, s.rstate \in AX!RStates
    PROVE  AddressKept(s, i, v, AX!ReadChannel(s, i, v))
<1>1. CASE s.rstate = "r_idle"
  <2>1. AX!ReadChannel(s, i, v) = AX!RIdle(s, i, v)
    BY <1>1 DEF AX!ReadChannel
  <2>2. CASE ~(s.ar_ready /\ i.ar_valid)
    BY <2>1, <2>2 DEF AX!RIdle, AddressKept, Fields
  <2>3. CASE s.ar_ready /\ i.ar_valid /\ ((i.aw_valid /\ s.aw_ready) \/ s.wstate # "w_idle")
    BY <2>1, <2>3, ZenonT(60) DEF AX!RIdle, AddressKept, Fields
  <2>4. CASE s.ar_ready /\ i.ar_valid /\ ~((i.aw_valid /\ s.aw_ready) \/ s.wstate # "w_idle")
    BY <2>1, <2>4, ZenonT(60) DEF AX!RIdle, AddressKept, Fields
  <2> QED
    BY <2>2, <2>3, <2>4
<1>2. CASE s.rstate = "r_addr"
  BY <1>2 DEF AX!ReadChannel, AX!RAddr, AX!AskNextBeat, AddressKept, Fields
<1>3. CASE s.rstate = "r_pipe"
  <2>1. AX!ReadChannel(s, i, v) = AX!RPipe(s, i, v)
    BY <1>3 DEF AX!ReadChannel
  <2> DEFINE a == IF ~i.resp_valid THEN v
                  ELSE [AX!TakeBeat(v, i, FALSE) EXCEPT !.rstate =
                          IF ~i.r_ready THEN "r_wait_accept"
                          ELSE IF ~i.req_ready THEN "r_addr" ELSE @]
  <2>2. /\ DOMAIN a = Fields /\ a.ar_addr = v.ar_addr /\ a.aw_addr = v.aw_addr
        /\ a.req_addr = v.req_addr /\ a.req_addr_buf = v.req_addr_buf
    BY DEF AX!TakeBeat, Fields
  <2> DEFINE b == [a EXCEPT !.resp_last = s.req_last]
  <2>3. AX!RPipe(s, i, v) = IF ~i.req_ready THEN a
                            ELSE IF s.req_last THEN [b EXCEPT !.rstate = "r_resp_last"]
                            ELSE IF ~i.r_ready THEN b
                            ELSE AX!AskNextBeat(s, b)
    BY DEF AX!RPipe
  <2> HIDE DEF a
  <2>4. /\ DOMAIN b = Fields /\ b.ar_addr = v.ar_addr /\ b.aw_addr = v.aw_addr
        /\ b.req_addr = v.req_addr /\ b.req_addr_buf = v.req_addr_buf
    BY <2>2 DEF Fields
  <2> HIDE DEF b
  <2> QED
    BY <2>1, <2>2, <2>3, <2>4 DEF AX!AskNextBeat, AddressKept, Fields
<1>4. CASE s.rstate = "r_resp_last"
  BY <1>4 DEF AX!ReadChannel, AX!RRespLast, AX!BufferBeat, AX!TakeBeat, AddressKept, Fields
<1>5. CASE s.rstate = "r_wait_accept"
  <2> DEFINE a == AX!RAccepted(s, i, v)
  <2>1. AX!ReadChannel(s, i, v) = AX!RWaitAccept(s, i, v)
    BY <1>5 DEF AX!ReadChannel
  <2>2. AddressKept(s, i, v, a)
    <3>1. CASE ~s.r_last /\ ~i.resp_valid /\ s.req_valid
      BY <3>1 DEF AX!RAccepted, AddressKept, Fields
    <3>2. CASE ~(~s.r_last /\ ~i.resp_valid /\ s.req_valid)
      BY <3>2 DEF AX!RAccepted, AX!TakeBeat, AX!AskNextBeat, AddressKept, Fields
    <3> QED
      BY <3>1, <3>2
  <2> DEFINE c == IF i.r_ready THEN a
                  ELSE IF s.r_last \/ ~i.resp_valid THEN v
                  ELSE IF s.r_valid THEN AX!BufferBeat(v, i, s.resp_last)
                  ELSE AX!TakeBeat(v, i, s.resp_last)
  <2>3. AX!RWaitAccept(s, i, v) = IF i.req_ready THEN [c EXCEPT !.resp_last = s.req_last] ELSE c
    BY DEF AX!RWaitAccept
  <2> HIDE DEF a
  <2>4. AddressKept(s, i, v, c)
    <3>1. CASE i.r_ready
      BY <2>2, <3>1
    <3>2. CASE ~i.r_ready
      BY <3>2 DEF AX!BufferBeat, AX!TakeBeat, AddressKept, Fields
    <3> QED
      BY <3>1, <3>2
  <2> HIDE DEF c
  <2> QED
    BY <2>1, <2>3, <2>4 DEF AddressKept, Fields
<1>6. CASE s.rstate = "r_buf"
  BY <1>6 DEF AX!ReadChannel, AX!RBuf, AddressKept, Fields
<1>7. CASE s.rstate = "r_wait_writing"
  BY <1>7 DEF AX!ReadChannel, AX!RWaitWriting, AddressKept, Fields
<1> QED
  BY <1>1, <1>2, <1>3, <1>4, <1>5, <1>6, <1>7 DEF AX!RStates

\* So does the write channel.
LEMMA WriteAddresses ==
    ASSUME NEW s, NEW i, NEW v, DOMAIN v = Fields, s.wstate \in AX!WStates
    PROVE  AddressKept(s, i, v, AX!WriteChannel(s, i, v))
<1>1. CASE s.wstate = "w_idle"
  <2>1. AX!WriteChannel(s, i, v) = AX!WIdle(s, i, v)
    BY <1>1 DEF AX!WriteChannel
  <2>2. CASE ~(s.aw_ready /\ i.aw_valid)
    BY <2>1, <2>2 DEF AX!WIdle, AddressKept, Fields
  <2>3. CASE s.aw_ready /\ i.aw_valid
    BY <2>1, <2>3 DEF AX!WIdle, AddressKept, Fields
  <2> QED
    BY <2>2, <2>3
<1>2. CASE s.wstate = "w_req"
  BY <1>2 DEF AX!WriteChannel, AX!WReq, AX!AskWrite, AddressKept, Fields
<1>3. CASE s.wstate = "w_pipe"
  <2>1. AX!WriteChannel(s, i, v) = AX!WPipe(s, i, v)
    BY <1>3 DEF AX!WriteChannel
  <2> DEFINE ready == (i.req_ready \/ i.resp_valid) /\ ~s.req_last
             a == [v EXCEPT !.w_ready = ready]
             b == IF ~(s.w_ready /\ i.w_valid) THEN a
                  ELSE IF i.req_ready THEN AX!AskWrite(a, i, s.req_addr + 1)
                  ELSE [a EXCEPT !.wstate = "w_buf", !.w_ready = FALSE,
                                 !.req_addr_buf = s.req_addr + 1,
                                 !.req_wdata_buf = i.w_data,
                                 !.req_last_buf = i.w_last]
             c == IF s.req_valid /\ s.req_last /\ i.req_ready
                  THEN [b EXCEPT !.wstate = "w_resp"] ELSE b
  <2>2. AX!WPipe(s, i, v) = IF i.resp_valid /\ ~i.w_valid /\ ~s.req_valid
                            THEN [c EXCEPT !.w_ready = TRUE, !.req_addr = s.req_addr + 1,
                                           !.wstate = "w_req"]
                            ELSE c
    BY DEF AX!WPipe
  <2>3. AddressKept(s, i, v, b)
    BY DEF AX!AskWrite, AddressKept, Fields
  <2> HIDE DEF b
  <2>4. AddressKept(s, i, v, c)
    BY <2>3 DEF AddressKept, Fields
  <2> HIDE DEF c
  <2> QED
    BY <2>1, <2>2, <2>4 DEF AddressKept, Fields
<1>4. CASE s.wstate = "w_buf"
  BY <1>4 DEF AX!WriteChannel, AX!WBuf, AddressKept, Fields
<1>5. CASE s.wstate = "w_resp"
  BY <1>5 DEF AX!WriteChannel, AX!WResp, AddressKept, Fields
<1>6. CASE s.wstate = "w_wait_reading"
  BY <1>6 DEF AX!WriteChannel, AX!WWaitReading, AddressKept, Fields
<1>7. CASE s.wstate = "b"
  BY <1>7 DEF AX!WriteChannel, AX!WB, AddressKept, Fields
<1> QED
  BY <1>1, <1>2, <1>3, <1>4, <1>5, <1>6, <1>7 DEF AX!WStates

\* A cycle of a port keeps its addresses numbers when the bus carries numbers.
LEMMA AddressStep ==
    ASSUME NEW x, NEW i, DOMAIN x = Fields, x.rstate \in AX!RStates, x.wstate \in AX!WStates,
           Addressed(x), i.ar_addr \in Int, i.aw_addr \in Int, NEW keep
    PROVE  Addressed(AX!Forget(AX!Comb(x, i), keep))
<1> DEFINE h == AX!Handshakes(x, i)
           v == AX!ReadChannel(x, i, h)
           u == AX!WriteChannel(x, i, v)
<1>1. /\ DOMAIN h = Fields /\ h.ar_addr = x.ar_addr /\ h.aw_addr = x.aw_addr
      /\ h.req_addr = x.req_addr /\ h.req_addr_buf = x.req_addr_buf
  BY DEF AX!Handshakes, Fields
<1>2. AX!Comb(x, i) = u
  BY DEF AX!Comb
<1> HIDE DEF h
<1>3. AddressKept(x, i, h, v)
  BY <1>1, ReadAddresses
<1> HIDE DEF v
<1>4. DOMAIN v = Fields /\ Addressed(v)
  BY <1>1, <1>3 DEF AddressKept, Addressed
<1>5. AddressKept(x, i, v, u)
  BY <1>4, WriteAddresses
<1> HIDE DEF u
<1>6. DOMAIN u = Fields /\ Addressed(u)
  BY <1>4, <1>5 DEF AddressKept, Addressed
<1>7. Addressed(AX!Forget(u, keep))
  BY <1>6 DEF AX!Forget, Addressed, Fields
<1> QED
  BY <1>2, <1>7

\* what the L2 cache asks for is one of its requests
Asked == /\ lreq \in L2Requests \cup {NoReq}
         /\ in # NoInput => in.l2 \in L2Requests \cup {NoReq}

\* The masters drive numbers onto the address wires.
LEMMA AddressWires ==
    ASSUME Asked, NEW s
    PROVE  PortIn(s).ar_addr \in Int /\ PortIn(s).aw_addr \in Int
<1> DEFINE r == XB!RIn(slv, L2M)
           b == XB!BIn(slv, L2M)
           o == LM!L2Out(l2, lreq, r, b)
<1>1. o.ar_addr \in Int /\ o.aw_addr \in Int
  <2>1. lreq # NoReq => lreq.addr = 0
    BY L2Assumption DEF Asked
  <2> QED
    BY <2>1 DEF LM!L2Out
<1>2. DmaOut(dma, in.dma).ar_addr \in Int /\ DmaOut(dma, in.dma).aw_addr \in Int
  BY DEF DmaOut, Base, L2M, DMAM
<1>3. \A m \in Masters : Driven[m].ar_addr \in Int /\ Driven[m].aw_addr \in Int
  <2> HIDE DEF o
  <2>1. Driven = [m \in Masters |-> IF m = L2M THEN o ELSE DmaOut(dma, in.dma)]
    BY DEF Driven, o
  <2> QED
    BY <1>1, <1>2, <2>1
<1> DEFINE ar == {m \in Masters : XB!ArSelect(Driven, m, s)}
           aw == {m \in Masters : XB!AwSelect(Driven, m, s)}
<1>4. /\ XB!SlaveIn(Driven, slv, w, s).ar_addr =
           IF ar = {} THEN 0 ELSE Driven[CHOOSE m \in ar : TRUE].ar_addr
      /\ XB!SlaveIn(Driven, slv, w, s).aw_addr =
           IF aw = {} THEN 0 ELSE Driven[CHOOSE m \in aw : TRUE].aw_addr
  BY DEF XB!SlaveIn
<1>5. /\ ar # {} => (CHOOSE m \in ar : TRUE) \in Masters
      /\ aw # {} => (CHOOSE m \in aw : TRUE) \in Masters
  OBVIOUS
<1> HIDE DEF ar, aw
<1> QED
  BY <1>3, <1>4, <1>5, PortWires

\* the words of the first h + 1 accesses of the request in the bridge
WordsTo(h) == IF h = 0 THEN <<2 * bridge.addr>> ELSE <<2 * bridge.addr, 2 * bridge.addr + 1>>

\* The peripheral has seen what the bridge has finished, and what it is busy with once.
\* apb_slv is idle unless the bridge is in its access phase; the bridge sets it up and selects
\* it in the same cycle.
Setup == /\ bridge.pselx /\ ~bridge.penable
         /\ apb.state = "Idle"
         /\ IF bridge.half = 0 THEN words = <<>>
            ELSE bridge.size = 8 /\ words = WordsTo(0)
Access == /\ bridge.pselx /\ bridge.penable
          /\ apb.state \in {"Request", "WaitResp", "Resp"}
          /\ apb.resp_valid <=> apb.state = "Resp"
          /\ words = WordsTo(bridge.half)
          /\ bridge.half = 1 => bridge.size = 8
Ended == /\ ~bridge.pselx
         /\ apb.state = "Idle"
         /\ bridge.prdata # ErrBeat =>
              words = IF bridge.size = 8 THEN WordsTo(1) ELSE WordsTo(0)

BridgeInv ==
    /\ DOMAIN bridge = {"state", "pvalid", "addr", "size", "half", "pselx", "penable", "prdata"}
    /\ DOMAIN apb = {"state", "word", "rdata", "resp_valid"}
    /\ bridge.addr \in Int /\ bridge.half \in {0, 1}
    /\ bridge.state \in {"Idle", "setup", "access", "out"}
    /\ "pbridge" \notin Slaves => bridge.state = "Idle"
    /\ bridge.state = "Idle" => ~bridge.pselx /\ apb.state = "Idle" /\ words = <<>>
    /\ bridge.state = "setup" => Setup
    /\ bridge.state = "access" => Access
    /\ bridge.state = "out" => Ended

WordsInv ==
    /\ PortInv /\ Asked /\ BridgeInv
    /\ \A s \in Slaves : Addressed(slv[s])

\* The reset state satisfies the invariant of the bridge.
LEMMA WordsInit == Init => WordsInv
<1> SUFFICES ASSUME Init PROVE WordsInv
  OBVIOUS
<1>1. BridgeInv
  BY DEF Init, BridgeInv, BR!BridgeReset, BR!ApbReset
<1>2. Asked
  BY DEF Init, Asked
<1>3. Addressed(AX!SlvReset)
  BY DEF Addressed, AX!SlvReset
<1>4. \A s \in Slaves : slv[s] = AX!SlvReset
  BY DEF Init
<1> QED
  BY <1>1, <1>2, <1>3, <1>4, PortInit DEF WordsInv

\* The second word follows the first.
LEMMA AppendTwo ==
    ASSUME NEW a \in Int, NEW b \in Int
    PROVE  Append(<<a>>, b) = <<a, b>>
<1> DEFINE s == Append(<<a>>, b)
<1>1. <<a>> \in Seq(Int) /\ Len(<<a>>) = 1 /\ <<a>>[1] = a
  OBVIOUS
<1>2. <<a, b>> \in Seq(Int) /\ Len(<<a, b>>) = 2 /\ <<a, b>>[1] = a /\ <<a, b>>[2] = b
  OBVIOUS
<1>3. s \in Seq(Int) /\ Len(s) = 2 /\ s[1] = a /\ s[2] = b
  BY <1>1, AppendProperties
<1> HIDE DEF s
<1>4. s = <<a, b>>
  BY <1>2, <1>3, SeqEqual
<1> QED
  BY <1>4 DEF s

\* An edge takes the bridge and apb_slv on together.
LEMMA BridgeEdge ==
    ASSUME WordsInv, Edge
    PROVE  BridgeInv'
<1> DEFINE q == slv["pbridge"]
<1>1. apb' = BR!ApbNext(bridge, apb) /\ words' = WordsNext
  BY EdgeIs
<1>2. BridgeInv
  BY DEF WordsInv
<1>3. CASE bridge.state = "Idle"
  <2>1. apb'.state = "Idle" /\ DOMAIN apb' = DOMAIN apb /\ words' = <<>>
    BY <1>1, <1>2, <1>3 DEF BridgeInv, BR!ApbNext, BR!ApbTakes, WordsNext
  <2>2. CASE "pbridge" \notin Slaves
    <3>1. bridge' = bridge
      BY <2>2, EdgeIs
    <3> QED
      BY <1>2, <1>3, <2>1, <3>1 DEF BridgeInv
  <2>3. CASE "pbridge" \in Slaves
    <3>1. bridge' = BR!BIdle(bridge, q)
      BY <1>3, <2>3, EdgeIs DEF BR!BridgeNext
    <3>2. q.req_addr \in Int
      BY <2>3 DEF WordsInv, Addressed
    <3> HIDE DEF q
    <3>3. CASE ~q.req_valid
      BY <1>2, <1>3, <2>1, <2>3, <3>1, <3>3 DEF BridgeInv, BR!BIdle
    <3>4. CASE q.req_valid /\ ~q.req_last
      BY <1>2, <1>3, <2>1, <2>3, <3>1, <3>4 DEF BridgeInv, BR!BIdle, Ended
    <3>5. CASE q.req_valid /\ q.req_last
      BY <1>2, <1>3, <2>1, <2>3, <3>1, <3>2, <3>5 DEF BridgeInv, BR!BIdle, Setup
    <3> QED
      BY <3>3, <3>4, <3>5
  <2> QED
    BY <2>2, <2>3
<1>4. CASE bridge.state = "setup"
  <2>1. Setup /\ "pbridge" \in Slaves
    BY <1>2, <1>4 DEF BridgeInv
  <2>2. bridge' = [bridge EXCEPT !.penable = TRUE, !.state = "access"]
    BY <1>4, <2>1, EdgeIs DEF BR!BridgeNext
  <2>3. apb'.state = "Request" /\ ~apb'.resp_valid /\ DOMAIN apb' = DOMAIN apb
    BY <1>1, <1>2, <2>1 DEF Setup, BridgeInv, BR!ApbNext, BR!ApbTakes
  <2>4. words' = Append(words, 2 * bridge.addr + bridge.half)
    BY <1>1, <1>4, <2>1 DEF Setup, WordsNext, BR!ApbTakes, BR!PAddr
  <2>5. CASE bridge.half = 0
    <3>1. words' = <<2 * bridge.addr>>
      BY <1>2, <2>1, <2>4, <2>5 DEF Setup, BridgeInv
    <3> QED
      BY <1>2, <2>1, <2>2, <2>3, <2>5, <3>1 DEF BridgeInv, Setup, Access, WordsTo
  <2>6. CASE bridge.half = 1
    <3> DEFINE a == 2 * bridge.addr
    <3>1. words = <<a>> /\ bridge.size = 8
      BY <2>1, <2>6 DEF Setup, WordsTo
    <3>2. a \in Int
      BY <1>2 DEF BridgeInv
    <3>3. words' = Append(<<a>>, a + 1)
      BY <2>4, <2>6, <3>1
    <3> HIDE DEF a
    <3>4. Append(<<a>>, a + 1) = <<a, a + 1>>
      BY <3>2, AppendTwo
    <3>5. words' = <<2 * bridge.addr, 2 * bridge.addr + 1>> /\ bridge.size = 8
      BY <3>1, <3>3, <3>4 DEF a
    <3> QED
      BY <1>2, <2>1, <2>2, <2>3, <2>6, <3>5 DEF BridgeInv, Setup, Access, WordsTo
  <2> QED
    BY <1>2, <2>5, <2>6 DEF BridgeInv
<1>5. CASE bridge.state = "access"
  <2>1. Access /\ "pbridge" \in Slaves
    BY <1>2, <1>5 DEF BridgeInv
  <2>2. bridge' = BR!BAccess(bridge, apb)
    BY <1>5, <2>1, EdgeIs DEF BR!BridgeNext
  <2>3. words' = words
    BY <1>1, <1>5, <2>1 DEF Access, WordsNext, BR!ApbTakes
  <2>4. CASE apb.state # "Resp"
    <3>1. bridge' = bridge
      BY <2>1, <2>2, <2>4 DEF Access, BR!BAccess
    <3>2. /\ apb'.state \in {"WaitResp", "Resp"} /\ DOMAIN apb' = DOMAIN apb
          /\ apb'.resp_valid <=> apb'.state = "Resp"
      BY <1>1, <1>2, <2>1, <2>4 DEF Access, BridgeInv, BR!ApbNext
    <3> QED
      BY <1>2, <1>5, <2>1, <2>3, <3>1, <3>2 DEF BridgeInv, Access, WordsTo
  <2>5. CASE apb.state = "Resp"
    <3>1. apb' = BR!ApbReset
      BY <1>1, <2>1, <2>5 DEF Access, BR!ApbNext, BR!ApbRelease
    <3>2. CASE bridge.size = 8 /\ bridge.half = 0
      <4>1. /\ bridge'.state = "setup" /\ bridge'.half = 1 /\ DOMAIN bridge' = DOMAIN bridge
            /\ bridge'.addr = bridge.addr /\ bridge'.size = bridge.size
            /\ bridge'.pselx = bridge.pselx /\ ~bridge'.penable
        BY <1>2, <2>1, <2>2, <2>5, <3>2 DEF BridgeInv, Access, BR!BAccess
      <4> QED
        BY <1>2, <2>1, <2>3, <3>1, <3>2, <4>1
           DEF BridgeInv, Access, Setup, WordsTo, BR!ApbReset
    <3>3. CASE ~(bridge.size = 8 /\ bridge.half = 0)
      <4>1. /\ bridge'.state = "out" /\ ~bridge'.pselx /\ DOMAIN bridge' = DOMAIN bridge
            /\ bridge'.addr = bridge.addr /\ bridge'.size = bridge.size
            /\ bridge'.half = bridge.half
        BY <1>2, <2>1, <2>2, <2>5, <3>3 DEF BridgeInv, Access, BR!BAccess
      <4> QED
        BY <1>2, <2>1, <2>3, <3>1, <3>3, <4>1
           DEF BridgeInv, Access, Ended, WordsTo, BR!ApbReset
    <3> QED
      BY <3>2, <3>3
  <2> QED
    BY <2>4, <2>5
<1>6. CASE bridge.state = "out"
  <2>1. Ended /\ "pbridge" \in Slaves
    BY <1>2, <1>6 DEF BridgeInv
  <2>2. bridge' = BR!BridgeReset
    BY <1>6, <2>1, EdgeIs DEF BR!BridgeNext
  <2>3. apb'.state = "Idle" /\ DOMAIN apb' = DOMAIN apb /\ words' = <<>>
    BY <1>1, <1>2, <1>6, <2>1 DEF Ended, BridgeInv, BR!ApbNext, BR!ApbTakes, WordsNext
  <2> QED
    BY <1>2, <2>1, <2>2, <2>3 DEF BridgeInv, BR!BridgeReset
<1> QED
  BY <1>2, <1>3, <1>4, <1>5, <1>6 DEF BridgeInv

\* Every step keeps the invariant of the bridge.
LEMMA WordsStep ==
    ASSUME WordsInv, [Next]_vars
    PROVE  WordsInv'
<1>1. PortInv'
  BY PortNext DEF WordsInv
<1>2. CASE Edge
  <2>1. Asked'
    BY <1>2, EdgeIs DEF WordsInv, Asked
  <2>2. ASSUME NEW s \in Slaves PROVE Addressed(slv'[s])
    <3>1. slv'[s] = AX!Forget(AX!Comb(slv[s], PortIn(s)), s = "sram")
      BY <1>2, EdgeIs
    <3>2. PortIn(s).ar_addr \in Int /\ PortIn(s).aw_addr \in Int
      BY AddressWires DEF WordsInv
    <3> QED
      BY <3>1, <3>2, AddressStep DEF WordsInv, PortInv, ReadSide, WriteSide
  <2> QED
    BY <1>1, <1>2, <2>1, <2>2, BridgeEdge DEF WordsInv
<1>3. ASSUME NEW c \in DmaChoices, NEW q \in L2Choices, Drive(c, q)
      PROVE  WordsInv'
  <2>1. UNCHANGED <<slv, lreq, bridge, apb, words>> /\ in'.l2 = q
    BY <1>3 DEF Drive
  <2>2. q \in L2Requests \cup {NoReq}
    BY DEF L2Choices
  <2>3. BridgeInv'
    BY <2>1 DEF WordsInv, BridgeInv, Setup, Access, Ended, WordsTo
  <2> QED
    BY <1>1, <2>1, <2>2, <2>3 DEF WordsInv, Asked, Addressed
<1>4. CASE UNCHANGED vars
  <2>1. UNCHANGED <<slv, lreq, bridge, apb, words, in>>
    BY <1>4 DEF vars
  <2>2. BridgeInv'
    BY <2>1 DEF WordsInv, BridgeInv, Setup, Access, Ended, WordsTo
  <2> QED
    BY <1>1, <2>1, <2>2 DEF WordsInv, Asked, Addressed
<1> QED
  BY <1>2, <1>3, <1>4 DEF Next

\* A peripheral sees each word of a request once, in ascending order, and apb_slv is at rest
\* when the bridge is (apb_slv State_Resp, gencpu64_axi2apb_bus1 State_access).
THEOREM PeripheralSeesWordsOnce == Spec => []WordsOnce
<1>1. WordsInv => WordsOnce
  BY DEF WordsInv, BridgeInv, Ended, WordsTo, WordsOnce, Beat
<1> QED
  BY <1>1, WordsInit, WordsStep, PTL DEF Spec

-----------------------------------------------------------------------------
(* The beats of a write in a slave port.                                   *)

\* Of the n beats of a write that begins at address a and strobes the lanes L, k were sent and
\* t were taken by the device: the beats in between are the request and the buffer.
WriteData(x, t, k, n, a, L) ==
    /\ x.wstate = "w_wait_reading" => t = 0 /\ k = 0 /\ x.aw_addr = a
    /\ x.wstate = "w_req" => k = t /\ x.req_addr = a + t
    /\ x.wstate = "w_pipe" /\ x.req_valid =>
         /\ k = t + 1 /\ x.req_addr = a + t /\ x.req_wdata = Strobed(Beat(a + t), L)
         /\ x.req_last <=> k = n
    /\ x.wstate = "w_pipe" /\ ~x.req_valid => k = t /\ x.req_addr + 1 = a + t
    /\ x.wstate = "w_buf" =>
         /\ k = IF x.req_valid THEN t + 2 ELSE t + 1
         /\ x.req_valid => x.req_addr = a + t /\ x.req_wdata = Strobed(Beat(a + t), L)
         /\ x.req_addr_buf + 1 = a + k /\ x.req_wdata_buf = Strobed(Beat(x.req_addr_buf), L)
         /\ x.req_last_buf <=> k = n
    /\ x.wstate \in {"w_resp", "b"} => t = n

\* the beats taken and sent after a cycle
TakenAfter(x, i, t) == IF x.req_valid /\ i.req_ready /\ x.req_write THEN t + 1 ELSE t
SentAfter(x, i, k) == IF i.w_valid /\ x.w_ready THEN k + 1 ELSE k

\* Only requests of the write count while the port is busy with one.
LEMMA WriteTakes ==
    ASSUME NEW x, NEW i, NEW t, ReadSide(x), WriteSide(x)
    PROVE  /\ InData(x) => TakenAfter(x, i, t) = IF x.req_valid /\ i.req_ready THEN t + 1 ELSE t
           /\ ~InData(x) => TakenAfter(x, i, t) = t
BY DEF ReadSide, WriteSide, InData, Resting, TakenAfter

\* A cycle of the port in the middle of a write, when the wires carry its next beat.
LEMMA WriteStep ==
    ASSUME NEW x, NEW i, DOMAIN x = Fields, ReadSide(x), WriteSide(x), Wires(x, i),
           HoldsLast(x) => ~i.w_valid,
           NEW t \in Int, NEW k \in Int, NEW n \in Int, NEW a \in Int, NEW L,
           x.req_addr \in Int, x.req_addr_buf \in Int,
           x.wstate # "w_idle", WriteData(x, t, k, n, a, L),
           i.w_valid /\ x.w_ready => /\ i.w_data = Strobed(Beat(a + k), L)
                                     /\ i.w_last <=> k + 1 = n
    PROVE  LET u == AX!Comb(x, i) IN
           /\ u.wstate = "w_idle" <=> x.b_valid /\ i.b_ready
           /\ u.wstate # "w_idle" =>
                /\ u.aw_id = x.aw_id
                /\ WriteData(u, TakenAfter(x, i, t), SentAfter(x, i, k), n, a, L)
<1> DEFINE v == AX!ReadChannel(x, i, AX!Handshakes(x, i))
           u == AX!WriteChannel(x, i, v)
           tt == TakenAfter(x, i, t)
           kk == SentAfter(x, i, k)
           P(z) == /\ z.wstate = "w_idle" <=> x.b_valid /\ i.b_ready
                   /\ z.wstate # "w_idle" => z.aw_id = x.aw_id /\ WriteData(z, tt, kk, n, a, L)
<1> SUFFICES P(u)
  BY DEF AX!Comb
<1>1. ReadGoesOn(x, i, v)
  BY ReadStep
<1> HIDE DEF v
<1>2. DOMAIN v = Fields
  BY <1>1 DEF ReadGoesOn, AfterRead
<1>3. /\ InData(x) => tt = IF x.req_valid /\ i.req_ready THEN t + 1 ELSE t
      /\ ~InData(x) => tt = t
  BY WriteTakes
<1>4. kk = IF i.w_valid /\ x.w_ready THEN k + 1 ELSE k
  BY DEF SentAfter
<1> HIDE DEF tt, kk
<1>5. CASE x.wstate = "w_req"
  <2>1. u = AX!WReq(x, i, v)
    BY <1>5 DEF AX!WriteChannel
  <2>2. InData(x) /\ ~x.req_valid /\ x.w_ready /\ ~x.b_valid
    BY <1>5 DEF InData, WriteSide
  <2>3. tt = t
    BY <1>3, <2>2
  <2>4. Resting(v) /\ PortKept(x, i, v)
    BY <1>1, <2>2 DEF ReadGoesOn
  <2> HIDE DEF u
  <2>5. CASE ~i.w_valid
    BY <1>1, <1>2, <1>4, <1>5, <2>1, <2>2, <2>3, <2>4, <2>5, WReqStep
       DEF SameBut, ReadGoesOn, AfterRead, PortKept, WriteData
  <2>6. CASE i.w_valid
    BY <1>1, <1>2, <1>4, <1>5, <2>1, <2>2, <2>3, <2>4, <2>6, WReqStep
       DEF SameBut, ReadGoesOn, AfterRead, PortKept, WriteData
  <2> QED
    BY <2>5, <2>6
<1>6. CASE x.wstate = "w_pipe"
  <2>1. u = AX!WPipe(x, i, v)
    BY <1>6 DEF AX!WriteChannel
  <2>2. x.req_last => x.req_valid /\ ~i.w_valid
    BY <1>6 DEF WriteSide, HoldsLast
  <2>3. InData(x) /\ ~x.b_valid
    BY <1>6 DEF InData, WriteSide
  <2>4. tt = IF x.req_valid /\ i.req_ready THEN t + 1 ELSE t
    BY <1>3, <2>3
  <2>5. (x.req_last /\ i.req_ready) \/ PortKept(x, i, v)
    BY <1>1, <2>3 DEF ReadGoesOn
  <2> HIDE DEF u
  <2>6. CASE x.req_last /\ i.req_ready
    <3>1. SameBut(v, u, {"wstate", "w_ready"}) /\ u.wstate = "w_resp" /\ ~u.w_ready
      BY <1>2, <2>1, <2>2, <2>6, WPipeStep
    <3> QED
      BY <1>1, <1>4, <1>6, <2>2, <2>3, <2>4, <2>6, <3>1
         DEF SameBut, ReadGoesOn, AfterRead, WriteData
  <2>7. CASE ~(x.req_last /\ i.req_ready) /\ ~(x.w_ready /\ i.w_valid) /\ SameBut(v, u, {"w_ready"})
    BY <1>1, <1>4, <1>6, <2>3, <2>4, <2>5, <2>7
       DEF SameBut, ReadGoesOn, AfterRead, PortKept, WriteData
  <2>8. CASE /\ ~x.req_last /\ x.w_ready /\ i.w_valid /\ i.req_ready
             /\ SameBut(v, u, {"w_ready", "req_valid", "req_addr", "req_wdata", "req_last"})
             /\ u.req_valid /\ u.req_addr = x.req_addr + 1
             /\ u.req_last = i.w_last /\ u.req_wdata = i.w_data
    BY <1>1, <1>4, <1>6, <2>3, <2>4, <2>8 DEF SameBut, ReadGoesOn, AfterRead, WriteData
  <2>9. CASE /\ ~x.req_last /\ x.w_ready /\ i.w_valid /\ ~i.req_ready
             /\ SameBut(v, u, {"wstate", "w_ready", "req_addr_buf", "req_wdata_buf",
                               "req_last_buf"})
             /\ u.wstate = "w_buf" /\ ~u.w_ready /\ u.req_addr_buf = x.req_addr + 1
             /\ u.req_last_buf = i.w_last /\ u.req_wdata_buf = i.w_data
    BY <1>1, <1>4, <1>6, <2>3, <2>4, <2>5, <2>9
       DEF SameBut, ReadGoesOn, AfterRead, PortKept, WriteData
  <2>10. CASE /\ ~x.req_last /\ ~x.req_valid /\ i.resp_valid /\ ~i.w_valid
              /\ SameBut(v, u, {"wstate", "w_ready", "req_addr"})
              /\ u.wstate = "w_req" /\ u.w_ready /\ u.req_addr = x.req_addr + 1
    BY <1>1, <1>4, <1>6, <2>3, <2>4, <2>5, <2>10
       DEF SameBut, ReadGoesOn, AfterRead, PortKept, WriteData
  <2> QED
    BY <1>2, <2>1, <2>2, <2>6, <2>7, <2>8, <2>9, <2>10, WPipeStep
<1>7. CASE x.wstate = "w_buf"
  <2>1. u = AX!WBuf(x, i, v)
    BY <1>7 DEF AX!WriteChannel
  <2>2. InData(x) /\ ~x.b_valid /\ ~x.w_ready
    BY <1>7 DEF InData, WriteSide
  <2>3. tt = IF x.req_valid /\ i.req_ready THEN t + 1 ELSE t
    BY <1>3, <2>2
  <2>4. Resting(v) /\ PortKept(x, i, v)
    BY <1>1, <1>7, <2>2 DEF ReadGoesOn
  <2> HIDE DEF u
  <2>5. CASE ~i.req_ready
    BY <1>1, <1>2, <1>4, <1>7, <2>1, <2>2, <2>3, <2>4, <2>5, WBufStep
       DEF SameBut, ReadGoesOn, AfterRead, PortKept, WriteData
  <2>6. CASE i.req_ready
    BY <1>1, <1>2, <1>4, <1>7, <2>1, <2>2, <2>3, <2>4, <2>6, WBufStep
       DEF SameBut, ReadGoesOn, AfterRead, PortKept, WriteData
  <2> QED
    BY <2>5, <2>6
<1>8. CASE x.wstate = "w_wait_reading"
  <2>1. u = AX!WWaitReading(x, i, v)
    BY <1>8 DEF AX!WriteChannel
  <2>2. ~InData(x) /\ ~x.b_valid /\ ~x.w_ready
    BY <1>8 DEF InData, WriteSide
  <2> HIDE DEF u
  <2> QED
    BY <1>1, <1>2, <1>3, <1>4, <1>8, <2>1, <2>2, WWaitReadingStep
       DEF SameBut, ReadGoesOn, AfterRead, WriteData
<1>9. CASE x.wstate = "w_resp"
  <2>1. u = AX!WResp(x, i, v)
    BY <1>9 DEF AX!WriteChannel
  <2>2. ~InData(x) /\ ~x.b_valid /\ ~x.w_ready
    BY <1>9 DEF InData, WriteSide
  <2> HIDE DEF u
  <2> QED
    BY <1>1, <1>2, <1>3, <1>4, <1>9, <2>1, <2>2, WRespStep
       DEF SameBut, ReadGoesOn, AfterRead, WriteData
<1>10. CASE x.wstate = "b"
  <2>1. u = AX!WB(x, i, v)
    BY <1>10 DEF AX!WriteChannel
  <2>2. ~InData(x) /\ x.b_valid /\ ~x.w_ready
    BY <1>10 DEF InData, WriteSide
  <2> HIDE DEF u
  <2> QED
    BY <1>1, <1>2, <1>3, <1>4, <1>10, <2>1, <2>2, WBStep
       DEF SameBut, ReadGoesOn, AfterRead, WriteData
<1> QED
  BY <1>5, <1>6, <1>7, <1>8, <1>9, <1>10 DEF WriteSide, AX!WStates

\* A port at rest takes a write at the address on the bus, or stays at rest; it has taken
\* no request of a write.
LEMMA WriteStart ==
    ASSUME NEW x, NEW i, DOMAIN x = Fields, ReadSide(x), WriteSide(x), Wires(x, i),
           x.wstate = "w_idle", NEW n, NEW L, i.aw_addr \in Int
    PROVE  LET u == AX!Comb(x, i) IN
           /\ ~x.b_valid /\ TakenAfter(x, i, 0) = 0
           /\ u.wstate # "w_idle" <=> x.aw_ready /\ i.aw_valid
           /\ u.wstate # "w_idle" => u.aw_id = i.aw_id /\ WriteData(u, 0, 0, n, i.aw_addr, L)
<1> DEFINE v == AX!ReadChannel(x, i, AX!Handshakes(x, i))
           u == AX!WriteChannel(x, i, v)
<1>1. AX!Comb(x, i) = u /\ u = AX!WIdle(x, i, v)
  BY DEF AX!Comb, AX!WriteChannel
<1>2. ReadGoesOn(x, i, v)
  BY ReadStep
<1> HIDE DEF v
<1>3. DOMAIN v = Fields /\ v.wstate = "w_idle"
  BY <1>2 DEF ReadGoesOn, AfterRead
<1>4. ~x.b_valid /\ TakenAfter(x, i, 0) = 0
  BY WriteTakes DEF WriteSide, InData
<1>5. /\ u.wstate # "w_idle" <=> x.aw_ready /\ i.aw_valid
      /\ u.wstate # "w_idle" => u.aw_id = i.aw_id /\ WriteData(u, 0, 0, n, i.aw_addr, L)
  <2> HIDE DEF u
  <2>1. CASE ~(x.aw_ready /\ i.aw_valid)
    BY <1>1, <1>3, <2>1, WIdleStep DEF SameBut, WriteBurst
  <2>2. CASE x.aw_ready /\ i.aw_valid /\ x.rstate # "r_idle"
    BY <1>1, <1>3, <2>2, WIdleStep DEF SameBut, WriteBurst, WriteData
  <2>3. CASE x.aw_ready /\ i.aw_valid /\ x.rstate = "r_idle"
    BY <1>1, <1>3, <2>3, WIdleStep DEF SameBut, WriteBurst, WriteData
  <2> QED
    BY <2>1, <2>2, <2>3
<1> QED
  BY <1>1, <1>4, <1>5

-----------------------------------------------------------------------------
(* The masters in one cycle.                                               *)

\* The registers of L2Amba and L2SerDes go together: the serialiser is busy in the data
\* phases, and an acknowledgement that is waited for is remembered.
L2Regs(r) ==
    /\ DOMAIN r = {"state", "ser", "req_len", "b_wait", "line", "rmux"}
    /\ DOMAIN r.line = 0 .. LineBeats - 1
    /\ r.state \in {"idle", "reading", "writing", "wack"}
    /\ r.ser \in {"Idle", "Read", "Write"}
    /\ r.ser = "Read" <=> r.state = "reading"
    /\ r.ser = "Write" <=> r.state = "writing"
    /\ r.state = "wack" => r.b_wait

\* What a cycle does to them.
L2GoesOn(r, q, rin, bin, ar, aw, wr, u) ==
    \/ /\ ar /\ u.state = "reading" /\ u.rmux = 0 /\ u.req_len = LM!ReqLen(q)
    \/ /\ ~ar /\ aw /\ u.state = "writing" /\ u.req_len = LM!ReqLen(q)
       /\ u.line = [k \in 0 .. LineBeats - 1 |-> Beat(q.addr + k)]
    \/ /\ ~ar /\ ~aw /\ r.state = "writing"
       /\ \/ wr /\ r.req_len = 0 /\ u.state = "wack"
          \/ /\ wr /\ r.req_len # 0 /\ u.state = "writing"
             /\ u.line = LM!Shifted(r.line) /\ u.req_len = r.req_len - 1
          \/ /\ ~wr /\ u.state = "writing" /\ u.line = r.line /\ u.req_len = r.req_len
    \/ /\ ~ar /\ ~aw /\ r.state = "reading"
       /\ \/ rin.valid /\ r.req_len = 0 /\ u.state = "idle"
          \/ /\ rin.valid /\ r.req_len # 0 /\ u.state = "reading"
             /\ u.line = LM!Filled(r, rin) /\ u.req_len = r.req_len - 1
             /\ u.rmux = IF r.rmux = LineBeats THEN r.rmux ELSE r.rmux + 1
          \/ /\ ~rin.valid /\ u.state = "reading"
             /\ u.line = r.line /\ u.req_len = r.req_len /\ u.rmux = r.rmux
    \/ ~ar /\ ~aw /\ r.state = "wack" /\ bin /\ u.state = "idle"
    \/ ~ar /\ ~aw /\ r.state = "wack" /\ ~bin /\ u.state = "wack"
    \/ ~ar /\ ~aw /\ r.state = "idle" /\ u.state = "idle"

\* The serialiser before it looks at a new request.
LEMMA SerDesStep ==
    ASSUME NEW r, NEW rin, NEW bin, NEW wr, L2Regs(r)
    PROVE  LET a == LM!SerDesBeat(r, rin, bin, wr) IN
           /\ DOMAIN a = DOMAIN r /\ DOMAIN a.line = DOMAIN r.line
           /\ a.state = r.state /\ a.ser = r.ser
           /\ \/ /\ r.ser = "Read" /\ rin.valid /\ a.line = LM!Filled(r, rin)
                 /\ r.req_len # 0 => a.req_len = r.req_len - 1
                 /\ a.rmux = IF r.rmux = LineBeats THEN r.rmux ELSE r.rmux + 1
              \/ /\ r.ser = "Write" /\ wr /\ a.line = LM!Shifted(r.line)
                 /\ r.req_len # 0 => a.req_len = r.req_len - 1
                 /\ r.req_len = 0 => a.b_wait
                 /\ a.rmux = r.rmux
              \/ /\ ~(r.ser = "Read" /\ rin.valid) /\ ~(r.ser = "Write" /\ wr)
                 /\ a.line = r.line /\ a.req_len = r.req_len /\ a.rmux = r.rmux
                 /\ a.b_wait <=> r.b_wait /\ ~bin
<1> DEFINE z == [r EXCEPT !.b_wait = @ /\ ~bin]
<1>1. /\ DOMAIN z = DOMAIN r /\ z.state = r.state /\ z.ser = r.ser /\ z.line = r.line
      /\ z.req_len = r.req_len /\ z.rmux = r.rmux /\ (z.b_wait <=> r.b_wait /\ ~bin)
  BY DEF L2Regs
<1>2. LM!SerDesBeat(r, rin, bin, wr) =
        IF r.ser = "Read" /\ rin.valid
        THEN [z EXCEPT !.line = LM!Filled(r, rin),
                       !.rmux = IF @ = LineBeats THEN @ ELSE @ + 1,
                       !.req_len = IF @ = 0 THEN @ ELSE @ - 1]
        ELSE IF r.ser = "Write" /\ wr
        THEN [z EXCEPT !.line = LM!Shifted(@),
                       !.b_wait = IF r.req_len = 0 THEN TRUE ELSE @,
                       !.req_len = IF @ = 0 THEN @ ELSE @ - 1]
        ELSE z
  BY DEF LM!SerDesBeat
<1>3. DOMAIN LM!Filled(r, rin) = DOMAIN r.line /\ DOMAIN LM!Shifted(r.line) = DOMAIN r.line
  BY DEF LM!Filled, LM!Shifted
<1> DEFINE f == LM!Filled(r, rin)
           g == LM!Shifted(r.line)
<1>4. /\ DOMAIN f = DOMAIN r.line /\ DOMAIN g = DOMAIN r.line
      /\ f = LM!Filled(r, rin) /\ g = LM!Shifted(r.line)
      /\ LM!Shifted(z.line) = g
  BY <1>1, <1>3
<1> HIDE DEF z, f, g
<1>5. CASE r.ser = "Read" /\ rin.valid
  <2>1. LM!SerDesBeat(r, rin, bin, wr) =
          [z EXCEPT !.line = f, !.rmux = IF @ = LineBeats THEN @ ELSE @ + 1,
                    !.req_len = IF @ = 0 THEN @ ELSE @ - 1]
    BY <1>2, <1>4, <1>5
  <2> QED
    BY <1>1, <1>4, <1>5, <2>1 DEF L2Regs
<1>6. CASE r.ser = "Write" /\ wr
  <2>1. LM!SerDesBeat(r, rin, bin, wr) =
          [z EXCEPT !.line = g, !.b_wait = IF r.req_len = 0 THEN TRUE ELSE @,
                    !.req_len = IF @ = 0 THEN @ ELSE @ - 1]
    BY <1>1, <1>2, <1>4, <1>6
  <2>2. CASE r.req_len = 0
    <3>1. LM!SerDesBeat(r, rin, bin, wr) = [z EXCEPT !.line = g, !.b_wait = TRUE, !.req_len = 0]
      BY <1>1, <2>1, <2>2
    <3> QED
      BY <1>1, <1>4, <1>6, <2>2, <3>1, ZenonT(60) DEF L2Regs
  <2>3. CASE r.req_len # 0
    <3>1. LM!SerDesBeat(r, rin, bin, wr) =
            [z EXCEPT !.line = g, !.b_wait = @, !.req_len = r.req_len - 1]
      BY <1>1, <2>1, <2>3
    <3> QED
      BY <1>1, <1>4, <1>6, <2>3, <3>1, ZenonT(60) DEF L2Regs
  <2> QED
    BY <2>2, <2>3
<1>7. CASE ~(r.ser = "Read" /\ rin.valid) /\ ~(r.ser = "Write" /\ wr)
  <2>1. LM!SerDesBeat(r, rin, bin, wr) = z
    BY <1>2, <1>7
  <2> QED
    BY <1>1, <1>7, <2>1
<1> QED
  BY <1>5, <1>6, <1>7

\* A cycle of the master port of the cluster; an address is taken only when it was offered.
LEMMA L2Step ==
    ASSUME NEW r, NEW q, NEW rin, NEW bin, NEW ar, NEW aw, NEW wr, L2Regs(r),
           ar \/ aw => LM!NextReady(r, rin, bin)
    PROVE  LET u == LM!L2Next(r, q, rin, bin, ar, aw, wr) IN
           L2Regs(u) /\ L2GoesOn(r, q, rin, bin, ar, aw, wr, u)
<1> DEFINE a == LM!SerDesBeat(r, rin, bin, wr)
           st == LM!AmbaNext(r, rin, bin, ar, aw, wr)
           v == [a EXCEPT !.state = st]
           free == r.ser = "Idle" \/ LM!LineDone(r, rin) \/ LM!DataDone(r, wr)
           u == LM!L2Next(r, q, rin, bin, ar, aw, wr)
           P(z) == L2Regs(z) /\ L2GoesOn(r, q, rin, bin, ar, aw, wr, z)
<1> SUFFICES P(u)
  OBVIOUS
<1>1. u = IF ~free THEN v
          ELSE IF ar THEN [v EXCEPT !.ser = "Read", !.rmux = 0, !.req_len = LM!ReqLen(q)]
          ELSE IF aw THEN [v EXCEPT !.ser = "Write", !.req_len = LM!ReqLen(q),
                             !.line = [k \in DOMAIN r.line |-> Beat(q.addr + k)]]
          ELSE [v EXCEPT !.ser = "Idle", !.req_len = 0, !.rmux = 0,
                         !.line = LM!L2Reset.line]
  BY DEF LM!L2Next
<1>2. /\ DOMAIN a = DOMAIN r /\ DOMAIN a.line = DOMAIN r.line /\ a.ser = r.ser
      /\ \/ /\ r.ser = "Read" /\ rin.valid /\ a.line = LM!Filled(r, rin)
            /\ r.req_len # 0 => a.req_len = r.req_len - 1
            /\ a.rmux = IF r.rmux = LineBeats THEN r.rmux ELSE r.rmux + 1
         \/ /\ r.ser = "Write" /\ wr /\ a.line = LM!Shifted(r.line)
            /\ r.req_len # 0 => a.req_len = r.req_len - 1
            /\ r.req_len = 0 => a.b_wait
         \/ /\ ~(r.ser = "Read" /\ rin.valid) /\ ~(r.ser = "Write" /\ wr)
            /\ a.line = r.line /\ a.req_len = r.req_len /\ a.rmux = r.rmux
            /\ a.b_wait <=> r.b_wait /\ ~bin
  BY SerDesStep
<1> HIDE DEF a
<1>3. /\ DOMAIN v = DOMAIN r /\ v.state = st /\ v.ser = r.ser /\ v.line = a.line
      /\ v.req_len = a.req_len /\ v.rmux = a.rmux /\ v.b_wait = a.b_wait
  BY <1>2 DEF L2Regs
<1> DEFINE n == LM!ReqLen(q)
           new == [k \in 0 .. LineBeats - 1 |-> Beat(q.addr + k)]
           old == LM!L2Reset.line
<1>4. DOMAIN new = 0 .. LineBeats - 1 /\ DOMAIN old = 0 .. LineBeats - 1
  BY DEF LM!L2Reset
<1>5. u = IF ~free THEN v
          ELSE IF ar THEN [v EXCEPT !.ser = "Read", !.rmux = 0, !.req_len = n]
          ELSE IF aw THEN [v EXCEPT !.ser = "Write", !.req_len = n, !.line = new]
          ELSE [v EXCEPT !.ser = "Idle", !.req_len = 0, !.rmux = 0, !.line = old]
  BY <1>1 DEF L2Regs
<1>6. /\ ar \/ aw => free
      /\ ar => st = "reading"
      /\ ~ar /\ aw => st = "writing"
      /\ ~ar /\ ~aw /\ r.state = "idle" => free /\ st = "idle"
      /\ ~ar /\ ~aw /\ r.state = "wack" => free /\ st = IF bin THEN "idle" ELSE "wack"
      /\ ~ar /\ ~aw /\ r.state = "reading" =>
           /\ free <=> rin.valid /\ r.req_len = 0
           /\ st = IF rin.valid /\ r.req_len = 0 THEN "idle" ELSE "reading"
      /\ ~ar /\ ~aw /\ r.state = "writing" =>
           /\ free <=> wr /\ r.req_len = 0
           /\ st = IF wr /\ r.req_len = 0 THEN "wack" ELSE "writing"
  BY DEF L2Regs, LM!AmbaNext, LM!NextReady, LM!LineDone, LM!AckDone, LM!DataDone
<1> HIDE DEF st, free, new, old, u, v
<1>7. CASE ar
  <2>1. u = [v EXCEPT !.ser = "Read", !.rmux = 0, !.req_len = n]
    BY <1>5, <1>6, <1>7
  <2> HIDE DEF n
  <2>2. /\ DOMAIN u = DOMAIN v /\ u.ser = "Read" /\ u.rmux = 0 /\ u.req_len = n
        /\ u.state = v.state /\ u.line = v.line
    BY <1>3, <2>1 DEF L2Regs
  <2> QED
    BY <1>2, <1>3, <1>6, <1>7, <2>2 DEF L2Regs, L2GoesOn, n
<1>8. CASE ~ar /\ aw
  <2>1. u = [v EXCEPT !.ser = "Write", !.req_len = n, !.line = new]
    BY <1>5, <1>6, <1>8
  <2> HIDE DEF n
  <2>2. /\ DOMAIN u = DOMAIN v /\ u.ser = "Write" /\ u.req_len = n
        /\ u.state = v.state /\ u.line = new
    BY <1>3, <2>1 DEF L2Regs
  <2> QED
    BY <1>3, <1>4, <1>6, <1>8, <2>2 DEF L2Regs, L2GoesOn, n, new
<1>9. CASE ~ar /\ ~aw /\ free
  <2>1. u = [v EXCEPT !.ser = "Idle", !.req_len = 0, !.rmux = 0, !.line = old]
    BY <1>5, <1>9
  <2>2. /\ DOMAIN u = DOMAIN v /\ u.ser = "Idle" /\ u.line = old
        /\ u.state = v.state /\ u.b_wait = v.b_wait
    BY <1>3, <2>1 DEF L2Regs
  <2> QED
    BY <1>2, <1>3, <1>4, <1>6, <1>9, <2>2 DEF L2Regs, L2GoesOn
<1>10. CASE ~ar /\ ~aw /\ ~free
  <2>1. u = v
    BY <1>5, <1>10
  <2> QED
    BY <1>2, <1>3, <1>6, <1>10, <2>1 DEF L2Regs, L2GoesOn
<1> QED
  BY <1>7, <1>8, <1>9, <1>10

\* the second master: one burst, of which cnt beats have been handled
DmaRegs(d) ==
    /\ DOMAIN d = {"st", "dst", "len", "lanes", "cnt"}
    /\ d.st \in {"idle", "ar", "r", "aw", "pause", "w", "b"}
    /\ d.dst \in Slaves /\ d.len \in 0 .. 255 /\ d.cnt \in Nat /\ d.lanes \in SUBSET Lanes
    /\ d.st # "r" => d.cnt <= d.len
    /\ d.st \in {"idle", "ar", "aw"} => d.cnt = 0

\* What a cycle does to it.
DmaGoesOn(d, c, rin, bin, ar, aw, wr, u) ==
    \/ d.st = "idle" /\ u.st \in {"idle", "ar", "aw"}
    \/ d.st = "ar" /\ ~ar /\ u = d
    \/ /\ d.st = "ar" /\ ar /\ u.st = "r"
       /\ u.dst = d.dst /\ u.len = d.len /\ u.lanes = d.lanes /\ u.cnt = d.cnt
    \/ d.st = "r" /\ ~(rin.valid /\ c.r_ready) /\ u = d
    \/ d.st = "r" /\ rin.valid /\ c.r_ready /\ rin.last /\ u.st = "idle"
    \/ /\ d.st = "r" /\ rin.valid /\ c.r_ready /\ ~rin.last
       /\ u.st = "r" /\ u.dst = d.dst /\ u.len = d.len /\ u.lanes = d.lanes /\ u.cnt = d.cnt + 1
    \/ d.st = "aw" /\ ~aw /\ u = d
    \/ /\ d.st = "aw" /\ aw /\ u.st \in {"w", "pause"}
       /\ u.dst = d.dst /\ u.len = d.len /\ u.lanes = d.lanes /\ u.cnt = d.cnt
    \/ /\ d.st = "pause" /\ u.st \in {"w", "pause"}
       /\ u.dst = d.dst /\ u.len = d.len /\ u.lanes = d.lanes /\ u.cnt = d.cnt
    \/ d.st = "w" /\ ~wr /\ u = d
    \/ /\ d.st = "w" /\ wr /\ d.cnt = d.len
       /\ u.st = "b" /\ u.dst = d.dst /\ u.len = d.len /\ u.lanes = d.lanes /\ u.cnt = d.cnt
    \/ /\ d.st = "w" /\ wr /\ d.cnt # d.len /\ u.st \in {"w", "pause"}
       /\ u.dst = d.dst /\ u.len = d.len /\ u.lanes = d.lanes /\ u.cnt = d.cnt + 1
    \/ d.st = "b" /\ bin /\ c.b_ready /\ u.st = "idle"
    \/ d.st = "b" /\ ~(bin /\ c.b_ready) /\ u = d

\* The registers at rest.
LEMMA DmaIdleIs == DmaRegs(DmaIdle) /\ DmaIdle.st = "idle"
<1>1. (CHOOSE s \in Slaves : TRUE) \in Slaves
  BY SlavesAssumption
<1> DEFINE z == CHOOSE s \in Slaves : TRUE
<1> HIDE DEF z
<1>2. DmaIdle = [st |-> "idle", dst |-> z, len |-> 0, lanes |-> Lanes, cnt |-> 0] /\ z \in Slaves
  BY <1>1 DEF DmaIdle, z
<1> QED
  BY <1>2 DEF DmaRegs

\* A cycle of the second master.
LEMMA DmaStep ==
    ASSUME NEW d, NEW c, NEW rin, NEW bin, NEW ar, NEW aw, NEW wr, DmaRegs(d),
           d.st = "idle" => c.start \in DmaBursts \cup {DmaIdle}
    PROVE  LET u == DmaNext(d, c, rin, bin, ar, aw, wr) IN
           DmaRegs(u) /\ DmaGoesOn(d, c, rin, bin, ar, aw, wr, u)
<1> DEFINE u == DmaNext(d, c, rin, bin, ar, aw, wr)
           offer == IF c.offer THEN "w" ELSE "pause"
           P(z) == DmaRegs(z) /\ DmaGoesOn(d, c, rin, bin, ar, aw, wr, z)
<1> SUFFICES P(u)
  OBVIOUS
<1>1. DmaRegs(DmaIdle) /\ DmaIdle.st = "idle"
  BY DmaIdleIs
<1>2. offer \in {"w", "pause"}
  OBVIOUS
<1>3. CASE d.st = "idle"
  <2>1. u = c.start
    BY <1>3 DEF DmaNext
  <2> HIDE DEF u
  <2>2. CASE u = DmaIdle
    BY <1>1, <1>3, <2>2 DEF DmaGoesOn
  <2>3. CASE u \in DmaBursts
    BY <1>3, <2>3, DmaAssumption DEF DmaGoesOn, DmaRegs
  <2> QED
    BY <1>3, <2>1, <2>2, <2>3
<1>4. CASE d.st = "ar"
  <2>1. u = IF ar THEN [d EXCEPT !.st = "r"] ELSE d
    BY <1>4 DEF DmaNext
  <2> HIDE DEF u
  <2> QED
    BY <1>4, <2>1 DEF DmaGoesOn, DmaRegs
<1>5. CASE d.st = "r"
  <2>1. u = IF ~(rin.valid /\ c.r_ready) THEN d
            ELSE IF rin.last THEN DmaIdle ELSE [d EXCEPT !.cnt = @ + 1]
    BY <1>5 DEF DmaNext
  <2> HIDE DEF u
  <2>2. CASE ~(rin.valid /\ c.r_ready)
    BY <1>5, <2>1, <2>2 DEF DmaGoesOn
  <2>3. CASE rin.valid /\ c.r_ready /\ rin.last
    BY <1>1, <1>5, <2>1, <2>3 DEF DmaGoesOn
  <2>4. CASE rin.valid /\ c.r_ready /\ ~rin.last
    BY <1>5, <2>1, <2>4 DEF DmaGoesOn, DmaRegs
  <2> QED
    BY <2>2, <2>3, <2>4
<1>6. CASE d.st = "aw"
  <2>1. u = IF aw THEN [d EXCEPT !.st = offer] ELSE d
    BY <1>6 DEF DmaNext
  <2> HIDE DEF u, offer
  <2> QED
    BY <1>2, <1>6, <2>1 DEF DmaGoesOn, DmaRegs
<1>7. CASE d.st = "pause"
  <2>1. u = [d EXCEPT !.st = offer]
    BY <1>7 DEF DmaNext
  <2> HIDE DEF u, offer
  <2> QED
    BY <1>2, <1>7, <2>1 DEF DmaGoesOn, DmaRegs
<1>8. CASE d.st = "w"
  <2>1. u = IF ~wr THEN d ELSE IF d.cnt = d.len THEN [d EXCEPT !.st = "b"]
            ELSE [d EXCEPT !.cnt = @ + 1, !.st = offer]
    BY <1>8 DEF DmaNext
  <2> HIDE DEF u, offer
  <2>2. CASE ~wr
    BY <1>8, <2>1, <2>2 DEF DmaGoesOn
  <2>3. CASE wr /\ d.cnt = d.len
    BY <1>8, <2>1, <2>3 DEF DmaGoesOn, DmaRegs
  <2>4. CASE wr /\ d.cnt # d.len
    BY <1>2, <1>8, <2>1, <2>4 DEF DmaGoesOn, DmaRegs
  <2> QED
    BY <2>2, <2>3, <2>4
<1>9. CASE d.st = "b"
  <2>1. u = IF bin /\ c.b_ready THEN DmaIdle ELSE d
    BY <1>9 DEF DmaNext
  <2> HIDE DEF u
  <2> QED
    BY <1>1, <1>9, <2>1 DEF DmaGoesOn
<1> QED
  BY <1>3, <1>4, <1>5, <1>6, <1>7, <1>8, <1>9 DEF DmaRegs

\* The wires the masters drive.
LEMMA DrivenIs ==
    /\ L2M \in Masters /\ DMAM \in Masters /\ L2M # DMAM
    /\ \A m \in Masters : m = L2M \/ m = DMAM
    /\ Driven[L2M] = LM!L2Out(l2, lreq, XB!RIn(slv, L2M), XB!BIn(slv, L2M))
    /\ Driven[DMAM] = DmaOut(dma, in.dma)
BY DEF Driven, Masters, L2M, DMAM

\* The wires of the L2 cache: an address only when it is ready for the next request.
LEMMA L2Wires ==
    LET go == LM!NextReady(l2, XB!RIn(slv, L2M), XB!BIn(slv, L2M)) /\ lreq # NoReq IN
    /\ Driven[L2M].ar_valid <=> go /\ ~lreq.write
    /\ Driven[L2M].aw_valid <=> go /\ lreq.write
    /\ go => /\ Driven[L2M].ar_dst = lreq.dst /\ Driven[L2M].aw_dst = lreq.dst
             /\ Driven[L2M].ar_addr = lreq.addr /\ Driven[L2M].aw_addr = lreq.addr
             /\ Driven[L2M].ar_len = LM!ReqLen(lreq) /\ Driven[L2M].ar_bytes = lreq.bytes
    /\ Driven[L2M].w_valid <=> l2.ser = "Write"
    /\ Driven[L2M].w_last <=> l2.ser = "Write" /\ l2.req_len = 0
    /\ Driven[L2M].w_data = l2.line[0]
    /\ Driven[L2M].r_ready /\ Driven[L2M].b_ready
<1> DEFINE go == LM!NextReady(l2, XB!RIn(slv, L2M), XB!BIn(slv, L2M)) /\ lreq # NoReq
           o == Driven[L2M]
<1>1. o = [ar_valid |-> go /\ ~lreq.write,
           ar_dst   |-> IF go THEN lreq.dst ELSE NoReq,
           ar_addr  |-> IF go THEN lreq.addr ELSE 0,
           ar_len   |-> IF go THEN LM!ReqLen(lreq) ELSE 0,
           ar_bytes |-> IF go THEN lreq.bytes ELSE 0,
           aw_valid |-> go /\ lreq.write,
           aw_dst   |-> IF go THEN lreq.dst ELSE NoReq,
           aw_addr  |-> IF go THEN lreq.addr ELSE 0,
           aw_bytes |-> IF go THEN lreq.bytes ELSE 0,
           w_valid  |-> l2.ser = "Write",
           w_last   |-> l2.ser = "Write" /\ l2.req_len = 0,
           w_data   |-> l2.line[0],
           r_ready  |-> TRUE,
           b_ready  |-> TRUE]
  BY DrivenIs DEF LM!L2Out
<1> HIDE DEF go, o
<1>2. /\ o.ar_valid <=> go /\ ~lreq.write
      /\ o.aw_valid <=> go /\ lreq.write
      /\ go => /\ o.ar_dst = lreq.dst /\ o.aw_dst = lreq.dst
               /\ o.ar_addr = lreq.addr /\ o.aw_addr = lreq.addr
               /\ o.ar_len = LM!ReqLen(lreq) /\ o.ar_bytes = lreq.bytes
      /\ o.w_valid <=> l2.ser = "Write"
      /\ o.w_last <=> l2.ser = "Write" /\ l2.req_len = 0
      /\ o.w_data = l2.line[0] /\ o.r_ready /\ o.b_ready
  BY <1>1
<1> QED
  BY <1>2 DEF go, o

\* The wires of the second master.
LEMMA DmaWires ==
    /\ Driven[DMAM].ar_valid <=> dma.st = "ar"
    /\ Driven[DMAM].aw_valid <=> dma.st = "aw"
    /\ Driven[DMAM].ar_dst = dma.dst /\ Driven[DMAM].aw_dst = dma.dst
    /\ Driven[DMAM].ar_addr = Base(DMAM) /\ Driven[DMAM].aw_addr = Base(DMAM)
    /\ Driven[DMAM].ar_len = dma.len /\ Driven[DMAM].ar_bytes = 8
    /\ Driven[DMAM].w_valid <=> dma.st = "w"
    /\ Driven[DMAM].w_last <=> dma.cnt = dma.len
    /\ Driven[DMAM].w_data = Strobed(Beat(Base(DMAM) + dma.cnt), dma.lanes)
    /\ Driven[DMAM].r_ready <=> in.dma.r_ready
    /\ Driven[DMAM].b_ready <=> in.dma.b_ready
<1> DEFINE o == Driven[DMAM]
           a == Base(DMAM)
           t == Strobed(Beat(Base(DMAM) + dma.cnt), dma.lanes)
<1>1. o = [ar_valid |-> dma.st = "ar", ar_dst |-> dma.dst,
           ar_addr |-> a, ar_len |-> dma.len, ar_bytes |-> 8,
           aw_valid |-> dma.st = "aw", aw_dst |-> dma.dst,
           aw_addr |-> a, aw_bytes |-> 8,
           w_valid |-> dma.st = "w", w_last |-> dma.cnt = dma.len, w_data |-> t,
           r_ready |-> in.dma.r_ready, b_ready |-> in.dma.b_ready]
  BY DrivenIs DEF DmaOut
<1> HIDE DEF o, a, t
<1>2. /\ o.ar_valid <=> dma.st = "ar"
      /\ o.aw_valid <=> dma.st = "aw"
      /\ o.ar_dst = dma.dst /\ o.aw_dst = dma.dst /\ o.ar_addr = a /\ o.aw_addr = a
      /\ o.ar_len = dma.len /\ o.ar_bytes = 8
      /\ o.w_valid <=> dma.st = "w"
      /\ o.w_last <=> dma.cnt = dma.len
      /\ o.w_data = t /\ o.r_ready = in.dma.r_ready /\ o.b_ready = in.dma.b_ready
  BY <1>1
<1> QED
  BY <1>2 DEF o, a, t

\* An address is taken only from a master that offers it, at the slave it names.
LEMMA TakenOffered ==
    ASSUME NEW m \in Masters
    PROVE  /\ ArTaken(m) => Driven[m].ar_valid
           /\ AwTaken(m) => Driven[m].aw_valid
BY DEF ArTaken, AwTaken, XB!ArReady, XB!AwReady, XB!ArSelect, XB!AwSelect

-----------------------------------------------------------------------------
(* The beats of a write between the master and the device.                 *)

\* beats of its write to s that master m has sent
Sent(m, s) == IF ~w.active[m] THEN WriteBeats(m, s)
              ELSE IF m = L2M THEN WriteBeats(m, s) - 1 - l2.req_len ELSE dma.cnt

\* A write in the port of s belongs to a master that is writing to s, and the beats the device
\* has not taken of those the master has sent are in the port.
OwnedWrite(s) ==
    IF slv[s].wstate = "w_idle" THEN taken[s] = 0
    ELSE LET m == slv[s].aw_id
         IN  /\ m \in Masters /\ w.select[m] = s /\ Writing(m, s)
             /\ WriteData(slv[s], taken[s], Sent(m, s), WriteBeats(m, s), Base(m), LanesOf(m))

\* the serialiser still holds the beats of the line it has not sent
LineLen(s) == IF s = "sram" THEN LineBeats ELSE 1
LineToSend ==
    l2.state = "writing" =>
      LET n == LineLen(w.select[L2M])
      IN  /\ l2.req_len \in 0 .. n - 1
          /\ \A k \in 0 .. l2.req_len : l2.line[k] = Beat((n - 1 - l2.req_len) + k)

WritesInv ==
    /\ WordsInv
    /\ \A s \in Slaves : taken[s] \in Nat /\ OwnedWrite(s)
    /\ L2Regs(l2) /\ LineToSend
    /\ DmaRegs(dma)
    /\ w.active[L2M] <=> l2.state = "writing"
    /\ w.active[DMAM] <=> dma.st \in {"w", "pause"}
    /\ in # NoInput /\ dma.st = "idle" => in.dma.start \in DmaBursts \cup {DmaIdle}

\* The reset state satisfies the invariant of the writes.
LEMMA WritesInit == Init => WritesInv
<1> SUFFICES ASSUME Init PROVE WritesInv
  OBVIOUS
<1>1. \A s \in Slaves : taken[s] \in Nat /\ OwnedWrite(s)
  <2>1. \A s \in Slaves : slv[s].wstate = "w_idle" /\ taken[s] = 0
    BY DEF Init, AX!SlvReset
  <2>2. ASSUME NEW s \in Slaves PROVE OwnedWrite(s)
    BY <2>1 DEF OwnedWrite
  <2>3. ASSUME NEW s \in Slaves PROVE taken[s] \in Nat
    <3>1. taken[s] = 0
      BY <2>1
    <3> QED
      BY <3>1
  <2> QED
    BY <2>2, <2>3
<1>2. L2Regs(l2) /\ l2.state = "idle"
  BY DEF Init, LM!L2Reset, L2Regs
<1>3. DmaRegs(dma) /\ dma.st = "idle" /\ in = NoInput
  BY DmaIdleIs DEF Init
<1>4. \A m \in Masters : ~w.active[m]
  BY DEF Init, XB!WReset
<1> QED
  BY <1>1, <1>2, <1>3, <1>4, DrivenIs, WordsInit DEF WritesInv, LineToSend

\* What the masters have in their registers after an edge.
LEMMA MastersGoOn ==
    ASSUME WritesInv, Edge
    PROVE  /\ L2Regs(l2')
           /\ L2GoesOn(l2, lreq, XB!RIn(slv, L2M), XB!BIn(slv, L2M), ArTaken(L2M),
                       AwTaken(L2M), WTaken(L2M), l2')
           /\ DmaRegs(dma')
           /\ DmaGoesOn(dma, in.dma, XB!RIn(slv, DMAM), XB!BIn(slv, DMAM), ArTaken(DMAM),
                        AwTaken(DMAM), WTaken(DMAM), dma')
<1>1. ArTaken(L2M) \/ AwTaken(L2M) => LM!NextReady(l2, XB!RIn(slv, L2M), XB!BIn(slv, L2M))
  BY TakenOffered, L2Wires, DrivenIs
<1>2. l2' = LM!L2Next(l2, lreq, XB!RIn(slv, L2M), XB!BIn(slv, L2M),
                      ArTaken(L2M), AwTaken(L2M), WTaken(L2M))
  BY EdgeIs
<1>3. dma' = DmaNext(dma, in.dma, XB!RIn(slv, DMAM), XB!BIn(slv, DMAM),
                     ArTaken(DMAM), AwTaken(DMAM), WTaken(DMAM))
  BY EdgeIs
<1>4. dma.st = "idle" => in.dma.start \in DmaBursts \cup {DmaIdle}
  BY EdgeIs DEF WritesInv
<1>5. L2Regs(l2) /\ DmaRegs(dma)
  BY DEF WritesInv
<1>6. /\ L2Regs(l2')
      /\ L2GoesOn(l2, lreq, XB!RIn(slv, L2M), XB!BIn(slv, L2M), ArTaken(L2M),
                  AwTaken(L2M), WTaken(L2M), l2')
  BY <1>1, <1>2, <1>5, L2Step
<1>7. /\ DmaRegs(dma')
      /\ DmaGoesOn(dma, in.dma, XB!RIn(slv, DMAM), XB!BIn(slv, DMAM), ArTaken(DMAM),
                   AwTaken(DMAM), WTaken(DMAM), dma')
  BY <1>3, <1>4, <1>5, DmaStep
<1> QED
  BY <1>6, <1>7

\* An address of a write that is taken goes to the slave the L2 cache names.
LEMMA L2Address ==
    ASSUME WritesInv, Edge, AwTaken(L2M)
    PROVE  /\ lreq \in L2Requests /\ lreq.write /\ lreq.addr = 0
           /\ w'.select[L2M] = lreq.dst /\ lreq.dst \in Slaves
           /\ ~ArTaken(L2M) /\ ~WTaken(L2M) /\ ~w.active[L2M]
           /\ LM!ReqLen(lreq) = WriteBeats(L2M, lreq.dst) - 1
           /\ LM!NextReady(l2, XB!RIn(slv, L2M), XB!BIn(slv, L2M))
           /\ Driven[L2M].aw_addr = 0
<1>1. LM!NextReady(l2, XB!RIn(slv, L2M), XB!BIn(slv, L2M)) /\ lreq # NoReq /\ lreq.write
  BY TakenOffered, L2Wires, DrivenIs
<1>2. lreq \in L2Requests
  BY <1>1 DEF WritesInv, WordsInv, Asked
<1>3. lreq.addr = 0 /\ lreq.dst \in Slaves /\ (lreq.line <=> lreq.dst = "sram")
  BY <1>2, L2Assumption, LinesAssumption
<1>4. w'.select[L2M] = lreq.dst
  BY <1>1, WAfter, L2Wires, DrivenIs DEF XB!AwSelect
<1>5. ~ArTaken(L2M)
  BY <1>1, TakenOffered, L2Wires, DrivenIs
<1>6. ~w.active[L2M]
  BY <1>1 DEF LM!NextReady, WritesInv
<1>7. ~WTaken(L2M)
  BY <1>6 DEF WTaken, XB!WReady, XB!OnW
<1>8. LM!ReqLen(lreq) = WriteBeats(L2M, lreq.dst) - 1
  BY <1>3, LineAssumption DEF LM!ReqLen, WriteBeats, L2M, DMAM
<1> QED
  BY <1>1, <1>2, <1>3, <1>4, <1>5, <1>6, <1>7, <1>8, L2Wires

\* The data phases of the masters and of the crossbar begin and end together.
LEMMA ActiveEdge ==
    ASSUME WritesInv, Edge
    PROVE  /\ w'.active[L2M] <=> l2'.state = "writing"
           /\ w'.active[DMAM] <=> dma'.st \in {"w", "pause"}
<1>1. w'.active[L2M] <=> l2'.state = "writing"
  <2>1. L2GoesOn(l2, lreq, XB!RIn(slv, L2M), XB!BIn(slv, L2M), ArTaken(L2M),
                 AwTaken(L2M), WTaken(L2M), l2')
    BY MastersGoOn
  <2>2. w'.active[L2M] <=> /\ w.active[L2M] \/ AwTaken(L2M)
                           /\ ~(Driven[L2M].w_last /\ WTaken(L2M))
    BY WAfter, DrivenIs
  <2>3. CASE AwTaken(L2M)
    BY <2>1, <2>2, <2>3, L2Address DEF L2GoesOn
  <2>4. CASE ~AwTaken(L2M)
    <3>1. w.active[L2M] <=> l2.state = "writing"
      BY DEF WritesInv
    <3>2. l2.state = "writing" => l2.ser = "Write" /\ ~ArTaken(L2M)
      BY TakenOffered, L2Wires, DrivenIs DEF WritesInv, L2Regs, LM!NextReady
    <3>3. Driven[L2M].w_last <=> l2.ser = "Write" /\ l2.req_len = 0
      BY L2Wires
    <3>4. CASE l2.state = "writing"
      BY <2>1, <2>2, <2>4, <3>1, <3>2, <3>3, <3>4 DEF L2GoesOn
    <3>5. CASE l2.state # "writing"
      BY <2>1, <2>2, <2>4, <3>1, <3>5 DEF L2GoesOn
    <3> QED
      BY <3>4, <3>5
  <2> QED
    BY <2>3, <2>4
<1>2. w'.active[DMAM] <=> dma'.st \in {"w", "pause"}
  <2>1. DmaGoesOn(dma, in.dma, XB!RIn(slv, DMAM), XB!BIn(slv, DMAM), ArTaken(DMAM),
                  AwTaken(DMAM), WTaken(DMAM), dma')
    BY MastersGoOn
  <2>2. w'.active[DMAM] <=> /\ w.active[DMAM] \/ AwTaken(DMAM)
                            /\ ~(Driven[DMAM].w_last /\ WTaken(DMAM))
    BY WAfter, DrivenIs
  <2>3. w.active[DMAM] <=> dma.st \in {"w", "pause"}
    BY DEF WritesInv
  <2>4. AwTaken(DMAM) => dma.st = "aw"
    BY TakenOffered, DmaWires, DrivenIs
  <2>5. WTaken(DMAM) => dma.st = "w"
    BY DmaWires DEF WTaken, XB!WReady, XB!OnW
  <2>6. Driven[DMAM].w_last <=> dma.cnt = dma.len
    BY DmaWires
  <2> QED
    BY <2>1, <2>2, <2>3, <2>4, <2>5, <2>6 DEF DmaGoesOn
<1> QED
  BY <1>1, <1>2

\* The beat a port takes is the next one of the master that owns the write, with its data, and
\* the last flag comes with the last beat.
LEMMA BeatOfOwner ==
    ASSUME WritesInv, NEW s \in Slaves, NEW m \in Masters,
           slv[s].wstate # "w_idle", m = slv[s].aw_id
    PROVE  /\ PortIn(s).w_valid /\ slv[s].w_ready <=> WTaken(m)
           /\ PortIn(s).w_valid => /\ PortIn(s).w_data = OwnData(m, Base(m) + Sent(m, s))
                                   /\ PortIn(s).w_last <=> Sent(m, s) + 1 = WriteBeats(m, s)
<1>1. \A k \in Masters : w.active[k] /\ w.select[k] = s => k = m
  BY DEF WritesInv, WordsInv, PortInv, OneWriter
<1>2. w.select[m] = s
  BY DEF WritesInv, OwnedWrite
<1>3. XB!SlaveIn(Driven, slv, w, s).w_valid <=> \E k \in Masters : XB!OnW(Driven, w, k, s)
  BY DEF XB!SlaveIn
<1>4. PortIn(s).w_valid <=> XB!OnW(Driven, w, m, s)
  BY <1>1, <1>3, PortWires DEF XB!OnW
<1>5. WTaken(m) <=> XB!OnW(Driven, w, m, s) /\ slv[s].w_ready
  BY <1>2 DEF WTaken, XB!WReady, XB!OnW
<1>6. ASSUME PortIn(s).w_valid
      PROVE  /\ PortIn(s).w_data = OwnData(m, Base(m) + Sent(m, s))
             /\ PortIn(s).w_last <=> Sent(m, s) + 1 = WriteBeats(m, s)
  <2>1. XB!SlaveIn(Driven, slv, w, s).w_valid
    BY <1>6, PortWires
  <2>2. /\ PortIn(s).w_data = Driven[m].w_data
        /\ PortIn(s).w_last <=> Driven[m].w_last
    <3>1. /\ XB!SlaveIn(Driven, slv, w, s).w_last <=> Driven[m].w_last
          /\ XB!SlaveIn(Driven, slv, w, s).w_data = Driven[m].w_data
      BY <1>1, <2>1, BeatRouted
    <3> QED
      BY <3>1, PortWires
  <2>3. Driven[m].w_valid /\ w.active[m]
    BY <1>4, <1>6 DEF XB!OnW
  <2>4. CASE m = L2M
    <3>1. l2.ser = "Write" /\ l2.state = "writing"
      BY <2>3, <2>4, L2Wires DEF WritesInv, L2Regs
    <3>2. LineLen(s) \in Int /\ WriteBeats(m, s) = LineLen(s) /\ Base(m) = 0
      BY <2>4, LineAssumption DEF WriteBeats, LineLen, Base, L2M, DMAM
    <3>3. Sent(m, s) = LineLen(s) - 1 - l2.req_len
      BY <2>3, <2>4, <3>2 DEF Sent
    <3>4. l2.req_len \in Nat /\ l2.line[0] = Beat((LineLen(s) - 1 - l2.req_len) + 0)
      BY <1>2, <2>4, <3>1, <3>2 DEF WritesInv, LineToSend
    <3>5. Base(m) + Sent(m, s) = (LineLen(s) - 1 - l2.req_len) + 0
      BY <3>2, <3>3, <3>4
    <3>6. PortIn(s).w_data = Beat(Base(m) + Sent(m, s))
      BY <2>2, <2>4, <3>4, <3>5, L2Wires
    <3>8. OwnData(m, Base(m) + Sent(m, s)) = Beat(Base(m) + Sent(m, s))
      BY <2>4, DrivenIs DEF OwnData, LanesOf, Lanes, Strobed, Beat
    <3>7. PortIn(s).w_last <=> l2.req_len = 0
      BY <2>2, <2>4, <3>1, L2Wires
    <3> QED
      BY <3>2, <3>3, <3>4, <3>6, <3>7, <3>8
  <2>5. CASE m = DMAM
    <3>1. Sent(m, s) = dma.cnt /\ WriteBeats(m, s) = dma.len + 1
      BY <2>3, <2>5, DrivenIs DEF Sent, WriteBeats
    <3>2. dma.cnt \in Int /\ dma.len \in Int
      BY DEF WritesInv, DmaRegs
    <3>3. OwnData(m, Base(m) + Sent(m, s)) = Strobed(Beat(Base(m) + Sent(m, s)), dma.lanes)
      BY <2>5 DEF OwnData, LanesOf
    <3> QED
      BY <2>2, <2>5, <3>1, <3>2, <3>3, DmaWires
  <2> QED
    BY <2>4, <2>5, DrivenIs
<1> QED
  BY <1>4, <1>5, <1>6

\* While its write is not answered, a master does not start another, and counts its beats.
LEMMA SentEdge ==
    ASSUME WritesInv, Edge, NEW s \in Slaves, NEW m \in Masters,
           slv[s].wstate # "w_idle", m = slv[s].aw_id,
           ~(slv[s].b_valid /\ PortIn(s).b_ready)
    PROVE  /\ ~AwTaken(m)
           /\ w'.select[m] = s
           /\ Writing(m, s)'
           /\ WriteBeats(m, s)' = WriteBeats(m, s) /\ LanesOf(m)' = LanesOf(m)
           /\ Sent(m, s)' = IF WTaken(m) THEN Sent(m, s) + 1 ELSE Sent(m, s)
<1>1. w.select[m] = s /\ Writing(m, s)
  BY DEF WritesInv, OwnedWrite
<1>2. ~(XB!BIn(slv, m) /\ Driven[m].b_ready)
  <2> SUFFICES ASSUME NEW x \in Slaves, slv[x].b_valid, slv[x].aw_id = m, Driven[m].b_ready
               PROVE  FALSE
    BY DEF XB!BIn
  <2>1. slv[x].wstate # "w_idle"
    BY DEF WritesInv, WordsInv, PortInv, WriteSide
  <2>2. x = s
    BY <1>1, <2>1 DEF WritesInv, OwnedWrite
  <2> QED
    BY <2>2, PortWires
<1>3. ~w.active[m] => ~WTaken(m)
  BY DEF WTaken, XB!WReady, XB!OnW
<1>4. ~AwTaken(m) => w'.select[m] = s
  BY <1>1, WAfter
<1>5. CASE m = L2M
  <2>1. l2.state \in {"writing", "wack"} /\ (w.active[m] <=> l2.state = "writing")
    BY <1>1, <1>5 DEF Writing, WritesInv
  <2>2. ~XB!BIn(slv, L2M)
    BY <1>2, <1>5, L2Wires
  <2>3. ~LM!NextReady(l2, XB!RIn(slv, L2M), XB!BIn(slv, L2M))
    BY <2>1, <2>2 DEF LM!NextReady, LM!AckDone
  <2>4. ~ArTaken(L2M) /\ ~AwTaken(L2M)
    BY <2>3, TakenOffered, L2Wires, DrivenIs
  <2>5. L2GoesOn(l2, lreq, XB!RIn(slv, L2M), XB!BIn(slv, L2M), ArTaken(L2M),
                 AwTaken(L2M), WTaken(L2M), l2')
    BY MastersGoOn
  <2>6. /\ WriteBeats(m, s) \in Int /\ WriteBeats(m, s)' = WriteBeats(m, s)
        /\ LanesOf(m)' = LanesOf(m)
    BY <1>5, LineAssumption DEF WriteBeats, LanesOf, L2M, DMAM
  <2>7. w'.active[m] <=> l2'.state = "writing"
    BY <1>5, ActiveEdge
  <2>8. l2.state = "writing" => l2.req_len \in Int
    BY LineAssumption DEF WritesInv, LineToSend, LineLen
  <2>9. Sent(m, s) = IF ~w.active[m] THEN WriteBeats(m, s) ELSE WriteBeats(m, s) - 1 - l2.req_len
    BY <1>5 DEF Sent
  <2>10. Sent(m, s)' = IF ~w'.active[m] THEN WriteBeats(m, s)
                       ELSE WriteBeats(m, s) - 1 - l2'.req_len
    BY <1>5, <2>6 DEF Sent
  <2>11. Writing(m, s)' <=> l2'.state \in {"writing", "wack"}
    BY <1>5 DEF Writing
  <2>12. CASE l2.state = "writing"
    BY <1>4, <1>5, <2>1, <2>4, <2>5, <2>6, <2>7, <2>8, <2>9, <2>10, <2>11, <2>12 DEF L2GoesOn
  <2>13. CASE l2.state = "wack"
    BY <1>3, <1>4, <1>5, <2>1, <2>2, <2>4, <2>5, <2>6, <2>7, <2>9, <2>10, <2>11, <2>13 DEF L2GoesOn
  <2> QED
    BY <2>1, <2>12, <2>13
<1>6. CASE m = DMAM
  <2>1. /\ dma.st \in {"w", "pause", "b"} /\ dma.dst = s
        /\ w.active[m] <=> dma.st \in {"w", "pause"}
    BY <1>1, <1>6, DrivenIs DEF Writing, WritesInv
  <2>2. ~(XB!BIn(slv, DMAM) /\ in.dma.b_ready)
    BY <1>2, <1>6, DmaWires
  <2>3. ~AwTaken(m)
    BY <1>6, <2>1, TakenOffered, DmaWires
  <2>4. DmaGoesOn(dma, in.dma, XB!RIn(slv, DMAM), XB!BIn(slv, DMAM), ArTaken(DMAM),
                  AwTaken(DMAM), WTaken(DMAM), dma')
    BY MastersGoOn
  <2>5. w'.active[m] <=> dma'.st \in {"w", "pause"}
    BY <1>6, ActiveEdge
  <2>6. dma.cnt \in Int /\ dma.len \in Int
    BY DEF WritesInv, DmaRegs
  <2>7. /\ WriteBeats(m, s) = dma.len + 1 /\ WriteBeats(m, s)' = dma'.len + 1
        /\ Sent(m, s) = IF ~w.active[m] THEN WriteBeats(m, s) ELSE dma.cnt
        /\ Sent(m, s)' = IF ~w'.active[m] THEN WriteBeats(m, s)' ELSE dma'.cnt
        /\ Writing(m, s)' <=> dma'.st \in {"w", "pause", "b"} /\ dma'.dst = s
        /\ LanesOf(m) = dma.lanes /\ LanesOf(m)' = dma'.lanes
    BY <1>6, DrivenIs DEF WriteBeats, Sent, Writing, LanesOf
  <2>8. WTaken(m) => dma.st = "w"
    BY <1>6, DmaWires DEF WTaken, XB!WReady, XB!OnW
  <2>9. CASE dma.st = "w"
    BY <1>4, <1>6, <2>1, <2>3, <2>4, <2>5, <2>6, <2>7, <2>9 DEF DmaGoesOn
  <2>10. CASE dma.st = "pause"
    BY <1>4, <1>6, <2>1, <2>3, <2>4, <2>5, <2>6, <2>7, <2>8, <2>10 DEF DmaGoesOn
  <2>11. CASE dma.st = "b"
    BY <1>4, <1>6, <2>1, <2>2, <2>3, <2>4, <2>5, <2>6, <2>7, <2>8, <2>11 DEF DmaGoesOn
  <2> QED
    BY <2>1, <2>9, <2>10, <2>11
<1> QED
  BY <1>5, <1>6, DrivenIs

\* The serialiser shifts the line as it sends it.
LEMMA LineEdge ==
    ASSUME WritesInv, Edge
    PROVE  LineToSend'
<1> DEFINE n == LineLen(w.select[L2M])
           p == LineLen(w'.select[L2M])
<1> SUFFICES ASSUME l2'.state = "writing"
             PROVE  /\ l2'.req_len \in 0 .. p - 1
                    /\ \A k \in 0 .. l2'.req_len :
                         l2'.line[k] = Beat((p - 1 - l2'.req_len) + k)
  BY DEF LineToSend
<1>1. L2GoesOn(l2, lreq, XB!RIn(slv, L2M), XB!BIn(slv, L2M), ArTaken(L2M),
               AwTaken(L2M), WTaken(L2M), l2')
  BY MastersGoOn
<1>2. n \in 1 .. LineBeats /\ p \in 1 .. LineBeats
  BY LineAssumption DEF LineLen
<1>3. CASE AwTaken(L2M)
  <2>1. p = LineLen(lreq.dst) /\ lreq.addr = 0 /\ ~ArTaken(L2M) /\ LM!ReqLen(lreq) = p - 1
    BY <1>3, L2Address DEF WriteBeats, LineLen, L2M, DMAM
  <2> HIDE DEF p, n
  <2>2. l2'.req_len = LM!ReqLen(lreq)
    BY <1>1, <1>3, <2>1 DEF L2GoesOn
  <2>3. l2'.line = [k \in 0 .. LineBeats - 1 |-> Beat(lreq.addr + k)]
    BY <1>1, <1>3, <2>1 DEF L2GoesOn
  <2>4. l2'.req_len = p - 1
    BY <2>1, <2>2
  <2>5. ASSUME NEW k \in 0 .. l2'.req_len PROVE l2'.line[k] = Beat((p - 1 - l2'.req_len) + k)
    <3>1. k \in 0 .. LineBeats - 1 /\ (p - 1 - l2'.req_len) + k = lreq.addr + k
      BY <1>2, <2>1, <2>4, LineAssumption
    <3>2. l2'.line[k] = Beat(lreq.addr + k)
      BY <2>3, <3>1
    <3> QED
      BY <3>1, <3>2
  <2> QED
    BY <1>2, <2>4, <2>5
<1>4. CASE ~AwTaken(L2M)
  <2>1. ~ArTaken(L2M) /\ l2.state = "writing"
    BY <1>1, <1>4 DEF L2GoesOn
  <2>2. p = n
    BY <1>4, WAfter, DrivenIs
  <2>3. DOMAIN l2.line = 0 .. LineBeats - 1
    BY DEF WritesInv, L2Regs
  <2>4. /\ l2.req_len \in 0 .. n - 1
        /\ \A k \in 0 .. l2.req_len : l2.line[k] = Beat((n - 1 - l2.req_len) + k)
    BY <2>1 DEF WritesInv, LineToSend
  <2>5. \/ /\ l2.req_len # 0 /\ l2'.line = LM!Shifted(l2.line) /\ l2'.req_len = l2.req_len - 1
        \/ l2'.line = l2.line /\ l2'.req_len = l2.req_len
    BY <1>1, <1>4, <2>1 DEF L2GoesOn
  <2> HIDE DEF p, n
  <2>6. CASE l2'.line = l2.line /\ l2'.req_len = l2.req_len
    BY <2>2, <2>4, <2>6
  <2>7. CASE /\ l2.req_len # 0 /\ l2'.line = LM!Shifted(l2.line)
             /\ l2'.req_len = l2.req_len - 1
    <3>1. ASSUME NEW k \in 0 .. l2'.req_len
          PROVE  l2'.line[k] = Beat((p - 1 - l2'.req_len) + k)
      <4>1. k \in 0 .. LineBeats - 1 /\ k + 1 \in 0 .. LineBeats - 1 /\ k + 1 \in 0 .. l2.req_len
        BY <1>2, <2>4, <2>7, LineAssumption
      <4>2. l2'.line[k] = l2.line[k + 1]
        BY <2>3, <2>7, <4>1 DEF LM!Shifted
      <4>3. l2.line[k + 1] = Beat((n - 1 - l2.req_len) + (k + 1))
        BY <2>4, <4>1
      <4>4. (n - 1 - l2.req_len) + (k + 1) = (p - 1 - l2'.req_len) + k
        BY <1>2, <2>2, <2>4, <2>7
      <4> QED
        BY <4>2, <4>3, <4>4
    <3>2. l2'.req_len \in 0 .. p - 1
      BY <1>2, <2>2, <2>4, <2>7
    <3> QED
      BY <3>1, <3>2
  <2> QED
    BY <2>5, <2>6, <2>7
<1> QED
  BY <1>3, <1>4

\* A write that a port accepts is new for its master as well.
LEMMA StartEdge ==
    ASSUME WritesInv, Edge, NEW s \in Slaves, slv[s].aw_ready, PortIn(s).aw_valid
    PROVE  \E m \in Masters : /\ PortIn(s).aw_id = m /\ PortIn(s).aw_addr = Base(m)
                              /\ w'.select[m] = s
                              /\ Writing(m, s)' /\ Sent(m, s)' = 0
<1>1. XB!SlaveIn(Driven, slv, w, s).aw_valid <=> \E k \in Masters : XB!AwSelect(Driven, k, s)
  BY DEF XB!SlaveIn
<1>2. PICK m \in Masters : XB!AwSelect(Driven, m, s)
  BY <1>1, PortWires
<1>3. PortIn(s).aw_id = m /\ PortIn(s).aw_addr = Driven[m].aw_addr
  <2>1. /\ XB!SlaveIn(Driven, slv, w, s).aw_id = m
        /\ XB!SlaveIn(Driven, slv, w, s).aw_addr = Driven[m].aw_addr
    BY <1>2, AddressRouted
  <2> QED
    BY <2>1, PortWires
<1>4. AwTaken(m)
  BY <1>2 DEF AwTaken, XB!AwReady
<1>5. w'.select[m] = s
  BY <1>2, <1>4, WAfter DEF XB!AwSelect
<1>6. CASE m = L2M
  <2>1. /\ ~ArTaken(L2M) /\ lreq.dst = s /\ Driven[L2M].aw_addr = 0
        /\ LM!ReqLen(lreq) = WriteBeats(L2M, lreq.dst) - 1
    BY <1>4, <1>5, <1>6, L2Address
  <2>2. L2GoesOn(l2, lreq, XB!RIn(slv, L2M), XB!BIn(slv, L2M), ArTaken(L2M),
                 AwTaken(L2M), WTaken(L2M), l2')
    BY MastersGoOn
  <2>3. l2'.state = "writing" /\ l2'.req_len = WriteBeats(L2M, s) - 1
    BY <1>4, <1>6, <2>1, <2>2 DEF L2GoesOn
  <2>4. WriteBeats(L2M, s) \in Int /\ WriteBeats(L2M, s)' = WriteBeats(L2M, s)
    BY LineAssumption DEF WriteBeats, L2M, DMAM
  <2>5. Sent(L2M, s)' = WriteBeats(L2M, s) - 1 - l2'.req_len
    BY <2>3, <2>4, ActiveEdge DEF Sent
  <2>6. Sent(L2M, s)' = 0 /\ Writing(L2M, s)'
    BY <2>3, <2>4, <2>5 DEF Writing
  <2>7. Base(L2M) = 0
    BY DEF Base
  <2> QED
    BY <1>3, <1>5, <1>6, <2>1, <2>6, <2>7
<1>7. CASE m = DMAM
  <2>1. dma.st = "aw" /\ dma.dst = s /\ Driven[m].aw_addr = Base(m)
    BY <1>2, <1>7, DmaWires DEF XB!AwSelect
  <2>2. DmaGoesOn(dma, in.dma, XB!RIn(slv, DMAM), XB!BIn(slv, DMAM), ArTaken(DMAM),
                  AwTaken(DMAM), WTaken(DMAM), dma')
    BY MastersGoOn
  <2>3. dma'.st \in {"w", "pause"} /\ dma'.dst = s /\ dma'.cnt = dma.cnt /\ dma.cnt = 0
    BY <1>4, <1>7, <2>1, <2>2 DEF DmaGoesOn, WritesInv, DmaRegs
  <2>4. Sent(DMAM, s)' = 0 /\ Writing(DMAM, s)'
    BY <2>3, ActiveEdge, DrivenIs DEF Sent, Writing
  <2> QED
    BY <1>3, <1>5, <1>7, <2>1, <2>4
<1> QED
  BY <1>6, <1>7, DrivenIs

\* An edge keeps the beats of every write together.
LEMMA OwnedEdge ==
    ASSUME WritesInv, Edge, NEW s \in Slaves
    PROVE  /\ taken'[s] \in Nat /\ OwnedWrite(s)'
           /\ slv[s].wstate # "w_idle" /\ slv'[s].wstate # "w_idle" => slv'[s].aw_id = slv[s].aw_id
<1> DEFINE x == slv[s]
           i == PortIn(s)
           u == AX!Comb(x, i)
           y == slv'[s]
<1>1. y = AX!Forget(u, s = "sram")
  BY EdgeIs
<1>2. /\ DOMAIN x = Fields /\ ReadSide(x) /\ WriteSide(x) /\ Addressed(x)
      /\ taken[s] \in Nat /\ OwnedWrite(s)
  BY DEF WritesInv, WordsInv, PortInv
<1>3. HoldsLast(x) => ~i.w_valid
  <2>1. XB!SlaveIn(Driven, slv, w, s).w_valid <=> \E k \in Masters : XB!OnW(Driven, w, k, s)
    BY DEF XB!SlaveIn
  <2> QED
    BY <2>1, PortWires DEF WritesInv, WordsInv, PortInv, LastEnds, XB!OnW
<1>4. Wires(x, i)
  BY DevicesKeepContract, PortWires DEF Wires, WritesInv, WordsInv
<1>5. taken'[s] = IF x.b_valid /\ i.b_ready THEN 0 ELSE TakenAfter(x, i, taken[s])
  BY EdgeIs, PortWires DEF TakenNext, TakenAfter, Takes
<1>6. DOMAIN u = Fields
  <2>1. PortGoesOn(x, i, u)
    BY <1>2, <1>3, <1>4, PortStep
  <2> QED
    BY <2>1 DEF PortGoesOn
<1>7. i.aw_addr \in Int
  BY AddressWires DEF WritesInv, WordsInv
<1>8. taken'[s] \in Nat
  BY <1>2, <1>5 DEF TakenAfter
<1>9. CASE x.wstate # "w_idle"
  <2>1. PICK m \in Masters : m = x.aw_id
    BY <1>2, <1>9 DEF OwnedWrite
  <2> DEFINE k == Sent(m, s)
             n == WriteBeats(m, s)
             a == Base(m)
             L == LanesOf(m)
  <2>2. WriteData(x, taken[s], k, n, a, L)
    BY <1>2, <1>9, <2>1 DEF OwnedWrite
  <2>3. k \in Int /\ n \in Int /\ a \in Int
    <3>1. CASE m = L2M
      <4>1. n \in Int /\ a \in Int
        BY <3>1, LineAssumption DEF WriteBeats, Base, L2M, DMAM
      <4>2. w.active[m] => l2.req_len \in Int
        BY <3>1, LineAssumption DEF WritesInv, LineToSend, LineLen
      <4> QED
        BY <3>1, <4>1, <4>2 DEF Sent
    <3>2. CASE m = DMAM
      <4>1. dma.cnt \in Int /\ dma.len \in Int
        BY DEF WritesInv, DmaRegs
      <4> QED
        BY <3>2, <4>1 DEF Sent, WriteBeats, Base, L2M, DMAM
    <3> QED
      BY <3>1, <3>2, DrivenIs
  <2>4. /\ i.w_valid /\ x.w_ready <=> WTaken(m)
        /\ i.w_valid => i.w_data = Strobed(Beat(a + k), L) /\ (i.w_last <=> k + 1 = n)
    BY <1>9, <2>1, BeatOfOwner DEF OwnData
  <2> HIDE DEF k, n, a, L, u, x, i, y
  <2>5. /\ u.wstate = "w_idle" <=> x.b_valid /\ i.b_ready
        /\ u.wstate # "w_idle" =>
             /\ u.aw_id = x.aw_id
             /\ WriteData(u, TakenAfter(x, i, taken[s]), SentAfter(x, i, k), n, a, L)
    <3>1. x.req_addr \in Int /\ x.req_addr_buf \in Int /\ taken[s] \in Int
      BY <1>2 DEF Addressed
    <3> QED
      BY <1>2, <1>3, <1>4, <1>9, <2>2, <2>3, <2>4, <3>1, WriteStep DEF u
  <2>6. CASE x.b_valid /\ i.b_ready
    <3>1. y.wstate = "w_idle" /\ taken'[s] = 0
      BY <1>1, <1>5, <1>6, <2>5, <2>6 DEF AX!Forget, Fields
    <3> QED
      BY <1>8, <3>1 DEF OwnedWrite, x, y
  <2>7. CASE ~(x.b_valid /\ i.b_ready)
    <3>1. y = u /\ y.wstate # "w_idle" /\ y.aw_id = m
      BY <1>1, <2>1, <2>5, <2>7 DEF AX!Forget
    <3>2. /\ w'.select[m] = s /\ Writing(m, s)' /\ WriteBeats(m, s)' = n
          /\ Sent(m, s)' = IF WTaken(m) THEN k + 1 ELSE k
          /\ LanesOf(m)' = L
      BY <1>9, <2>1, <2>7, SentEdge DEF x, i, k, n, L
    <3>3. Sent(m, s)' = SentAfter(x, i, k)
      BY <2>4, <3>2 DEF SentAfter
    <3>4. WriteData(y, taken'[s], Sent(m, s)', WriteBeats(m, s)', Base(m), LanesOf(m)')
      BY <1>5, <2>5, <2>7, <3>1, <3>2, <3>3 DEF a
    <3> QED
      BY <1>8, <2>1, <3>1, <3>2, <3>4 DEF OwnedWrite, x, y
  <2> QED
    BY <2>6, <2>7
<1>10. CASE x.wstate = "w_idle"
  <2>1. taken[s] = 0
    BY <1>2, <1>10 DEF OwnedWrite
  <2>2. \A n, L :
               /\ ~x.b_valid /\ TakenAfter(x, i, 0) = 0
               /\ u.wstate # "w_idle" <=> x.aw_ready /\ i.aw_valid
               /\ u.wstate # "w_idle" => u.aw_id = i.aw_id /\ WriteData(u, 0, 0, n, i.aw_addr, L)
    BY <1>2, <1>4, <1>7, <1>10, WriteStart
  <2>3. taken'[s] = 0
    BY <1>5, <2>1, <2>2
  <2> HIDE DEF u, y
  <2>4. CASE u.wstate = "w_idle"
    <3>1. y.wstate = "w_idle"
      BY <1>1, <1>6, <2>4 DEF AX!Forget, Fields
    <3> QED
      BY <1>8, <2>3, <3>1 DEF OwnedWrite, y
  <2>5. CASE u.wstate # "w_idle"
    <3>1. y = u
      BY <1>1, <2>5 DEF AX!Forget
    <3>2. PICK m \in Masters : /\ i.aw_id = m /\ i.aw_addr = Base(m) /\ w'.select[m] = s
                               /\ Writing(m, s)' /\ Sent(m, s)' = 0
      BY <2>2, <2>5, StartEdge
    <3>3. y.aw_id = m /\ WriteData(y, taken'[s], Sent(m, s)', WriteBeats(m, s)', Base(m), LanesOf(m)')
      <4> DEFINE n == WriteBeats(m, s)'
                 L == LanesOf(m)'
      <4> HIDE DEF n, L
      <4>1. u.aw_id = i.aw_id /\ WriteData(u, 0, 0, n, i.aw_addr, L)
        BY <2>2, <2>5
      <4> QED
        BY <2>3, <3>1, <3>2, <4>1 DEF n, L
    <3> QED
      BY <1>8, <1>10, <2>5, <3>1, <3>2, <3>3 DEF OwnedWrite, y
  <2> QED
    BY <2>4, <2>5
<1> QED
  BY <1>9, <1>10

\* Every step keeps the invariant of the writes.
LEMMA WritesStep ==
    ASSUME WritesInv, [Next]_vars
    PROVE  WritesInv'
<1>1. WordsInv'
  BY WordsStep DEF WritesInv
<1>2. CASE Edge
  <2>1. in' = NoInput
    BY <1>2, EdgeIs
  <2> QED
    BY <1>1, <1>2, <2>1, OwnedEdge, MastersGoOn, LineEdge, ActiveEdge DEF WritesInv
<1>3. ASSUME UNCHANGED <<slv, w, l2, dma, taken>>,
             in' # NoInput /\ dma.st = "idle" => in'.dma.start \in DmaBursts \cup {DmaIdle}
      PROVE  WritesInv'
  <2>1. ASSUME NEW s \in Slaves PROVE OwnedWrite(s)'
    BY <1>3 DEF WritesInv, OwnedWrite, Writing, WriteBeats, Sent, LanesOf
  <2> QED
    BY <1>1, <1>3, <2>1 DEF WritesInv, LineToSend
<1>4. ASSUME NEW c \in DmaChoices, NEW q \in L2Choices, Drive(c, q)
      PROVE  WritesInv'
  <2>1. UNCHANGED <<slv, w, l2, dma, taken>> /\ in'.dma = c
    BY <1>4 DEF Drive
  <2>2. dma.st = "idle" => c.start \in DmaBursts \cup {DmaIdle}
    BY DEF DmaChoices
  <2> QED
    BY <1>3, <2>1, <2>2
<1>5. CASE UNCHANGED vars
  BY <1>3, <1>5 DEF vars, WritesInv
<1> QED
  BY <1>2, <1>4, <1>5 DEF Next

\* A device takes the beats of a write in the order of their addresses, each with its own data
\* and for the master that owns the write, and all of them before the write is answered
\* (axi_slv State_w_pipe, State_w_buf; L2SerDes; gencpu64_axictrl_bus0 w_select).
THEOREM WritesComplete == Spec => []WriteBeatsInOrder
<1>1. WritesInv => WriteBeatsInOrder
  <2> SUFFICES ASSUME WritesInv, NEW s \in Slaves
               PROVE  LET m == slv[s].aw_id
                      IN  /\ Takes(s) /\ slv[s].req_write =>
                               /\ Writing(m, s)
                               /\ slv[s].req_addr = Base(m) + taken[s]
                               /\ slv[s].req_wdata = OwnData(m, slv[s].req_addr)
                          /\ slv[s].b_valid => taken[s] = WriteBeats(m, s)
    BY DEF WriteBeatsInOrder
  <2>1. ReadSide(slv[s]) /\ WriteSide(slv[s]) /\ OwnedWrite(s)
    BY DEF WritesInv, WordsInv, PortInv
  <2>2. ASSUME Takes(s), slv[s].req_write
        PROVE  slv[s].wstate \in {"w_pipe", "w_buf"} /\ slv[s].req_valid
    BY <2>1, <2>2 DEF Takes, ReadSide, WriteSide, Resting
  <2>3. slv[s].b_valid <=> slv[s].wstate = "b"
    BY <2>1 DEF WriteSide
  <2> QED
    BY <2>1, <2>2, <2>3 DEF OwnedWrite, WriteData, OwnData
<1> QED
  BY <1>1, WritesInit, WritesStep, PTL DEF Spec

-----------------------------------------------------------------------------
(* The memory of the SRAM, whose write enable is req_write alone.          *)

\* The read channel never leaves a write request but the one that was there.
LEMMA ReadKeepsWrite ==
    ASSUME NEW x, NEW i, DOMAIN x = Fields, ReadSide(x), WriteSide(x), Wires(x, i)
    PROVE  LET v == AX!ReadChannel(x, i, AX!Handshakes(x, i)) IN
           /\ v.req_write => Resting(x) /\ x.req_write /\ v.req_addr = x.req_addr
           /\ Resting(x) => v.rstate \in {"r_idle", "r_wait_writing", "r_addr"}
<1> DEFINE h == AX!Handshakes(x, i)
           v == AX!ReadChannel(x, i, h)
<1> SUFFICES /\ v.req_write => Resting(x) /\ x.req_write /\ v.req_addr = x.req_addr
             /\ Resting(x) => v.rstate \in {"r_idle", "r_wait_writing", "r_addr"}
  OBVIOUS
<1>1. DOMAIN h = Fields /\ h.req_write = x.req_write /\ h.req_addr = x.req_addr /\ h.rstate = x.rstate
  BY HandshakesStep DEF SameBut
<1>2. i.req_ready /\ x.requested => i.resp_valid
  BY DEF Wires, Contract
<1> HIDE DEF h
<1>3. CASE x.rstate = "r_idle"
  <2>1. v = AX!RIdle(x, i, h)
    BY <1>3 DEF AX!ReadChannel
  <2> HIDE DEF v
  <2> QED
    BY <1>1, <1>3, <2>1, RIdleStep DEF SameBut, ReadBurst, Resting
<1>4. CASE x.rstate = "r_wait_writing"
  <2>1. v = AX!RWaitWriting(x, i, h)
    BY <1>4 DEF AX!ReadChannel
  <2> HIDE DEF v
  <2> QED
    BY <1>1, <1>4, <2>1, RWaitWritingStep DEF SameBut, Resting
<1>5. CASE ~Resting(x)
  <2>1. ~h.req_write
    BY <1>1, <1>5 DEF ReadSide
  <2>2. v.req_write = h.req_write
    <3>1. CASE x.rstate = "r_addr"
      <4>1. v = AX!RAddr(x, i, h)
        BY <3>1 DEF AX!ReadChannel
      <4> HIDE DEF v
      <4> QED
        BY <1>1, <4>1, RAddrStep DEF SameBut
    <3>2. CASE x.rstate = "r_pipe"
      <4>1. v = AX!RPipe(x, i, h)
        BY <3>2 DEF AX!ReadChannel
      <4>2. i.req_ready => i.resp_valid
        BY <1>2, <3>2 DEF ReadSide
      <4> HIDE DEF v
      <4> QED
        BY <1>1, <4>1, <4>2, RPipeStep DEF SameBut
    <3>3. CASE x.rstate = "r_resp_last"
      <4>1. v = AX!RRespLast(x, i, h)
        BY <3>3 DEF AX!ReadChannel
      <4> HIDE DEF v
      <4> QED
        BY <1>1, <4>1, RRespLastStep DEF SameBut
    <3>4. CASE x.rstate = "r_wait_accept"
      <4> DEFINE a == AX!RAccepted(x, i, h)
      <4>1. v = AX!RWaitAccept(x, i, h)
        BY <3>4 DEF AX!ReadChannel
      <4>2. a.req_write = h.req_write
        <5> HIDE DEF a
        <5> QED
          BY <1>1, RAcceptedStep DEF SameBut, a
      <4>3. SameBut(a, v, {"resp_last"}) \/ v.req_write = h.req_write
        <5> HIDE DEF v, a
        <5> QED
          BY <1>1, <4>1, RWaitAcceptStep DEF SameBut, a
      <4> HIDE DEF v, a
      <4> QED
        BY <4>2, <4>3 DEF SameBut
    <3>5. CASE x.rstate = "r_buf"
      <4>1. v = AX!RBuf(x, i, h)
        BY <3>5 DEF AX!ReadChannel
      <4> HIDE DEF v
      <4> QED
        BY <1>1, <4>1, RBufStep DEF SameBut
    <3> QED
      BY <1>5, <3>1, <3>2, <3>3, <3>4, <3>5 DEF ReadSide, Resting, AX!RStates
  <2> QED
    BY <1>5, <2>1, <2>2
<1> QED
  BY <1>3, <1>4, <1>5 DEF Resting

\* In front of a device that is always ready the buffer is not used, and a write request is
\* a new beat, the address of a beat to come, or the one that was there.
LEMMA WriteRequestKept ==
    ASSUME NEW x, NEW i, DOMAIN x = Fields, ReadSide(x), WriteSide(x), Wires(x, i),
           HoldsLast(x) => ~i.w_valid, i.req_ready, x.wstate # "w_buf"
    PROVE  LET u == AX!Comb(x, i) IN
           /\ u.wstate # "w_buf"
           /\ u.req_write =>
                \/ u.wstate = "w_req"
                \/ u.wstate = "w_pipe" /\ u.req_valid
                \/ /\ x.req_write /\ x.wstate # "w_req"
                   /\ u.req_addr = x.req_addr /\ u.req_wdata = x.req_wdata
           /\ x.wstate = "w_req" => /\ u.aw_id = x.aw_id /\ u.req_addr = x.req_addr
                                    /\ u.wstate = "w_req" \/ (u.wstate = "w_pipe" /\ u.req_valid)
<1> DEFINE v == AX!ReadChannel(x, i, AX!Handshakes(x, i))
           u == AX!WriteChannel(x, i, v)
<1>1. AX!Comb(x, i) = u
  BY DEF AX!Comb
<1>2. ReadGoesOn(x, i, v)
  BY ReadStep
<1>3. v.req_write => x.req_write /\ v.req_addr = x.req_addr
  BY ReadKeepsWrite
<1> HIDE DEF v
<1>4. DOMAIN v = Fields /\ v.wstate = x.wstate /\ v.req_wdata = x.req_wdata /\ v.aw_id = x.aw_id
  BY <1>2 DEF ReadGoesOn, AfterRead
<1>5. CASE x.wstate = "w_idle"
  <2>1. u = AX!WIdle(x, i, v)
    BY <1>5 DEF AX!WriteChannel
  <2> HIDE DEF u
  <2> QED
    BY <1>1, <1>3, <1>4, <1>5, <2>1, WIdleStep DEF SameBut, WriteBurst
<1>6. CASE x.wstate = "w_req"
  <2>1. u = AX!WReq(x, i, v)
    BY <1>6 DEF AX!WriteChannel
  <2>2. v.req_addr = x.req_addr
    BY <1>2, <1>6 DEF ReadGoesOn, InData, PortKept
  <2> HIDE DEF u
  <2> QED
    BY <1>1, <1>4, <1>6, <2>1, <2>2, WReqStep DEF SameBut
<1>7. CASE x.wstate = "w_pipe"
  <2>1. u = AX!WPipe(x, i, v)
    BY <1>7 DEF AX!WriteChannel
  <2>2. x.req_last => x.req_valid /\ ~i.w_valid
    BY <1>7 DEF WriteSide, HoldsLast
  <2> HIDE DEF u
  <2>3. \/ SameBut(v, u, {"wstate", "w_ready"}) /\ u.wstate = "w_resp"
        \/ SameBut(v, u, {"w_ready"})
        \/ /\ SameBut(v, u, {"w_ready", "req_valid", "req_addr", "req_wdata", "req_last"})
           /\ u.req_valid
        \/ SameBut(v, u, {"wstate", "w_ready", "req_addr"}) /\ u.wstate = "w_req"
    BY <1>4, <2>1, <2>2, WPipeStep
  <2> QED
    BY <1>1, <1>3, <1>4, <1>7, <2>3 DEF SameBut
<1>8. CASE x.wstate = "w_resp"
  <2>1. u = AX!WResp(x, i, v)
    BY <1>8 DEF AX!WriteChannel
  <2> HIDE DEF u
  <2> QED
    BY <1>1, <1>3, <1>4, <1>8, <2>1, WRespStep DEF SameBut
<1>9. CASE x.wstate = "w_wait_reading"
  <2>1. u = AX!WWaitReading(x, i, v)
    BY <1>9 DEF AX!WriteChannel
  <2> HIDE DEF u
  <2> QED
    BY <1>1, <1>3, <1>4, <1>9, <2>1, WWaitReadingStep DEF SameBut
<1>10. CASE x.wstate = "b"
  <2>1. u = AX!WB(x, i, v)
    BY <1>10 DEF AX!WriteChannel
  <2> HIDE DEF u
  <2> QED
    BY <1>1, <1>3, <1>4, <1>10, <2>1, WBStep DEF SameBut
<1> QED
  BY <1>5, <1>6, <1>7, <1>8, <1>9, <1>10 DEF WriteSide, AX!WStates

\* the lanes a write request drives carry the words of its address
DrivesOwn(q) == \A j \in Lanes : q.req_wdata[j] # NoWord => q.req_wdata[j] = Beat(q.req_addr)[j]

\* The memory.  A request is written again and again until the port replaces it, which does no
\* harm while it carries its own data; only in State_w_req it carries those of the beat before.
\* The strobed words of the beats that were taken are right, and so are the lines of the L2
\* cache but for the beat that is being written.
MemInv ==
    "sram" \in Slaves =>
      LET p == slv["sram"]
          m == p.aw_id
      IN  /\ sram.stale \subseteq Int \X Lanes
          /\ p.wstate # "w_buf"
          /\ p.req_write /\ p.wstate # "w_req" => DrivesOwn(p)
          /\ \A e \in sram.stale : e[1] < Base(DMAM) =>
                /\ m = L2M /\ e[1] = p.req_addr
                /\ p.wstate = "w_req" \/ (p.wstate = "w_pipe" /\ p.req_valid)
          /\ p.wstate # "w_idle" =>
                \A k \in 0 .. taken["sram"] - 1 : \A j \in LanesOf(m) :
                  <<Base(m) + k, j>> \notin sram.stale

\* The reset state satisfies the invariant of the memory.
LEMMA MemInit == Init => MemInv
<1> SUFFICES ASSUME Init, "sram" \in Slaves PROVE MemInv
  BY DEF MemInv
<1>1. slv["sram"] = AX!SlvReset
  BY DEF Init
<1>2. slv["sram"].wstate = "w_idle" /\ ~slv["sram"].req_write
  BY <1>1 DEF AX!SlvReset
<1>3. sram.stale = {}
  BY DEF Init
<1> QED
  BY <1>2, <1>3 DEF MemInv

\* What the SRAM writes are words of the address on its request port.
LEMMA SramWritesIs ==
    ASSUME NEW q, NEW e
    PROVE  e \in SramWrites(q) <=> /\ q.req_write
                                   /\ \E j \in Lanes : e = <<q.req_addr, j>> /\ q.req_wdata[j] # NoWord
BY DEF SramWrites

\* What a cycle does to the memory: a request in State_w_req may spoil the words of its
\* address, any other leaves every word right that it drives.
LEMMA StaleAfter ==
    ASSUME WritesInv, MemInv, Edge, "sram" \in Slaves
    PROVE  LET p == slv["sram"] IN
           /\ \A e \in sram'.stale : /\ e \in Int \X Lanes
                                     /\ e \in sram.stale \/ (p.wstate = "w_req" /\ e[1] = p.req_addr)
           /\ p.wstate # "w_req" => \A e \in sram'.stale : e \in sram.stale /\ e \notin SramWrites(p)
           /\ ~p.req_write => sram'.stale = sram.stale
<1> DEFINE p == slv["sram"]
<1>1. sram'.stale = {e \in sram.stale \cup SramWrites(p) :
                       e \in SramWrites(p) => p.req_wdata[e[2]] # Beat(e[1])[e[2]]}
  BY EdgeIs DEF SramNext
<1>2. p.req_addr \in Int
  BY DEF WritesInv, WordsInv, Addressed
<1>3. /\ sram.stale \subseteq Int \X Lanes
      /\ p.req_write /\ p.wstate # "w_req" => DrivesOwn(p)
  BY DEF MemInv
<1> HIDE DEF p
<1>4. ASSUME NEW e \in SramWrites(p)
      PROVE  e \in Int \X Lanes /\ e[1] = p.req_addr /\ p.req_write /\ p.req_wdata[e[2]] # NoWord
  <2>1. PICK j \in Lanes : e = <<p.req_addr, j>> /\ p.req_wdata[j] # NoWord
    BY <1>4, SramWritesIs
  <2>2. p.req_write
    BY <1>4, SramWritesIs
  <2> QED
    BY <1>2, <2>1, <2>2
<1>5. ASSUME p.wstate # "w_req", NEW e \in SramWrites(p)
      PROVE  p.req_wdata[e[2]] = Beat(e[1])[e[2]]
  <2>1. e[2] \in Lanes /\ e[1] = p.req_addr /\ p.req_wdata[e[2]] # NoWord /\ DrivesOwn(p)
    BY <1>3, <1>4, <1>5
  <2> QED
    BY <2>1 DEF DrivesOwn
<1>6. \A e \in sram'.stale : /\ e \in sram.stale \cup SramWrites(p)
                             /\ e \in SramWrites(p) => p.req_wdata[e[2]] # Beat(e[1])[e[2]]
  BY <1>1
<1>7. ASSUME NEW e \in sram'.stale
      PROVE  /\ e \in Int \X Lanes
             /\ e \in sram.stale \/ (p.wstate = "w_req" /\ e[1] = p.req_addr)
             /\ p.wstate # "w_req" => e \in sram.stale /\ e \notin SramWrites(p)
  <2>1. CASE e \in SramWrites(p)
    BY <1>4, <1>5, <1>6, <2>1
  <2>2. CASE e \notin SramWrites(p)
    BY <1>3, <1>6, <2>2
  <2> QED
    BY <2>1, <2>2
<1>8. ASSUME ~p.req_write PROVE sram'.stale = sram.stale
  <2>1. \A e : e \notin SramWrites(p)
    BY <1>8, SramWritesIs
  <2> QED
    BY <1>1, <2>1
<1> QED
  BY <1>7, <1>8 DEF p

\* What an edge does to the write request of the SRAM.
LEMMA SramPort ==
    ASSUME WritesInv, MemInv, Edge, "sram" \in Slaves
    PROVE  LET p == slv["sram"]
               y == slv'["sram"]
           IN  /\ y.wstate # "w_buf"
               /\ y.req_write =>
                    \/ y.wstate = "w_req"
                    \/ y.wstate = "w_pipe" /\ y.req_valid
                    \/ /\ p.req_write /\ p.wstate # "w_req"
                       /\ y.req_addr = p.req_addr /\ y.req_wdata = p.req_wdata
               /\ p.wstate = "w_req" => /\ y.aw_id = p.aw_id /\ y.req_addr = p.req_addr
                                        /\ y.wstate = "w_req" \/ (y.wstate = "w_pipe" /\ y.req_valid)
<1> DEFINE p == slv["sram"]
           i == PortIn("sram")
           u == AX!Comb(p, i)
           y == slv'["sram"]
<1>1. y = AX!Forget(u, TRUE)
  <2>1. y = AX!Forget(u, "sram" = "sram")
    BY EdgeIs
  <2>2. ("sram" = "sram") = TRUE
    OBVIOUS
  <2> QED
    BY <2>1, <2>2
<1>2. DOMAIN p = Fields /\ ReadSide(p) /\ WriteSide(p) /\ p.wstate # "w_buf"
  BY DEF WritesInv, WordsInv, PortInv, MemInv
<1>3. HoldsLast(p) => ~i.w_valid
  <2>1. XB!SlaveIn(Driven, slv, w, "sram").w_valid <=>
          \E k \in Masters : XB!OnW(Driven, w, k, "sram")
    BY DEF XB!SlaveIn
  <2> QED
    BY <2>1, PortWires DEF WritesInv, WordsInv, PortInv, LastEnds, XB!OnW
<1>4. Wires(p, i) /\ i.req_ready
  BY DevicesKeepContract, PortWires DEF Wires, WritesInv, WordsInv, Device
<1>5. DOMAIN u = Fields
  <2>1. PortGoesOn(p, i, u)
    BY <1>2, <1>3, <1>4, PortStep
  <2> QED
    BY <2>1 DEF PortGoesOn
<1>6. /\ u.wstate # "w_buf"
      /\ u.req_write =>
           \/ u.wstate = "w_req"
           \/ u.wstate = "w_pipe" /\ u.req_valid
           \/ /\ p.req_write /\ p.wstate # "w_req"
              /\ u.req_addr = p.req_addr /\ u.req_wdata = p.req_wdata
      /\ p.wstate = "w_req" => /\ u.aw_id = p.aw_id /\ u.req_addr = p.req_addr
                               /\ u.wstate = "w_req" \/ (u.wstate = "w_pipe" /\ u.req_valid)
  BY <1>2, <1>3, <1>4, WriteRequestKept
<1> HIDE DEF u, y
<1>7. /\ y.wstate = u.wstate /\ y.req_valid = u.req_valid /\ y.aw_id = u.aw_id
      /\ y.req_write => u.req_write /\ y.req_addr = u.req_addr /\ y.req_wdata = u.req_wdata
      /\ u.wstate # "w_idle" => y = u
  BY <1>1, <1>5 DEF AX!Forget, Fields
<1> QED
  BY <1>6, <1>7 DEF y

\* A strobed beat drives the words of its address, or no word.
LEMMA StrobedOwn ==
    ASSUME NEW a \in Int, NEW L, NEW j \in Lanes
    PROVE  /\ Strobed(Beat(a), L)[j] # NoWord => Strobed(Beat(a), L)[j] = Beat(a)[j]
           /\ j \in L /\ a >= 0 => Strobed(Beat(a), L)[j] # NoWord
BY DEF Strobed, Beat, Lanes, NoWord

\* A write to the SRAM in the middle of its beats.
LEMMA SramWriting ==
    ASSUME WritesInv, MemInv, "sram" \in Slaves, slv["sram"].wstate # "w_idle"
    PROVE  LET p == slv["sram"]
               m == p.aw_id
               t == taken["sram"]
           IN  /\ m \in Masters /\ t \in Nat /\ Base(m) \in Nat /\ LanesOf(m) \subseteq Lanes
               /\ p.wstate = "w_req" => p.req_addr = Base(m) + t /\ ~p.req_valid
               /\ p.wstate = "w_pipe" /\ p.req_valid =>
                    /\ p.req_addr = Base(m) + t /\ p.req_write
                    /\ p.req_wdata = Strobed(Beat(p.req_addr), LanesOf(m))
<1> DEFINE p == slv["sram"]
           m == p.aw_id
           t == taken["sram"]
<1>1. OwnedWrite("sram") /\ t \in Nat /\ WriteSide(p)
  BY DEF WritesInv, WordsInv, PortInv
<1>2. m \in Masters /\ WriteData(p, t, Sent(m, "sram"), WriteBeats(m, "sram"), Base(m), LanesOf(m))
  BY <1>1 DEF OwnedWrite
<1>3. Base(m) \in Nat /\ LanesOf(m) \subseteq Lanes
  BY DEF Base, LanesOf, WritesInv, DmaRegs
<1> QED
  BY <1>1, <1>2, <1>3 DEF WriteData, WriteSide, InData, Resting

\* The beats the device takes in a cycle: at most the request in State_w_pipe.
LEMMA SramTakes ==
    ASSUME WritesInv, MemInv, Edge, "sram" \in Slaves
    PROVE  LET p == slv["sram"]
               t == taken["sram"]
           IN  /\ p.wstate = "w_idle" => taken'["sram"] = 0
               /\ p.b_valid /\ PortIn("sram").b_ready => taken'["sram"] = 0
               /\ taken'["sram"] \in {0, t} \/ ( /\ p.wstate = "w_pipe" /\ p.req_valid
                                                 /\ taken'["sram"] = t + 1)
<1> DEFINE p == slv["sram"]
           i == PortIn("sram")
           t == taken["sram"]
<1>1. taken'["sram"] = IF p.b_valid /\ i.b_ready THEN 0 ELSE TakenAfter(p, i, t)
  BY EdgeIs, PortWires DEF TakenNext, TakenAfter, Takes
<1>2. ReadSide(p) /\ WriteSide(p) /\ OwnedWrite("sram") /\ p.wstate # "w_buf"
  BY DEF WritesInv, WordsInv, PortInv, MemInv
<1>3. p.wstate = "w_idle" => t = 0 /\ ~InData(p)
  BY <1>2 DEF OwnedWrite, InData
<1>4. p.wstate = "w_req" => ~p.req_valid
  BY <1>2 DEF WriteSide, InData
<1> HIDE DEF p, i, t
<1>5. /\ InData(p) => TakenAfter(p, i, t) = IF p.req_valid /\ i.req_ready THEN t + 1 ELSE t
      /\ ~InData(p) => TakenAfter(p, i, t) = t
  BY <1>2, WriteTakes
<1> QED
  BY <1>1, <1>2, <1>3, <1>4, <1>5 DEF InData, p, i, t

\* An edge keeps the invariant of the memory.
LEMMA MemEdge ==
    ASSUME WritesInv, WritesInv', MemInv, Edge
    PROVE  MemInv'
<1> SUFFICES ASSUME "sram" \in Slaves PROVE MemInv'
  BY DEF MemInv
<1> DEFINE p == slv["sram"]
           y == slv'["sram"]
           m == p.aw_id
           t == taken["sram"]
<1>1. /\ \A e \in sram.stale : e[1] < Base(DMAM) =>
            /\ m = L2M /\ e[1] = p.req_addr
            /\ p.wstate = "w_req" \/ (p.wstate = "w_pipe" /\ p.req_valid)
      /\ p.req_write /\ p.wstate # "w_req" => DrivesOwn(p)
      /\ p.wstate # "w_idle" => \A k \in 0 .. t - 1 : \A j \in LanesOf(m) :
                                  <<Base(m) + k, j>> \notin sram.stale
  BY DEF MemInv
<1>2. /\ \A e \in sram'.stale : /\ e \in Int \X Lanes
                                /\ e \in sram.stale \/ (p.wstate = "w_req" /\ e[1] = p.req_addr)
      /\ p.wstate # "w_req" => \A e \in sram'.stale : e \in sram.stale /\ e \notin SramWrites(p)
  BY StaleAfter
<1>3. /\ y.wstate # "w_buf"
      /\ y.req_write =>
           \/ y.wstate = "w_req"
           \/ y.wstate = "w_pipe" /\ y.req_valid
           \/ /\ p.req_write /\ p.wstate # "w_req"
              /\ y.req_addr = p.req_addr /\ y.req_wdata = p.req_wdata
      /\ p.wstate = "w_req" => /\ y.aw_id = m /\ y.req_addr = p.req_addr
                               /\ y.wstate = "w_req" \/ (y.wstate = "w_pipe" /\ y.req_valid)
  BY SramPort
<1>4. p.wstate # "w_idle" =>
        /\ m \in Masters /\ t \in Nat /\ Base(m) \in Nat /\ LanesOf(m) \subseteq Lanes
        /\ p.wstate = "w_req" => p.req_addr = Base(m) + t /\ ~p.req_valid
        /\ p.wstate = "w_pipe" /\ p.req_valid =>
             /\ p.req_addr = Base(m) + t /\ p.req_write
             /\ p.req_wdata = Strobed(Beat(p.req_addr), LanesOf(m))
  BY SramWriting
<1>5. \* the beat that the memory takes is written to every lane it strobes
      ASSUME p.wstate = "w_pipe", p.req_valid, NEW j \in LanesOf(m)
      PROVE  <<p.req_addr, j>> \in SramWrites(p)
  <2>1. p.req_addr \in Nat /\ j \in Lanes
    BY <1>4, <1>5
  <2>2. p.req_wdata[j] # NoWord
    BY <1>4, <1>5, <2>1, StrobedOwn
  <2> QED
    BY <1>4, <1>5, <2>1, <2>2, SramWritesIs
<1>6. ASSUME y.req_write, y.wstate # "w_req" PROVE DrivesOwn(y)
  <2>1. CASE y.wstate = "w_pipe" /\ y.req_valid
    <3>1. PICK a, L : y.req_addr = a /\ a \in Int /\ y.req_wdata = Strobed(Beat(a), L)
      <4> DEFINE tt == taken'["sram"]
      <4>1. OwnedWrite("sram")' /\ tt \in Nat
        BY DEF WritesInv
      <4>5. PICK n \in Masters : n = y.aw_id
        BY <2>1, <4>1 DEF OwnedWrite
      <4>2. WriteData(y, tt, Sent(n, "sram")', WriteBeats(n, "sram")', Base(n), LanesOf(n)')
        BY <2>1, <4>1, <4>5 DEF OwnedWrite
      <4>3. y.req_addr = Base(n) + tt /\ y.req_wdata = Strobed(Beat(Base(n) + tt), LanesOf(n)')
        BY <2>1, <4>2 DEF WriteData
      <4>4. Base(n) + tt \in Int
        BY <4>1 DEF Base
      <4> QED
        BY <4>3, <4>4
    <3> QED
      BY <3>1, StrobedOwn DEF DrivesOwn
  <2>2. CASE /\ p.req_write /\ p.wstate # "w_req"
             /\ y.req_addr = p.req_addr /\ y.req_wdata = p.req_wdata
    BY <1>1, <2>2 DEF DrivesOwn
  <2> QED
    BY <1>3, <1>6, <2>1, <2>2
<1>7. ASSUME NEW e \in sram'.stale, e[1] < Base(DMAM)
      PROVE  /\ y.aw_id = L2M /\ e[1] = y.req_addr
             /\ y.wstate = "w_req" \/ (y.wstate = "w_pipe" /\ y.req_valid)
  <2>1. CASE p.wstate = "w_req"
    <3>1. e[1] = p.req_addr
      BY <1>1, <1>2, <1>7
    <3>2. m = L2M
      <4>1. m \in Masters /\ e[1] = Base(m) + t /\ t \in Nat
        BY <1>4, <2>1, <3>1
      <4> QED
        BY <1>7, <4>1 DEF Masters, Base, L2M, DMAM
    <3> QED
      BY <1>3, <2>1, <3>1, <3>2
  <2>2. CASE p.wstate # "w_req"
    <3>1. e \in sram.stale /\ e \notin SramWrites(p) /\ e \in Int \X Lanes
      BY <1>2, <2>2
    <3>2. m = L2M /\ e[1] = p.req_addr /\ p.wstate = "w_pipe" /\ p.req_valid
      BY <1>1, <1>7, <2>2, <3>1
    <3>3. LanesOf(m) = Lanes
      BY <3>2 DEF LanesOf, L2M, DMAM
    <3>4. <<p.req_addr, e[2]>> \in SramWrites(p)
      BY <1>5, <3>1, <3>2, <3>3
    <3>5. e = <<e[1], e[2]>>
      BY <3>1
    <3> QED
      BY <3>1, <3>2, <3>4, <3>5
  <2> QED
    BY <2>1, <2>2
<1>8. ASSUME y.wstate # "w_idle", NEW n \in Masters, n = y.aw_id,
             NEW k \in 0 .. taken'["sram"] - 1, NEW j \in LanesOf(n)', <<Base(n) + k, j>> \in sram'.stale
      PROVE  FALSE
  <2>1. /\ p.wstate = "w_idle" => taken'["sram"] = 0
        /\ p.b_valid /\ PortIn("sram").b_ready => taken'["sram"] = 0
        /\ taken'["sram"] \in {0, t} \/ (p.wstate = "w_pipe" /\ p.req_valid /\ taken'["sram"] = t + 1)
    BY SramTakes
  <2>2. p.wstate # "w_idle" /\ ~(p.b_valid /\ PortIn("sram").b_ready)
    BY <1>8, <2>1
  <2>3. n = m
    BY <1>8, <2>2, OwnedEdge
  <2>4. t \in Nat /\ Base(m) \in Nat
    BY <1>4, <2>2
  <2>5. LanesOf(n)' = LanesOf(n)
    BY <2>2, <2>3, SentEdge
  <2> DEFINE e == <<Base(m) + k, j>>
  <2>6. e \in sram'.stale /\ j \in LanesOf(m) /\ e[1] = Base(m) + k
    BY <1>8, <2>3, <2>5
  <2>7. CASE k < t
    <3>1. e \notin sram.stale
      BY <1>1, <2>2, <2>4, <2>6, <2>7
    <3>2. p.wstate = "w_req" /\ Base(m) + k = Base(m) + t
      BY <1>2, <1>4, <2>2, <2>6, <3>1
    <3> QED
      BY <2>4, <2>7, <3>2
  <2>8. CASE ~(k < t)
    <3>1. p.wstate = "w_pipe" /\ p.req_valid /\ k = t
      BY <2>1, <2>4, <2>8
    <3>2. e = <<p.req_addr, j>>
      BY <1>4, <2>2, <3>1
    <3> QED
      BY <1>2, <1>5, <2>6, <3>1, <3>2
  <2> QED
    BY <2>7, <2>8
<1>9. sram'.stale \subseteq Int \X Lanes
  BY <1>2
<1>10. y.wstate # "w_idle" => y.aw_id \in Masters
  BY DEF WritesInv, OwnedWrite
<1>11. /\ \A e \in sram'.stale : e[1] < Base(DMAM)' =>
             /\ y.aw_id = L2M /\ e[1] = y.req_addr
             /\ y.wstate = "w_req" \/ (y.wstate = "w_pipe" /\ y.req_valid)
       /\ y.req_write /\ y.wstate # "w_req" => DrivesOwn(slv["sram"])'
  BY <1>6, <1>7 DEF Base, DrivesOwn
<1>12. y.wstate # "w_idle" =>
         \A k \in 0 .. taken'["sram"] - 1 : \A j \in LanesOf(slv["sram"].aw_id)' :
           (<<Base(slv["sram"].aw_id) + k, j>> \notin sram.stale)'
  <2> SUFFICES ASSUME y.wstate # "w_idle", NEW k \in 0 .. taken'["sram"] - 1,
                      NEW j \in LanesOf(slv["sram"].aw_id)'
               PROVE  (<<Base(slv["sram"].aw_id) + k, j>> \notin sram.stale)'
    OBVIOUS
  <2>1. PICK n \in Masters : n = y.aw_id
    BY <1>10
  <2>2. LanesOf(slv["sram"].aw_id)' = LanesOf(n)' /\ Base(slv["sram"].aw_id)' = Base(n)
    BY <2>1 DEF LanesOf, Base
  <2> QED
    BY <1>8, <2>1, <2>2
<1> QED
  BY <1>3, <1>9, <1>11, <1>12 DEF MemInv

\* Every step keeps the invariant of the memory.
LEMMA MemStep ==
    ASSUME WritesInv, MemInv, [Next]_vars
    PROVE  MemInv'
<1>1. WritesInv'
  BY WritesStep
<1>2. CASE Edge
  BY <1>1, <1>2, MemEdge
<1>3. CASE UNCHANGED <<slv, dma, sram, taken>>
  BY <1>3 DEF MemInv, LanesOf
<1>4. ASSUME NEW c \in DmaChoices, NEW q \in L2Choices, Drive(c, q)
      PROVE  UNCHANGED <<slv, dma, sram, taken>>
  BY <1>4 DEF Drive
<1>5. UNCHANGED vars => UNCHANGED <<slv, dma, sram, taken>>
  BY DEF vars
<1> QED
  BY <1>2, <1>3, <1>4, <1>5 DEF Next

\* When a write to the SRAM is answered, every word it strobes is in the memory, although the
\* write enable is req_write alone and the memory first writes the data of the beat before to
\* each new address; a line of the L2 cache is whole whenever no write to it is under way
\* (axi_sram.h i_wena, axi_slv State_w_req).
THEOREM WritesReachMemory == Spec => []WritesInMemory
<1>1. WritesInv /\ MemInv => WritesInMemory
  <2> SUFFICES ASSUME WritesInv, MemInv, "sram" \in Slaves
               PROVE  LET p == slv["sram"]
                          m == p.aw_id
                      IN  /\ p.b_valid => \A k \in 0 .. WriteBeats(m, "sram") - 1 :
                                \A j \in LanesOf(m) : <<Base(m) + k, j>> \notin sram.stale
                          /\ \A x \in sram.stale : x[1] < Base(DMAM) =>
                                /\ m = L2M /\ x[1] = p.req_addr
                                /\ p.wstate = "w_req" \/ (p.wstate = "w_pipe" /\ p.req_valid)
    BY DEF WritesInMemory
  <2>1. WriteSide(slv["sram"]) /\ OwnedWrite("sram")
    BY DEF WritesInv, WordsInv, PortInv
  <2>2. slv["sram"].b_valid => /\ slv["sram"].wstate # "w_idle"
                               /\ taken["sram"] = WriteBeats(slv["sram"].aw_id, "sram")
    BY <2>1 DEF WriteSide, OwnedWrite, WriteData
  <2> QED
    BY <2>2 DEF MemInv
<1>2. Init => WritesInv /\ MemInv
  BY WritesInit, MemInit
<1>3. WritesInv /\ MemInv /\ [Next]_vars => (WritesInv /\ MemInv)'
  BY WritesStep, MemStep
<1> QED
  BY <1>1, <1>2, <1>3, PTL DEF Spec

-----------------------------------------------------------------------------
(* The beats of a read in a slave port.                                    *)

\* what GoodRead allows: the content of the beat, or a refusal before the last beat
Shows(d, s, a, n) == d[1] = Held(s, a)[1] /\ (n = 8 => d[2] = Held(s, a)[2])
Refuses(d, s) == s = "pbridge" /\ d = ErrBeat
Good(d, s, a, n, last) == Shows(d, s, a, n) \/ (~last /\ Refuses(d, s))

\* The master has got g beats of a read of the beats a .. a + l from s.  The channel asks for
\* the beat it shows next, or for the one behind that when a beat is on the channel or open.
ReadData(x, s, g, l, a) ==
    /\ x.rstate = "r_wait_writing" =>
         g = 0 /\ x.ar_addr = a /\ x.ar_len = l /\ (x.ar_last <=> l = 0)
    /\ ~Resting(x) =>
         /\ x.req_addr \in a .. a + l /\ x.ar_len = a + l - x.req_addr
         /\ x.req_last <=> x.ar_len = 0
         /\ x.req_bytes = x.ar_bytes
    /\ x.rstate = "r_addr" => x.req_addr = a + g
    /\ x.rstate = "r_pipe" => x.req_addr = IF x.req_valid THEN a + g + 1 ELSE a + g
    /\ x.rstate = "r_resp_last" =>
         x.req_last /\ x.req_addr = IF x.r_valid THEN a + g + 1 ELSE a + g
    /\ x.rstate = "r_wait_accept" =>
         /\ x.req_addr = IF x.r_valid /\ (x.requested \/ x.req_valid) THEN a + g + 1 ELSE a + g
         /\ x.requested => (x.resp_last <=> x.req_last)
         /\ ~x.requested /\ ~x.req_valid => (x.r_last <=> x.req_last)
    /\ x.rstate = "r_buf" =>
         /\ x.req_addr = a + g + 1 /\ (x.r_last_buf <=> x.req_last)
         /\ Good(x.r_data_buf, s, a + g + 1, x.ar_bytes, x.r_last_buf)
    /\ x.r_valid => Good(x.r_data, s, a + g, x.ar_bytes, x.r_last)

\* the request of the read that the device has not answered
ReadOpen(x) == x.requested /\ x.rstate \in {"r_pipe", "r_resp_last", "r_wait_accept"}
OpenAddr(x) == IF x.rstate = "r_pipe" /\ x.req_valid THEN x.req_addr - 1 ELSE x.req_addr
OpenLast(x) == x.req_last /\ ~(x.rstate = "r_pipe" /\ x.req_valid)

\* The write channel leaves the registers of the read channel alone, and the request port
\* too while the read channel uses it.
WriteKeepsRead(v, u) ==
    /\ DOMAIN u = Fields
    /\ u.rstate = v.rstate /\ u.ar_addr = v.ar_addr /\ u.ar_len = v.ar_len
    /\ u.ar_bytes = v.ar_bytes /\ u.ar_last = v.ar_last /\ u.ar_id = v.ar_id
    /\ u.r_valid = v.r_valid /\ u.r_last = v.r_last /\ u.r_data = v.r_data
    /\ u.r_data_buf = v.r_data_buf /\ u.r_last_buf = v.r_last_buf
    /\ u.requested = v.requested /\ u.resp_last = v.resp_last
    /\ ~Resting(v) => /\ u.req_valid = v.req_valid /\ u.req_addr = v.req_addr
                      /\ u.req_last = v.req_last /\ u.req_bytes = v.req_bytes

\* A cycle of the write channel behind the read channel.
LEMMA WriteKeepsReadStep ==
    ASSUME NEW x, NEW i, NEW v, ReadSide(x), WriteSide(x), HoldsLast(x) => ~i.w_valid,
           ReadGoesOn(x, i, v)
    PROVE  WriteKeepsRead(v, AX!WriteChannel(x, i, v))
<1> DEFINE u == AX!WriteChannel(x, i, v)
<1> SUFFICES WriteKeepsRead(v, u)
  OBVIOUS
<1>1. DOMAIN v = Fields
  BY DEF ReadGoesOn, AfterRead
<1>2. CASE x.wstate = "w_idle"
  <2>1. u = AX!WIdle(x, i, v)
    BY <1>2 DEF AX!WriteChannel
  <2> HIDE DEF u
  <2> QED
    BY <1>1, <1>2, <2>1, WIdleStep DEF SameBut, WriteBurst, ReadGoesOn, WriteKeepsRead
<1>3. CASE x.wstate = "w_req"
  <2>1. u = AX!WReq(x, i, v)
    BY <1>3 DEF AX!WriteChannel
  <2>2. Resting(v)
    BY <1>3 DEF ReadGoesOn, InData
  <2> HIDE DEF u
  <2> QED
    BY <1>1, <2>1, <2>2, WReqStep DEF SameBut, WriteKeepsRead
<1>4. CASE x.wstate = "w_pipe"
  <2>1. u = AX!WPipe(x, i, v)
    BY <1>4 DEF AX!WriteChannel
  <2>2. x.req_last => x.req_valid /\ ~i.w_valid
    BY <1>4 DEF WriteSide, HoldsLast
  <2>3. (x.req_last /\ i.req_ready) \/ Resting(v)
    BY <1>4 DEF ReadGoesOn, InData
  <2> HIDE DEF u
  <2>4. CASE x.req_last /\ i.req_ready
    <3>1. SameBut(v, u, {"wstate", "w_ready"})
      BY <1>1, <2>1, <2>2, <2>4, WPipeStep
    <3> QED
      BY <3>1 DEF SameBut, WriteKeepsRead
  <2>5. CASE ~(x.req_last /\ i.req_ready)
    <3>1. \/ SameBut(v, u, {"w_ready"})
          \/ SameBut(v, u, {"w_ready", "req_valid", "req_addr", "req_wdata", "req_last"})
          \/ SameBut(v, u, {"wstate", "w_ready", "req_addr_buf", "req_wdata_buf",
                            "req_last_buf"})
          \/ SameBut(v, u, {"wstate", "w_ready", "req_addr"})
      BY <1>1, <2>1, <2>2, <2>5, WPipeStep
    <3> QED
      BY <2>3, <2>5, <3>1 DEF SameBut, WriteKeepsRead
  <2> QED
    BY <2>4, <2>5
<1>5. CASE x.wstate = "w_buf"
  <2>1. u = AX!WBuf(x, i, v)
    BY <1>5 DEF AX!WriteChannel
  <2>2. Resting(v)
    BY <1>5 DEF ReadGoesOn, InData
  <2> HIDE DEF u
  <2> QED
    BY <1>1, <2>1, <2>2, WBufStep DEF SameBut, WriteKeepsRead
<1>6. CASE x.wstate = "w_resp"
  <2>1. u = AX!WResp(x, i, v)
    BY <1>6 DEF AX!WriteChannel
  <2> HIDE DEF u
  <2> QED
    BY <1>1, <2>1, WRespStep DEF SameBut, WriteKeepsRead
<1>7. CASE x.wstate = "w_wait_reading"
  <2>1. u = AX!WWaitReading(x, i, v)
    BY <1>7 DEF AX!WriteChannel
  <2> HIDE DEF u
  <2> QED
    BY <1>1, <1>7, <2>1, WWaitReadingStep DEF SameBut, ReadGoesOn, WriteKeepsRead
<1>8. CASE x.wstate = "b"
  <2>1. u = AX!WB(x, i, v)
    BY <1>8 DEF AX!WriteChannel
  <2> HIDE DEF u
  <2> QED
    BY <1>1, <2>1, WBStep DEF SameBut, WriteKeepsRead
<1> QED
  BY <1>2, <1>3, <1>4, <1>5, <1>6, <1>7, <1>8 DEF WriteSide, AX!WStates

\* The count of the beats still to be asked for does not wrap while there are some.
LEMMA LenNextIs ==
    ASSUME NEW len \in 1 .. 255
    PROVE  AX!LenNext(len) = len - 1
BY DEF AX!LenNext

\* the beats got after a cycle
GotAfter(x, i, g) == IF x.r_valid /\ i.r_ready THEN g + 1 ELSE g

\* What a cycle does to a read: it ends with the last beat, and until then the beats
\* stay in order.
ReadDataGoesOn(x, i, u, s, g, l, a) ==
    /\ u.rstate = "r_idle" <=> x.r_last /\ i.r_ready
    /\ u.rstate # "r_idle" =>
         /\ u.ar_id = x.ar_id /\ u.ar_bytes = x.ar_bytes
         /\ ReadData(u, s, GotAfter(x, i, g), l, a)
    /\ ReadOpen(u) =>
         \/ /\ x.req_valid /\ i.req_ready
            /\ OpenAddr(u) = x.req_addr /\ (OpenLast(u) <=> x.req_last)
            /\ x.req_bytes = u.ar_bytes
         \/ /\ ReadOpen(x) /\ ~i.resp_valid
            /\ OpenAddr(u) = OpenAddr(x) /\ (OpenLast(u) <=> OpenLast(x))

\* The write channel does not matter for that.
LEMMA ReadDataKept ==
    ASSUME NEW x, NEW i, NEW v, NEW u, NEW s, NEW g, NEW l, NEW a, WriteKeepsRead(v, u),
           ReadDataGoesOn(x, i, v, s, g, l, a), ReadSide(v)
    PROVE  ReadDataGoesOn(x, i, u, s, g, l, a)
<1>1. CASE Resting(v)
  BY <1>1 DEF WriteKeepsRead, ReadDataGoesOn, ReadData, ReadOpen, Resting, ReadSide
<1>2. CASE ~Resting(v)
  BY <1>2 DEF WriteKeepsRead, ReadDataGoesOn, ReadData, ReadOpen, OpenAddr, OpenLast, Resting
<1> QED
  BY <1>1, <1>2

\* A cycle of a port in the middle of a read, when the device answers with what it was asked.
LEMMA ReadDataStep ==
    ASSUME NEW x, NEW i, DOMAIN x = Fields, ReadSide(x), WriteSide(x), Wires(x, i),
           HoldsLast(x) => ~i.w_valid,
           NEW s, NEW g \in Int, NEW l \in 0 .. 255, NEW a \in Int,
           x.rstate # "r_idle", ReadData(x, s, g, l, a),
           i.resp_valid /\ ReadOpen(x)
             => Good(i.resp_data, s, OpenAddr(x), x.ar_bytes, OpenLast(x))
    PROVE  ReadDataGoesOn(x, i, AX!Comb(x, i), s, g, l, a)
<1> DEFINE h == AX!Handshakes(x, i)
           v == AX!ReadChannel(x, i, h)
           u == AX!WriteChannel(x, i, v)
           gg == GotAfter(x, i, g)
<1>1. ReadGoesOn(x, i, v)
  BY ReadStep
<1>2. WriteKeepsRead(v, u)
  BY <1>1, WriteKeepsReadStep
<1>3. /\ SameBut(x, h, {"ar_ready", "aw_ready", "w_ready", "r_valid", "r_last", "b_valid",
                        "b_err", "req_valid", "requested"})
      /\ h.r_valid <=> x.r_valid /\ ~i.r_ready
      /\ h.r_last <=> x.r_last /\ ~(i.r_ready /\ x.r_valid)
      /\ h.req_valid <=> x.req_valid /\ ~i.req_ready
      /\ h.requested <=> (x.req_valid /\ i.req_ready) \/ (x.requested /\ ~i.resp_valid)
  BY HandshakesStep
<1>4. gg = IF i.r_ready THEN g + 1 ELSE g
  BY DEF GotAfter, Wires
<1>5. /\ i.r_ready => x.r_valid
      /\ i.resp_valid => x.requested
      /\ i.req_ready /\ x.requested => i.resp_valid
  BY DEF Wires, Contract
<1>6. ~Resting(x) /\ ~x.req_last => AX!LenNext(x.ar_len) = x.ar_len - 1 /\ x.ar_len \in 1 .. 255
  BY LenNextIs DEF ReadData
<1> HIDE DEF h, gg
<1>7. DOMAIN h = Fields
  BY <1>3 DEF SameBut
<1>8. ReadDataGoesOn(x, i, v, s, g, l, a)
  <2>1. CASE x.rstate = "r_addr"
    <3>1. v = AX!RAddr(x, i, h)
      BY <2>1 DEF AX!ReadChannel
    <3>2. ~x.r_valid /\ ~x.r_last /\ x.req_valid
      BY <2>1 DEF ReadSide
    <3>3. gg = g /\ ~i.r_ready
      BY <1>4, <1>5, <3>2
    <3> HIDE DEF v
    <3>4. CASE ~i.req_ready
      <4>1. SameBut(h, v, {})
        BY <1>7, <3>1, <3>4, RAddrStep
      <4> QED
        BY <1>3, <2>1, <3>2, <3>3, <3>4, <4>1
           DEF SameBut, ReadData, ReadDataGoesOn, Good, ReadOpen, Resting, gg
    <3>5. CASE i.req_ready /\ x.req_last
      <4>1. SameBut(h, v, {"rstate", "resp_last"}) /\ v.rstate = "r_resp_last"
        BY <1>7, <3>1, <3>5, RAddrStep
      <4> QED
        <5>v. /\ v.ar_id = h.ar_id /\ v.ar_bytes = h.ar_bytes /\ v.req_bytes = h.req_bytes
              /\ v.ar_len = h.ar_len /\ v.req_addr = h.req_addr /\ v.req_last = h.req_last
              /\ v.requested = h.requested /\ v.req_valid = h.req_valid
              /\ v.r_valid = h.r_valid
          BY <4>1 DEF SameBut
        <5>h. /\ h.ar_id = x.ar_id /\ h.ar_bytes = x.ar_bytes /\ h.req_bytes = x.req_bytes
               /\ h.ar_len = x.ar_len /\ h.req_addr = x.req_addr /\ h.req_last = x.req_last
          BY <1>3 DEF SameBut
        <5>1. /\ v.ar_id = x.ar_id /\ v.ar_bytes = x.ar_bytes /\ v.req_bytes = x.req_bytes
              /\ v.ar_len = x.ar_len /\ v.req_addr = x.req_addr /\ v.req_last = x.req_last
              /\ v.requested /\ ~v.req_valid /\ ~v.r_valid /\ v.rstate = "r_resp_last"
          BY <1>3, <3>2, <3>5, <4>1, <5>v, <5>h
        <5>2. ReadData(v, s, g, l, a)
          BY <2>1, <3>5, <5>1 DEF ReadData, Resting
        <5> QED
          BY <2>1, <3>2, <3>3, <3>5, <5>1, <5>2
             DEF ReadData, ReadDataGoesOn, ReadOpen, OpenAddr, OpenLast, Resting, gg
    <3>6. CASE i.req_ready /\ ~x.req_last
      <4>1. /\ SameBut(h, v, {"rstate", "ar_len", "req_valid", "req_addr", "req_last", "resp_last"})
            /\ v.rstate = "r_pipe" /\ AsksNext(x, v)
        BY <1>7, <3>1, <3>6, RAddrStep
      <4> QED
        <5>1. /\ v.ar_id = x.ar_id /\ v.ar_bytes = x.ar_bytes /\ v.req_bytes = x.req_bytes
              /\ v.ar_len = x.ar_len - 1 /\ v.req_addr = x.req_addr + 1
              /\ v.req_last <=> v.ar_len = 0
              /\ x.ar_len \in 1 .. 255
              /\ v.requested /\ v.req_valid /\ ~v.r_valid /\ v.rstate = "r_pipe"
          BY <1>3, <1>6, <2>1, <3>2, <3>3, <3>6, <4>1 DEF SameBut, AsksNext, Resting
        <5>2. ReadData(v, s, g, l, a)
          BY <2>1, <3>6, <5>1 DEF ReadData, Resting
        <5>3. OpenAddr(v) = x.req_addr /\ ~OpenLast(v)
          BY <2>1, <5>1 DEF ReadData, Resting, OpenAddr, OpenLast
        <5> QED
          BY <2>1, <3>2, <3>3, <3>6, <5>1, <5>2, <5>3
             DEF ReadData, ReadDataGoesOn, Resting, gg
    <3> QED
      BY <3>4, <3>5, <3>6
  <2>2. CASE x.rstate = "r_pipe"
    <3>1. v = AX!RPipe(x, i, h)
      BY <2>2 DEF AX!ReadChannel
    <3>2. ~x.r_valid /\ ~x.r_last /\ x.requested /\ (x.req_valid \/ ~x.req_last)
      BY <2>2 DEF ReadSide
    <3>3. gg = g /\ ~i.r_ready /\ (i.req_ready => i.resp_valid)
      BY <1>4, <1>5, <3>2
    <3> HIDE DEF v
    <3>4. CASE ~i.resp_valid
      <4>1. SameBut(h, v, {})
        BY <1>7, <3>1, <3>3, <3>4, RPipeStep
      <4> QED
        <5>1. /\ v.ar_id = x.ar_id /\ v.ar_bytes = x.ar_bytes /\ v.req_bytes = x.req_bytes
              /\ v.ar_len = x.ar_len /\ v.req_addr = x.req_addr /\ v.req_last = x.req_last
              /\ v.requested /\ ~v.r_valid /\ v.rstate = "r_pipe"
              /\ v.req_valid <=> x.req_valid
          BY <1>3, <2>2, <3>2, <3>3, <3>4, <4>1 DEF SameBut
        <5>2. ReadData(v, s, g, l, a)
          BY <2>2, <5>1 DEF ReadData, Resting
        <5> QED
          BY <2>2, <3>2, <3>3, <3>4, <5>1, <5>2
             DEF ReadDataGoesOn, ReadOpen, OpenAddr, OpenLast, gg
    <3>5. CASE i.resp_valid
      <4>1. /\ SameBut(h, v, {"rstate", "r_valid", "r_last", "r_data", "resp_last"})
            /\ v.r_valid /\ ~v.r_last /\ v.r_data = i.resp_data
            /\ i.req_ready => (v.resp_last <=> x.req_last)
            /\ \/ ~i.req_ready /\ v.rstate = "r_wait_accept"
               \/ i.req_ready /\ x.req_last /\ v.rstate = "r_resp_last"
               \/ i.req_ready /\ ~x.req_last /\ v.rstate = "r_wait_accept"
        BY <1>7, <3>1, <3>3, <3>5, RPipeStep
      <4>2. ReadOpen(x) /\ OpenAddr(x) = a + g /\ ~OpenLast(x)
        BY <2>2, <3>2 DEF ReadOpen, OpenAddr, OpenLast, ReadData
      <4>3. Good(v.r_data, s, a + g, x.ar_bytes, v.r_last)
        BY <3>5, <4>1, <4>2 DEF Good
      <4>4. CASE ~i.req_ready
        BY <1>3, <2>2, <3>2, <3>3, <3>5, <4>1, <4>3, <4>4
           DEF SameBut, ReadData, ReadDataGoesOn, Good, ReadOpen, OpenAddr, OpenLast, Resting, gg
      <4>5. CASE i.req_ready /\ x.req_last
        <5>v. /\ v.ar_id = h.ar_id /\ v.ar_bytes = h.ar_bytes /\ v.req_bytes = h.req_bytes
              /\ v.ar_len = h.ar_len /\ v.req_addr = h.req_addr /\ v.req_last = h.req_last
              /\ v.requested = h.requested /\ v.req_valid = h.req_valid
          BY <4>1 DEF SameBut
        <5>h. /\ h.ar_id = x.ar_id /\ h.ar_bytes = x.ar_bytes /\ h.req_bytes = x.req_bytes
               /\ h.ar_len = x.ar_len /\ h.req_addr = x.req_addr /\ h.req_last = x.req_last
          BY <1>3 DEF SameBut
        <5>1. /\ v.ar_id = x.ar_id /\ v.ar_bytes = x.ar_bytes /\ v.req_bytes = x.req_bytes
              /\ v.ar_len = x.ar_len /\ v.req_addr = x.req_addr /\ v.req_last = x.req_last
              /\ v.requested /\ ~v.req_valid /\ v.r_valid /\ v.rstate = "r_resp_last"
              /\ x.req_valid
          BY <1>3, <3>2, <3>5, <4>1, <4>5, <5>v, <5>h
        <5>2. ReadData(v, s, g, l, a)
          BY <2>2, <4>1, <4>3, <4>5, <5>1 DEF ReadData, Resting
        <5> QED
          BY <2>2, <3>2, <3>3, <4>5, <5>1, <5>2
             DEF ReadData, ReadDataGoesOn, OpenAddr, OpenLast, Resting, gg
      <4>6. CASE i.req_ready /\ ~x.req_last
        BY <1>3, <2>2, <3>2, <3>3, <3>5, <4>1, <4>3, <4>6
           DEF SameBut, ReadData, ReadDataGoesOn, Good, ReadOpen, OpenAddr, OpenLast, Resting, gg
      <4> QED
        BY <4>4, <4>5, <4>6
    <3> QED
      BY <3>4, <3>5
  <2>3. CASE x.rstate = "r_resp_last"
    <3>1. v = AX!RRespLast(x, i, h)
      BY <2>3 DEF AX!ReadChannel
    <3>2. x.requested /\ ~x.req_valid /\ ~x.r_last
      BY <2>3 DEF ReadSide
    <3> HIDE DEF v
    <3>3. ReadOpen(x) /\ OpenAddr(x) = x.req_addr /\ OpenLast(x)
      BY <2>3, <3>2 DEF ReadOpen, OpenAddr, OpenLast, ReadData
    <3>4. CASE ~i.resp_valid
      <4>1. SameBut(h, v, {})
        BY <1>7, <3>1, <3>4, RRespLastStep
      <4>2. CASE i.r_ready
        <5>1. /\ v.ar_id = x.ar_id /\ v.ar_bytes = x.ar_bytes /\ v.req_bytes = x.req_bytes
              /\ v.ar_len = x.ar_len /\ v.req_addr = x.req_addr /\ v.req_last = x.req_last
              /\ v.requested /\ ~v.req_valid /\ ~v.r_valid /\ v.rstate = "r_resp_last"
              /\ x.r_valid /\ gg = g + 1
          BY <1>3, <1>4, <1>5, <2>3, <3>2, <3>4, <4>1, <4>2 DEF SameBut
        <5>2. ReadData(v, s, gg, l, a)
          BY <2>3, <5>1 DEF ReadData, Resting
        <5> QED
          BY <2>3, <3>2, <3>3, <3>4, <5>1, <5>2
             DEF ReadDataGoesOn, OpenAddr, OpenLast, gg
      <4>3. CASE ~i.r_ready
        BY <1>3, <1>4, <2>3, <3>2, <3>4, <4>1, <4>3
           DEF SameBut, ReadData, ReadDataGoesOn, Good, ReadOpen, OpenAddr, OpenLast, Resting, gg
      <4> QED
        BY <4>2, <4>3
    <3>5. CASE i.resp_valid /\ x.r_valid /\ ~i.r_ready
      <4>1. /\ SameBut(h, v, {"rstate", "r_data_buf", "r_last_buf"})
            /\ v.rstate = "r_buf" /\ v.r_data_buf = i.resp_data /\ v.r_last_buf
        BY <1>7, <3>1, <3>5, RRespLastStep
      <4>2. x.req_addr = a + g + 1
        BY <2>3, <3>5 DEF ReadData
      <4>3. Good(v.r_data_buf, s, a + g + 1, x.ar_bytes, v.r_last_buf)
        BY <3>3, <3>5, <4>1, <4>2 DEF Good
      <4> QED
        BY <1>3, <1>4, <2>3, <3>2, <3>5, <4>1, <4>2, <4>3
           DEF SameBut, ReadData, ReadDataGoesOn, Good, ReadOpen, Resting, gg
    <3>6. CASE i.resp_valid /\ ~(x.r_valid /\ ~i.r_ready)
      <4>1. /\ SameBut(h, v, {"rstate", "r_valid", "r_last", "r_data"})
            /\ v.rstate = "r_wait_accept" /\ v.r_valid /\ v.r_last /\ v.r_data = i.resp_data
        BY <1>7, <3>1, <3>6, RRespLastStep
      <4>2. x.req_addr = a + gg
        BY <1>4, <1>5, <2>3, <3>6 DEF ReadData
      <4>3. Good(v.r_data, s, a + gg, x.ar_bytes, v.r_last)
        BY <3>3, <3>6, <4>1, <4>2 DEF Good
      <4>4. /\ v.ar_id = x.ar_id /\ v.ar_bytes = x.ar_bytes /\ v.req_bytes = x.req_bytes
            /\ v.ar_len = x.ar_len /\ v.req_addr = x.req_addr /\ v.req_last = x.req_last
            /\ ~v.requested /\ ~v.req_valid
        BY <1>3, <1>4, <2>3, <3>2, <3>6, <4>1 DEF SameBut
      <4>5. /\ x.req_addr \in a .. a + l /\ x.ar_len = a + l - x.req_addr
            /\ x.req_last /\ x.ar_len = 0 /\ x.req_bytes = x.ar_bytes
        BY <2>3 DEF ReadData, Resting
      <4>6. ReadData(v, s, gg, l, a)
        BY <4>1, <4>2, <4>3, <4>4, <4>5 DEF ReadData
      <4> QED
        BY <2>3, <3>2, <4>1, <4>4, <4>6 DEF ReadDataGoesOn, ReadOpen, gg
    <3> QED
      BY <3>4, <3>5, <3>6
  <2>4. CASE x.rstate = "r_buf"
    <3>1. v = AX!RBuf(x, i, h)
      BY <2>4 DEF AX!ReadChannel
    <3>2. ~x.requested /\ ~x.req_valid /\ x.r_valid /\ ~x.r_last
      BY <2>4 DEF ReadSide
    <3> HIDE DEF v
    <3>3. CASE ~i.r_ready
      <4>1. SameBut(h, v, {})
        BY <1>7, <3>1, <3>3, RBufStep
      <4> QED
        <5>1. /\ v.ar_id = x.ar_id /\ v.ar_bytes = x.ar_bytes /\ v.req_bytes = x.req_bytes
              /\ v.ar_len = x.ar_len /\ v.req_addr = x.req_addr /\ v.req_last = x.req_last
              /\ v.r_data = x.r_data /\ v.r_data_buf = x.r_data_buf
              /\ v.r_last_buf = x.r_last_buf
              /\ ~v.requested /\ ~v.req_valid /\ v.r_valid /\ ~v.r_last /\ v.rstate = "r_buf"
              /\ gg = g
          BY <1>3, <1>4, <1>5, <2>4, <3>2, <3>3, <4>1 DEF SameBut
        <5>2. Good(v.r_data, s, a + g, v.ar_bytes, v.r_last)
          BY <3>2, <5>1 DEF ReadData, Good
        <5>3. ReadData(v, s, gg, l, a)
          BY <2>4, <5>1, <5>2 DEF ReadData, Resting
        <5> QED
          BY <2>4, <3>2, <3>3, <5>1, <5>3 DEF ReadDataGoesOn, ReadOpen, gg
    <3>4. CASE i.r_ready
      <4>1. /\ SameBut(h, v, {"rstate", "r_valid", "r_last", "r_data"})
            /\ v.rstate = "r_wait_accept" /\ v.r_valid
            /\ v.r_last = x.r_last_buf /\ v.r_data = x.r_data_buf
        BY <1>7, <3>1, <3>4, RBufStep
      <4>2. gg = g + 1
        BY <1>4, <3>4
      <4>3. /\ x.req_addr = a + gg /\ (x.r_last_buf <=> x.req_last)
            /\ Good(x.r_data_buf, s, a + gg, x.ar_bytes, x.r_last_buf)
        <5>1. a + gg = a + g + 1
          BY <4>2
        <5> QED
          BY <2>4, <5>1 DEF ReadData
      <4>4. Good(v.r_data, s, a + gg, x.ar_bytes, v.r_last)
        BY <4>1, <4>3
      <4> QED
        BY <1>3, <2>4, <3>2, <3>4, <4>1, <4>3, <4>4
           DEF SameBut, ReadData, ReadDataGoesOn, Good, ReadOpen, Resting, gg
    <3> QED
      BY <3>3, <3>4
  <2>5. CASE x.rstate = "r_wait_writing"
    <3>1. v = AX!RWaitWriting(x, i, h)
      BY <2>5 DEF AX!ReadChannel
    <3>2. ~x.r_valid /\ ~x.r_last
      BY <2>5 DEF ReadSide
    <3>3. gg = g /\ ~i.r_ready
      BY <1>4, <1>5, <3>2
    <3> HIDE DEF v
    <3>4. CASE SameBut(h, v, {})
      BY <1>3, <2>5, <3>2, <3>3, <3>4
         DEF SameBut, ReadData, ReadDataGoesOn, Good, ReadOpen, Resting, gg
    <3>5. CASE /\ SameBut(h, v, {"rstate", "req_valid", "req_write", "req_addr", "req_bytes",
                                 "req_last"})
               /\ v.rstate = "r_addr" /\ v.req_valid /\ ~v.req_write
               /\ v.req_addr = x.ar_addr /\ v.req_bytes = x.ar_bytes /\ v.req_last = x.ar_last
      BY <1>3, <2>5, <3>2, <3>3, <3>5
         DEF SameBut, ReadData, ReadDataGoesOn, Good, ReadOpen, Resting, gg
    <3> QED
      BY <1>7, <3>1, <3>4, <3>5, RWaitWritingStep
  <2>6. CASE x.rstate = "r_wait_accept"
    <3> DEFINE b == AX!RAccepted(x, i, h)
    <3>1. v = AX!RWaitAccept(x, i, h)
      BY <2>6 DEF AX!ReadChannel
    <3>2. /\ x.requested => ~x.req_valid
          /\ ~x.requested => x.r_valid
          /\ x.r_last => x.r_valid /\ ~x.req_valid /\ ~x.requested
      BY <2>6 DEF ReadSide
    <3>3. x.requested => ReadOpen(x) /\ OpenAddr(x) = x.req_addr /\ (OpenLast(x) <=> x.resp_last)
      BY <2>6 DEF ReadOpen, OpenAddr, OpenLast, ReadData
    <3> HIDE DEF v
    <3>4. CASE i.r_ready
      <4>1. /\ SameBut(b, v, {"resp_last"})
            /\ v.resp_last = IF i.req_ready THEN x.req_last ELSE b.resp_last
        BY <1>7, <3>1, <3>4, RWaitAcceptStep
      <4>2. x.r_valid /\ gg = g + 1
        BY <1>4, <1>5, <3>4
      <4>3. CASE x.r_last
        <5>1. SameBut(h, b, {"rstate", "r_last"}) /\ b.rstate = "r_idle"
          BY <1>7, <4>3, RAcceptedStep
        <5> HIDE DEF b
        <5> QED
          BY <3>4, <4>1, <4>3, <5>1 DEF SameBut, ReadDataGoesOn, Good, ReadOpen
      <4>4. CASE ~x.r_last /\ i.resp_valid
        <5>1. /\ SameBut(h, b, {"r_valid", "r_last", "r_data"})
              /\ b.r_valid /\ b.r_data = i.resp_data /\ b.r_last = x.resp_last
          BY <1>7, <4>4, RAcceptedStep
        <5> HIDE DEF b
        <5>2. x.requested /\ x.req_addr = a + gg
          BY <1>5, <2>6, <4>2, <4>4 DEF ReadData
        <5>3. Good(b.r_data, s, a + gg, x.ar_bytes, b.r_last)
          BY <3>3, <4>4, <5>1, <5>2 DEF Good
        <5> QED
          <6>v. /\ v.ar_id = b.ar_id /\ v.ar_bytes = b.ar_bytes /\ v.req_bytes = b.req_bytes
                /\ v.ar_len = b.ar_len /\ v.req_addr = b.req_addr /\ v.req_last = b.req_last
                /\ v.requested = b.requested /\ v.req_valid = b.req_valid
                /\ v.r_data = b.r_data /\ v.r_last = b.r_last /\ v.r_valid = b.r_valid
                /\ v.rstate = b.rstate
            BY <4>1 DEF SameBut
          <6>b. /\ b.ar_id = h.ar_id /\ b.ar_bytes = h.ar_bytes /\ b.req_bytes = h.req_bytes
                 /\ b.ar_len = h.ar_len /\ b.req_addr = h.req_addr /\ b.req_last = h.req_last
                 /\ b.requested = h.requested /\ b.req_valid = h.req_valid
                 /\ b.rstate = h.rstate
            BY <5>1 DEF SameBut
          <6>h. /\ h.ar_id = x.ar_id /\ h.ar_bytes = x.ar_bytes /\ h.req_bytes = x.req_bytes
                  /\ h.ar_len = x.ar_len /\ h.req_addr = x.req_addr /\ h.req_last = x.req_last
                  /\ h.rstate = x.rstate
            BY <1>3 DEF SameBut
          <6>1. /\ v.ar_id = x.ar_id /\ v.ar_bytes = x.ar_bytes /\ v.req_bytes = x.req_bytes
                /\ v.ar_len = x.ar_len /\ v.req_addr = x.req_addr /\ v.req_last = x.req_last
                /\ v.r_data = b.r_data /\ v.r_last = x.resp_last
                /\ ~v.requested /\ ~v.req_valid /\ v.r_valid /\ v.rstate = "r_wait_accept"
            BY <1>3, <1>5, <2>6, <3>2, <4>1, <4>4, <5>1, <5>2, <6>v, <6>b, <6>h
          <6>2. Good(v.r_data, s, a + gg, v.ar_bytes, v.r_last)
            BY <5>1, <5>3, <6>1
          <6>3. ReadData(v, s, gg, l, a)
            BY <2>6, <5>2, <6>1, <6>2 DEF ReadData, Resting
          <6> QED
            BY <3>4, <4>4, <6>1, <6>3 DEF ReadDataGoesOn, ReadOpen, gg
      <4>5. CASE ~x.r_last /\ ~i.resp_valid /\ x.req_valid
        <5>1. /\ SameBut(h, b, {"rstate"})
              /\ \/ ~i.req_ready /\ b.rstate = "r_addr"
                 \/ i.req_ready /\ x.req_last /\ b.rstate = "r_resp_last"
                 \/ i.req_ready /\ ~x.req_last /\ b.rstate = "r_pipe"
          BY <1>7, <4>5, RAcceptedStep
        <5> HIDE DEF b
        <5>2. ~x.requested /\ x.req_addr = a + gg
          BY <2>6, <3>2, <4>2, <4>5 DEF ReadData
        <5>3. ~v.r_valid
          BY <1>3, <3>4, <4>1, <5>1 DEF SameBut
        <5>4. CASE ~i.req_ready
          BY <1>3, <2>6, <3>4, <4>1, <4>5, <5>1, <5>2, <5>3, <5>4
             DEF SameBut, ReadData, ReadDataGoesOn, Good, ReadOpen, Resting, gg
        <5>5. CASE i.req_ready
          BY <1>3, <2>6, <3>4, <4>1, <4>5, <5>1, <5>2, <5>3, <5>5
             DEF SameBut, ReadData, ReadDataGoesOn, Good, ReadOpen, OpenAddr, OpenLast, Resting, gg
        <5> QED
          BY <5>4, <5>5
      <4>6. CASE ~x.r_last /\ ~i.resp_valid /\ ~x.req_valid /\ x.requested
        <5>1. SameBut(h, b, {})
          BY <1>7, <4>6, RAcceptedStep
        <5> HIDE DEF b
        <5>2. x.req_addr = a + gg /\ ~i.req_ready
          BY <1>5, <2>6, <4>2, <4>6 DEF ReadData
        <5> QED
          BY <1>3, <2>6, <3>4, <4>1, <4>6, <5>1, <5>2
             DEF SameBut, ReadData, ReadDataGoesOn, Good, ReadOpen, OpenAddr, OpenLast, Resting, gg
      <4>7. CASE ~x.r_last /\ ~i.resp_valid /\ ~x.req_valid /\ ~x.requested
        <5>1. /\ SameBut(h, b, {"rstate", "ar_len", "req_valid", "req_addr", "req_last"})
              /\ b.rstate = "r_addr" /\ AsksNext(x, b)
          BY <1>7, <4>7, RAcceptedStep
        <5> HIDE DEF b
        <5>2. x.req_addr + 1 = a + gg /\ ~x.req_last
          BY <2>6, <4>2, <4>7 DEF ReadData
        <5> QED
          BY <1>3, <1>6, <2>6, <3>4, <4>1, <4>7, <5>1, <5>2
             DEF SameBut, AsksNext, ReadData, ReadDataGoesOn, Good, ReadOpen, Resting, gg
      <4> QED
        BY <4>3, <4>4, <4>5, <4>6, <4>7
    <3>5. CASE ~i.r_ready
      <4>1. gg = g
        BY <1>4, <3>5
      <4>2. v.resp_last = IF i.req_ready THEN x.req_last ELSE h.resp_last
        BY <1>7, <3>1, <3>5, RWaitAcceptStep
      <4>3. CASE x.r_last \/ ~i.resp_valid
        <5>1. SameBut(h, v, {"resp_last"})
          BY <1>7, <3>1, <3>5, <4>3, RWaitAcceptStep
        <5> QED
          BY <1>3, <1>5, <2>6, <3>2, <3>5, <4>1, <4>2, <4>3, <5>1
             DEF SameBut, ReadData, ReadDataGoesOn, Good, ReadOpen, OpenAddr, OpenLast, Resting, gg
      <4>4. CASE ~x.r_last /\ i.resp_valid /\ x.r_valid
        <5>1. /\ SameBut(h, v, {"rstate", "r_data_buf", "r_last_buf", "resp_last"})
              /\ v.rstate = "r_buf" /\ v.r_data_buf = i.resp_data /\ v.r_last_buf = x.resp_last
          BY <1>7, <3>1, <3>5, <4>4, RWaitAcceptStep
        <5>2. x.requested /\ x.req_addr = a + g + 1
          BY <1>5, <2>6, <4>4 DEF ReadData
        <5>3. Good(v.r_data_buf, s, a + g + 1, x.ar_bytes, v.r_last_buf)
          BY <3>3, <4>4, <5>1, <5>2 DEF Good
        <5> QED
          BY <1>3, <2>6, <3>2, <3>5, <4>1, <4>4, <5>1, <5>2, <5>3
             DEF SameBut, ReadData, ReadDataGoesOn, Good, ReadOpen, Resting, gg
      <4>5. CASE ~x.r_last /\ i.resp_valid /\ ~x.r_valid
        <5>1. /\ SameBut(h, v, {"r_valid", "r_last", "r_data", "resp_last"})
              /\ v.r_valid /\ v.r_data = i.resp_data /\ v.r_last = x.resp_last
          BY <1>7, <3>1, <3>5, <4>5, RWaitAcceptStep
        <5>2. x.requested /\ x.req_addr = a + g
          BY <1>5, <2>6, <4>5 DEF ReadData
        <5>3. Good(v.r_data, s, a + g, x.ar_bytes, v.r_last)
          BY <3>3, <4>5, <5>1, <5>2 DEF Good
        <5> QED
          BY <1>3, <2>6, <3>2, <3>5, <4>1, <4>5, <5>1, <5>2, <5>3
             DEF SameBut, ReadData, ReadDataGoesOn, Good, ReadOpen, Resting, gg
      <4> QED
        BY <4>3, <4>4, <4>5
    <3> QED
      BY <3>4, <3>5
  <2> QED
    BY <2>1, <2>2, <2>3, <2>4, <2>5, <2>6 DEF ReadSide, AX!RStates
<1>9. ReadSide(v)
  BY <1>1 DEF ReadGoesOn
<1>10. AX!Comb(x, i) = u
  BY DEF AX!Comb, h
<1> QED
  BY <1>2, <1>8, <1>9, <1>10, ReadDataKept

\* A port at rest takes a read of the beats on the bus, or stays at rest; nothing of a read is
\* open yet.
LEMMA ReadStart ==
    ASSUME NEW x, NEW i, DOMAIN x = Fields, ReadSide(x), WriteSide(x), Wires(x, i),
           HoldsLast(x) => ~i.w_valid, NEW s, x.rstate = "r_idle",
           x.ar_ready /\ i.ar_valid => i.ar_len \in 0 .. 255 /\ i.ar_addr \in Int
    PROVE  LET u == AX!Comb(x, i) IN
           /\ u.rstate # "r_idle" <=> x.ar_ready /\ i.ar_valid
           /\ u.ar_id = i.ar_id /\ u.ar_bytes = i.ar_bytes /\ u.ar_len = i.ar_len
           /\ u.rstate # "r_idle" => ReadData(u, s, 0, i.ar_len, i.ar_addr)
           /\ ~ReadOpen(u)
<1> DEFINE h == AX!Handshakes(x, i)
           v == AX!ReadChannel(x, i, h)
           u == AX!WriteChannel(x, i, v)
<1>1. AX!Comb(x, i) = u /\ v = AX!RIdle(x, i, h)
  BY DEF AX!Comb, AX!ReadChannel
<1>2. ReadGoesOn(x, i, v)
  BY ReadStep
<1>3. WriteKeepsRead(v, u)
  BY <1>2, WriteKeepsReadStep
<1>4. DOMAIN h = Fields /\ h.rstate = "r_idle" /\ (h.r_valid <=> x.r_valid /\ ~i.r_ready)
  BY HandshakesStep DEF SameBut
<1>5. ~x.r_valid
  BY DEF ReadSide
<1> HIDE DEF h
<1>6. /\ v.ar_id = i.ar_id /\ v.ar_bytes = i.ar_bytes /\ v.ar_len = i.ar_len
      /\ v.ar_addr = i.ar_addr /\ (v.ar_last <=> i.ar_len = 0) /\ ~v.r_valid
      /\ \/ ~(x.ar_ready /\ i.ar_valid) /\ v.rstate = "r_idle"
         \/ x.ar_ready /\ i.ar_valid /\ v.rstate = "r_wait_writing"
         \/ /\ x.ar_ready /\ i.ar_valid /\ v.rstate = "r_addr"
            /\ v.req_addr = i.ar_addr /\ v.req_bytes = i.ar_bytes /\ (v.req_last <=> i.ar_len = 0)
  <2> HIDE DEF v
  <2> QED
    BY <1>1, <1>4, <1>5, RIdleStep DEF SameBut, ReadBurst
<1> HIDE DEF v, u
<1>7. /\ u.rstate = v.rstate /\ u.ar_addr = v.ar_addr /\ u.ar_len = v.ar_len
      /\ u.ar_bytes = v.ar_bytes /\ u.ar_last = v.ar_last /\ u.ar_id = v.ar_id
      /\ u.r_valid = v.r_valid
      /\ v.rstate = "r_addr" => /\ u.req_addr = v.req_addr /\ u.req_last = v.req_last
                                /\ u.req_bytes = v.req_bytes
  BY <1>3 DEF WriteKeepsRead, Resting
<1>8. u.rstate # "r_idle" => ReadData(u, s, 0, i.ar_len, i.ar_addr)
  <2>1. CASE u.rstate = "r_wait_writing"
    BY <1>6, <1>7, <2>1 DEF ReadData, Resting
  <2>2. CASE u.rstate = "r_addr"
    BY <1>6, <1>7, <2>2 DEF ReadData, Resting
  <2> QED
    BY <1>6, <1>7, <2>1, <2>2
<1> QED
  BY <1>1, <1>6, <1>7, <1>8 DEF ReadOpen

\* A read address that is selected is the one on the wires of the slave.
LEMMA ReadRouted ==
    ASSUME NEW M, NEW m \in Masters, NEW s, XB!ArSelect(M, m, s)
    PROVE  /\ XB!SlaveIn(M, slv, w, s).ar_valid
           /\ XB!SlaveIn(M, slv, w, s).ar_id = m
           /\ XB!SlaveIn(M, slv, w, s).ar_addr = M[m].ar_addr
           /\ XB!SlaveIn(M, slv, w, s).ar_len = M[m].ar_len
<1>1. {k \in Masters : XB!ArSelect(M, k, s)} = {m}
  BY DEF XB!ArSelect, Masters, L2M, DMAM
<1>2. (CHOOSE k \in {m} : TRUE) = m
  OBVIOUS
<1> QED
  BY <1>1, <1>2 DEF XB!SlaveIn

-----------------------------------------------------------------------------
(* The beats of a read between the device and the master.                  *)

\* the SRAM shows the beat it was asked for
SramShows ==
    "sram" \in Slaves /\ ReadOpen(slv["sram"]) => sram.rdata = Held("sram", OpenAddr(slv["sram"]))

\* the words the peripheral has shown are in their halves
WordsShown ==
    /\ bridge.state \in {"setup", "access"} /\ bridge.half = 1 => bridge.prdata[1] = 2 * bridge.addr
    /\ bridge.state = "access" => apb.word = 2 * bridge.addr + bridge.half
    /\ apb.state = "Resp" => apb.rdata = apb.word

\* the bridge is busy with the beat it was asked for, or shows it, or refuses it
BridgeShows ==
    "pbridge" \in Slaves /\ ReadOpen(slv["pbridge"]) =>
      LET x == slv["pbridge"]
      IN  /\ bridge.state \in {"setup", "access"} =>
               bridge.addr = OpenAddr(x) /\ bridge.size = x.ar_bytes /\ OpenLast(x)
          /\ bridge.state = "out" =>
               Good(bridge.prdata, "pbridge", OpenAddr(x), x.ar_bytes, OpenLast(x))

\* A read in the port of s belongs to a master that is reading from s, the beats it has not
\* got are in order, and the port is the only one with a read of that master.
OwnedRead(s) ==
    slv[s].rstate # "r_idle" =>
      LET m == slv[s].ar_id
      IN  /\ m \in Masters /\ Reading(m, s)
          /\ ReadData(slv[s], s, Got(m), LastBeat(m), Base(m))
          /\ \A z \in Slaves : slv[z].rstate # "r_idle" /\ slv[z].ar_id = m => z = s
          /\ m = L2M /\ s = "pbridge" => LastBeat(m) = 0

\* L2SerDes has put the beats it got in their places
LineFilled ==
    l2.state = "reading" =>
      /\ l2.rmux \in 0 .. LineBeats - 1 /\ l2.req_len \in Nat
      /\ l2.rmux + l2.req_len \in {0, LineBeats - 1}
      /\ \A k \in 0 .. l2.rmux - 1 : l2.line[k][1] = Beat(k)[1]

ReadsInv ==
    /\ WritesInv /\ MemInv
    /\ \A s \in Slaves : OwnedRead(s)
    /\ LineFilled
    /\ SramShows /\ WordsShown /\ BridgeShows

\* The reset state satisfies the invariant of the reads.
LEMMA ReadsInit == Init => ReadsInv
<1> SUFFICES ASSUME Init PROVE ReadsInv
  OBVIOUS
<1>1. \A s \in Slaves : slv[s].rstate = "r_idle"
  BY DEF Init, AX!SlvReset
<1>2. l2.state = "idle"
  BY DEF Init, LM!L2Reset
<1>3. bridge.state = "Idle" /\ apb.state = "Idle"
  BY DEF Init, BR!BridgeReset, BR!ApbReset
<1> QED
  BY <1>1, <1>2, <1>3, WritesInit, MemInit
     DEF ReadsInv, OwnedRead, LineFilled, SramShows, WordsShown, BridgeShows, ReadOpen

\* The word of an access goes to its half.
LEMMA WordsShownEdge ==
    ASSUME ReadsInv, Edge
    PROVE  WordsShown'
<1>1. apb' = BR!ApbNext(bridge, apb) /\ BridgeInv /\ WordsShown
  BY EdgeIs DEF ReadsInv, WritesInv, WordsInv
<1>2. CASE bridge.state = "Idle"
  <2>1. apb'.state = "Idle"
    BY <1>1, <1>2 DEF BridgeInv, BR!ApbNext, BR!ApbTakes
  <2>2. bridge'.state \in {"Idle", "out"} \/ (bridge'.state = "setup" /\ bridge'.half = 0)
    <3>1. bridge' = bridge \/ bridge' = BR!BIdle(bridge, slv["pbridge"])
      BY <1>2, EdgeIs DEF BR!BridgeNext
    <3> QED
      BY <1>1, <1>2, <3>1 DEF BR!BIdle, BridgeInv
  <2> QED
    BY <2>1, <2>2 DEF WordsShown
<1>3. CASE bridge.state = "setup"
  <2>1. Setup /\ "pbridge" \in Slaves
    BY <1>1, <1>3 DEF BridgeInv
  <2>2. bridge' = [bridge EXCEPT !.penable = TRUE, !.state = "access"]
    BY <1>3, <2>1, EdgeIs DEF BR!BridgeNext
  <2>3. apb'.state = "Request" /\ apb'.word = 2 * bridge.addr + bridge.half
    BY <1>1, <2>1 DEF Setup, BridgeInv, BR!ApbNext, BR!ApbTakes, BR!PAddr
  <2>4. /\ bridge'.state = "access" /\ bridge'.half = bridge.half /\ bridge'.addr = bridge.addr
        /\ bridge'.prdata = bridge.prdata
    BY <1>1, <2>2 DEF BridgeInv
  <2> QED
    BY <1>1, <1>3, <2>3, <2>4 DEF WordsShown
<1>4. CASE bridge.state = "access"
  <2>1. Access /\ "pbridge" \in Slaves
    BY <1>1, <1>4 DEF BridgeInv
  <2>2. bridge' = BR!BAccess(bridge, apb)
    BY <1>4, <2>1, EdgeIs DEF BR!BridgeNext
  <2>3. CASE apb.state # "Resp"
    <3>1. bridge' = bridge
      BY <2>1, <2>2, <2>3 DEF Access, BR!BAccess
    <3>2. apb'.word = apb.word /\ (apb'.state = "Resp" => apb'.rdata = apb.word)
      BY <1>1, <2>1, <2>3 DEF Access, BridgeInv, BR!ApbNext
    <3> QED
      BY <1>1, <3>1, <3>2 DEF WordsShown
  <2>4. CASE apb.state = "Resp"
    <3>1. apb'.state = "Idle"
      BY <1>1, <2>1, <2>4 DEF Access, BR!ApbNext, BR!ApbRelease, BR!ApbReset
    <3>2. CASE bridge.size = 8 /\ bridge.half = 0
      <4>1. bridge'.state = "setup" /\ bridge'.addr = bridge.addr
            /\ bridge'.prdata = <<apb.rdata, bridge.prdata[2]>>
        BY <1>1, <2>1, <2>2, <2>4, <3>2 DEF BridgeInv, Access, BR!BAccess
      <4>2. apb.rdata = 2 * bridge.addr
        BY <1>1, <1>4, <2>4, <3>2 DEF WordsShown, BridgeInv
      <4> QED
        BY <3>1, <4>1, <4>2 DEF WordsShown
    <3>3. CASE ~(bridge.size = 8 /\ bridge.half = 0)
      <4>1. bridge'.state = "out"
        BY <1>1, <2>1, <2>2, <2>4, <3>3 DEF BridgeInv, Access, BR!BAccess
      <4> QED
        BY <3>1, <4>1 DEF WordsShown
    <3> QED
      BY <3>2, <3>3
  <2> QED
    BY <2>3, <2>4
<1>5. CASE bridge.state = "out"
  <2>1. Ended /\ "pbridge" \in Slaves
    BY <1>1, <1>5 DEF BridgeInv
  <2>2. bridge'.state = "Idle"
    BY <1>5, <2>1, EdgeIs DEF BR!BridgeNext, BR!BridgeReset
  <2>3. apb'.state = "Idle"
    BY <1>1, <2>1 DEF Ended, BridgeInv, BR!ApbNext, BR!ApbTakes
  <2> QED
    BY <2>2, <2>3 DEF WordsShown
<1> QED
  BY <1>1, <1>2, <1>3, <1>4, <1>5 DEF BridgeInv

\* A beat that a master sees on its R channel comes from the one port that reads for it.
LEMMA BeatForMaster ==
    ASSUME ReadsInv, NEW s \in Slaves, NEW m, slv[s].rstate # "r_idle", m = slv[s].ar_id
    PROVE  /\ XB!RIn(slv, m).valid <=> slv[s].r_valid
           /\ slv[s].r_valid => /\ XB!RIn(slv, m).last = slv[s].r_last
                                /\ XB!RIn(slv, m).data = slv[s].r_data
<1> DEFINE from == {z \in Slaves : slv[z].r_valid /\ slv[z].ar_id = m}
<1>1. \A z \in Slaves : slv[z].r_valid => slv[z].rstate # "r_idle"
  BY DEF ReadsInv, WritesInv, WordsInv, PortInv, ReadSide
<1>2. \A z \in from : z = s
  BY <1>1 DEF ReadsInv, OwnedRead
<1>3. CASE slv[s].r_valid
  <2>1. from = {s}
    BY <1>2, <1>3
  <2>2. XB!RIn(slv, m) = IF from = {} THEN [valid |-> FALSE, last |-> FALSE]
                         ELSE [valid |-> TRUE, last |-> slv[CHOOSE z \in from : TRUE].r_last,
                               data |-> slv[CHOOSE z \in from : TRUE].r_data]
    BY DEF XB!RIn
  <2>3. (CHOOSE z \in {s} : TRUE) = s
    OBVIOUS
  <2> HIDE DEF from
  <2>4. XB!RIn(slv, m) = [valid |-> TRUE, last |-> slv[s].r_last, data |-> slv[s].r_data]
    BY <2>1, <2>2, <2>3
  <2> QED
    BY <1>3, <2>4
<1>4. CASE ~slv[s].r_valid
  <2>1. from = {}
    BY <1>2, <1>4
  <2>2. XB!RIn(slv, m) = [valid |-> FALSE, last |-> FALSE]
    BY <2>1 DEF XB!RIn
  <2>3. ~XB!RIn(slv, m).valid
    BY <2>2
  <2> QED
    BY <1>4, <2>3
<1> QED
  BY <1>3, <1>4

\* The same the other way round.
LEMMA PortOfBeat ==
    ASSUME NEW m, XB!RIn(slv, m).valid
    PROVE  \E s \in Slaves : slv[s].r_valid /\ slv[s].ar_id = m
<1> DEFINE from == {z \in Slaves : slv[z].r_valid /\ slv[z].ar_id = m}
<1> SUFFICES ASSUME from = {} PROVE FALSE
  OBVIOUS
<1>1. XB!RIn(slv, m) = [valid |-> FALSE, last |-> FALSE]
  BY DEF XB!RIn
<1> QED
  BY <1>1

\* Beats of a burst are counted with numbers.
LEMMA BeatCounts ==
    ASSUME ReadsInv, NEW s \in Slaves, NEW m \in Masters, Reading(m, s)
    PROVE  Got(m) \in Nat /\ LastBeat(m) \in 0 .. 255 /\ Base(m) \in Int
<1>1. CASE m = L2M
  <2>1. l2.state = "reading"
    BY <1>1 DEF Reading
  <2>2. l2.rmux \in Nat /\ l2.rmux + l2.req_len \in 0 .. 255
    BY <2>1, LineAssumption DEF ReadsInv, LineFilled
  <2> QED
    BY <1>1, <2>2 DEF Got, LastBeat, Base
<1>2. CASE m = DMAM
  BY <1>2, DrivenIs DEF ReadsInv, WritesInv, DmaRegs, Got, LastBeat, Base
<1> QED
  BY <1>1, <1>2, DrivenIs

\* The last flag comes with the last beat.
LEMMA LastWithLast ==
    ASSUME NEW x, NEW s, NEW g \in Nat, NEW l \in 0 .. 255, NEW a \in Int,
           ReadSide(x), ReadData(x, s, g, l, a), x.r_valid
    PROVE  x.r_last <=> g = l
<1>1. x.rstate \in {"r_resp_last", "r_wait_accept", "r_buf"} /\ ~Resting(x)
  BY DEF ReadSide, Resting
<1>2. x.req_addr \in a .. a + l /\ x.ar_len = a + l - x.req_addr /\ (x.req_last <=> x.ar_len = 0)
  BY <1>1 DEF ReadData
<1>3. CASE x.rstate \in {"r_resp_last", "r_buf"}
  BY <1>2, <1>3 DEF ReadData, ReadSide
<1>4. CASE x.rstate = "r_wait_accept" /\ (x.requested \/ x.req_valid)
  BY <1>2, <1>4 DEF ReadData, ReadSide
<1>5. CASE x.rstate = "r_wait_accept" /\ ~(x.requested \/ x.req_valid)
  <2>1. x.req_addr = a + g /\ (x.r_last <=> x.req_last)
    BY <1>5 DEF ReadData
  <2>2. x.ar_len = 0 <=> g = l
    BY <1>2, <2>1
  <2> QED
    BY <1>2, <2>1, <2>2
<1> QED
  BY <1>1, <1>3, <1>4, <1>5

\* While the last beat of its read is not taken, a master does not start another, and counts
\* its beats.
LEMMA GotEdge ==
    ASSUME ReadsInv, Edge, NEW s \in Slaves, NEW m \in Masters,
           slv[s].rstate # "r_idle", m = slv[s].ar_id,
           ~(slv[s].r_last /\ PortIn(s).r_ready)
    PROVE  /\ ~ArTaken(m)
           /\ Reading(m, s)'
           /\ LastBeat(m)' = LastBeat(m)
           /\ Got(m)' = GotAfter(slv[s], PortIn(s), Got(m))
<1> DEFINE x == slv[s]
           i == PortIn(s)
           rin == XB!RIn(slv, m)
<1>1. Reading(m, s) /\ ReadData(x, s, Got(m), LastBeat(m), Base(m)) /\ ReadSide(x)
  BY DEF ReadsInv, OwnedRead, WritesInv, WordsInv, PortInv
<1>2. Got(m) \in Nat /\ LastBeat(m) \in 0 .. 255 /\ Base(m) \in Int
  BY <1>1, BeatCounts
<1>3. /\ rin.valid <=> x.r_valid
      /\ x.r_valid => rin.last = x.r_last
  BY BeatForMaster
<1>4. i.r_ready <=> x.r_valid /\ Driven[m].r_ready
  BY PortWires
<1>5. x.r_valid => (x.r_last <=> Got(m) = LastBeat(m))
  BY <1>1, <1>2, LastWithLast
<1>6. WritesInv
  BY DEF ReadsInv
<1>7. Got(m)' = GotAfter(x, i, Got(m)) <=> Got(m)' = IF i.r_ready THEN Got(m) + 1 ELSE Got(m)
  BY <1>4 DEF GotAfter
<1> HIDE DEF x, i, rin
<1>8. CASE m = L2M
  <2>1. l2.state = "reading" /\ l2.ser = "Read"
    BY <1>1, <1>6, <1>8 DEF Reading, WritesInv, L2Regs
  <2>2. l2.rmux \in 0 .. LineBeats - 1 /\ l2.req_len \in Nat
    BY <2>1 DEF ReadsInv, LineFilled
  <2>3. i.r_ready <=> x.r_valid
    BY <1>4, <1>8, L2Wires
  <2>4. Got(m) = l2.rmux /\ LastBeat(m) = l2.rmux + l2.req_len
    BY <1>8 DEF Got, LastBeat
  <2>5. x.r_valid => l2.req_len # 0
    BY <1>5, <2>2, <2>3, <2>4 DEF x, i
  <2>6. ~LM!NextReady(l2, XB!RIn(slv, L2M), XB!BIn(slv, L2M))
    BY <1>3, <1>8, <2>1, <2>5 DEF LM!NextReady, LM!LineDone, rin
  <2>7. ~ArTaken(L2M) /\ ~AwTaken(L2M)
    BY <2>6, TakenOffered, L2Wires, DrivenIs
  <2>8. L2GoesOn(l2, lreq, XB!RIn(slv, L2M), XB!BIn(slv, L2M), ArTaken(L2M),
                 AwTaken(L2M), WTaken(L2M), l2')
    BY <1>6, MastersGoOn
  <2>9. /\ l2'.state = "reading"
        /\ x.r_valid => l2'.req_len = l2.req_len - 1 /\ l2'.rmux = l2.rmux + 1
        /\ ~x.r_valid => l2'.req_len = l2.req_len /\ l2'.rmux = l2.rmux
    BY <1>3, <1>8, <2>1, <2>2, <2>5, <2>7, <2>8, LineAssumption DEF L2GoesOn, rin
  <2>10. /\ Reading(m, s)' <=> l2'.state = "reading"
         /\ Got(m)' = l2'.rmux /\ LastBeat(m)' = l2'.rmux + l2'.req_len
    BY <1>8 DEF Reading, Got, LastBeat
  <2> QED
    BY <1>7, <1>8, <2>2, <2>3, <2>4, <2>7, <2>9, <2>10 DEF x, i
<1>9. CASE m = DMAM
  <2>1. dma.st = "r" /\ dma.dst = s
    BY <1>1, <1>9, DrivenIs DEF Reading
  <2>2. i.r_ready <=> x.r_valid /\ in.dma.r_ready
    BY <1>4, <1>9, DmaWires
  <2>3. ~ArTaken(m)
    BY <1>9, <2>1, TakenOffered, DmaWires
  <2>4. DmaGoesOn(dma, in.dma, rin, XB!BIn(slv, DMAM), ArTaken(DMAM),
                  AwTaken(DMAM), WTaken(DMAM), dma')
    BY <1>6, <1>9, MastersGoOn DEF rin
  <2>5. /\ dma'.st = "r" /\ dma'.dst = s /\ dma'.len = dma.len
        /\ dma'.cnt = IF i.r_ready THEN dma.cnt + 1 ELSE dma.cnt
    BY <1>3, <2>1, <2>2, <2>4 DEF DmaGoesOn, x, i
  <2>6. /\ Got(m) = dma.cnt /\ LastBeat(m) = dma.len
        /\ Got(m)' = dma'.cnt /\ LastBeat(m)' = dma'.len
        /\ Reading(m, s)' <=> dma'.st = "r" /\ dma'.dst = s
    BY <1>9, DrivenIs DEF Got, LastBeat, Reading
  <2> QED
    BY <1>7, <2>3, <2>5, <2>6 DEF x, i
<1> QED
  BY <1>8, <1>9, DrivenIs

\* A read that a port accepts is new for its master as well.
LEMMA BeginEdge ==
    ASSUME ReadsInv, Edge, NEW s \in Slaves, slv[s].ar_ready, PortIn(s).ar_valid
    PROVE  \E m \in Masters : /\ PortIn(s).ar_id = m /\ PortIn(s).ar_addr = Base(m)
                              /\ ArTaken(m) /\ Driven[m].ar_valid /\ Driven[m].ar_dst = s
                              /\ PortIn(s).ar_len \in 0 .. 255
                              /\ LastBeat(m)' = PortIn(s).ar_len
                              /\ Reading(m, s)' /\ Got(m)' = 0
                              /\ m = L2M /\ s = "pbridge" => LastBeat(m)' = 0
<1>1. XB!SlaveIn(Driven, slv, w, s).ar_valid <=> \E k \in Masters : XB!ArSelect(Driven, k, s)
  BY DEF XB!SlaveIn
<1>2. PICK m \in Masters : XB!ArSelect(Driven, m, s)
  BY <1>1, PortWires
<1>3. /\ PortIn(s).ar_id = m /\ PortIn(s).ar_addr = Driven[m].ar_addr
      /\ PortIn(s).ar_len = Driven[m].ar_len
  <2>1. /\ XB!SlaveIn(Driven, slv, w, s).ar_id = m
        /\ XB!SlaveIn(Driven, slv, w, s).ar_addr = Driven[m].ar_addr
        /\ XB!SlaveIn(Driven, slv, w, s).ar_len = Driven[m].ar_len
    BY <1>2, ReadRouted
  <2> QED
    BY <2>1, PortWires
<1>4. ArTaken(m) /\ Driven[m].ar_valid /\ Driven[m].ar_dst = s
  BY <1>2 DEF ArTaken, XB!ArReady, XB!ArSelect
<1>5. WritesInv
  BY DEF ReadsInv
<1>6. CASE m = L2M
  <2>1. /\ lreq # NoReq /\ lreq.dst = s /\ Driven[m].ar_addr = lreq.addr
        /\ Driven[m].ar_len = LM!ReqLen(lreq)
    BY <1>4, <1>6, L2Wires
  <2>2. lreq \in L2Requests
    BY <1>5, <2>1 DEF WritesInv, WordsInv, Asked
  <2>3. lreq.addr = 0 /\ (lreq.line <=> s = "sram")
    BY <2>1, <2>2, L2Assumption, LinesAssumption
  <2>4. LM!ReqLen(lreq) \in 0 .. 255 /\ (s = "pbridge" => LM!ReqLen(lreq) = 0)
    BY <2>3, LineAssumption DEF LM!ReqLen
  <2>5. L2GoesOn(l2, lreq, XB!RIn(slv, L2M), XB!BIn(slv, L2M), ArTaken(L2M),
                 AwTaken(L2M), WTaken(L2M), l2')
    BY <1>5, MastersGoOn
  <2>6. l2'.state = "reading" /\ l2'.rmux = 0 /\ l2'.req_len = LM!ReqLen(lreq)
    BY <1>4, <1>6, <2>5 DEF L2GoesOn
  <2>7. Reading(L2M, s)' /\ Got(L2M)' = 0 /\ LastBeat(L2M)' = LM!ReqLen(lreq)
    BY <2>4, <2>6 DEF Reading, Got, LastBeat
  <2>8. Base(L2M) = 0
    BY DEF Base
  <2> QED
    BY <1>3, <1>4, <1>6, <2>1, <2>3, <2>4, <2>7, <2>8
<1>7. CASE m = DMAM
  <2>1. dma.st = "ar" /\ dma.dst = s /\ Driven[m].ar_addr = Base(m) /\ Driven[m].ar_len = dma.len
    BY <1>4, <1>7, DmaWires
  <2>2. DmaGoesOn(dma, in.dma, XB!RIn(slv, DMAM), XB!BIn(slv, DMAM), ArTaken(DMAM),
                  AwTaken(DMAM), WTaken(DMAM), dma')
    BY <1>5, MastersGoOn
  <2>3. /\ dma'.st = "r" /\ dma'.dst = s /\ dma'.len = dma.len /\ dma'.cnt = 0
        /\ dma.len \in 0 .. 255
    BY <1>4, <1>5, <1>7, <2>1, <2>2 DEF DmaGoesOn, WritesInv, DmaRegs
  <2>4. Reading(DMAM, s)' /\ Got(DMAM)' = 0 /\ LastBeat(DMAM)' = dma.len
    BY <2>3, DrivenIs DEF Reading, Got, LastBeat
  <2> QED
    BY <1>3, <1>4, <1>7, <2>1, <2>3, <2>4, DrivenIs
<1> QED
  BY <1>6, <1>7, DrivenIs

\* The device answers with the beat the port asked for.
LEMMA DeviceAnswers ==
    ASSUME ReadsInv, NEW s \in Slaves, PortIn(s).resp_valid, ReadOpen(slv[s])
    PROVE  Good(PortIn(s).resp_data, s, OpenAddr(slv[s]), slv[s].ar_bytes, OpenLast(slv[s]))
<1>1. s \in {"sram", "pbridge"}
  BY SlavesAssumption
<1>2. CASE s = "sram"
  <2>1. PortIn(s).resp_data = Held(s, OpenAddr(slv[s]))
    BY <1>2, PortWires DEF Device, ReadsInv, SramShows
  <2> QED
    BY <2>1 DEF Good, Shows
<1>3. CASE s = "pbridge"
  <2>1. PortIn(s).resp_data = bridge.prdata /\ bridge.pvalid
    BY <1>3, PortWires DEF Device
  <2>2. bridge.state = "out"
    BY <2>1 DEF ReadsInv, WritesInv, WordsInv, PortInv, BridgeOpen
  <2> QED
    BY <1>3, <2>1, <2>2 DEF ReadsInv, BridgeShows
<1> QED
  BY <1>1, <1>2, <1>3

\* What an edge does to the read in the port of s.
LEMMA PortReads ==
    ASSUME ReadsInv, Edge, NEW s \in Slaves
    PROVE  LET x == slv[s]
               i == PortIn(s)
               y == slv'[s]
               m == x.ar_id
           IN  /\ x.rstate # "r_idle" =>
                    ReadDataGoesOn(x, i, y, s, Got(m), LastBeat(m), Base(m))
               /\ x.rstate = "r_idle" =>
                    /\ y.rstate # "r_idle" <=> x.ar_ready /\ i.ar_valid
                    /\ y.rstate # "r_idle" =>
                         y.ar_id = i.ar_id /\ ReadData(y, s, 0, i.ar_len, i.ar_addr)
                    /\ ~ReadOpen(y)
<1> DEFINE x == slv[s]
           i == PortIn(s)
           u == AX!Comb(x, i)
           y == slv'[s]
           m == x.ar_id
<1>1. y = AX!Forget(u, s = "sram")
  BY EdgeIs
<1>2. /\ DOMAIN x = Fields /\ ReadSide(x) /\ WriteSide(x) /\ OwnedRead(s)
  BY DEF ReadsInv, WritesInv, WordsInv, PortInv
<1>3. HoldsLast(x) => ~i.w_valid
  <2>1. XB!SlaveIn(Driven, slv, w, s).w_valid <=> \E k \in Masters : XB!OnW(Driven, w, k, s)
    BY DEF XB!SlaveIn
  <2> QED
    BY <2>1, PortWires DEF ReadsInv, WritesInv, WordsInv, PortInv, LastEnds, XB!OnW
<1>4. Wires(x, i)
  BY DevicesKeepContract, PortWires DEF Wires, ReadsInv, WritesInv, WordsInv
<1>5. DOMAIN u = Fields
  <2>1. PortGoesOn(x, i, u)
    BY <1>2, <1>3, <1>4, PortStep
  <2> QED
    BY <2>1 DEF PortGoesOn
<1>6. y.rstate = u.rstate /\ (u.rstate # "r_idle" => y = u)
  <2> HIDE DEF u, y
  <2> QED
    BY <1>1, <1>5 DEF AX!Forget, Fields
<1>7. CASE x.rstate # "r_idle"
  <2>1. /\ m \in Masters /\ Reading(m, s) /\ ReadData(x, s, Got(m), LastBeat(m), Base(m))
    BY <1>2, <1>7 DEF OwnedRead
  <2>2. Got(m) \in Int /\ LastBeat(m) \in 0 .. 255 /\ Base(m) \in Int
    BY <2>1, BeatCounts
  <2> DEFINE g == Got(m)
             l == LastBeat(m)
             a == Base(m)
  <2>3. i.resp_valid /\ ReadOpen(x)
          => Good(i.resp_data, s, OpenAddr(x), x.ar_bytes, OpenLast(x))
    BY DeviceAnswers
  <2> HIDE DEF g, l, a, x, i
  <2>4. g \in Int /\ l \in 0 .. 255 /\ a \in Int /\ ReadData(x, s, g, l, a)
    BY <2>1, <2>2 DEF g, l, a
  <2>5. ReadDataGoesOn(x, i, u, s, g, l, a)
    BY <1>2, <1>3, <1>4, <1>7, <2>3, <2>4, ReadDataStep
  <2> HIDE DEF u, y
  <2>6. ReadDataGoesOn(x, i, y, s, g, l, a)
    BY <1>6, <2>5 DEF ReadDataGoesOn, ReadOpen
  <2> QED
    BY <1>7, <2>6 DEF g, l, a, x, i, y
<1>8. CASE x.rstate = "r_idle"
  <2>1. x.ar_ready /\ i.ar_valid => i.ar_len \in 0 .. 255 /\ i.ar_addr \in Int
    <3>1. i.ar_addr \in Int
      BY AddressWires DEF ReadsInv, WritesInv, WordsInv
    <3> QED
      BY <3>1, BeginEdge
  <2> HIDE DEF x, i
  <2>2. /\ u.rstate # "r_idle" <=> x.ar_ready /\ i.ar_valid
        /\ u.ar_id = i.ar_id
        /\ u.rstate # "r_idle" => ReadData(u, s, 0, i.ar_len, i.ar_addr)
        /\ ~ReadOpen(u)
    BY <1>2, <1>3, <1>4, <1>8, <2>1, ReadStart
  <2> HIDE DEF u, y
  <2>3. /\ y.rstate # "r_idle" <=> x.ar_ready /\ i.ar_valid
        /\ y.rstate # "r_idle" => y.ar_id = i.ar_id /\ ReadData(y, s, 0, i.ar_len, i.ar_addr)
        /\ ~ReadOpen(y)
    BY <1>6, <2>2 DEF ReadOpen
  <2> QED
    BY <1>8, <2>3 DEF x, i, y
<1> QED
  BY <1>7, <1>8

\* After an edge a port reads for m when m has just been accepted there, or was before and
\* has not got its last beat.
LEMMA ReadsAfter ==
    ASSUME ReadsInv, Edge, NEW s \in Slaves, slv'[s].rstate # "r_idle"
    PROVE  LET m == slv'[s].ar_id
           IN  /\ m \in Masters
               /\ \/ slv[s].rstate = "r_idle" /\ ArTaken(m) /\ Driven[m].ar_dst = s
                  \/ slv[s].rstate # "r_idle" /\ slv[s].ar_id = m /\ ~ArTaken(m)
<1>1. CASE slv[s].rstate = "r_idle"
  <2>1. slv[s].ar_ready /\ PortIn(s).ar_valid /\ slv'[s].ar_id = PortIn(s).ar_id
    BY <1>1, PortReads
  <2> QED
    BY <1>1, <2>1, BeginEdge
<1>2. CASE slv[s].rstate # "r_idle"
  <2>1. /\ slv'[s].rstate = "r_idle" <=> slv[s].r_last /\ PortIn(s).r_ready
        /\ slv'[s].ar_id = slv[s].ar_id
    BY <1>2, PortReads DEF ReadDataGoesOn
  <2>2. slv[s].ar_id \in Masters
    BY <1>2 DEF ReadsInv, OwnedRead
  <2> QED
    BY <1>2, <2>1, <2>2, GotEdge
<1> QED
  BY <1>1, <1>2

\* While the read channel uses the port the device holds what it held: the port asks for no
\* write, so that the memory does not change under the beats of a read.
LEMMA HeldKept ==
    ASSUME ReadsInv, Edge, NEW s \in Slaves, ~Resting(slv[s])
    PROVE  \A b : Held(s, b)' = Held(s, b)
<1>1. CASE s = "sram"
  <2>1. ~slv["sram"].req_write
    BY <1>1 DEF ReadsInv, WritesInv, WordsInv, PortInv, ReadSide
  <2>2. sram'.stale = sram.stale
    BY <1>1, <2>1, StaleAfter DEF ReadsInv
  <2> QED
    BY <2>2 DEF Held, Content
<1>2. CASE s # "sram"
  BY <1>2 DEF Held
<1> QED
  BY <1>1, <1>2

\* A read channel at rest has no beat of a read, and has none in the next cycle.
LEMMA RestingShows ==
    ASSUME ReadsInv, Edge, NEW s \in Slaves, Resting(slv[s])
    PROVE  LET y == slv'[s] IN ~y.r_valid /\ y.rstate # "r_buf" /\ ~ReadOpen(y)
<1> DEFINE x == slv[s]
           i == PortIn(s)
           v == AX!ReadChannel(x, i, AX!Handshakes(x, i))
           u == AX!Comb(x, i)
           y == slv'[s]
<1>1. y = AX!Forget(u, s = "sram")
  BY EdgeIs
<1>2. DOMAIN x = Fields /\ ReadSide(x) /\ WriteSide(x)
  BY DEF ReadsInv, WritesInv, WordsInv, PortInv
<1>3. HoldsLast(x) => ~i.w_valid
  <2>1. XB!SlaveIn(Driven, slv, w, s).w_valid <=> \E k \in Masters : XB!OnW(Driven, w, k, s)
    BY DEF XB!SlaveIn
  <2> QED
    BY <2>1, PortWires DEF ReadsInv, WritesInv, WordsInv, PortInv, LastEnds, XB!OnW
<1>4. Wires(x, i)
  BY DevicesKeepContract, PortWires DEF Wires, ReadsInv, WritesInv, WordsInv
<1>5. u = AX!WriteChannel(x, i, v)
  BY DEF AX!Comb
<1>6. ReadGoesOn(x, i, v)
  BY <1>2, <1>4, ReadStep
<1>7. v.rstate \in {"r_idle", "r_wait_writing", "r_addr"}
  BY <1>2, <1>4, ReadKeepsWrite
<1> HIDE DEF v
<1>8. u.rstate = v.rstate /\ DOMAIN u = Fields
  BY <1>2, <1>3, <1>5, <1>6, WriteKeepsReadStep DEF WriteKeepsRead
<1> HIDE DEF u, y
<1>9. y.rstate = u.rstate
  BY <1>1, <1>8 DEF AX!Forget, Fields
<1>10. ReadSide(y)
  <2>1. WritesInv'
    BY WritesStep DEF ReadsInv, Next
  <2> QED
    BY <2>1 DEF WritesInv, WordsInv, PortInv, y
<1> QED
  BY <1>7, <1>8, <1>9, <1>10 DEF ReadSide, ReadOpen, y

\* An edge keeps the beats of every read in order.
LEMMA OwnedReadEdge ==
    ASSUME ReadsInv, Edge, NEW s \in Slaves
    PROVE  OwnedRead(s)'
<1> DEFINE x == slv[s]
           i == PortIn(s)
           y == slv'[s]
<1> SUFFICES ASSUME y.rstate # "r_idle" PROVE OwnedRead(s)'
  BY DEF OwnedRead
<1>1. PICK m \in Masters : m = y.ar_id
  BY ReadsAfter
<1>2. \A z \in Slaves : slv'[z].rstate # "r_idle" /\ slv'[z].ar_id = m => z = s
  <2> SUFFICES ASSUME NEW z \in Slaves, slv'[z].rstate # "r_idle", slv'[z].ar_id = m
               PROVE  z = s
    OBVIOUS
  <2>1. \/ x.rstate = "r_idle" /\ ArTaken(m) /\ Driven[m].ar_dst = s
        \/ x.rstate # "r_idle" /\ x.ar_id = m /\ ~ArTaken(m)
    BY <1>1, ReadsAfter
  <2>2. \/ slv[z].rstate = "r_idle" /\ ArTaken(m) /\ Driven[m].ar_dst = z
        \/ slv[z].rstate # "r_idle" /\ slv[z].ar_id = m /\ ~ArTaken(m)
    BY ReadsAfter
  <2> QED
    BY <2>1, <2>2 DEF ReadsInv, OwnedRead
<1>3. Base(m)' = Base(m)
  BY DEF Base
<1>4. /\ Reading(m, s)' /\ ReadData(y, s, Got(m)', LastBeat(m)', Base(m))
      /\ m = L2M /\ s = "pbridge" => LastBeat(m)' = 0
  <2>1. CASE x.rstate = "r_idle"
    <3>1. /\ x.ar_ready /\ i.ar_valid /\ y.ar_id = i.ar_id
          /\ ReadData(y, s, 0, i.ar_len, i.ar_addr)
      BY <2>1, PortReads
    <3>2. /\ i.ar_addr = Base(m) /\ LastBeat(m)' = i.ar_len /\ Reading(m, s)' /\ Got(m)' = 0
          /\ m = L2M /\ s = "pbridge" => LastBeat(m)' = 0
      BY <1>1, <3>1, BeginEdge
    <3> QED
      BY <3>1, <3>2
  <2>2. CASE x.rstate # "r_idle"
    <3>1. ReadDataGoesOn(x, i, y, s, Got(x.ar_id), LastBeat(x.ar_id), Base(x.ar_id))
      BY <2>2, PortReads
    <3>2. /\ x.ar_id = m /\ ~(x.r_last /\ i.r_ready)
          /\ ReadData(y, s, GotAfter(x, i, Got(m)), LastBeat(m), Base(m))
      BY <1>1, <3>1 DEF ReadDataGoesOn
    <3>3. /\ Reading(m, s)' /\ LastBeat(m)' = LastBeat(m)
          /\ Got(m)' = GotAfter(x, i, Got(m))
      BY <2>2, <3>2, GotEdge
    <3>4. m = L2M /\ s = "pbridge" => LastBeat(m) = 0
      BY <2>2, <3>2 DEF ReadsInv, OwnedRead
    <3> QED
      BY <3>2, <3>3, <3>4
  <2> QED
    BY <2>1, <2>2
<1>5. ReadData(slv[s], s, Got(m), LastBeat(m), Base(m))'
  <2>1. CASE Resting(x)
    <3>1. ~y.r_valid /\ y.rstate # "r_buf"
      BY <2>1, RestingShows
    <3> QED
      BY <1>3, <1>4, <3>1 DEF ReadData, Resting
  <2>2. CASE ~Resting(x)
    <3>1. \A b : Held(s, b)' = Held(s, b)
      BY <2>2, HeldKept
    <3> QED
      BY <1>3, <1>4, <3>1 DEF ReadData, Resting, Good, Shows, Refuses
  <2> QED
    BY <2>1, <2>2
<1> QED
  BY <1>1, <1>2, <1>4, <1>5 DEF OwnedRead

\* The SRAM shows in the next cycle what it was asked for in this one.
LEMMA SramShowsEdge ==
    ASSUME ReadsInv, Edge
    PROVE  SramShows'
<1> DEFINE x == slv["sram"]
           i == PortIn("sram")
           y == slv'["sram"]
<1> SUFFICES ASSUME "sram" \in Slaves, ReadOpen(y)
             PROVE  sram'.rdata = Content(sram'.stale, OpenAddr(y))
  BY DEF SramShows, Held
<1>1. x.rstate # "r_idle"
  BY PortReads
<1>2. ReadDataGoesOn(x, i, y, "sram", Got(x.ar_id), LastBeat(x.ar_id), Base(x.ar_id))
  BY <1>1, PortReads
<1>3. i.resp_valid <=> x.requested
  BY PortWires DEF Device, ReadsInv, WritesInv, WordsInv, PortInv, SramOpen
<1>4. x.req_valid /\ OpenAddr(y) = x.req_addr
  BY <1>2, <1>3 DEF ReadDataGoesOn, ReadOpen
<1>5. sram' = SramNext(sram, x)
  BY EdgeIs
<1>6. ~Resting(x)
  BY RestingShows
<1>7. ~x.req_write
  BY <1>6 DEF ReadsInv, WritesInv, WordsInv, PortInv, ReadSide
<1>8. sram'.rdata = Content(sram.stale, x.req_addr)
  BY <1>4, <1>5, <1>7 DEF SramNext
<1>9. sram'.stale = sram.stale
  BY <1>7, StaleAfter DEF ReadsInv
<1> QED
  BY <1>4, <1>8, <1>9

\* The bridge has both words of the beat when it shows it.
LEMMA BridgeShowsEdge ==
    ASSUME ReadsInv, Edge
    PROVE  BridgeShows'
<1> DEFINE x == slv["pbridge"]
           i == PortIn("pbridge")
           y == slv'["pbridge"]
<1> SUFFICES ASSUME "pbridge" \in Slaves, ReadOpen(y)
             PROVE  /\ bridge'.state \in {"setup", "access"} =>
                         /\ bridge'.addr = OpenAddr(y) /\ bridge'.size = y.ar_bytes
                         /\ OpenLast(y)
                    /\ bridge'.state = "out" =>
                         Good(bridge'.prdata, "pbridge", OpenAddr(y), y.ar_bytes, OpenLast(y))
  BY DEF BridgeShows, Good, Shows, Held
<1>1. x.rstate # "r_idle"
  BY PortReads
<1>2. ReadDataGoesOn(x, i, y, "pbridge", Got(x.ar_id), LastBeat(x.ar_id), Base(x.ar_id))
  BY <1>1, PortReads
<1>3. /\ i.req_ready <=> bridge.state = "Idle"
      /\ i.resp_valid <=> bridge.state = "out"
      /\ x.requested <=> bridge.state # "Idle"
      /\ BridgeInv /\ WordsShown
  BY PortWires DEF Device, ReadsInv, WritesInv, WordsInv, PortInv, BridgeOpen
<1>4. bridge' = BR!BridgeNext(bridge, x, apb)
  BY EdgeIs
<1>5. y.ar_bytes = x.ar_bytes
  BY <1>2 DEF ReadDataGoesOn, ReadOpen
<1>6. \/ /\ x.req_valid /\ bridge.state = "Idle"
         /\ OpenAddr(y) = x.req_addr /\ (OpenLast(y) <=> x.req_last)
         /\ x.req_bytes = y.ar_bytes
      \/ /\ ReadOpen(x) /\ bridge.state \in {"setup", "access"}
         /\ OpenAddr(y) = OpenAddr(x) /\ (OpenLast(y) <=> OpenLast(x))
  BY <1>2, <1>3 DEF ReadDataGoesOn, ReadOpen, BridgeInv
<1>7. CASE /\ x.req_valid /\ bridge.state = "Idle"
           /\ OpenAddr(y) = x.req_addr /\ (OpenLast(y) <=> x.req_last)
           /\ x.req_bytes = y.ar_bytes
  <2>1. bridge' = BR!BIdle(bridge, x)
    BY <1>4, <1>7 DEF BR!BridgeNext
  <2> HIDE DEF x, y
  <2>2. CASE ~x.req_last
    <3>1. bridge'.state = "out" /\ bridge'.prdata = ErrBeat
      BY <1>3, <1>7, <2>1, <2>2 DEF BR!BIdle, BridgeInv
    <3>2. Good(bridge'.prdata, "pbridge", OpenAddr(y), y.ar_bytes, OpenLast(y))
      BY <1>7, <2>2, <3>1 DEF Good, Refuses
    <3> QED
      BY <3>1, <3>2 DEF y
  <2>3. CASE x.req_last
    <3>1. bridge'.state = "setup" /\ bridge'.addr = x.req_addr /\ bridge'.size = x.req_bytes
      BY <1>3, <1>7, <2>1, <2>3 DEF BR!BIdle, BridgeInv
    <3> QED
      BY <1>7, <2>3, <3>1 DEF y
  <2> QED
    BY <2>2, <2>3
<1>8. CASE /\ ReadOpen(x) /\ bridge.state \in {"setup", "access"}
           /\ OpenAddr(y) = OpenAddr(x) /\ (OpenLast(y) <=> OpenLast(x))
  <2>1. bridge.addr = OpenAddr(y) /\ bridge.size = y.ar_bytes /\ OpenLast(y)
    BY <1>5, <1>8 DEF ReadsInv, BridgeShows
  <2>2. CASE bridge.state = "setup"
    <3>1. bridge' = [bridge EXCEPT !.penable = TRUE, !.state = "access"]
      BY <1>4, <2>2 DEF BR!BridgeNext
    <3>2. bridge'.state = "access" /\ bridge'.addr = bridge.addr /\ bridge'.size = bridge.size
      BY <1>3, <3>1 DEF BridgeInv
    <3> QED
      BY <2>1, <3>2
  <2>3. CASE bridge.state = "access"
    <3>1. bridge' = BR!BAccess(bridge, apb)
      BY <1>4, <2>3 DEF BR!BridgeNext
    <3>2. Access
      BY <1>3, <2>3 DEF BridgeInv
    <3>3. CASE apb.state # "Resp"
      <4>1. bridge' = bridge
        BY <3>1, <3>2, <3>3 DEF Access, BR!BAccess
      <4> QED
        BY <2>1, <2>3, <4>1
    <3>4. CASE apb.state = "Resp" /\ bridge.size = 8 /\ bridge.half = 0
      <4>1. bridge'.state = "setup" /\ bridge'.addr = bridge.addr /\ bridge'.size = bridge.size
        BY <1>3, <3>1, <3>2, <3>4 DEF BridgeInv, Access, BR!BAccess
      <4> QED
        BY <2>1, <4>1
    <3>5. CASE apb.state = "Resp" /\ ~(bridge.size = 8 /\ bridge.half = 0)
      <4>1. /\ bridge'.state = "out"
            /\ bridge'.prdata = IF bridge.size = 8 THEN <<bridge.prdata[1], apb.rdata>>
                                ELSE <<apb.rdata, apb.rdata>>
        BY <1>3, <3>1, <3>2, <3>5 DEF BridgeInv, Access, BR!BAccess
      <4>2. apb.rdata = 2 * bridge.addr + bridge.half /\ bridge.half \in {0, 1}
        BY <1>3, <2>3, <3>5 DEF WordsShown, BridgeInv
      <4>3. bridge.half = 1 => bridge.prdata[1] = 2 * bridge.addr
        BY <1>3, <2>3 DEF WordsShown
      <4>4. bridge.addr \in Int /\ (bridge.half = 1 => bridge.size = 8)
        BY <1>3, <3>2 DEF BridgeInv, Access
      <4>5. CASE bridge.size = 8
        <5>1. bridge'.prdata = <<2 * bridge.addr, 2 * bridge.addr + 1>>
          BY <3>5, <4>1, <4>2, <4>3, <4>5
        <5> QED
          BY <2>1, <4>1, <5>1 DEF Good, Shows, Held, Beat
      <4>6. CASE bridge.size # 8
        <5>1. bridge'.prdata[1] = 2 * bridge.addr
          BY <4>1, <4>2, <4>4, <4>6
        <5> QED
          BY <2>1, <4>1, <4>6, <5>1 DEF Good, Shows, Held, Beat
      <4> QED
        BY <4>5, <4>6
    <3> QED
      BY <3>3, <3>4, <3>5
  <2> QED
    BY <1>8, <2>2, <2>3
<1> QED
  BY <1>6, <1>7, <1>8

\* The beat L2SerDes sees is the one it waits for.
LEMMA BeatOfLine ==
    ASSUME ReadsInv, XB!RIn(slv, L2M).valid
    PROVE  /\ l2.state = "reading"
           /\ XB!RIn(slv, L2M).data[1] = Beat(l2.rmux)[1]
<1>1. PICK s \in Slaves : slv[s].r_valid /\ slv[s].ar_id = L2M
  BY PortOfBeat
<1> DEFINE x == slv[s]
<1>2. ReadSide(x) /\ x.rstate # "r_idle"
  BY <1>1 DEF ReadsInv, WritesInv, WordsInv, PortInv, ReadSide
<1>3. /\ L2M \in Masters /\ Reading(L2M, s)
      /\ ReadData(x, s, Got(L2M), LastBeat(L2M), Base(L2M))
      /\ s = "pbridge" => LastBeat(L2M) = 0
  BY <1>1, <1>2 DEF ReadsInv, OwnedRead
<1>4. l2.state = "reading"
  BY <1>3 DEF Reading
<1>5. Got(L2M) \in Nat /\ LastBeat(L2M) \in 0 .. 255 /\ Base(L2M) \in Int
  BY <1>3, BeatCounts
<1>6. x.r_last <=> Got(L2M) = LastBeat(L2M)
  BY <1>1, <1>2, <1>3, <1>5, LastWithLast
<1>7. Got(L2M) = l2.rmux /\ LastBeat(L2M) = l2.rmux + l2.req_len /\ Base(L2M) = 0
  BY DEF Got, LastBeat, Base
<1>8. l2.req_len \in Nat
  BY <1>4 DEF ReadsInv, LineFilled
<1>9. ~(~x.r_last /\ Refuses(x.r_data, s))
  BY <1>3, <1>5, <1>6, <1>7, <1>8 DEF Refuses
<1>10. Good(x.r_data, s, Base(L2M) + Got(L2M), x.ar_bytes, x.r_last)
  BY <1>1, <1>3 DEF ReadData
<1>11. x.r_data[1] = Beat(l2.rmux)[1]
  <2>1. Base(L2M) + Got(L2M) = l2.rmux
    BY <1>5, <1>7
  <2>2. Held(s, l2.rmux)[1] = Beat(l2.rmux)[1]
    <3>1. CASE s = "sram"
      <4>1. l2.rmux < Base(DMAM) /\ l2.rmux \in Nat
        BY <1>4, LineAssumption DEF ReadsInv, LineFilled, Base, DMAM, L2M
      <4>2. x.wstate # "w_req" /\ x.wstate # "w_pipe"
        BY <1>1, <1>2 DEF ReadsInv, WritesInv, WordsInv, PortInv, ReadSide, WriteSide, InData, Resting
      <4>3. <<l2.rmux, 1>> \notin sram.stale
        BY <3>1, <4>1, <4>2 DEF ReadsInv, MemInv
      <4> QED
        BY <3>1, <4>3 DEF Held, Content
    <3>2. CASE s # "sram"
      BY <3>2 DEF Held
    <3> QED
      BY <3>1, <3>2
  <2> QED
    BY <1>9, <1>10, <2>1, <2>2 DEF Good, Shows
<1>12. XB!RIn(slv, L2M).data = x.r_data
  BY <1>1, <1>2, BeatForMaster
<1> QED
  BY <1>4, <1>11, <1>12

\* L2SerDes puts the beat in its place.
LEMMA LineFilledEdge ==
    ASSUME ReadsInv, Edge
    PROVE  LineFilled'
<1> DEFINE rin == XB!RIn(slv, L2M)
<1> SUFFICES ASSUME l2'.state = "reading"
             PROVE  /\ l2'.rmux \in 0 .. LineBeats - 1 /\ l2'.req_len \in Nat
                    /\ l2'.rmux + l2'.req_len \in {0, LineBeats - 1}
                    /\ \A k \in 0 .. l2'.rmux - 1 : l2'.line[k][1] = Beat(k)[1]
  BY DEF LineFilled
<1>1. WritesInv
  BY DEF ReadsInv
<1>2. L2GoesOn(l2, lreq, rin, XB!BIn(slv, L2M), ArTaken(L2M), AwTaken(L2M), WTaken(L2M), l2')
  BY <1>1, MastersGoOn
<1>3. CASE ArTaken(L2M)
  <2>1. l2'.rmux = 0 /\ l2'.req_len = LM!ReqLen(lreq)
    BY <1>2, <1>3 DEF L2GoesOn
  <2>2. LM!ReqLen(lreq) \in {0, LineBeats - 1}
    BY DEF LM!ReqLen
  <2> QED
    BY <2>1, <2>2, LineAssumption
<1>4. CASE ~ArTaken(L2M)
  <2>1. /\ l2.state = "reading"
        /\ \/ /\ rin.valid /\ l2.req_len # 0
              /\ l2'.line = LM!Filled(l2, rin) /\ l2'.req_len = l2.req_len - 1
              /\ l2'.rmux = IF l2.rmux = LineBeats THEN l2.rmux ELSE l2.rmux + 1
           \/ l2'.line = l2.line /\ l2'.req_len = l2.req_len /\ l2'.rmux = l2.rmux
    BY <1>2, <1>4 DEF L2GoesOn
  <2>2. /\ l2.rmux \in 0 .. LineBeats - 1 /\ l2.req_len \in Nat
        /\ l2.rmux + l2.req_len \in {0, LineBeats - 1}
        /\ \A k \in 0 .. l2.rmux - 1 : l2.line[k][1] = Beat(k)[1]
    BY <2>1 DEF ReadsInv, LineFilled
  <2> HIDE DEF rin
  <2>3. CASE /\ rin.valid /\ l2.req_len # 0
             /\ l2'.line = LM!Filled(l2, rin) /\ l2'.req_len = l2.req_len - 1
             /\ l2'.rmux = IF l2.rmux = LineBeats THEN l2.rmux ELSE l2.rmux + 1
    <3>1. l2'.rmux = l2.rmux + 1 /\ l2'.rmux \in 0 .. LineBeats - 1
      BY <2>2, <2>3, LineAssumption
    <3>2. rin.data[1] = Beat(l2.rmux)[1]
      BY <2>3, BeatOfLine DEF rin
    <3>3. DOMAIN l2.line = 0 .. LineBeats - 1
      BY <1>1 DEF WritesInv, L2Regs
    <3>4. ASSUME NEW k \in 0 .. l2'.rmux - 1 PROVE l2'.line[k][1] = Beat(k)[1]
      <4>1. k \in 0 .. LineBeats - 1 /\ (k = l2.rmux \/ k \in 0 .. l2.rmux - 1)
        BY <2>2, <3>1, LineAssumption
      <4>2. l2'.line[k] = IF k = l2.rmux THEN rin.data ELSE l2.line[k]
        BY <2>3, <3>3, <4>1 DEF LM!Filled
      <4> QED
        BY <2>2, <3>2, <4>1, <4>2
    <3> QED
      BY <2>2, <2>3, <3>1, <3>4
  <2>4. CASE l2'.line = l2.line /\ l2'.req_len = l2.req_len /\ l2'.rmux = l2.rmux
    BY <2>2, <2>4
  <2> QED
    BY <2>1, <2>3, <2>4
<1> QED
  BY <1>3, <1>4

\* Every step keeps the invariant of the reads.
LEMMA ReadsStep ==
    ASSUME ReadsInv, [Next]_vars
    PROVE  ReadsInv'
<1>1. WritesInv' /\ MemInv'
  BY WritesStep, MemStep DEF ReadsInv
<1>2. CASE Edge
  BY <1>1, <1>2, OwnedReadEdge, LineFilledEdge, SramShowsEdge, WordsShownEdge, BridgeShowsEdge
     DEF ReadsInv
<1>3. ASSUME UNCHANGED <<slv, l2, dma, sram, bridge, apb>>
      PROVE  ReadsInv'
  <2>1. ASSUME NEW s \in Slaves PROVE OwnedRead(s)'
    BY <1>3 DEF ReadsInv, OwnedRead, Reading, Got, LastBeat, ReadData, Good, Shows, Held
  <2>2. LineFilled' /\ SramShows' /\ WordsShown' /\ BridgeShows'
    BY <1>3 DEF ReadsInv, LineFilled, SramShows, WordsShown, BridgeShows, Good, Shows, Held
  <2> QED
    BY <1>1, <2>1, <2>2 DEF ReadsInv
<1>4. ASSUME NEW c \in DmaChoices, NEW q \in L2Choices, Drive(c, q)
      PROVE  ReadsInv'
  BY <1>3, <1>4 DEF Drive
<1>5. CASE UNCHANGED vars
  BY <1>3, <1>5 DEF vars
<1> QED
  BY <1>2, <1>4, <1>5 DEF Next

\* Every beat on the R channel is the next beat of the burst of the master it is meant for,
\* and the last flag comes with the last one (axi_slv State_r_pipe, State_r_wait_accept,
\* State_r_buf; gencpu64_axi2apb_bus1; L2SerDes).
THEOREM ReadsComplete == Spec => []ReadBeatsInOrder
<1>1. ReadsInv => ReadBeatsInOrder
  <2> SUFFICES ASSUME ReadsInv, NEW s \in Slaves, slv[s].r_valid
               PROVE  LET m == slv[s].ar_id
                      IN  /\ Reading(m, s)
                          /\ GoodRead(slv[s].r_data, s, Base(m) + Got(m), slv[s].ar_bytes,
                                      slv[s].r_last)
                          /\ slv[s].r_last <=> Got(m) = LastBeat(m)
    BY DEF ReadBeatsInOrder
  <2> DEFINE x == slv[s]
             m == x.ar_id
  <2>1. ReadSide(x) /\ x.rstate # "r_idle"
    BY DEF ReadsInv, WritesInv, WordsInv, PortInv, ReadSide
  <2>2. m \in Masters /\ Reading(m, s) /\ ReadData(x, s, Got(m), LastBeat(m), Base(m))
    BY <2>1 DEF ReadsInv, OwnedRead
  <2>3. Got(m) \in Nat /\ LastBeat(m) \in 0 .. 255 /\ Base(m) \in Int
    BY <2>2, BeatCounts
  <2>4. x.r_last <=> Got(m) = LastBeat(m)
    <3> DEFINE g == Got(m)
               l == LastBeat(m)
               a == Base(m)
    <3> SUFFICES x.r_last <=> g = l
      OBVIOUS
    <3>1. g \in Nat /\ l \in 0 .. 255 /\ a \in Int /\ ReadData(x, s, g, l, a) /\ x.r_valid
      BY <2>2, <2>3
    <3> HIDE DEF g, l, a, x
    <3> QED
      BY <2>1, <3>1, LastWithLast
  <2>5. Good(x.r_data, s, Base(m) + Got(m), x.ar_bytes, x.r_last)
    BY <2>2 DEF ReadData
  <2>6. GoodRead(x.r_data, s, Base(m) + Got(m), x.ar_bytes, x.r_last)
    BY <2>5 DEF Good, Shows, Refuses, GoodRead
  <2> QED
    BY <2>2, <2>4, <2>6
<1> QED
  BY <1>1, ReadsInit, ReadsStep, PTL DEF Spec

\* The line that is handed to the L2 cache holds every beat in its place (L2SerDes rmux).
THEOREM LinesWhole == Spec => []LineWhole
<1>1. ReadsInv => LineWhole
  <2> DEFINE rin == XB!RIn(slv, L2M)
  <2> SUFFICES ASSUME ReadsInv, LM!LineDone(l2, rin), NEW k \in 0 .. l2.rmux
               PROVE  LM!Filled(l2, rin)[k][1] = Beat(Base(L2M) + k)[1]
    BY DEF LineWhole
  <2>1. rin.valid
    BY DEF LM!LineDone
  <2>2. l2.state = "reading" /\ rin.data[1] = Beat(l2.rmux)[1]
    BY <2>1, BeatOfLine
  <2>3. /\ l2.rmux \in 0 .. LineBeats - 1
        /\ \A j \in 0 .. l2.rmux - 1 : l2.line[j][1] = Beat(j)[1]
    BY <2>2 DEF ReadsInv, LineFilled
  <2>4. DOMAIN l2.line = 0 .. LineBeats - 1
    BY DEF ReadsInv, WritesInv, L2Regs
  <2>5. k \in 0 .. LineBeats - 1 /\ (k = l2.rmux \/ k \in 0 .. l2.rmux - 1) /\ Base(L2M) + k = k
    BY <2>3, LineAssumption DEF Base
  <2> HIDE DEF rin
  <2>6. LM!Filled(l2, rin)[k] = IF k = l2.rmux THEN rin.data ELSE l2.line[k]
    BY <2>4, <2>5 DEF LM!Filled
  <2>7. LM!Filled(l2, rin)[k][1] = Beat(k)[1]
    BY <2>2, <2>3, <2>5, <2>6
  <2> QED
    BY <2>5, <2>7
<1> QED
  BY <1>1, ReadsInit, ReadsStep, PTL DEF Spec

-----------------------------------------------------------------------------
(* The ranges of the registers.                                            *)

\* u has the ids and the length of the bursts from v, from the bus, or one beat less
BurstKept(s, i, v, u) ==
    /\ DOMAIN u = Fields
    /\ u.ar_id \in {v.ar_id, i.ar_id} /\ u.aw_id \in {v.aw_id, i.aw_id}
    /\ u.ar_len \in {v.ar_len, i.ar_len, AX!LenNext(s.ar_len)}

\* The read channel takes a burst from the bus and counts its beats down.
LEMMA ReadBurstKept ==
    ASSUME NEW x, NEW i, NEW h, DOMAIN h = Fields, ReadSide(x), Wires(x, i)
    PROVE  BurstKept(x, i, h, AX!ReadChannel(x, i, h))
<1> DEFINE v == AX!ReadChannel(x, i, h)
<1> SUFFICES BurstKept(x, i, h, v)
  OBVIOUS
<1>1. CASE x.rstate = "r_idle"
  <2>1. v = AX!RIdle(x, i, h)
    BY <1>1 DEF AX!ReadChannel
  <2> HIDE DEF v
  <2> QED
    BY <2>1, RIdleStep DEF SameBut, ReadBurst, BurstKept
<1>2. CASE x.rstate = "r_addr"
  <2>1. v = AX!RAddr(x, i, h)
    BY <1>2 DEF AX!ReadChannel
  <2> HIDE DEF v
  <2> QED
    BY <2>1, RAddrStep DEF SameBut, AsksNext, BurstKept
<1>3. CASE x.rstate = "r_pipe"
  <2>1. v = AX!RPipe(x, i, h)
    BY <1>3 DEF AX!ReadChannel
  <2>2. ~i.r_ready /\ (i.req_ready => i.resp_valid)
    BY <1>3 DEF Wires, Contract, ReadSide
  <2> HIDE DEF v
  <2> QED
    BY <2>1, <2>2, RPipeStep DEF SameBut, BurstKept
<1>4. CASE x.rstate = "r_resp_last"
  <2>1. v = AX!RRespLast(x, i, h)
    BY <1>4 DEF AX!ReadChannel
  <2> HIDE DEF v
  <2> QED
    BY <2>1, RRespLastStep DEF SameBut, BurstKept
<1>5. CASE x.rstate = "r_wait_accept"
  <2> DEFINE b == AX!RAccepted(x, i, h)
  <2>1. v = AX!RWaitAccept(x, i, h)
    BY <1>5 DEF AX!ReadChannel
  <2>2. BurstKept(x, i, h, b)
    <3> HIDE DEF b
    <3> QED
      BY RAcceptedStep DEF SameBut, AsksNext, BurstKept, b
  <2> HIDE DEF v, b
  <2>3. CASE i.r_ready
    <3>1. SameBut(b, v, {"resp_last"})
      BY <2>1, <2>3, RWaitAcceptStep DEF b
    <3> QED
      BY <2>2, <3>1 DEF SameBut, BurstKept
  <2>4. CASE ~i.r_ready
    BY <2>1, <2>4, RWaitAcceptStep DEF SameBut, BurstKept
  <2> QED
    BY <2>3, <2>4
<1>6. CASE x.rstate = "r_buf"
  <2>1. v = AX!RBuf(x, i, h)
    BY <1>6 DEF AX!ReadChannel
  <2> HIDE DEF v
  <2> QED
    BY <2>1, RBufStep DEF SameBut, BurstKept
<1>7. CASE x.rstate = "r_wait_writing"
  <2>1. v = AX!RWaitWriting(x, i, h)
    BY <1>7 DEF AX!ReadChannel
  <2> HIDE DEF v
  <2> QED
    BY <2>1, RWaitWritingStep DEF SameBut, BurstKept
<1> QED
  BY <1>1, <1>2, <1>3, <1>4, <1>5, <1>6, <1>7 DEF ReadSide, AX!RStates

\* The write channel takes the id of its master from the bus.
LEMMA WriteIdKept ==
    ASSUME NEW x, NEW i, NEW v, DOMAIN v = Fields, WriteSide(x), HoldsLast(x) => ~i.w_valid
    PROVE  AX!WriteChannel(x, i, v).aw_id \in {v.aw_id, i.aw_id}
<1> DEFINE u == AX!WriteChannel(x, i, v)
<1> SUFFICES u.aw_id \in {v.aw_id, i.aw_id}
  OBVIOUS
<1>1. CASE x.wstate = "w_idle"
  <2>1. u = AX!WIdle(x, i, v)
    BY <1>1 DEF AX!WriteChannel
  <2> DEFINE z == [v EXCEPT !.aw_addr = i.aw_addr, !.aw_bytes = i.aw_bytes, !.aw_id = i.aw_id]
  <2>2. DOMAIN z = Fields /\ z.aw_id = i.aw_id
    BY DEF Fields
  <2>3. u = IF ~(x.aw_ready /\ i.aw_valid) THEN [z EXCEPT !.aw_ready = TRUE]
            ELSE IF x.rstate # "r_idle" THEN [z EXCEPT !.wstate = "w_wait_reading"]
            ELSE [z EXCEPT !.req_addr = i.aw_addr, !.req_bytes = i.aw_bytes,
                           !.req_write = TRUE, !.w_ready = TRUE, !.wstate = "w_req"]
    BY <2>1 DEF AX!WIdle
  <2> HIDE DEF u, z
  <2>4. u.aw_id = z.aw_id
    BY <2>2, <2>3 DEF Fields
  <2> QED
    BY <2>2, <2>4
<1>2. CASE x.wstate = "w_req"
  <2>1. u = AX!WReq(x, i, v)
    BY <1>2 DEF AX!WriteChannel
  <2> HIDE DEF u
  <2> QED
    BY <2>1, WReqStep DEF SameBut
<1>3. CASE x.wstate = "w_pipe"
  <2>1. u = AX!WPipe(x, i, v)
    BY <1>3 DEF AX!WriteChannel
  <2>2. x.req_last => x.req_valid /\ ~i.w_valid
    BY <1>3 DEF WriteSide, HoldsLast
  <2> HIDE DEF u
  <2>3. \/ SameBut(v, u, {"wstate", "w_ready"})
        \/ SameBut(v, u, {"w_ready"})
        \/ SameBut(v, u, {"w_ready", "req_valid", "req_addr", "req_wdata", "req_last"})
        \/ SameBut(v, u, {"wstate", "w_ready", "req_addr_buf", "req_wdata_buf", "req_last_buf"})
        \/ SameBut(v, u, {"wstate", "w_ready", "req_addr"})
    BY <2>1, <2>2, WPipeStep
  <2> QED
    BY <2>3 DEF SameBut
<1>4. CASE x.wstate = "w_buf"
  <2>1. u = AX!WBuf(x, i, v)
    BY <1>4 DEF AX!WriteChannel
  <2> HIDE DEF u
  <2> QED
    BY <2>1, WBufStep DEF SameBut
<1>5. CASE x.wstate = "w_resp"
  <2>1. u = AX!WResp(x, i, v)
    BY <1>5 DEF AX!WriteChannel
  <2> HIDE DEF u
  <2> QED
    BY <2>1, WRespStep DEF SameBut
<1>6. CASE x.wstate = "w_wait_reading"
  <2>1. u = AX!WWaitReading(x, i, v)
    BY <1>6 DEF AX!WriteChannel
  <2> HIDE DEF u
  <2> QED
    BY <2>1, WWaitReadingStep DEF SameBut
<1>7. CASE x.wstate = "b"
  <2>1. u = AX!WB(x, i, v)
    BY <1>7 DEF AX!WriteChannel
  <2> HIDE DEF u
  <2> QED
    BY <2>1, WBStep DEF SameBut
<1> QED
  BY <1>1, <1>2, <1>3, <1>4, <1>5, <1>6, <1>7 DEF WriteSide, AX!WStates

\* the ids of a port are those of masters, and the count of beats has eight bits
InRange(x) == x.ar_id \in Masters /\ x.aw_id \in Masters /\ x.ar_len \in 0 .. 255

\* A cycle of a port keeps the ids and the count in their ranges.
LEMMA RangeStep ==
    ASSUME NEW x, NEW i, DOMAIN x = Fields, ReadSide(x), WriteSide(x), Wires(x, i),
           HoldsLast(x) => ~i.w_valid, InRange(x),
           i.ar_id \in Masters, i.aw_id \in Masters, i.ar_len \in 0 .. 255, NEW keep
    PROVE  InRange(AX!Forget(AX!Comb(x, i), keep))
<1> DEFINE h == AX!Handshakes(x, i)
           v == AX!ReadChannel(x, i, h)
           u == AX!WriteChannel(x, i, v)
<1>1. DOMAIN h = Fields /\ h.ar_id = x.ar_id /\ h.aw_id = x.aw_id /\ h.ar_len = x.ar_len
  BY HandshakesStep DEF SameBut
<1>2. BurstKept(x, i, h, v)
  BY <1>1, ReadBurstKept
<1>3. ReadGoesOn(x, i, v)
  BY ReadStep
<1>4. WriteKeepsRead(v, u)
  BY <1>3, WriteKeepsReadStep
<1>5. u.aw_id \in {v.aw_id, i.aw_id}
  BY <1>2, WriteIdKept DEF BurstKept
<1>6. AX!Comb(x, i) = u
  BY DEF AX!Comb
<1> HIDE DEF h, v, u
<1>7. AX!LenNext(x.ar_len) \in 0 .. 255
  BY DEF AX!LenNext, InRange
<1>8. v.ar_id \in Masters /\ v.aw_id \in Masters /\ v.ar_len \in 0 .. 255
  BY <1>1, <1>2, <1>7 DEF BurstKept, InRange
<1>9. DOMAIN u = Fields /\ InRange(u)
  BY <1>4, <1>5, <1>8 DEF WriteKeepsRead, InRange
<1>10. InRange(AX!Forget(u, keep))
  BY <1>9 DEF AX!Forget, InRange, Fields
<1> QED
  BY <1>6, <1>10

\* The crossbar drives ids of masters and lengths of eight bits.
LEMMA RangeWires ==
    ASSUME WritesInv, NEW s
    PROVE  /\ PortIn(s).ar_id \in Masters /\ PortIn(s).aw_id \in Masters
           /\ PortIn(s).ar_len \in 0 .. 255
<1>1. \A m \in Masters : Driven[m].ar_valid => Driven[m].ar_len \in 0 .. 255
  <2>1. Driven[L2M].ar_valid => Driven[L2M].ar_len \in 0 .. 255
    BY L2Wires, LineAssumption DEF LM!ReqLen
  <2>2. Driven[DMAM].ar_len \in 0 .. 255
    BY DmaWires DEF WritesInv, DmaRegs
  <2> QED
    BY <2>1, <2>2, DrivenIs
<1> DEFINE ar == {m \in Masters : XB!ArSelect(Driven, m, s)}
           aw == {m \in Masters : XB!AwSelect(Driven, m, s)}
<1>2. /\ XB!SlaveIn(Driven, slv, w, s).ar_len =
           IF ar = {} THEN 0 ELSE Driven[CHOOSE m \in ar : TRUE].ar_len
      /\ XB!SlaveIn(Driven, slv, w, s).ar_id = IF ar = {} THEN 0 ELSE CHOOSE m \in ar : TRUE
      /\ XB!SlaveIn(Driven, slv, w, s).aw_id = IF aw = {} THEN 0 ELSE CHOOSE m \in aw : TRUE
  BY DEF XB!SlaveIn
<1>3. ar # {} => /\ (CHOOSE m \in ar : TRUE) \in Masters
                 /\ Driven[CHOOSE m \in ar : TRUE].ar_valid
  <2>1. ar # {} => (CHOOSE m \in ar : TRUE) \in ar
    OBVIOUS
  <2> QED
    BY <2>1 DEF XB!ArSelect
<1>4. aw # {} => (CHOOSE m \in aw : TRUE) \in Masters
  OBVIOUS
<1>5. 0 \in Masters
  BY DEF Masters, L2M
<1> HIDE DEF ar, aw
<1> QED
  BY <1>1, <1>2, <1>3, <1>4, <1>5, PortWires

\* The place of the next beat in the line stays within the line, or is just behind it.
LEMMA RmuxStep ==
    ASSUME NEW r, NEW q, NEW rin, NEW bin, NEW ar, NEW aw, NEW wr, L2Regs(r),
           r.rmux \in 0 .. LineBeats
    PROVE  LM!L2Next(r, q, rin, bin, ar, aw, wr).rmux \in 0 .. LineBeats
<1> DEFINE a == LM!SerDesBeat(r, rin, bin, wr)
           v == [a EXCEPT !.state = LM!AmbaNext(r, rin, bin, ar, aw, wr)]
           free == r.ser = "Idle" \/ LM!LineDone(r, rin) \/ LM!DataDone(r, wr)
           new == [k \in DOMAIN r.line |-> Beat(q.addr + k)]
           u == LM!L2Next(r, q, rin, bin, ar, aw, wr)
<1> SUFFICES u.rmux \in 0 .. LineBeats
  OBVIOUS
<1>1. u = IF ~free THEN v
          ELSE IF ar THEN [v EXCEPT !.ser = "Read", !.rmux = 0, !.req_len = LM!ReqLen(q)]
          ELSE IF aw THEN [v EXCEPT !.ser = "Write", !.req_len = LM!ReqLen(q), !.line = new]
          ELSE [v EXCEPT !.ser = "Idle", !.req_len = 0, !.rmux = 0, !.line = LM!L2Reset.line]
  BY DEF LM!L2Next
<1>2. /\ DOMAIN a = DOMAIN r
      /\ \/ a.rmux = IF r.rmux = LineBeats THEN r.rmux ELSE r.rmux + 1
         \/ a.rmux = r.rmux
  BY SerDesStep
<1> HIDE DEF a, free, u, new
<1>3. DOMAIN v = DOMAIN r /\ v.rmux = a.rmux
  BY <1>2 DEF L2Regs
<1>4. a.rmux \in 0 .. LineBeats
  BY <1>2, LineAssumption
<1> HIDE DEF v
<1>5. u.rmux \in {v.rmux, 0}
  BY <1>1, <1>3 DEF L2Regs
<1> QED
  BY <1>3, <1>4, <1>5, LineAssumption

\* A device takes at most the beats of the longest burst.
LEMMA TakenBounded ==
    ASSUME WritesInv, NEW s \in Slaves
    PROVE  taken[s] \in 0 .. 256
<1> DEFINE x == slv[s]
           m == x.aw_id
           k == Sent(m, s)
           n == WriteBeats(m, s)
<1>1. taken[s] \in Nat /\ OwnedWrite(s) /\ WriteSide(x)
  BY DEF WritesInv, WordsInv, PortInv
<1>2. CASE x.wstate = "w_idle"
  BY <1>1, <1>2 DEF OwnedWrite
<1>3. CASE x.wstate # "w_idle"
  <2>1. /\ m \in Masters /\ w.select[m] = s
        /\ WriteData(x, taken[s], k, n, Base(m), LanesOf(m))
    BY <1>1, <1>3 DEF OwnedWrite
  <2>2. n \in 1 .. 256
    BY LineAssumption DEF WriteBeats, WritesInv, DmaRegs
  <2>3. k \in 0 .. 256
    <3>1. CASE ~w.active[m]
      BY <2>2, <3>1 DEF Sent
    <3>2. CASE w.active[m] /\ m = L2M
      <4>1. l2.req_len \in 0 .. LineLen(s) - 1
        BY <2>1, <3>2 DEF WritesInv, LineToSend
      <4>2. n = LineLen(s)
        BY <3>2 DEF WriteBeats, LineLen, L2M, DMAM
      <4>3. k = LineLen(s) - 1 - l2.req_len
        BY <3>2, <4>2 DEF Sent
      <4>4. LineLen(s) \in 1 .. 256
        BY <2>2, <4>2
      <4>5. \A c, g \in Int : g \in 1 .. 256 /\ c \in 0 .. g - 1 => g - 1 - c \in 0 .. 256
        OBVIOUS
      <4>6. LineLen(s) \in Int /\ l2.req_len \in Int
        BY <4>1, <4>4
      <4>7. LineLen(s) - 1 - l2.req_len \in 0 .. 256
        BY <4>1, <4>4, <4>5, <4>6
      <4> QED
        BY <4>3, <4>7
    <3>3. CASE w.active[m] /\ m = DMAM
      <4>1. k = dma.cnt
        BY <3>3 DEF Sent, L2M, DMAM
      <4>2. dma.cnt \in Nat /\ dma.cnt <= dma.len /\ dma.len \in 0 .. 255
        BY <3>3 DEF WritesInv, DmaRegs
      <4> QED
        BY <4>1, <4>2
    <3> QED
      BY <2>1, <3>1, <3>2, <3>3 DEF Masters
  <2> HIDE DEF k, n
  <2> QED
    BY <1>1, <1>3, <2>1, <2>2, <2>3 DEF WriteData, WriteSide, AX!WStates
<1> QED
  BY <1>2, <1>3

TypesInv ==
    /\ ReadsInv
    /\ \A s \in Slaves : InRange(slv[s])
    /\ w.select \in [Masters -> Slaves] /\ w.active \in [Masters -> BOOLEAN]
    /\ l2.rmux \in 0 .. LineBeats
    /\ taken = [s \in Slaves |-> taken[s]]

\* The W registers of the crossbar keep their types.
LEMMA WTypes ==
    ASSUME w.select \in [Masters -> Slaves], Edge
    PROVE  w'.select \in [Masters -> Slaves] /\ w'.active \in [Masters -> BOOLEAN]
<1> DEFINE T(n) == {x \in Slaves : XB!AwSelect(Driven, n, x) /\ slv[x].aw_ready}
           E(n) == Driven[n].w_last /\ XB!WReady(Driven, slv, w, n)
           A(n) == (w.active[n] \/ T(n) # {}) /\ ~E(n)
<1>1. w' = [select |-> [n \in Masters |-> IF T(n) = {} THEN w.select[n]
                                         ELSE CHOOSE x \in T(n) : TRUE],
            active |-> [n \in Masters |-> A(n)]]
  BY EdgeIs DEF XB!WNext
<1>2. \A n \in Masters : (IF T(n) = {} THEN w.select[n] ELSE CHOOSE x \in T(n) : TRUE) \in Slaves
  OBVIOUS
<1>3. [n \in Masters |-> A(n)] \in [Masters -> BOOLEAN]
  BY Zenon
<1> HIDE DEF T, A
<1> QED
  BY <1>1, <1>2, <1>3

\* The reset state satisfies the invariant of the ranges.
LEMMA TypesInit == Init => TypesInv
<1> SUFFICES ASSUME Init PROVE TypesInv
  OBVIOUS
<1>1. \A s \in Slaves : InRange(slv[s])
  <2>1. InRange(AX!SlvReset)
    BY DEF AX!SlvReset, InRange, Masters, L2M
  <2> QED
    BY <2>1 DEF Init
<1>2. w.select \in [Masters -> Slaves] /\ w.active \in [Masters -> BOOLEAN]
  <2>1. (CHOOSE s \in Slaves : TRUE) \in Slaves
    BY SlavesAssumption
  <2> QED
    BY <2>1 DEF Init, XB!WReset
<1>3. l2.rmux \in 0 .. LineBeats
  BY LineAssumption DEF Init, LM!L2Reset
<1>4. taken = [s \in Slaves |-> taken[s]]
  BY DEF Init
<1> QED
  BY <1>1, <1>2, <1>3, <1>4, ReadsInit DEF TypesInv

\* Every step keeps the invariant of the ranges.
LEMMA TypesStep ==
    ASSUME TypesInv, [Next]_vars
    PROVE  TypesInv'
<1>1. ReadsInv'
  BY ReadsStep DEF TypesInv
<1>2. CASE Edge
  <2>1. ASSUME NEW s \in Slaves PROVE InRange(slv'[s])
    <3> DEFINE x == slv[s]
               i == PortIn(s)
    <3>1. WritesInv /\ PortInv /\ DOMAIN x = Fields /\ ReadSide(x) /\ WriteSide(x) /\ InRange(x)
      BY DEF TypesInv, ReadsInv, WritesInv, WordsInv, PortInv
    <3>2. HoldsLast(x) => ~i.w_valid
      <4>1. XB!SlaveIn(Driven, slv, w, s).w_valid <=> \E k \in Masters : XB!OnW(Driven, w, k, s)
        BY DEF XB!SlaveIn
      <4> QED
        BY <3>1, <4>1, PortWires DEF PortInv, LastEnds, XB!OnW
    <3>3. Wires(x, i)
      BY <3>1, DevicesKeepContract, PortWires DEF Wires
    <3>4. i.ar_id \in Masters /\ i.aw_id \in Masters /\ i.ar_len \in 0 .. 255
      BY <3>1, RangeWires
    <3>5. slv'[s] = AX!Forget(AX!Comb(x, i), s = "sram")
      BY <1>2, EdgeIs
    <3> HIDE DEF x, i
    <3> QED
      BY <3>1, <3>2, <3>3, <3>4, <3>5, RangeStep
  <2>2. w'.select \in [Masters -> Slaves] /\ w'.active \in [Masters -> BOOLEAN]
    BY <1>2, WTypes DEF TypesInv
  <2>3. l2'.rmux \in 0 .. LineBeats
    <3>1. l2' = LM!L2Next(l2, lreq, XB!RIn(slv, L2M), XB!BIn(slv, L2M),
                          ArTaken(L2M), AwTaken(L2M), WTaken(L2M))
      BY <1>2, EdgeIs
    <3>2. L2Regs(l2) /\ l2.rmux \in 0 .. LineBeats
      BY DEF TypesInv, ReadsInv, WritesInv
    <3> QED
      BY <3>1, <3>2, RmuxStep
  <2>4. taken' = [s \in Slaves |-> taken'[s]]
    BY <1>2, EdgeIs
  <2> QED
    BY <1>1, <2>1, <2>2, <2>3, <2>4 DEF TypesInv
<1>3. CASE UNCHANGED <<slv, w, l2, taken>>
  BY <1>1, <1>3 DEF TypesInv
<1>4. ASSUME NEW c \in DmaChoices, NEW q \in L2Choices, Drive(c, q)
      PROVE  UNCHANGED <<slv, w, l2, taken>>
  BY <1>4 DEF Drive
<1>5. UNCHANGED vars => UNCHANGED <<slv, w, l2, taken>>
  BY DEF vars
<1> QED
  BY <1>2, <1>3, <1>4, <1>5 DEF Next

\* Every register stays in its range: the states and ids of the ports, the eight bits of the
\* count of beats, the place in the line, and the number of beats of one burst (axi_slv,
\* gencpu64_axictrl_bus0, L2SerDes, gencpu64_axi2apb_bus1, apb_slv).
THEOREM RegistersInRange == Spec => []TypeOK
<1>1. TypesInv => TypeOK
  <2> SUFFICES ASSUME TypesInv PROVE TypeOK
    OBVIOUS
  <2>1. ReadsInv /\ WritesInv /\ WordsInv /\ PortInv
    BY DEF TypesInv, ReadsInv, WritesInv, WordsInv
  <2>2. \A s \in Slaves : /\ slv[s].rstate \in AX!RStates /\ slv[s].wstate \in AX!WStates
                          /\ slv[s].ar_id \in Masters /\ slv[s].aw_id \in Masters
                          /\ slv[s].ar_len \in 0 .. 255
    BY <2>1 DEF PortInv, ReadSide, WriteSide, TypesInv, InRange
  <2>3. /\ bridge.state \in {"Idle", "setup", "access", "out"}
        /\ apb.state \in {"Idle", "Request", "WaitResp", "Resp"}
    BY <2>1 DEF WordsInv, BridgeInv, Setup, Access, Ended
  <2>4. /\ l2.state \in {"idle", "reading", "writing", "wack"}
        /\ l2.ser \in {"Idle", "Read", "Write"}
        /\ dma.st \in {"idle", "ar", "r", "aw", "pause", "w", "b"}
    BY <2>1 DEF WritesInv, L2Regs, DmaRegs
  <2>5. taken \in [Slaves -> 0 .. 256]
    <3>1. taken = [s \in Slaves |-> taken[s]]
      BY DEF TypesInv
    <3> QED
      BY <2>1, <3>1, TakenBounded
  <2> QED
    BY <2>2, <2>3, <2>4, <2>5 DEF TypesInv, TypeOK
<1> QED
  BY <1>1, TypesInit, TypesStep, PTL DEF Spec
=============================================================================
