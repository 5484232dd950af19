----------------------------- MODULE SystemBus -----------------------------
(***************************************************************************)
(* Bus 0 of the SoC, two steps per clock cycle (the inputs settle, the     *)
(* edge comes): the master port of the CPU cluster (L2Master), a second    *)
(* master in the DMA slot, the crossbar (AxiCtrl), and two slaves, each    *)
(* behind its own axi_slv (AxiSlave): the SRAM, which is always ready and  *)
(* answers in the next cycle, and the APB bridge (ApbBridge), which is     *)
(* ready only when it is idle.                                             *)
(*                                                                         *)
(* The DMA slot is tied off in the SoC of this repository; the master here *)
(* is any AXI4 master with one burst in flight, as axi_dma is, that keeps  *)
(* a valid signal up until it is taken.                                    *)
(*                                                                         *)
(* Data: a beat is two words, one per lane of the bus; a lane a write does *)
(* not strobe carries NoWord.  The word at an address is that address      *)
(* (Beat), the word a master writes to it too, and the two masters use     *)
(* different addresses, so that a beat that is lost, repeated, swapped or  *)
(* handed to the wrong master shows in the data.  Of the SRAM's memory it  *)
(* is enough to know the words that hold another word than their own.      *)
(***************************************************************************)
EXTENDS Integers, Sequences

CONSTANTS Slaves,     \* the slaves on the bus
          LineBeats,  \* beats of an L2 line
          L2Requests, \* what the L2 cache may ask for
          DmaBursts   \* the bursts the DMA master may start

Lanes == {1, 2}

ASSUME SlavesAssumption == Slaves \subseteq {"sram", "pbridge"} /\ Slaves # {}
ASSUME LineAssumption == LineBeats \in 2 .. 256
ASSUME L2Assumption ==
  L2Requests \subseteq [write : BOOLEAN, dst : Slaves, line : BOOLEAN,
                        bytes : {4, 8}, addr : {0}]
ASSUME LinesAssumption ==    \* lines of the memory, words of peripherals
  \A q \in L2Requests : q.line <=> q.dst = "sram"
ASSUME DmaAssumption ==
  DmaBursts \subseteq [st : {"ar", "aw"}, dst : Slaves, len : 0 .. 255,
                       lanes : SUBSET Lanes, cnt : {0}]

VARIABLES slv,      \* registers of the two axi_slv
          w,        \* W-channel registers of the crossbar
          l2,       \* registers of L2Amba and L2SerDes
          lreq,     \* the request of the L2 cache
          dma,      \* the second master
          sram,     \* answer registers of the SRAM and its memory
          bridge, apb,
          taken,    \* history: write beats each device took of the burst
          words,    \* history: words the peripheral accessed for a request
          in        \* the wires the outside world drives in this cycle

vars == <<slv, w, l2, lreq, dma, sram, bridge, apb, taken, words, in>>

L2M == 0
DMAM == 1
Masters == {L2M, DMAM}

NoWord == -1
ErrWord == -2
StaleWord == -3
NoBeat == <<NoWord, NoWord>>
ErrBeat == <<ErrWord, ErrWord>>
NoReq == [none |-> TRUE]
NoInput == [none |-> TRUE]

\* the two words of the beat at address a
Beat(a) == <<2 * a, 2 * a + 1>>

AX == INSTANCE AxiSlave
XB == INSTANCE AxiCtrl WITH NoData <- NoBeat
BR == INSTANCE ApbBridge WITH NoBeatValue <- NoBeat, ErrBeatValue <- ErrBeat
LM == INSTANCE L2Master WITH BeatAt <- Beat

\* the first address of a master's bursts
Base(m) == IF m = L2M THEN 0 ELSE 256

----------------------------------------------------------------------------
\* The DMA master has one burst at a time.
DmaIdle == [st |-> "idle", dst |-> CHOOSE s \in Slaves : TRUE, len |-> 0,
            lanes |-> Lanes, cnt |-> 0]

\* the beat b on the W wires when only these lanes are strobed
Strobed(b, lanes) == <<IF 1 \in lanes THEN b[1] ELSE NoWord,
                       IF 2 \in lanes THEN b[2] ELSE NoWord>>

DmaOut(d, c) ==
  [ar_valid |-> d.st = "ar", ar_dst |-> d.dst,
   ar_addr |-> Base(DMAM), ar_len |-> d.len, ar_bytes |-> 8,
   aw_valid |-> d.st = "aw", aw_dst |-> d.dst,
   aw_addr |-> Base(DMAM), aw_bytes |-> 8,
   w_valid |-> d.st = "w", w_last |-> d.cnt = d.len,
   w_data |-> Strobed(Beat(Base(DMAM) + d.cnt), d.lanes),
   r_ready |-> c.r_ready, b_ready |-> c.b_ready]

\* The master starts a burst when it likes, holds a valid wire until it is
\* taken, and may pause before each beat it writes (st "pause").
DmaNext(d, c, rin, bin, ar_ready, aw_ready, w_ready) ==
  LET offer == IF c.offer THEN "w" ELSE "pause"
  IN  CASE d.st = "idle"  -> c.start
        [] d.st = "ar"    -> IF ar_ready THEN [d EXCEPT !.st = "r"] ELSE d
        [] d.st = "r"     -> IF ~(rin.valid /\ c.r_ready) THEN d
                             ELSE IF rin.last THEN DmaIdle
                             ELSE [d EXCEPT !.cnt = @ + 1]
        [] d.st = "aw"    -> IF aw_ready THEN [d EXCEPT !.st = offer] ELSE d
        [] d.st = "pause" -> [d EXCEPT !.st = offer]
        [] d.st = "w"     -> IF ~w_ready THEN d
                             ELSE IF d.cnt = d.len THEN [d EXCEPT !.st = "b"]
                             ELSE [d EXCEPT !.cnt = @ + 1, !.st = offer]
        [] d.st = "b"     -> IF bin /\ c.b_ready THEN DmaIdle ELSE d

----------------------------------------------------------------------------
\* the wires between device s and its axi_slv
Device(s) ==
  IF s = "sram"
  THEN [req_ready |-> TRUE, resp_valid |-> sram.valid,
        resp_data |-> sram.rdata]
  ELSE [req_ready |-> bridge.state = "Idle", resp_valid |-> bridge.pvalid,
        resp_data |-> bridge.prdata]

\* the wires of an axi_slv: those of the bus and those of its device
Joined(x, d) == [f \in DOMAIN x \cup DOMAIN d |->
                   IF f \in DOMAIN x THEN x[f] ELSE d[f]]

\* device s takes a request of its port in this cycle
Takes(s) == slv[s].req_valid /\ Device(s).req_ready

\* the words (address and lane) the memory of the SRAM writes in this cycle:
\* its write enable is req_write, whether the request is valid or not
SramWrites(q) ==
  IF q.req_write
  THEN {<<q.req_addr, j>> : j \in {j \in Lanes : q.req_wdata[j] # NoWord}}
  ELSE {}

\* the beat at address a of a memory whose stale words hold another word
Content(stale, a) ==
  <<IF <<a, 1>> \in stale THEN StaleWord ELSE Beat(a)[1],
    IF <<a, 2>> \in stale THEN StaleWord ELSE Beat(a)[2]>>

\* axi_sram::ff and its memory: the answer comes one cycle after the request
SramNext(m, q) ==
  [valid |-> q.req_valid,
   rdata |-> IF q.req_valid /\ ~q.req_write THEN Content(m.stale, q.req_addr)
             ELSE NoBeat,
   stale |-> {x \in m.stale \cup SramWrites(q) :
                x \in SramWrites(q) => q.req_wdata[x[2]] # Beat(x[1])[x[2]]}]

\* the histories
TakenNext(s, answered) ==
  IF answered THEN 0
  ELSE IF Takes(s) /\ slv[s].req_write THEN taken[s] + 1 ELSE taken[s]

WordsNext ==
  IF bridge.state = "out" THEN <<>>
  ELSE IF BR!ApbTakes(bridge, apb) THEN Append(words, BR!PAddr(bridge))
  ELSE words

\* what the L2 cache asks for next: nothing while a request is under way
LreqNext(ack, granted, q) ==
  IF lreq # NoReq THEN (IF granted THEN NoReq ELSE lreq)
  ELSE IF l2.state = "idle" \/ ack THEN q ELSE NoReq

----------------------------------------------------------------------------
\* The outside world settles its wires for this cycle: the choices of the
\* DMA master and the next request of the L2 cache.  Only choices that make
\* a difference are offered.
DmaChoices ==
  [start : IF dma.st = "idle" THEN {DmaIdle} \cup DmaBursts ELSE {DmaIdle},
   offer : IF dma.st \in {"aw", "w", "pause"} THEN BOOLEAN ELSE {TRUE},
   r_ready : IF XB!RIn(slv, DMAM).valid THEN BOOLEAN ELSE {TRUE},
   b_ready : IF XB!BIn(slv, DMAM) THEN BOOLEAN ELSE {TRUE}]

L2Choices == IF lreq = NoReq THEN {NoReq} \cup L2Requests ELSE {NoReq}

Drive(c, q) == /\ in = NoInput
               /\ in' = [dma |-> c, l2 |-> q]
               /\ UNCHANGED <<slv, w, l2, lreq, dma, sram, bridge, apb,
                              taken, words>>

\* The clock edge: every register takes its next value.
Edge ==
  LET rin(m) == XB!RIn(slv, m)
      bin(m) == XB!BIn(slv, m)
      M == [m \in Masters |-> IF m = L2M
              THEN LM!L2Out(l2, lreq, rin(L2M), bin(L2M))
              ELSE DmaOut(dma, in.dma)]
      arr(m) == XB!ArReady(M, slv, m)
      awr(m) == XB!AwReady(M, slv, m)
      wr(m)  == XB!WReady(M, slv, w, m)
      In(s)  == Joined(XB!SlaveIn(M, slv, w, s), Device(s))
  IN  /\ in # NoInput
      /\ in' = NoInput
      /\ dma' = DmaNext(dma, in.dma, rin(DMAM), bin(DMAM),
                        arr(DMAM), awr(DMAM), wr(DMAM))
      /\ lreq' = LreqNext(LM!RespAck(l2, rin(L2M), bin(L2M)),
                          arr(L2M) \/ awr(L2M), in.l2)
      /\ l2' = LM!L2Next(l2, lreq, rin(L2M), bin(L2M),
                         arr(L2M), awr(L2M), wr(L2M))
      /\ w' = XB!WNext(M, slv, w)
      /\ slv' = [s \in Slaves |-> AX!Forget(AX!Comb(slv[s], In(s)),
                                            s = "sram")]
      /\ sram' = IF "sram" \in Slaves THEN SramNext(sram, slv["sram"])
                ELSE sram
      /\ bridge' = IF "pbridge" \in Slaves
                   THEN BR!BridgeNext(bridge, slv["pbridge"], apb) ELSE bridge
      /\ apb' = BR!ApbNext(bridge, apb)
      /\ taken' = [s \in Slaves |->
                     TakenNext(s, slv[s].b_valid /\ In(s).b_ready)]
      /\ words' = WordsNext

----------------------------------------------------------------------------
Init == /\ slv = [s \in Slaves |-> AX!SlvReset]
        /\ w = XB!WReset
        /\ l2 = LM!L2Reset
        /\ lreq = NoReq
        /\ dma = DmaIdle
        /\ sram = [valid |-> FALSE, rdata |-> NoBeat, stale |-> {}]
        /\ bridge = BR!BridgeReset
        /\ apb = BR!ApbReset
        /\ taken = [s \in Slaves |-> 0]
        /\ words = <<>>
        /\ in = NoInput

Next == \/ \E c \in DmaChoices, q \in L2Choices : Drive(c, q)
        \/ Edge

\* The clock runs, and the DMA master does not stall for ever.  An edge is
\* the only step that takes the inputs back, and a settling the only one
\* that sets them, so both are named by what they do to the inputs alone.
TakesInputs == in # NoInput /\ in' = NoInput
SetsInputs == in = NoInput /\ \E c \in DmaChoices, q \in L2Choices :
                                in' = [dma |-> c, l2 |-> q]
StallsNothing == in = NoInput /\ \E c \in DmaChoices, q \in L2Choices :
                   /\ c.offer /\ c.r_ready /\ c.b_ready
                   /\ in' = [dma |-> c, l2 |-> q]

Fairness == WF_in(TakesInputs) /\ WF_in(SetsInputs) /\ SF_in(StallsNothing)

Spec == Init /\ [][Next]_vars /\ Fairness

----------------------------------------------------------------------------
(* Properties *)

\* The registers stay in their ranges: axi_slv, crossbar, L2SerDes, bridge.
TypeOK ==
  /\ \A s \in Slaves : /\ slv[s].rstate \in AX!RStates
                       /\ slv[s].wstate \in AX!WStates
                       /\ slv[s].ar_id \in Masters
                       /\ slv[s].aw_id \in Masters
                       /\ slv[s].ar_len \in 0 .. 255
  /\ w.select \in [Masters -> Slaves] /\ w.active \in [Masters -> BOOLEAN]
  /\ l2.state \in {"idle", "reading", "writing", "wack"}
  /\ l2.ser \in {"Idle", "Read", "Write"}
  /\ l2.rmux \in 0 .. LineBeats
  /\ dma.st \in {"idle", "ar", "r", "aw", "pause", "w", "b"}
  /\ bridge.state \in {"Idle", "setup", "access", "out"}
  /\ apb.state \in {"Idle", "Request", "WaitResp", "Resp"}
  /\ taken \in [Slaves -> 0 .. 256]

\* master m is in the data phase of a read from s, of a write to s
Reading(m, s) == IF m = L2M THEN l2.state = "reading"
                 ELSE dma.st = "r" /\ dma.dst = s
Writing(m, s) == IF m = L2M THEN l2.state \in {"writing", "wack"}
                 ELSE dma.st \in {"w", "pause", "b"} /\ dma.dst = s

\* beats of its read burst that master m has got, and the last one's number
Got(m) == IF m = L2M THEN l2.rmux ELSE dma.cnt
LastBeat(m) == IF m = L2M THEN l2.rmux + l2.req_len ELSE dma.len

\* beats of a write of master m to s
WriteBeats(m, s) == IF m = DMAM THEN dma.len + 1
                    ELSE IF s = "sram" THEN LineBeats ELSE 1

\* the lanes a write of master m strobes, and the data of its beat at a
LanesOf(m) == IF m = DMAM THEN dma.lanes ELSE Lanes
OwnData(m, a) == Strobed(Beat(a), LanesOf(m))

\* what device s holds at address a
Held(s, a) == IF s = "sram" THEN Content(sram.stale, a) ELSE Beat(a)

\* d is what a read of n bytes at address a from s may show; the bridge
\* refuses all beats of a burst but the last
GoodRead(d, s, a, n, last) ==
  \/ d[1] = Held(s, a)[1] /\ (n = 8 => d[2] = Held(s, a)[2])
  \/ s = "pbridge" /\ ~last /\ d = ErrBeat

\* Every beat a slave port shows on the R channel is the next beat of the
\* burst of the master it is meant for, and the last flag comes with the
\* last one: nothing is lost or repeated while a beat waits on the channel,
\* another in the buffer and a third is being asked for
\* (axi_slv.cpp State_r_pipe, State_r_wait_accept, State_r_buf).
ReadBeatsInOrder ==
  \A s \in Slaves : slv[s].r_valid =>
    LET m == slv[s].ar_id
    IN  /\ Reading(m, s)
        /\ GoodRead(slv[s].r_data, s, Base(m) + Got(m), slv[s].ar_bytes,
                    slv[s].r_last)
        /\ slv[s].r_last <=> Got(m) = LastBeat(m)

\* The line L2SerDes hands to the L2 cache holds every beat in its place.
LineWhole ==
  LM!LineDone(l2, XB!RIn(slv, L2M)) =>
    \A k \in 0 .. l2.rmux :
      LM!Filled(l2, XB!RIn(slv, L2M))[k][1] = Beat(Base(L2M) + k)[1]

\* A port hands its device the beats of a write in the order of their
\* addresses, each once, with its own data and for the master that owns the
\* write, and when the write is answered it has handed on them all: the beat
\* that waits in the buffer while the device is busy is neither lost nor asked
\* for twice (axi_slv.cpp State_w_pipe, State_w_buf).
WriteBeatsInOrder ==
  \A s \in Slaves :
    LET m == slv[s].aw_id
    IN  /\ Takes(s) /\ slv[s].req_write =>
             /\ Writing(m, s)
             /\ slv[s].req_addr = Base(m) + taken[s]
             /\ slv[s].req_wdata = OwnData(m, slv[s].req_addr)
        /\ slv[s].b_valid => taken[s] = WriteBeats(m, s)

\* When a write to the SRAM is answered, every word it strobes is in the
\* memory, although the memory has first written the beat before to the new
\* address while the port waited for data (axi_sram.h i_wena(w_req_write),
\* axi_slv.cpp State_w_req).  A line of the L2 cache, which strobes all its
\* words, is whole whenever no write to it is under way.
WritesInMemory ==
  "sram" \in Slaves =>
    LET p == slv["sram"]
        m == p.aw_id
    IN  /\ p.b_valid => \A k \in 0 .. WriteBeats(m, "sram") - 1 :
              \A j \in LanesOf(m) : <<Base(m) + k, j>> \notin sram.stale
        /\ \A x \in sram.stale : x[1] < Base(DMAM) =>
              /\ m = L2M /\ x[1] = p.req_addr
              /\ p.wstate = "w_req" \/ (p.wstate = "w_pipe" /\ p.req_valid)

\* The W channel carries no id: a slave port gets beats only from the master
\* whose address it accepted, and only while it waits for beats
\* (gencpu64_axictrl_bus0.cpp w_select, w_active).
OneWriter ==
  \A s \in Slaves, m \in Masters : w.active[m] /\ w.select[m] = s =>
    /\ slv[s].aw_id = m
    /\ slv[s].wstate \in {"w_wait_reading", "w_req", "w_pipe", "w_buf"}

\* The answer of a write is never taken for read data: once a device has
\* taken a read request, no write of that port still waits for its answer,
\* although the port asks for the read before the write is answered
\* (axi_slv.cpp State_r_wait_writing).
AnswersNotMixed ==
  \A s \in Slaves :
    /\ slv[s].rstate \in {"r_pipe", "r_resp_last", "r_wait_accept", "r_buf"}
         => slv[s].wstate \in {"w_idle", "w_wait_reading", "b"}
    /\ slv[s].rstate = "r_addr"
         => slv[s].wstate \in {"w_idle", "w_wait_reading", "w_resp", "b"}

\* A peripheral sees each word of a request once: an access of 8 bytes is
\* two accesses in ascending order, one of 4 bytes is one, and apb_slv does
\* not take the same access a second time while the bridge finishes the
\* first (apb_slv.cpp State_Resp).
WordsOnce ==
  /\ bridge.state = "out" /\ bridge.prdata # ErrBeat =>
       words = IF bridge.size = 8 THEN Beat(bridge.addr)
               ELSE <<2 * bridge.addr>>
  /\ bridge.state = "Idle" => apb.state = "Idle"

Stuck == \E s \in Slaves : AX!WaitForEachOther(slv[s])

\* Every request of the L2 cache is answered, unless the two channels of a
\* slave port come to wait for each other (axi_slv.cpp State_r_wait_writing
\* and State_w_wait_reading): the serialiser, the crossbar, the bridge and the
\* pauses of the other master never stop it for good.
L2Served ==
  /\ (lreq # NoReq) ~> (lreq = NoReq \/ Stuck)
  /\ (l2.state # "idle") ~> (l2.state = "idle" \/ Stuck)
=============================================================================
