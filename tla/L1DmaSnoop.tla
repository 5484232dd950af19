----------------------------- MODULE L1DmaSnoop -----------------------------
(***************************************************************************)
(* l1_dma_snoop: the bus adapter between the caches of a core and the L2   *)
(* arbiter (src/sc/rtl/internal/riverlib/l1_dma_snoop.h), coherence        *)
(* enabled.  One state machine carries the requests of the cache, another  *)
(* answers the snoops of the arbiter: it first asks the cache for the      *)
(* flags of the line (answer on channel CR) and, when the cache must give  *)
(* the line, for the data (channel CD).                                    *)
(*                                                                         *)
(* Without an instruction cache the queue of cache_top in front of the     *)
(* adapter is always empty and passes the request of the data cache        *)
(* through.  The arbiter takes the data with the address of a write, so    *)
(* state_w is never entered.  AdapterNext(a, i) is the value the registers *)
(* a take at the next edge; i has the wires of the cache d (request of     *)
(* the cache, ready and answer of its snoop port) and of the arbiter.      *)
(***************************************************************************)
EXTENDS Integers

CONSTANTS NoLine, NoData

BusStates == {"idle", "ar", "r", "aw", "b"}

SnoopStates == {"snoop_idle", "snoop_ac_wait_accept", "snoop_cr",
                "snoop_cr_wait_accept", "snoop_cd", "snoop_cd_wait_accept"}

\* l1_dma_snoop_r_reset
AdapterReset ==
  [state |-> "idle", req_addr |-> NoLine, req_snoop |-> "ReadShared",
   req_wdata |-> NoData,
   snoop_state |-> "snoop_idle", ac_addr |-> NoLine, ac_unique |-> FALSE,
   req_snoop_type |-> "FLAGS", cache_access |-> FALSE, cr_data |-> FALSE,
   resp_snoop_data |-> NoData]

\* REQ_MEM_TYPE_WRITE
IsWrite(t) == t \in {"WriteBack", "WriteLineUnique"}

----------------------------------------------------------------------------
\* a new snoop is taken
TakesSnoop(a, ac) == a.snoop_state = "snoop_idle" /\ ac.valid

\* the snoop request to the cache
SnoopReq(a, ac) ==
  IF TakesSnoop(a, ac)
  THEN [valid |-> TRUE, type |-> "FLAGS", addr |-> ac.addr]
  ELSE IF a.snoop_state = "snoop_ac_wait_accept"
  THEN [valid |-> TRUE, type |-> a.req_snoop_type, addr |-> a.ac_addr]
  ELSE [valid |-> FALSE, type |-> "FLAGS", addr |-> NoLine]

\* the flags say that the cache must give the data of the line
MustGive(a, flags) ==
  "VALID" \in flags /\ ("SHARED" \notin flags \/ a.ac_unique)

\* ac_ready is always up: with v_snoop_next_ready in snoop_idle, and from the
\* last "else" in every other state
AcReady(a, ac) == TRUE

\* cr_valid: the last "else" raises it in every cycle that takes no snoop
CrValid(a, ac) == ~TakesSnoop(a, ac)

\* cr_resp[0], "will be Data transfer"
CrData(a, i) ==
  \/ a.snoop_state = "snoop_cr" /\ i.resp_valid /\ MustGive(a, i.resp_flags)
  \/ a.snoop_state = "snoop_cr_wait_accept" /\ a.cr_data

CdValid(a, i) == \/ a.snoop_state = "snoop_cd" /\ i.resp_valid
                 \/ a.snoop_state = "snoop_cd_wait_accept"

CdData(a, i) == IF a.snoop_state = "snoop_cd" THEN i.resp_data
                ELSE a.resp_snoop_data

----------------------------------------------------------------------------
\* the state machine of requests
BusNext(a, i) ==
  CASE a.state = "idle" ->
         IF ~i.req_mem_valid THEN a
         ELSE [a EXCEPT !.state = IF IsWrite(i.req_mem_type) THEN "aw"
                                  ELSE "ar",
                        !.req_addr = i.req_mem_addr,
                        !.req_snoop = i.req_mem_type,
                        !.req_wdata = IF IsWrite(i.req_mem_type)
                                      THEN i.req_mem_data ELSE NoData]
    [] a.state = "ar" -> IF i.ar_ready THEN [a EXCEPT !.state = "r"] ELSE a
    [] a.state = "r"  -> IF i.r_valid THEN [a EXCEPT !.state = "idle"] ELSE a
    [] a.state = "aw" -> IF i.aw_ready THEN [a EXCEPT !.state = "b"] ELSE a
    [] a.state = "b"  -> IF i.b_valid THEN [a EXCEPT !.state = "idle"] ELSE a

\* o_resp_mem_valid
RespMemValid(a, i) == \/ a.state = "r" /\ i.r_valid
                      \/ a.state = "b" /\ i.b_valid

\* snoop_cr when the flags are there
CrAnswer(a, i, v) ==
  LET give == MustGive(a, i.resp_flags)
  IN  [v EXCEPT
         !.cr_data = give,
         !.cache_access = @ \/ give,
         !.req_snoop_type = IF ~give THEN @
                            ELSE IF a.ac_unique THEN "READCLEAN"
                            ELSE "READDATA",
         !.snoop_state = IF ~i.cr_ready THEN "snoop_cr_wait_accept"
                         ELSE IF give THEN "snoop_ac_wait_accept"
                         ELSE "snoop_idle"]

\* the state machine of snoops
SnoopNext(a, i, v) ==
  CASE a.snoop_state = "snoop_idle" ->
         IF ~i.ac.valid THEN v
         ELSE [v EXCEPT !.cache_access = FALSE, !.req_snoop_type = "FLAGS",
                        !.ac_addr = i.ac.addr, !.ac_unique = i.ac.unique,
                        !.snoop_state = IF i.snoop_ready THEN "snoop_cr"
                                        ELSE "snoop_ac_wait_accept"]
    [] a.snoop_state = "snoop_ac_wait_accept" ->
         IF ~i.snoop_ready THEN v
         ELSE [v EXCEPT !.snoop_state = IF a.cache_access THEN "snoop_cd"
                                        ELSE "snoop_cr"]
    [] a.snoop_state = "snoop_cr" ->
         IF i.resp_valid THEN CrAnswer(a, i, v) ELSE v
    [] a.snoop_state = "snoop_cr_wait_accept" ->
         IF ~i.cr_ready THEN v
         ELSE [v EXCEPT !.snoop_state = IF a.cache_access
                                        THEN "snoop_ac_wait_accept"
                                        ELSE "snoop_idle"]
    [] a.snoop_state = "snoop_cd" ->
         IF ~i.resp_valid THEN v
         ELSE [v EXCEPT !.resp_snoop_data = i.resp_data,
                        !.snoop_state = IF i.cd_ready THEN "snoop_idle"
                                        ELSE "snoop_cd_wait_accept"]
    [] a.snoop_state = "snoop_cd_wait_accept" ->
         IF i.cd_ready THEN [v EXCEPT !.snoop_state = "snoop_idle"] ELSE v

AdapterNext(a, i) == SnoopNext(a, i, BusNext(a, i))

\* registers that are written again before they are read get a fixed value
ForgetAdapter(a) ==
  LET v == IF a.state # "idle" THEN a
           ELSE [a EXCEPT !.req_addr = NoLine, !.req_snoop = "ReadShared",
                          !.req_wdata = NoData]
      u == IF a.snoop_state = "snoop_cd_wait_accept" THEN v
           ELSE [v EXCEPT !.resp_snoop_data = NoData]
  IN  IF a.snoop_state # "snoop_idle" THEN u
      ELSE [u EXCEPT !.ac_addr = NoLine, !.ac_unique = FALSE,
                     !.req_snoop_type = "FLAGS", !.cache_access = FALSE,
                     !.cr_data = FALSE]
=============================================================================
