------------------------------- MODULE L2Dst -------------------------------
(***************************************************************************)
(* L2Destination (src/sc/rtl/internal/riverlib/l2cache/l2_dst.cpp): the    *)
(* arbiter in front of the L2 cache.  It serves one request at a time,     *)
(* writes before reads and low slots before high ones, snoops the other    *)
(* cores and passes the request on to the L2 cache.  L2CacheLru            *)
(* (l2cache_lru.cpp) is modelled by what a request does to its line and to *)
(* the memory below; it takes the requests one by one, so its state        *)
(* machine is abstracted to the cycle in which it answers.                 *)
(*                                                                         *)
(* The slots are those of the data caches: instruction fetches, the        *)
(* coherent slave port and uncached accesses are left out.                 *)
(***************************************************************************)
EXTENDS Integers, FiniteSets

CONSTANTS Cores, NoLine, NoData

DstStates == {"Idle", "CacheReadReq", "CacheWriteReq", "ReadMem", "WriteMem",
              "snoop_ac", "snoop_cr", "snoop_cd"}

ReqTypes == {"WRITE", "UNIQUE", "SNOOP"}

\* L2Destination_r_reset
DstReset == [state |-> "Idle", srcid |-> 0, req_addr |-> NoLine,
             req_type |-> {}, req_wdata |-> NoData,
             ac_valid |-> {}, cr_ready |-> {}, cd_ready |-> {}]

Lowest(S) == CHOOSE c \in S : \A k \in S : c <= k

\* the slots with an address on their AW and AR channels
SrcAw(A) == {c \in Cores : A[c].state = "aw"}
SrcAr(A) == {c \in Cores : A[c].state = "ar"}

\* vb_srcid: writes first
Src(A) == Lowest(IF SrcAw(A) # {} THEN SrcAw(A) ELSE SrcAr(A))

Granted(q, A, c) ==
  q.state = "Idle" /\ SrcAw(A) \cup SrcAr(A) # {} /\ c = Src(A)

\* the wires to slot c; the L2 cache answers in this cycle if done
ToCore(q, A, c, done, rdata) ==
  [ac |-> [valid |-> q.state = "snoop_ac" /\ c \in q.ac_valid,
           addr |-> q.req_addr, unique |-> "UNIQUE" \in q.req_type],
   cr_ready |-> q.state = "snoop_cr" /\ c \in q.cr_ready,
   cd_ready |-> q.state = "snoop_cd" /\ c \in q.cd_ready,
   ar_ready |-> Granted(q, A, c) /\ SrcAw(A) = {},
   aw_ready |-> Granted(q, A, c) /\ SrcAw(A) # {},
   r_valid |-> q.state = "ReadMem" /\ q.srcid = c /\ done,
   r_data |-> IF "SNOOP" \in q.req_type THEN q.req_wdata ELSE rdata,
   b_valid |-> q.state = "WriteMem" /\ q.srcid = c /\ done]

----------------------------------------------------------------------------
\* a read snoops every other slot; one that wants to store, exclusively
GrantRead(q, A) ==
  LET c == Src(A)
  IN  [q EXCEPT !.srcid = c, !.req_addr = A[c].req_addr,
                !.req_wdata = A[c].req_wdata, !.state = "snoop_ac",
                !.req_type = IF A[c].req_snoop = "ReadMakeUnique"
                             THEN {"UNIQUE"} ELSE {},
                !.ac_valid = Cores \ {c}, !.cr_ready = {}, !.cd_ready = {}]

\* only a write that makes the line unique snoops
GrantWrite(q, A) ==
  LET c == Src(A)
      unique == A[c].req_snoop = "WriteLineUnique"
      v == [q EXCEPT !.srcid = c, !.req_addr = A[c].req_addr,
                     !.req_wdata = A[c].req_wdata]
  IN  IF unique
      THEN [v EXCEPT !.req_type = {"WRITE", "UNIQUE"}, !.state = "snoop_ac",
                     !.ac_valid = Cores \ {c}, !.cr_ready = {},
                     !.cd_ready = {}]
      ELSE [v EXCEPT !.req_type = {"WRITE"}, !.state = "CacheWriteReq"]

CacheReq(q) == IF "WRITE" \in q.req_type THEN "CacheWriteReq"
               ELSE "CacheReadReq"

\* snoop_ac: acc are the slots that take the address
SnoopAc(q, acc) ==
  LET left == q.ac_valid \ acc
  IN  [q EXCEPT !.ac_valid = left,
                !.cr_ready = @ \cup (q.ac_valid \cap acc),
                !.state = IF left = {} THEN "snoop_cr" ELSE @]

\* snoop_cr: ans are the slots that answer, give those that will give data
SnoopCr(q, ans, give) ==
  LET left == q.cr_ready \ ans
      cd == q.cd_ready \cup (q.cr_ready \cap ans \cap give)
  IN  [q EXCEPT !.cr_ready = left, !.cd_ready = cd,
                !.state = IF left # {} THEN @
                          ELSE IF cd # {} THEN "snoop_cd" ELSE CacheReq(q)]

\* snoop_cd: give are the slots with data; the highest of them wins
SnoopCd(q, give, data) ==
  LET left == q.cd_ready \ give
      took == q.cd_ready \cap give
      v == [q EXCEPT !.cd_ready = left,
                     !.req_wdata = IF took = {} THEN @
                       ELSE data[CHOOSE c \in took : \A k \in took : k <= c]]
  IN  IF left # {} THEN v
      ELSE [v EXCEPT !.state = CacheReq(q),
                     !.req_type = @ \cup {"WRITE", "SNOOP"}]

\* the arbiter at a clock edge; s has the snoop answers, go is the ready and
\* done the answer of the L2 cache
DstNext(q, A, s, go, done) ==
  CASE q.state = "Idle" -> IF SrcAw(A) # {} THEN GrantWrite(q, A)
                           ELSE IF SrcAr(A) # {} THEN GrantRead(q, A) ELSE q
    [] q.state = "CacheReadReq" ->
         IF go THEN [q EXCEPT !.state = "ReadMem"] ELSE q
    [] q.state = "CacheWriteReq" ->
         IF go THEN [q EXCEPT !.state = "WriteMem"] ELSE q
    [] q.state \in {"ReadMem", "WriteMem"} ->
         IF done THEN [q EXCEPT !.state = "Idle"] ELSE q
    [] q.state = "snoop_ac" -> SnoopAc(q, s.ac_ready)
    [] q.state = "snoop_cr" -> SnoopCr(q, s.cr_valid, s.cr_data)
    [] q.state = "snoop_cd" -> SnoopCd(q, s.cd_valid, s.cd_data)

\* registers that are written again before they are read get a fixed value
ForgetDst(q) == IF q.state = "Idle" THEN DstReset ELSE q

----------------------------------------------------------------------------
(* The L2 cache: one line (tag, valid, dirty, data) over a memory.         *)

L2Reset == [tag |-> NoLine, valid |-> FALSE, dirty |-> FALSE, data |-> NoData]

L2Hit(l2, q) == l2.valid /\ l2.tag = q.req_addr

\* the request finds nothing and allocates the line
L2Allocates(l2, q) == ~L2Hit(l2, q) /\ ~({"WRITE", "UNIQUE"} \subseteq q.req_type)

\* the data of the answer
L2Data(l2, mem, q) == IF L2Hit(l2, q) THEN l2.data ELSE mem[q.req_addr]

\* Mutant: the line replaced is not written back.
MemNextDropped(l2, mem, q) == mem

\* a dirty line that is replaced is written to the memory first
MemNext(l2, mem, q) ==
  IF L2Allocates(l2, q) /\ l2.valid /\ l2.dirty
  THEN [mem EXCEPT ![l2.tag] = l2.data] ELSE mem

\* A unique request leaves the L2 without the line, a write leaves it dirty.
L2Next(l2, mem, q) ==
  IF "UNIQUE" \in q.req_type
  THEN IF L2Hit(l2, q) \/ L2Allocates(l2, q) THEN L2Reset ELSE l2
  ELSE IF "WRITE" \in q.req_type
  THEN [tag |-> q.req_addr, valid |-> TRUE, dirty |-> TRUE,
        data |-> q.req_wdata]
  ELSE IF L2Hit(l2, q) THEN l2
  ELSE [tag |-> q.req_addr, valid |-> TRUE, dirty |-> FALSE,
        data |-> mem[q.req_addr]]
=============================================================================
