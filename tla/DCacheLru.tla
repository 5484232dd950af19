----------------------------- MODULE DCacheLru -----------------------------
(***************************************************************************)
(* DCacheLru: the L1 data cache of a core with its tag memory TagMemNWay   *)
(* (src/sc/rtl/internal/riverlib/cache), coherence enabled.  The circuit   *)
(* is one clocked process: CacheNext(d, i) is the value its registers and  *)
(* its memory d take at the next edge when its input wires are i.          *)
(*                                                                         *)
(* The memory is NWAYS ways of LINES_PER_WAY lines each: an address is      *)
(* looked for in the ways of its set, Index[addr].  Beside it lrunway      *)
(* keeps for each set the order in which its ways were used.  What is      *)
(* written goes to the place Place(d): where the address hits, else the    *)
(* way that is the least recently used in the cycle of the write.          *)
(*                                                                         *)
(* The memory answers in the cycle after the address, with what has been   *)
(* written until then; in every state that looks at its answer the address *)
(* before was req_addr, so the answer is a function of the lines held.     *)
(* Accesses are cached and permitted: PMA, PMP, faults and the reset       *)
(* sequence are left out.  A flush is one of the whole cache (proc.cpp     *)
(* drives i_flush_address with ones).  The core is always ready for an     *)
(* answer (memaccess.cpp o_mem_resp_ready).                                *)
(***************************************************************************)
EXTENDS Integers

CONSTANTS NoLine,   \* no address
          NoData,   \* data that is never looked at
          ZeroLine, \* a line of zeros
          NWAYS,          \* ways of the memory
          LINES_PER_WAY,  \* lines of a way
          Index           \* the set of an address

CacheStates == {"Idle", "CheckHit", "TranslateAddress", "WaitGrant",
                "WaitResp", "CheckResp", "SetupReadAdr", "WriteBus",
                "FlushAddr", "FlushCheck", "SnoopSetupAddr", "SnoopReadData"}

Flags == {"VALID", "DIRTY", "SHARED", "RESERVED"}

\* a snoop request: only the flags, the data, the data and the line itself
SnoopTypes == {"FLAGS", "READDATA", "READCLEAN"}

MemTypes == {"ReadShared", "ReadMakeUnique", "WriteBack", "WriteLineUnique"}

Ways == 0..(NWAYS - 1)
Sets == 0..(LINES_PER_WAY - 1)
Places == Sets \X Ways

\* Mutant: one place too few.
FlushAllShort == LINES_PER_WAY * NWAYS - 2

\* flush_cnt at the start of a flush: one less than the places to visit
FLUSH_ALL_VALUE == LINES_PER_WAY * NWAYS - 1

\* The table of lrunway has for each set its ways, the least recently used
\* first.  A way that is used goes on top, one that is invalidated down.
InitOrder == [k \in Ways |-> k]

Up(r, w) == [k \in Ways |-> IF k = NWAYS - 1 THEN w
                            ELSE IF \E j \in Ways : j > k /\ r[j] = w
                                 THEN r[k] ELSE r[k + 1]]

Down(r, w) == [k \in Ways |-> IF k = 0 THEN w
                              ELSE IF \E j \in Ways : j < k /\ r[j] = w
                                   THEN r[k] ELSE r[k - 1]]

\* DCacheLru_r_reset, after State_Reset and State_ResetWrite have run
CacheReset ==
  [state |-> "Idle", req_addr |-> NoLine, req_type |-> {}, req_word |-> 0,
   req_wdata |-> 0, mem_addr |-> NoLine, req_mem_valid |-> FALSE,
   req_mem_type |-> "ReadShared", write_first |-> FALSE,
   write_flush |-> FALSE, write_share |-> FALSE, req_flush |-> FALSE,
   cache_line_i |-> ZeroLine, cache_line_o |-> NoData,
   req_snoop_type |-> "FLAGS", snoop_flags_valid |-> FALSE,
   snoop_addr |-> NoLine, snoop_restore |-> "none",
   req_addr_restore |-> NoLine, flush_cnt |-> 0,
   lines |-> [p \in Places |-> [tag |-> NoLine, flags |-> {},
                                data |-> ZeroLine]],
   lru |-> [s \in Sets |-> InitOrder]]

----------------------------------------------------------------------------
\* the places where an address hits: never two, as it is written nowhere
\* else while it hits
Tagged(d, l) == {p \in Places : /\ p[1] = Index[l] /\ d.lines[p].tag = l
                                /\ "VALID" \in d.lines[p].flags}

\* line_hit_o
Hit(d) == Tagged(d, d.req_addr) # {}

\* r.direct_access: a flush visits all ways of a set, then the next set
FlushPlace(d) == LET k == FLUSH_ALL_VALUE - d.flush_cnt
                 IN  <<k \div NWAYS, k % NWAYS>>

\* wb_lruo_lru
LruPlace(d) == <<Index[d.req_addr], d.lru[Index[d.req_addr]][0]>>

\* Mutant: the memory takes the least recently used way on a hit as well.
PlaceLru(d) == IF d.state = "FlushCheck" THEN FlushPlace(d) ELSE LruPlace(d)

\* vb_hit_idx: the place the memory reads and writes
Place(d) == IF d.state = "FlushCheck" THEN FlushPlace(d)
            ELSE IF Hit(d) THEN CHOOSE p \in Tagged(d, d.req_addr) : TRUE
            ELSE LruPlace(d)

\* line_raddr_o, line_rflags_o and line_rdata_o
Line(d) == d.lines[Place(d)]

\* i_re with a hit, or i_we: the way becomes the last used one
Used(d, v) == [v EXCEPT !.lru[Place(d)[1]] = Up(@, Place(d)[2])]

\* i_we: the line is written
Write(d, v, l) == [Used(d, v) EXCEPT !.lines[Place(d)] = l]

\* valid and changed since it was read from the bus
Dirty(l) == {"VALID", "DIRTY"} \subseteq l.flags

IsStore(d) == "Store" \in d.req_type

\* a store with release (SC) of a line that is not reserved writes nothing
ScFails(d) == "Release" \in d.req_type /\ "RESERVED" \notin Line(d).flags

Hits(d) == d.state = "CheckHit" /\ Hit(d)
StoreHits(d) == Hits(d) /\ IsStore(d) /\ ~ScFails(d)
LoadHits(d) == Hits(d) /\ ~IsStore(d)

\* Mutant: a store to a shared line asks nobody.
UpgradesNever(d) == FALSE

\* the line written was shared: the other copies must go
Upgrades(d) == StoreHits(d) /\ "SHARED" \in Line(d).flags

\* v_ready_next
ReadyNext(d, i) ==
  \/ d.state = "Idle"
  \/ LoadHits(d) /\ "Reserve" \notin d.req_type
  \/ StoreHits(d) /\ ~Upgrades(d) /\ i.req.addr = d.req_addr

DataSnoop(i) == i.snoop.valid /\ i.snoop.type # "FLAGS"

\* Mutant: a cache that waits for the bus takes no snoop.
ReadyOnWaitNever(d, i) == FALSE

\* v_req_snoop_ready_on_wait
ReadyOnWait(d, i) ==
  d.state \in {"WaitResp", "WriteBus"} /\ ~i.mem_valid /\ DataSnoop(i)

\* v_way_we of the tag memory; the invalidation of a line comes one cycle
\* after i_invalidate
WritesTags(d) ==
  \/ StoreHits(d)
  \/ LoadHits(d) /\ "Reserve" \in d.req_type
  \/ d.state \in {"CheckResp", "FlushCheck"}
  \/ d.state = "SnoopReadData" /\ (d.req_snoop_type = "READDATA" \/ Hit(d))

\* o_req_snoop_ready
SnoopReady(d, i) ==
  IF i.snoop.type = "FLAGS" THEN ~WritesTags(d)
  ELSE ReadyNext(d, i) \/ ReadyOnWait(d, i)

\* o_req_ready
ReqReady(d, i) == ReadyNext(d, i) /\ ~DataSnoop(i) /\ ~d.req_flush

\* o_resp_valid, o_resp_snoop_valid, o_resp_snoop_flags
RespValid(d) == Hits(d) \/ (d.state = "CheckResp" /\ IsStore(d))
SnoopRespValid(d) == d.snoop_flags_valid \/ d.state = "SnoopReadData"
SnoopFlags(d) ==
  UNION {d.lines[p].flags : p \in Tagged(d, d.snoop_addr)}

\* o_flush_end
FlushEnd(d) == d.state = "FlushCheck" /\ ~Dirty(Line(d)) /\ d.flush_cnt = 0

----------------------------------------------------------------------------
\* vb_line_rdata_o_modified, vb_cache_line_i_modified
Modified(d, data) == [data EXCEPT ![d.req_word] = d.req_wdata]

\* what a load with reserve writes back with its flag: the word it read,
\* extended with zeros to a line (vb_line_wdata = vb_cached_data)
ReservedData(d) == [k \in DOMAIN Line(d).data |->
                      IF k = 0 THEN Line(d).data[d.req_word] ELSE 0]

\* flags of a line that has been stored into: neither shared nor reserved
StoreFlags == {"VALID", "DIRTY"}

CheckHitStore(d, v) ==
  IF ScFails(d)
  THEN [Used(d, v) EXCEPT !.state = "Idle", !.req_type = @ \ {"Store"}]
  ELSE [Write(d, v, [tag |-> d.req_addr, flags |-> StoreFlags,
                     data |-> Modified(d, Line(d).data)]) EXCEPT
          !.req_type = @ \ {"Store"},
          !.write_share = @ \/ Upgrades(d),
          !.state = IF Upgrades(d) THEN "TranslateAddress" ELSE "Idle"]

\* State_CheckHit
CheckHit(d, v) ==
  IF ~Hit(d)
  THEN [v EXCEPT !.state = IF {"Store", "Release"} \subseteq d.req_type
                           THEN "Idle" ELSE "TranslateAddress"]
  ELSE IF IsStore(d) THEN CheckHitStore(d, v)
  ELSE IF "Reserve" \in d.req_type
  THEN [Write(d, v, [tag |-> d.req_addr, data |-> ReservedData(d),
                     flags |-> Line(d).flags \cup {"RESERVED"}])
        EXCEPT !.state = "Idle"]
  ELSE [Used(d, v) EXCEPT !.state = "Idle"]

\* the read that fills the line asked for
FillType(d) == IF IsStore(d) THEN "ReadMakeUnique" ELSE "ReadShared"

\* State_TranslateAddress, cached and permitted
TranslateAddress(d, v) ==
  LET old == Dirty(Line(d))
  IN  [v EXCEPT
         !.req_mem_valid = TRUE, !.state = "WaitGrant",
         !.write_first = @ \/ (old /\ ~d.write_share),
         !.req_mem_type = IF d.write_share THEN "WriteLineUnique"
                          ELSE IF old THEN "WriteBack" ELSE FillType(d),
         !.mem_addr = IF d.write_share \/ old THEN Line(d).tag ELSE d.req_addr,
         !.cache_line_o = Line(d).data, !.cache_line_i = ZeroLine]

\* State_WaitGrant; cache_top always grants the data cache
WaitGrant(d, v) ==
  [v EXCEPT !.req_mem_valid = FALSE,
            !.state = IF d.write_flush \/ d.write_first \/ d.write_share
                      THEN "WriteBus" ELSE "WaitResp"]

\* a snoop takes over the cache while it waits; req_addr is put aside
TakeSnoop(d, i, v) ==
  [v EXCEPT !.snoop_restore = d.state, !.req_addr_restore = d.req_addr,
            !.req_addr = i.snoop.addr, !.req_snoop_type = i.snoop.type,
            !.state = "SnoopSetupAddr"]

\* State_WaitResp
WaitResp(d, i, v) ==
  IF i.mem_valid
  THEN [v EXCEPT !.cache_line_i = i.mem_data, !.state = "CheckResp"]
  ELSE IF ReadyOnWait(d, i) THEN TakeSnoop(d, i, v) ELSE v

\* State_CheckResp: the line is written to the place that is least recently
\* used now; a store is done with it
CheckResp(d, v) ==
  IF IsStore(d)
  THEN [Write(d, v, [tag |-> d.req_addr, flags |-> StoreFlags,
                     data |-> Modified(d, d.cache_line_i)])
        EXCEPT !.req_type = @ \ {"Store"}, !.state = "Idle"]
  ELSE [Write(d, v, [tag |-> d.req_addr, data |-> d.cache_line_i,
                     flags |-> {"VALID", "SHARED"} \cup
                       (IF "Reserve" \in d.req_type THEN {"RESERVED"} ELSE {})])
        EXCEPT !.state = "SetupReadAdr"]

\* State_WriteBus
WriteBus(d, i, v) ==
  IF i.mem_valid
  THEN IF d.write_share THEN [v EXCEPT !.write_share = FALSE, !.state = "Idle"]
       ELSE IF d.write_flush THEN [v EXCEPT !.state = "FlushAddr"]
       ELSE [v EXCEPT !.write_first = FALSE, !.mem_addr = d.req_addr,
                      !.req_mem_valid = TRUE, !.req_mem_type = FillType(d),
                      !.state = "WaitGrant"]
  ELSE IF ReadyOnWait(d, i) THEN TakeSnoop(d, i, v) ELSE v

\* State_FlushAddr
FlushAddr(d, v) == [v EXCEPT !.write_flush = FALSE, !.cache_line_i = ZeroLine,
                             !.state = "FlushCheck"]

\* State_FlushCheck: the line is written invalid, and offloaded if dirty;
\* the last one is visited again after that
FlushCheck(d, v) ==
  LET a == [v EXCEPT !.cache_line_o = Line(d).data,
                     !.lines[Place(d)] = [tag |-> d.req_addr, flags |-> {},
                                          data |-> d.cache_line_i],
                     !.lru[Place(d)[1]] = InitOrder,
                     !.flush_cnt = IF @ = 0 THEN 0 ELSE @ - 1]
  IN  IF Dirty(Line(d))
      THEN [a EXCEPT !.write_flush = TRUE, !.mem_addr = Line(d).tag,
                     !.req_mem_valid = TRUE, !.req_mem_type = "WriteBack",
                     !.state = "WaitGrant"]
      ELSE [a EXCEPT !.state = IF d.flush_cnt = 0 THEN "Idle" ELSE "FlushAddr"]

\* Mutant: a data snoop leaves the line dirty and unshared.
SnoopedFlagsKept(d) == Line(d).flags

\* flags of a line whose data was given to another core
SnoopedFlags(d) == (Line(d).flags \ {"DIRTY", "RESERVED"}) \cup {"SHARED"}

\* Mutant: the address of the interrupted access is forgotten.
RestoredAddrLost(d) == d.req_addr

\* the address and the state the cache goes on with after a snoop
RestoredAddr(d) == IF d.snoop_restore = "none" THEN d.req_addr
                   ELSE d.req_addr_restore

\* Mutant: the cache forgets what the snoop interrupted.
RestoredStateIdle(d) == "Idle"

\* Mutant: the state put aside is taken although none was.
RestoredStateAlways(d) == d.snoop_restore

RestoredState(d) == IF d.snoop_restore = "none" THEN "Idle"
                    ELSE d.snoop_restore

\* what a data snoop leaves of the line: it goes, or it stays shared
SnoopLine(d, v) ==
  IF d.req_snoop_type = "READDATA"
  THEN Write(d, v, [tag |-> d.req_addr, flags |-> SnoopedFlags(d),
                    data |-> Line(d).data])
  ELSE IF Hit(d)
  THEN [v EXCEPT !.lines[Place(d)] = [tag |-> d.req_addr, flags |-> {},
                                      data |-> Line(d).data],
                 !.lru[Place(d)[1]] = Down(@, Place(d)[2])]
  ELSE v

\* State_SnoopReadData: the line is given; back to what waited
SnoopReadData(d, v) ==
  [SnoopLine(d, v) EXCEPT !.req_addr = RestoredAddr(d),
                          !.snoop_restore = "none",
                          !.state = RestoredState(d)]

\* what a cache that is ready for something new takes: a snoop, a flush, a
\* request of the core
Accept(d, i, v) ==
  IF DataSnoop(i)
  THEN [v EXCEPT !.req_addr = i.snoop.addr, !.req_snoop_type = i.snoop.type,
                 !.state = "SnoopSetupAddr"]
  ELSE IF d.req_flush
  THEN [v EXCEPT !.req_flush = FALSE, !.req_addr = NoLine,
                 !.flush_cnt = FLUSH_ALL_VALUE, !.cache_line_i = ZeroLine,
                 !.state = "FlushAddr"]
  ELSE IF i.req.valid
  THEN [v EXCEPT !.req_addr = i.req.addr, !.req_type = i.req.type,
                 !.req_word = i.req.word, !.req_wdata = i.req.wdata,
                 !.state = "CheckHit"]
  ELSE v

CacheState(d, i, v) ==
  CASE d.state = "Idle"             -> v
    [] d.state = "CheckHit"         -> CheckHit(d, v)
    [] d.state = "TranslateAddress" -> TranslateAddress(d, v)
    [] d.state = "WaitGrant"        -> WaitGrant(d, v)
    [] d.state = "WaitResp"         -> WaitResp(d, i, v)
    [] d.state = "CheckResp"        -> CheckResp(d, v)
    [] d.state = "SetupReadAdr"     -> [v EXCEPT !.state = "CheckHit"]
    [] d.state = "WriteBus"         -> WriteBus(d, i, v)
    [] d.state = "FlushAddr"        -> FlushAddr(d, v)
    [] d.state = "FlushCheck"       -> FlushCheck(d, v)
    [] d.state = "SnoopSetupAddr"   -> [v EXCEPT !.state = "SnoopReadData"]
    [] d.state = "SnoopReadData"    -> SnoopReadData(d, v)

CacheNext(d, i) ==
  LET v == CacheState(d, i,
             [d EXCEPT !.req_flush = @ \/ i.flush,
                       !.snoop_addr = i.snoop.addr,
                       !.snoop_flags_valid = i.snoop.valid /\ ~WritesTags(d)
                                             /\ i.snoop.type = "FLAGS"])
  IN  IF ReadyNext(d, i) THEN Accept(d, i, v) ELSE v

\* registers that are written again before they are read get a fixed value
ForgetCache(d) ==
  LET v == [d EXCEPT !.snoop_addr = IF d.snoop_flags_valid THEN @ ELSE NoLine,
                     !.req_addr_restore = IF d.snoop_restore = "none"
                                          THEN NoLine ELSE @]
  IN  IF d.state # "Idle" THEN v
      ELSE [v EXCEPT !.req_addr = NoLine, !.req_type = {}, !.req_word = 0,
                     !.req_wdata = 0, !.mem_addr = NoLine,
                     !.req_mem_type = "ReadShared", !.cache_line_i = ZeroLine,
                     !.cache_line_o = NoData, !.req_snoop_type = "FLAGS"]
=============================================================================
