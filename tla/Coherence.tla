----------------------------- MODULE Coherence -----------------------------
(***************************************************************************)
(* The data caches of a cluster, one step per clock cycle: for each core   *)
(* its data cache (DCacheLru) and bus adapter (L1DmaSnoop), and the L2     *)
(* arbiter with the L2 cache and the memory below it (L2Dst).  A core has  *)
(* one access or one flush at a time, as MemAccess and the fence states of *)
(* CsrRegs have.                                                           *)
(*                                                                         *)
(* Data: a line has one word per core, and a core stores only into its own *)
(* word, each time the value it did not hold.  So the newest content of a  *)
(* line is well defined, and a copy from which a store is missing differs  *)
(* from it in a word.                                                      *)
(***************************************************************************)
EXTENDS Integers, FiniteSets

CONSTANTS Cores,      \* the cores, which are the slots of the arbiter
          Lines,      \* the lines of the memory
          NWAYS,      \* the shape of the data caches
          LINES_PER_WAY,
          Index,      \* the set of a line in a data cache
          Accesses,   \* what each core may ask of its cache
          Flushers,   \* the cores that flush their cache
          NoLine, NoData

Words == Cores
Data == [Words -> {0, 1}]
Types == {{}, {"Store"}, {"Reserve"}, {"Store", "Release"}}

ASSUME CoresAssumption == Cores \subseteq Nat /\ 0 \in Cores /\ IsFiniteSet(Cores)
ASSUME AccessAssumption ==
  Accesses \in [Cores -> SUBSET [addr : Lines, type : Types]]
ASSUME FlushAssumption == Flushers \subseteq Cores
ASSUME ShapeAssumption ==
  /\ NWAYS \in Nat \ {0} /\ LINES_PER_WAY \in Nat \ {0}
  /\ Index \in [Lines \cup {NoLine} -> 0..(LINES_PER_WAY - 1)]
ASSUME LinesAssumption == Lines \cap {"nothing", "flush"} = {}

ZeroLine == [w \in Words |-> 0]

VARIABLES d,       \* the data caches
          a,       \* the bus adapters
          q,       \* the arbiter
          l2, mem, \* the line of the L2 cache, the memory
          asked,   \* what a core waits for: a line, the end of a flush
          newest,  \* history: the content of each line with all stores done
          victim,  \* history: the place a miss examined for write-back
          races,   \* history: the races that have happened
          age      \* history: cycles the arbiter has waited for a snoop

vars == <<d, a, q, l2, mem, asked, newest, victim, races, age>>

DC == INSTANCE DCacheLru
AD == INSTANCE L1DmaSnoop
DS == INSTANCE L2Dst

----------------------------------------------------------------------------
\* What a core may drive.  It presents something new when it waits for
\* nothing or gets its answer (MemAccess State_Idle, State_WaitResponse).
\* The cache also looks at the address of no request (v_req_same_line).
NoRequest(l) == [valid |-> FALSE, addr |-> l, type |-> {}, word |-> 0,
                 wdata |-> 0]

Request(c, x) == [valid |-> TRUE, addr |-> x.addr, type |-> x.type,
                  word |-> c, wdata |-> 1 - newest[x.addr][c]]

Free(c) == asked[c] = "nothing" \/ (asked[c] \in Lines /\ DC!RespValid(d[c]))

Quiet(c) == {[req |-> NoRequest(l), flush |-> FALSE] :
               l \in {NoLine} \cup
                     IF DC!StoreHits(d[c]) THEN {d[c].req_addr} ELSE {}}

CoreChoices(c) ==
  Quiet(c) \cup
  IF ~Free(c) THEN {}
  ELSE {[req |-> Request(c, x), flush |-> FALSE] : x \in Accesses[c]}
       \cup IF c \notin Flushers THEN {}
            ELSE {[req |-> NoRequest(NoLine), flush |-> TRUE]}

\* The L2 cache answers when it likes.  It takes a request at once: what it
\* may take longer is part of the time to the answer.
Done == IF q.state \in {"ReadMem", "WriteMem"} THEN BOOLEAN ELSE {FALSE}

----------------------------------------------------------------------------
\* The wires of this cycle, given the choices u of the cores and done of the
\* L2 cache.
RData == IF q.state = "ReadMem" THEN DS!L2Data(l2, mem, q) ELSE NoData

M(done) == [c \in Cores |-> DS!ToCore(q, a, c, done, RData)]

ToCache(u, m) ==
  [c \in Cores |->
     [req |-> u[c].req, flush |-> u[c].flush,
      snoop |-> AD!SnoopReq(a[c], m[c].ac),
      mem_valid |-> AD!RespMemValid(a[c], m[c]), mem_data |-> m[c].r_data]]

ToAdapter(m, i) ==
  [c \in Cores |->
     [ac |-> m[c].ac, cr_ready |-> m[c].cr_ready, cd_ready |-> m[c].cd_ready,
      ar_ready |-> m[c].ar_ready, aw_ready |-> m[c].aw_ready,
      r_valid |-> m[c].r_valid, b_valid |-> m[c].b_valid,
      req_mem_valid |-> d[c].req_mem_valid,
      req_mem_type |-> d[c].req_mem_type,
      req_mem_addr |-> d[c].mem_addr,
      req_mem_data |-> d[c].cache_line_o,
      snoop_ready |-> DC!SnoopReady(d[c], i[c]),
      resp_valid |-> DC!SnoopRespValid(d[c]),
      resp_flags |-> DC!SnoopFlags(d[c]),
      resp_data |-> DC!Line(d[c]).data]]

Answers(m, j) ==
  [ac_ready |-> {c \in Cores : AD!AcReady(a[c], m[c].ac)},
   cr_valid |-> {c \in Cores : AD!CrValid(a[c], m[c].ac)},
   cr_data  |-> {c \in Cores : AD!CrData(a[c], j[c])},
   cd_valid |-> {c \in Cores : AD!CdValid(a[c], j[c])},
   cd_data  |-> [c \in Cores |-> AD!CdData(a[c], j[c])]]

----------------------------------------------------------------------------
\* The histories.
AskedNext(c, u, i) ==
  IF u.req.valid /\ DC!ReqReady(d[c], i) THEN u.req.addr
  ELSE IF u.flush THEN "flush"
  ELSE IF DC!RespValid(d[c]) \/ DC!FlushEnd(d[c]) THEN "nothing"
  ELSE asked[c]

\* core c stores into its line in this cycle
Stores(c) == DC!StoreHits(d[c]) \/ (d[c].state = "CheckResp" /\ DC!IsStore(d[c]))

NoPlace == <<>>

VictimNext(c) ==
  IF d[c].state = "TranslateAddress" THEN DC!Place(d[c])
  ELSE IF d'[c].state = "Idle" THEN NoPlace ELSE victim[c]

NewestNext ==
  [l \in Lines |-> [w \in Words |->
     IF Stores(w) /\ d[w].req_addr = l THEN d[w].req_wdata ELSE newest[l][w]]]

\* A snoop meets a cache that writes its tags, or an adapter that still has
\* another snoop.
Collision(m, j) ==
  \E c \in Cores : m[c].ac.valid /\ ~(/\ AD!TakesSnoop(a[c], m[c].ac)
                                      /\ j[c].snoop_ready)

\* The request that makes a line unique is served when the line it was made
\* for has been snooped.
Overtaken(m) ==
  \E c \in Cores : /\ m[c].aw_ready
                   /\ a[c].req_snoop = "WriteLineUnique"
                   /\ ~\E p \in DC!Tagged(d[c], a[c].req_addr) :
                         DC!Dirty(d[c].lines[p])

\* A line that a flush has invalidated is snooped before it is written back,
\* or between the snoop of its flags and that of its data.
Flushed(m) ==
  \E c \in Cores : \/ /\ m[c].ac.valid /\ d[c].write_flush
                      /\ d[c].mem_addr = m[c].ac.addr
                   \/ d[c].state = "SnoopReadData" /\ ~DC!Hit(d[c])

\* A fill goes to another place than the one that was examined, onto a line
\* that has been changed.
Displaced ==
  \E c \in Cores : /\ d[c].state = "CheckResp" /\ DC!Place(d[c]) # victim[c]
                   /\ DC!Dirty(DC!Line(d[c]))

RacesNext(m, j) ==
  races \cup (IF Collision(m, j) THEN {"collision"} ELSE {})
        \cup (IF Overtaken(m) THEN {"overtaken"} ELSE {})
        \cup (IF Flushed(m) THEN {"flushed"} ELSE {})
        \cup (IF Displaced THEN {"displaced"} ELSE {})

Snooping == q.state \in {"snoop_ac", "snoop_cr", "snoop_cd"}

----------------------------------------------------------------------------
\* A clock edge: every register takes its next value.
Edge(u, done) ==
  LET m == M(done)
      i == ToCache(u, m)
      j == ToAdapter(m, i)
  IN  /\ d' = [c \in Cores |-> DC!ForgetCache(DC!CacheNext(d[c], i[c]))]
      /\ a' = [c \in Cores |-> AD!ForgetAdapter(AD!AdapterNext(a[c], j[c]))]
      /\ q' = DS!ForgetDst(DS!DstNext(q, a, Answers(m, j), TRUE, done))
      /\ l2' = IF done THEN DS!L2Next(l2, mem, q) ELSE l2
      /\ mem' = IF done THEN DS!MemNext(l2, mem, q) ELSE mem
      /\ asked' = [c \in Cores |-> AskedNext(c, u[c], i[c])]
      /\ newest' = NewestNext
      /\ victim' = [c \in Cores |-> VictimNext(c)]
      /\ races' = RacesNext(m, j)
      /\ age' = IF Snooping THEN age + 1 ELSE 0

Init == /\ d = [c \in Cores |-> DC!CacheReset]
        /\ a = [c \in Cores |-> AD!AdapterReset]
        /\ q = DS!DstReset
        /\ l2 = DS!L2Reset
        /\ mem = [l \in Lines |-> ZeroLine]
        /\ asked = [c \in Cores |-> "nothing"]
        /\ newest = [l \in Lines |-> ZeroLine]
        /\ victim = [c \in Cores |-> NoPlace]
        /\ races = {}
        /\ age = 0

Choices == {u \in [Cores -> UNION {CoreChoices(c) : c \in Cores}] :
              \A c \in Cores : u[c] \in CoreChoices(c)}

Next == \E u \in Choices, done \in Done : Edge(u, done)

Spec == Init /\ [][Next]_vars

----------------------------------------------------------------------------
(* Properties *)

\* The registers stay in their ranges.
TypeOK ==
  /\ \A c \in Cores :
       /\ d[c].state \in DC!CacheStates
       /\ \A p \in DC!Places : /\ d[c].lines[p].flags \subseteq DC!Flags
                               /\ d[c].lines[p].data \in Data
       /\ d[c].lru \in [DC!Sets -> [DC!Ways -> DC!Ways]]
       /\ d[c].flush_cnt \in 0..DC!FLUSH_ALL_VALUE
       /\ d[c].req_mem_type \in DC!MemTypes
       /\ d[c].req_snoop_type \in DC!SnoopTypes
       /\ d[c].snoop_restore \in {"none", "WaitResp", "WriteBus"}
       /\ a[c].state \in AD!BusStates
       /\ a[c].snoop_state \in AD!SnoopStates
       /\ asked[c] \in Lines \cup {"nothing", "flush"}
  /\ q.state \in DS!DstStates
  /\ q.req_type \subseteq DS!ReqTypes
  /\ q.ac_valid \cup q.cr_ready \cup q.cd_ready \subseteq Cores
  /\ mem \in [Lines -> Data]

Holds(c, l) == DC!Tagged(d[c], l) # {}
Owns(c, l) == \E p \in DC!Tagged(d[c], l) : "SHARED" \notin d[c].lines[p].flags
HoldsDirty(c, l) == \E p \in DC!Tagged(d[c], l) : "DIRTY" \in d[c].lines[p].flags

\* core c has stored into a shared line and has not yet been answered that
\* the other copies are gone
Upgrading(c, l) ==
  /\ d[c].write_share
  /\ l = IF d[c].state = "TranslateAddress" THEN d[c].req_addr ELSE d[c].mem_addr

\* A cache that may store without asking is the only one that has the line:
\* "Make line: 'shared' -> 'unique' using write request" (State_CheckHit of
\* DCacheLru).  Until the arbiter has answered that request, the copies of the
\* others may still be there.
LineUnique ==
  \A l \in Lines, c, e \in Cores :
    c # e /\ Owns(c, l) /\ Holds(e, l) => Upgrading(c, l)

\* LineUnique holds up to the first race: the requests, snoops, replacements
\* and flushes of the cores, in any order of cycles, leave a line with one
\* owner (READCLEAN and READDATA of dcache_lru, AC_SNOOP_READ_UNIQUE of
\* l1_dma_snoop).
OneOwner == races = {} => LineUnique

\* A line that has been changed is written back before a fill takes its place:
\* "Obsolete line was offloaded, now read new line" (State_WriteBus of
\* DCacheLru).  The place is chosen twice, by the miss and by the fill.
VictimOffloaded == races = {} => ~Displaced

\* Up to the first race a valid line in a cache has every store that was
\* done to it, unless a store to it is still being announced: no load that
\* hits returns a value that another core has replaced.
NoStaleCopy ==
  races = {} =>
    \A l \in Lines, c \in Cores :
      \/ \A p \in DC!Tagged(d[c], l) : d[c].lines[p].data = newest[l]
      \/ \E e \in Cores : Upgrading(e, l)

\* Up to the first race no store is lost: between two requests of the arbiter
\* the newest content of a line is in the L2 cache or in the memory, or with
\* a core that has it dirty, is about to write it, or is flushing it.
StoresKept ==
  races = {} /\ q.state = "Idle" =>
    \A l \in Lines :
      \/ \E c \in Cores : \/ Upgrading(c, l)
                          \/ HoldsDirty(c, l)
                          \/ d[c].write_flush /\ d[c].mem_addr = l
                          \/ d[c].state = "CheckResp" /\ d[c].req_addr = l
      \/ newest[l] = DS!L2Data(l2, mem, [req_addr |-> l])

\* When a flush ends, up to the first race, the cache holds no line but the
\* clean one it is just invalidating: the count down of flush_cnt visits every
\* place, the snoops that take over the cache between two of them leave
\* nothing behind, and a dirty line that is visited last is not left out
\* (State_FlushCheck).
FlushEmpties ==
  races = {} =>
    \A c \in Cores : DC!FlushEnd(d[c]) =>
      \A p \in DC!Places \ {DC!Place(d[c])} : "VALID" \notin d[c].lines[p].flags

\* The cache answers the access the core has asked for, although a snoop may
\* have taken over its address register in the middle of a miss
\* (req_addr_restore of State_WaitResp and State_WriteBus).
AnswersOwnAccess ==
  \A c \in Cores : DC!RespValid(d[c]) => d[c].req_addr = asked[c]

\* A cache does not fall back to State_Idle while its core still waits for
\* an access: after a snoop it goes on with what it interrupted
\* (snoop_restore_wait_resp, snoop_restore_write_bus).
AccessNotForgotten ==
  \A c \in Cores : asked[c] \in Lines => d[c].state # "Idle"

\* the cycles a snoop may take: the flags in three, the data in five more, or
\* after a flush that goes on, two for each place
SnoopBound == 6 + 2 * NWAYS * LINES_PER_WAY

\* The arbiter gets the answers to a snoop within SnoopBound cycles whatever
\* the snooped cache is doing: a cache that waits for the same arbiter serves
\* the snoop first (v_req_snoop_ready_on_wait), so that the two never wait
\* for each other.
SnoopInTime == age <= SnoopBound
=============================================================================
