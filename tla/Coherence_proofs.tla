-------------------------- MODULE Coherence_proofs --------------------------
(***************************************************************************)
(* Proofs about Coherence.                                                 *)
(*                                                                         *)
(* Local to a core, and so through every race of Coherence: a data cache   *)
(* answers the access its core waits for, with the address of that access, *)
(* and does not forget it.                                                 *)
(*                                                                         *)
(* About the cores and the arbiter together: a snoop is answered in time   *)
(* (HandInv); up to the first race a line that may be stored to is in one  *)
(* cache (BusInv, SnoopInv and OwnInv on top of it); and the registers     *)
(* stay in their ranges, after races too (TypedInv).                       *)
(***************************************************************************)
EXTENDS Coherence, BitWords_proofs, FiniteSetTheorems, TLAPS

-----------------------------------------------------------------------------
(* The registers the argument is about.                                    *)

Regs == {"state", "req_addr", "req_type", "write_share", "write_flush", "snoop_restore",
         "req_addr_restore"}

HasRegs(x) == Regs \subseteq DOMAIN x

\* v and w agree on the registers that are not in S.
SameRegs(v, w, S) ==
    /\ DOMAIN v = DOMAIN w
    /\ "state" \notin S => v.state = w.state
    /\ "req_addr" \notin S => v.req_addr = w.req_addr
    /\ "req_type" \notin S => v.req_type = w.req_type
    /\ "write_share" \notin S => v.write_share = w.write_share
    /\ "write_flush" \notin S => v.write_flush = w.write_flush
    /\ "snoop_restore" \notin S => v.snoop_restore = w.snoop_restore
    /\ "req_addr_restore" \notin S => v.req_addr_restore = w.req_addr_restore

\* The registers before the case on the state: none of Regs is written.
Prepared(x, i) ==
    [x EXCEPT !.req_flush = @ \/ i.flush,
              !.snoop_addr = i.snoop.addr,
              !.snoop_flags_valid = i.snoop.valid /\ ~DC!WritesTags(x)
                                    /\ i.snoop.type = "FLAGS"]

\* What CacheState makes of them.
Worked(x, i) == DC!CacheState(x, i, Prepared(x, i))

\* CacheNext in two parts.
LEMMA CacheNextIs ==
    ASSUME NEW x, NEW i
    PROVE  DC!CacheNext(x, i) = IF DC!ReadyNext(x, i) THEN DC!Accept(x, i, Worked(x, i))
                                ELSE Worked(x, i)
BY DEF DC!CacheNext, Worked, Prepared

(* Preparing a bus request leaves the access registers and the flush registers alone. *)
LEMMA PreparedSame ==
    ASSUME NEW x, NEW i PROVE SameRegs(Prepared(x, i), x, {})
BY DEF Prepared, SameRegs

(* Writing a line, or using it, is about the memory and the order of use. *)
LEMMA WriteRegs ==
    ASSUME NEW x, NEW v, NEW l
    PROVE  SameRegs(DC!Used(x, v), v, {}) /\ SameRegs(DC!Write(x, v, l), v, {})
<1> DEFINE u == DC!Used(x, v)
<1>1. SameRegs(u, v, {})
  BY DEF DC!Used, SameRegs
<1>2. DC!Write(x, v, l) = [u EXCEPT !.lines[DC!Place(x)] = l]
  BY DEF DC!Write
<1> HIDE DEF u
<1>3. SameRegs(DC!Write(x, v, l), u, {})
  BY <1>2 DEF SameRegs
<1> QED
  BY <1>1, <1>3 DEF u, SameRegs

-----------------------------------------------------------------------------
(* One lemma per state of the cache.                                       *)

(* The Idle state of dcache_lru keeps the local invariant: it takes a new access, starts a flush or a snoop, or stays. *)
LEMMA StepIdle ==
    ASSUME NEW x, NEW i, x.state = "Idle"
    PROVE  SameRegs(Worked(x, i), x, {})
<1>1. Worked(x, i) = Prepared(x, i)
  BY DEF Worked, DC!CacheState
<1> QED
  BY <1>1, PreparedSame

\* A miss goes on to the bus, but a store conditional; a hit is done with the
\* access, although it may still have to make the line unique.
LEMMA StepCheckHit ==
    ASSUME NEW x, NEW i, HasRegs(x), x.state = "CheckHit"
    PROVE  /\ SameRegs(Worked(x, i), x, {"state", "req_type", "write_share"})
           /\ Worked(x, i).req_type \in {x.req_type, x.req_type \ {"Store"}}
           /\ ~DC!Hit(x) => /\ Worked(x, i).write_share = x.write_share
                            /\ Worked(x, i).state = IF {"Store", "Release"} \subseteq x.req_type
                                                    THEN "Idle" ELSE "TranslateAddress"
           /\ DC!Hit(x) => \/ /\ Worked(x, i).state = "Idle"
                              /\ Worked(x, i).write_share <=> x.write_share
                           \/ /\ Worked(x, i).state = "TranslateAddress"
                              /\ Worked(x, i).write_share
                              /\ DC!Upgrades(x)
<1> DEFINE p == Prepared(x, i)
<1>1. Worked(x, i) = DC!CheckHit(x, p)
  BY DEF Worked, DC!CacheState
<1>2. SameRegs(p, x, {}) /\ HasRegs(p)
  BY PreparedSame DEF SameRegs, HasRegs
<1> HIDE DEF p
<1>3. CASE ~DC!Hit(x)
  BY <1>1, <1>2, <1>3 DEF DC!CheckHit, SameRegs, HasRegs, Regs
<1>4. CASE DC!Hit(x) /\ ~DC!IsStore(x)
  <2>1. PICK b : SameRegs(b, p, {}) /\ Worked(x, i) = [b EXCEPT !.state = "Idle"]
    BY <1>1, <1>4, WriteRegs DEF DC!CheckHit
  <2> QED
    BY <1>2, <1>4, <2>1 DEF SameRegs, HasRegs, Regs
<1>5. CASE DC!Hit(x) /\ DC!IsStore(x)
  <2>1. Worked(x, i) = DC!CheckHitStore(x, p)
    BY <1>1, <1>5 DEF DC!CheckHit
  <2>2. CASE DC!ScFails(x)
    <3> DEFINE b == DC!Used(x, p)
    <3>1. Worked(x, i) = [b EXCEPT !.state = "Idle", !.req_type = @ \ {"Store"}]
      BY <2>1, <2>2 DEF DC!CheckHitStore
    <3>2. SameRegs(b, x, {}) /\ HasRegs(b)
      BY <1>2, WriteRegs DEF SameRegs, HasRegs
    <3> HIDE DEF b
    <3> QED
      BY <1>5, <3>1, <3>2 DEF SameRegs, HasRegs, Regs
  <2>3. CASE ~DC!ScFails(x)
    <3> DEFINE b == DC!Write(x, p, [tag |-> x.req_addr, flags |-> DC!StoreFlags,
                                    data |-> DC!Modified(x, DC!Line(x).data)])
    <3>1. Worked(x, i) = [b EXCEPT !.req_type = @ \ {"Store"},
                                   !.write_share = @ \/ DC!Upgrades(x),
                                   !.state = IF DC!Upgrades(x) THEN "TranslateAddress"
                                             ELSE "Idle"]
      BY <2>1, <2>3 DEF DC!CheckHitStore
    <3>6. SameRegs(b, x, {}) /\ HasRegs(b)
      BY <1>2, WriteRegs DEF SameRegs, HasRegs
    <3> HIDE DEF b
    <3>2. SameRegs(Worked(x, i), x, {"state", "req_type", "write_share"})
      BY <3>6, <3>1 DEF SameRegs, HasRegs, Regs
    <3>3. Worked(x, i).req_type = x.req_type \ {"Store"}
      BY <3>6, <3>1 DEF SameRegs, HasRegs, Regs
    <3>4. Worked(x, i).write_share = (x.write_share \/ DC!Upgrades(x))
      BY <3>6, <3>1 DEF SameRegs, HasRegs, Regs
    <3>5. Worked(x, i).state = IF DC!Upgrades(x) THEN "TranslateAddress" ELSE "Idle"
      BY <3>6, <3>1 DEF SameRegs, HasRegs, Regs
    <3> QED
      BY <1>5, <3>2, <3>3, <3>4, <3>5, Zenon
  <2> QED
    BY <2>2, <2>3
<1> QED
  BY <1>3, <1>4, <1>5

(* Translating the address, checking its attributes and checking the hit keep the local invariant. *)
LEMMA StepTranslate ==
    ASSUME NEW x, NEW i, HasRegs(x), x.state = "TranslateAddress"
    PROVE  /\ SameRegs(Worked(x, i), x, {"state"})
           /\ Worked(x, i).state = "WaitGrant"
<1> DEFINE p == Prepared(x, i)
<1>1. Worked(x, i) = DC!TranslateAddress(x, p)
  BY DEF Worked, DC!CacheState
<1>2. SameRegs(p, x, {}) /\ HasRegs(p)
  BY PreparedSame DEF SameRegs, HasRegs
<1> HIDE DEF p
<1> QED
  BY <1>1, <1>2 DEF DC!TranslateAddress, SameRegs, HasRegs, Regs

(* Waiting for the grant of the bus request keeps the local invariant. *)
LEMMA StepWaitGrant ==
    ASSUME NEW x, NEW i, HasRegs(x), x.state = "WaitGrant"
    PROVE  /\ SameRegs(Worked(x, i), x, {"state"})
           /\ \/ Worked(x, i).state = "WriteBus"
              \/ Worked(x, i).state = "WaitResp" /\ ~x.write_share /\ ~x.write_flush
<1> DEFINE p == Prepared(x, i)
<1>1. Worked(x, i) = DC!WaitGrant(x, p)
  BY DEF Worked, DC!CacheState
<1>2. SameRegs(p, x, {}) /\ HasRegs(p)
  BY PreparedSame DEF SameRegs, HasRegs
<1> HIDE DEF p
<1> QED
  BY <1>1, <1>2 DEF DC!WaitGrant, SameRegs, HasRegs, Regs

\* A snoop puts the address and the state aside.
LEMMA StepTakeSnoop ==
    ASSUME NEW x, NEW i, HasRegs(x)
    PROVE  LET v == DC!TakeSnoop(x, i, Prepared(x, i))
           IN /\ SameRegs(v, x, {"state", "snoop_restore", "req_addr", "req_addr_restore"})
              /\ v.state = "SnoopSetupAddr"
              /\ v.snoop_restore = x.state
              /\ v.req_addr_restore = x.req_addr
<1> DEFINE p == Prepared(x, i)
<1>2. SameRegs(p, x, {}) /\ HasRegs(p)
  BY PreparedSame DEF SameRegs, HasRegs
<1> HIDE DEF p
<1>3. LET v == DC!TakeSnoop(x, i, p)
      IN /\ SameRegs(v, x, {"state", "snoop_restore", "req_addr", "req_addr_restore"})
         /\ v.state = "SnoopSetupAddr"
         /\ v.snoop_restore = x.state
         /\ v.req_addr_restore = x.req_addr
  BY <1>2 DEF DC!TakeSnoop, SameRegs, HasRegs, Regs
<1> QED
  BY <1>3 DEF p

(* Waiting for the answer of the bus keeps the local invariant. *)
LEMMA StepWaitResp ==
    ASSUME NEW x, NEW i, HasRegs(x), x.state = "WaitResp"
    PROVE  \/ /\ SameRegs(Worked(x, i), x, {"state"})
              /\ Worked(x, i).state \in {"WaitResp", "CheckResp"}
           \/ Worked(x, i) = DC!TakeSnoop(x, i, Prepared(x, i))
<1> DEFINE p == Prepared(x, i)
<1>1. Worked(x, i) = DC!WaitResp(x, i, p)
  BY DEF Worked, DC!CacheState
<1>2. SameRegs(p, x, {}) /\ HasRegs(p)
  BY PreparedSame DEF SameRegs, HasRegs
<1> HIDE DEF p
<1>3. \/ Worked(x, i) = p
      \/ Worked(x, i) = DC!TakeSnoop(x, i, p)
      \/ Worked(x, i) = [p EXCEPT !.cache_line_i = i.mem_data, !.state = "CheckResp"]
  BY <1>1 DEF DC!WaitResp
<1>4. CASE Worked(x, i) = [p EXCEPT !.cache_line_i = i.mem_data, !.state = "CheckResp"]
  BY <1>2, <1>4 DEF SameRegs, HasRegs, Regs
<1>5. CASE Worked(x, i) = p
  BY <1>2, <1>5 DEF SameRegs
<1> QED
  BY <1>3, <1>4, <1>5 DEF p

(* Checking the answer of the bus keeps the local invariant. *)
LEMMA StepCheckResp ==
    ASSUME NEW x, NEW i, HasRegs(x), x.state = "CheckResp"
    PROVE  /\ SameRegs(Worked(x, i), x, {"state", "req_type"})
           /\ Worked(x, i).req_type \in {x.req_type, x.req_type \ {"Store"}}
           /\ Worked(x, i).state = IF DC!IsStore(x) THEN "Idle" ELSE "SetupReadAdr"
<1> DEFINE p == Prepared(x, i)
<1>1. Worked(x, i) = DC!CheckResp(x, p)
  BY DEF Worked, DC!CacheState
<1>2. SameRegs(p, x, {}) /\ HasRegs(p)
  BY PreparedSame DEF SameRegs, HasRegs
<1> HIDE DEF p
<1>3. PICK b : /\ SameRegs(b, p, {})
               /\ Worked(x, i) = IF DC!IsStore(x)
                                 THEN [b EXCEPT !.req_type = @ \ {"Store"}, !.state = "Idle"]
                                 ELSE [b EXCEPT !.state = "SetupReadAdr"]
  BY <1>1, WriteRegs DEF DC!CheckResp
<1> QED
  BY <1>2, <1>3 DEF SameRegs, HasRegs, Regs

(* Setting up the next read of the line memory keeps the local invariant. *)
LEMMA StepSetupRead ==
    ASSUME NEW x, NEW i, HasRegs(x), x.state = "SetupReadAdr"
    PROVE  /\ SameRegs(Worked(x, i), x, {"state"})
           /\ Worked(x, i).state = "CheckHit"
<1> DEFINE p == Prepared(x, i)
<1>1. Worked(x, i) = [p EXCEPT !.state = "CheckHit"]
  BY DEF Worked, DC!CacheState
<1>2. SameRegs(p, x, {}) /\ HasRegs(p)
  BY PreparedSame DEF SameRegs, HasRegs
<1> HIDE DEF p
<1> QED
  BY <1>1, <1>2 DEF SameRegs, HasRegs, Regs

\* The write that makes the line unique ends, a flush goes on, or the fill that
\* had to wait for the write-back is asked for.
LEMMA StepWriteBus ==
    ASSUME NEW x, NEW i, HasRegs(x), x.state = "WriteBus"
    PROVE  \/ SameRegs(Worked(x, i), x, {})
           \/ Worked(x, i) = DC!TakeSnoop(x, i, Prepared(x, i))
           \/ /\ SameRegs(Worked(x, i), x, {"state", "write_share"})
              /\ x.write_share /\ ~Worked(x, i).write_share
              /\ Worked(x, i).state = "Idle"
           \/ /\ SameRegs(Worked(x, i), x, {"state"})
              /\ ~x.write_share
              /\ Worked(x, i).state = IF x.write_flush THEN "FlushAddr" ELSE "WaitGrant"
<1> DEFINE p == Prepared(x, i)
<1>1. Worked(x, i) = DC!WriteBus(x, i, p)
  BY DEF Worked, DC!CacheState
<1>2. SameRegs(p, x, {}) /\ HasRegs(p)
  BY PreparedSame DEF SameRegs, HasRegs
<1> HIDE DEF p
<1>3. CASE ~i.mem_valid
  <2>1. Worked(x, i) = p \/ Worked(x, i) = DC!TakeSnoop(x, i, p)
    BY <1>1, <1>3 DEF DC!WriteBus
  <2> QED
    BY <1>2, <2>1 DEF p, SameRegs
<1>4. CASE i.mem_valid /\ x.write_share
  <2>1. Worked(x, i) = [p EXCEPT !.write_share = FALSE, !.state = "Idle"]
    BY <1>1, <1>4 DEF DC!WriteBus
  <2> QED
    BY <1>2, <1>4, <2>1 DEF SameRegs, HasRegs, Regs
<1>5. CASE i.mem_valid /\ ~x.write_share /\ x.write_flush
  <2>1. Worked(x, i) = [p EXCEPT !.state = "FlushAddr"]
    BY <1>1, <1>5 DEF DC!WriteBus
  <2> QED
    BY <1>2, <1>5, <2>1 DEF SameRegs, HasRegs, Regs
<1>6. CASE i.mem_valid /\ ~x.write_share /\ ~x.write_flush
  <2>1. Worked(x, i) = [p EXCEPT !.write_first = FALSE, !.mem_addr = x.req_addr,
                                 !.req_mem_valid = TRUE, !.req_mem_type = DC!FillType(x),
                                 !.state = "WaitGrant"]
    BY <1>1, <1>6 DEF DC!WriteBus
  <2> QED
    BY <1>2, <1>6, <2>1 DEF SameRegs, HasRegs, Regs
<1> QED
  BY <1>3, <1>4, <1>5, <1>6

(* Choosing the line to flush keeps the local invariant. *)
LEMMA StepFlushAddr ==
    ASSUME NEW x, NEW i, HasRegs(x), x.state = "FlushAddr"
    PROVE  /\ SameRegs(Worked(x, i), x, {"state", "write_flush"})
           /\ ~Worked(x, i).write_flush
           /\ Worked(x, i).state = "FlushCheck"
<1> DEFINE p == Prepared(x, i)
<1>1. Worked(x, i) = DC!FlushAddr(x, p)
  BY DEF Worked, DC!CacheState
<1>2. SameRegs(p, x, {}) /\ HasRegs(p)
  BY PreparedSame DEF SameRegs, HasRegs
<1> HIDE DEF p
<1> QED
  BY <1>1, <1>2 DEF DC!FlushAddr, SameRegs, HasRegs, Regs

(* Checking the line to flush keeps the local invariant. *)
LEMMA StepFlushCheck ==
    ASSUME NEW x, NEW i, HasRegs(x), x.state = "FlushCheck"
    PROVE  /\ SameRegs(Worked(x, i), x, {"state", "write_flush"})
           /\ \/ /\ Worked(x, i).state \in {"Idle", "FlushAddr"}
                 /\ Worked(x, i).write_flush = x.write_flush
              \/ Worked(x, i).state = "WaitGrant" /\ Worked(x, i).write_flush
<1> DEFINE p == Prepared(x, i)
           b == [p EXCEPT !.cache_line_o = DC!Line(x).data,
                          !.lines[DC!Place(x)] = [tag |-> x.req_addr, flags |-> {},
                                                  data |-> x.cache_line_i],
                          !.lru[DC!Place(x)[1]] = DC!InitOrder,
                          !.flush_cnt = IF @ = 0 THEN 0 ELSE @ - 1]
<1>1. Worked(x, i) = DC!FlushCheck(x, p)
  BY DEF Worked, DC!CacheState
<1>2. SameRegs(p, x, {}) /\ HasRegs(p)
  BY PreparedSame DEF SameRegs, HasRegs
<1> HIDE DEF p
<1>3. SameRegs(b, x, {}) /\ HasRegs(b)
  BY <1>2 DEF SameRegs, HasRegs
<1>4. \/ Worked(x, i) = [b EXCEPT !.state = IF x.flush_cnt = 0 THEN "Idle" ELSE "FlushAddr"]
      \/ Worked(x, i) = [b EXCEPT !.write_flush = TRUE, !.mem_addr = DC!Line(x).tag,
                                  !.req_mem_valid = TRUE, !.req_mem_type = "WriteBack",
                                  !.state = "WaitGrant"]
  BY <1>1 DEF DC!FlushCheck
<1> HIDE DEF b
<1> QED
  BY <1>3, <1>4 DEF SameRegs, HasRegs, Regs

(* Setting up the address of a snoop keeps the local invariant. *)
LEMMA StepSnoopSetup ==
    ASSUME NEW x, NEW i, HasRegs(x), x.state = "SnoopSetupAddr"
    PROVE  /\ SameRegs(Worked(x, i), x, {"state"})
           /\ Worked(x, i).state = "SnoopReadData"
<1> DEFINE p == Prepared(x, i)
<1>1. Worked(x, i) = [p EXCEPT !.state = "SnoopReadData"]
  BY DEF Worked, DC!CacheState
<1>2. SameRegs(p, x, {}) /\ HasRegs(p)
  BY PreparedSame DEF SameRegs, HasRegs
<1> HIDE DEF p
<1> QED
  BY <1>1, <1>2 DEF SameRegs, HasRegs, Regs

\* The end of a snoop takes back what was put aside.
LEMMA StepSnoopRead ==
    ASSUME NEW x, NEW i, HasRegs(x), x.state = "SnoopReadData"
    PROVE  /\ SameRegs(Worked(x, i), x, {"state", "req_addr", "snoop_restore"})
           /\ Worked(x, i).snoop_restore = "none"
           /\ Worked(x, i).req_addr = IF x.snoop_restore = "none" THEN x.req_addr
                                      ELSE x.req_addr_restore
           /\ Worked(x, i).state = IF x.snoop_restore = "none" THEN "Idle"
                                   ELSE x.snoop_restore
<1> DEFINE p == Prepared(x, i)
           b == DC!SnoopLine(x, p)
<1>1. Worked(x, i) = DC!SnoopReadData(x, p)
  BY DEF Worked, DC!CacheState
<1>2. SameRegs(p, x, {}) /\ HasRegs(p)
  BY PreparedSame DEF SameRegs, HasRegs
<1> HIDE DEF p
<1>3. Worked(x, i) = [b EXCEPT !.req_addr = DC!RestoredAddr(x),
                               !.snoop_restore = "none", !.state = DC!RestoredState(x)]
  BY <1>1 DEF DC!SnoopReadData
<1>4. SameRegs(b, p, {})
  <2>1. SameRegs([p EXCEPT !.lines[DC!Place(x)] = [tag |-> x.req_addr, flags |-> {},
                                                   data |-> DC!Line(x).data],
                           !.lru[DC!Place(x)[1]] = DC!Down(@, DC!Place(x)[2])], p, {})
    BY DEF SameRegs
  <2>2. SameRegs(p, p, {})
    BY DEF SameRegs
  <2> QED
    BY <2>1, <2>2, WriteRegs DEF DC!SnoopLine
<1>5. SameRegs(b, x, {}) /\ HasRegs(b)
  BY <1>2, <1>4 DEF SameRegs, HasRegs
<1> HIDE DEF b
<1> QED
  BY <1>5, <1>3 DEF DC!RestoredAddr, DC!RestoredState, SameRegs, HasRegs, Regs

\* A cache that is ready takes a snoop of the data, its flush, the request of
\* its core, or nothing; a request exactly when it says so on o_req_ready.
LEMMA AcceptCases ==
    ASSUME NEW x, NEW i, NEW v, HasRegs(v), DC!ReadyNext(x, i)
    PROVE  LET r == DC!Accept(x, i, v)
           IN \/ /\ ~DC!ReqReady(x, i)
                 /\ SameRegs(r, v, {"state", "req_addr"})
                 /\ r.state \in {"SnoopSetupAddr", "FlushAddr"}
              \/ /\ DC!ReqReady(x, i) /\ i.req.valid
                 /\ SameRegs(r, v, {"state", "req_addr", "req_type"})
                 /\ r.state = "CheckHit" /\ r.req_addr = i.req.addr
                 /\ r.req_type = i.req.type
              \/ /\ ~(DC!ReqReady(x, i) /\ i.req.valid)
                 /\ r = v
<1> DEFINE r == DC!Accept(x, i, v)
<1>1. CASE DC!DataSnoop(i)
  <2>1. r = [v EXCEPT !.req_addr = i.snoop.addr, !.req_snoop_type = i.snoop.type,
                      !.state = "SnoopSetupAddr"]
    BY <1>1 DEF DC!Accept
  <2>2. ~DC!ReqReady(x, i)
    BY <1>1 DEF DC!ReqReady
  <2> HIDE DEF r
  <2>3. SameRegs(r, v, {"state", "req_addr"}) /\ r.state = "SnoopSetupAddr"
    BY <2>1 DEF SameRegs, HasRegs, Regs
  <2> QED
    BY <2>2, <2>3 DEF r
<1>2. CASE ~DC!DataSnoop(i) /\ x.req_flush
  <2>1. r = [v EXCEPT !.req_flush = FALSE, !.req_addr = NoLine,
                      !.flush_cnt = DC!FLUSH_ALL_VALUE, !.cache_line_i = ZeroLine,
                      !.state = "FlushAddr"]
    BY <1>2 DEF DC!Accept
  <2>2. ~DC!ReqReady(x, i)
    BY <1>2 DEF DC!ReqReady
  <2> HIDE DEF r
  <2>3. SameRegs(r, v, {"state", "req_addr"}) /\ r.state = "FlushAddr"
    BY <2>1 DEF SameRegs, HasRegs, Regs
  <2> QED
    BY <2>2, <2>3 DEF r
<1>3. CASE ~DC!DataSnoop(i) /\ ~x.req_flush /\ i.req.valid
  <2>1. r = [v EXCEPT !.req_addr = i.req.addr, !.req_type = i.req.type,
                      !.req_word = i.req.word, !.req_wdata = i.req.wdata,
                      !.state = "CheckHit"]
    BY <1>3 DEF DC!Accept
  <2>2. DC!ReqReady(x, i)
    BY <1>3 DEF DC!ReqReady
  <2> HIDE DEF r
  <2>3. /\ SameRegs(r, v, {"state", "req_addr", "req_type"})
        /\ r.state = "CheckHit" /\ r.req_addr = i.req.addr /\ r.req_type = i.req.type
    BY <2>1 DEF SameRegs, HasRegs, Regs
  <2> QED
    BY <1>3, <2>2, <2>3 DEF r
<1>4. CASE ~DC!DataSnoop(i) /\ ~x.req_flush /\ ~i.req.valid
  BY <1>4 DEF DC!Accept
<1> QED
  BY <1>1, <1>2, <1>3, <1>4

\* What is forgotten is not needed.
LEMMA ForgetRegs ==
    ASSUME NEW x, HasRegs(x)
    PROVE  LET f == DC!ForgetCache(x)
           IN /\ SameRegs(f, x, {"req_addr", "req_type", "req_addr_restore"})
              /\ x.state # "Idle" => f.req_addr = x.req_addr
              /\ f.req_type \in {x.req_type, {}}
              /\ x.snoop_restore # "none" => f.req_addr_restore = x.req_addr_restore
<1> DEFINE v == [x EXCEPT !.snoop_addr = IF x.snoop_flags_valid THEN @ ELSE NoLine,
                          !.req_addr_restore = IF x.snoop_restore = "none"
                                               THEN NoLine ELSE @]
<1>1. /\ SameRegs(v, x, {"req_addr_restore"}) /\ HasRegs(v)
      /\ x.snoop_restore # "none" => v.req_addr_restore = x.req_addr_restore
  BY DEF SameRegs, HasRegs, Regs
<1>2. DC!ForgetCache(x)
        = IF x.state # "Idle" THEN v
          ELSE [v EXCEPT !.req_addr = NoLine, !.req_type = {}, !.req_word = 0,
                         !.req_wdata = 0, !.mem_addr = NoLine,
                         !.req_mem_type = "ReadShared", !.cache_line_i = ZeroLine,
                         !.cache_line_o = NoData, !.req_snoop_type = "FLAGS"]
  BY DEF DC!ForgetCache
<1> HIDE DEF v
<1>3. CASE x.state # "Idle"
  BY <1>1, <1>2, <1>3 DEF SameRegs
<1>4. CASE x.state = "Idle"
  <2> DEFINE f == DC!ForgetCache(x)
  <2>1. f = [v EXCEPT !.req_addr = NoLine, !.req_type = {}, !.req_word = 0,
                      !.req_wdata = 0, !.mem_addr = NoLine,
                      !.req_mem_type = "ReadShared", !.cache_line_i = ZeroLine,
                      !.cache_line_o = NoData, !.req_snoop_type = "FLAGS"]
    BY <1>2, <1>4
  <2> HIDE DEF f
  <2>2. /\ SameRegs(f, x, {"req_addr", "req_type", "req_addr_restore"})
        /\ f.req_type = {}
        /\ x.snoop_restore # "none" => f.req_addr_restore = x.req_addr_restore
    BY <1>1, <2>1 DEF SameRegs, HasRegs, Regs
  <2> QED
    BY <1>4, <2>2 DEF f
<1> QED
  BY <1>3, <1>4

-----------------------------------------------------------------------------
(* What a cache is doing for its core.                                     *)

\* The cache works on an access of its core.  A write that makes a line unique
\* and a write of a flush use the same states, but nobody waits for an answer.
Busy(x) ==
    \/ x.state \in {"CheckHit", "WaitResp", "CheckResp", "SetupReadAdr"}
    \/ /\ x.state \in {"TranslateAddress", "WaitGrant", "WriteBus"}
       /\ ~x.write_share /\ ~x.write_flush
    \/ /\ x.state \in {"SnoopSetupAddr", "SnoopReadData"}
       /\ \/ x.snoop_restore = "WaitResp"
          \/ x.snoop_restore = "WriteBus" /\ ~x.write_share /\ ~x.write_flush

\* The address of that access: while a snoop is served it is put aside.
AccessAddr(x) == IF x.snoop_restore = "none" THEN x.req_addr ELSE x.req_addr_restore

\* When the two flags of the bus states are down, and when something is put
\* aside.
Control(x) ==
    /\ HasRegs(x)
    /\ x.state \in DC!CacheStates
    /\ x.snoop_restore \in {"none", "WaitResp", "WriteBus"}
    /\ x.snoop_restore # "none" => x.state \in {"SnoopSetupAddr", "SnoopReadData"}
    /\ x.state \notin {"TranslateAddress", "WaitGrant", "WriteBus", "SnoopSetupAddr",
                       "SnoopReadData"} => ~x.write_share
    /\ x.state \notin {"WaitGrant", "WriteBus", "FlushAddr", "SnoopSetupAddr",
                       "SnoopReadData"} => ~x.write_flush
    /\ x.state \in {"SnoopSetupAddr", "SnoopReadData"} /\ x.snoop_restore # "WriteBus"
          => ~x.write_share /\ ~x.write_flush
    /\ ~(x.write_share /\ x.write_flush)

\* A store conditional that misses.
Drops(x) == x.state = "CheckHit" /\ ~DC!Hit(x) /\ {"Store", "Release"} \subseteq x.req_type

\* From x to v the cache goes on with the same access.
GoesOn(x, v) ==
    /\ Busy(v) => Busy(x) /\ ~DC!RespValid(x) /\ AccessAddr(v) = AccessAddr(x)
    /\ Busy(x) /\ ~DC!RespValid(x) /\ ~Drops(x) => Busy(v)

\* The state machine keeps Control and goes on with the access, until it has
\* answered.
LEMMA WorkedGoesOn ==
    ASSUME NEW x, NEW i, Control(x)
    PROVE  Control(Worked(x, i)) /\ GoesOn(x, Worked(x, i))
<1> DEFINE v == Worked(x, i)
<1> USE DEF GoesOn, Drops
<1>0. HasRegs(x) /\ x.state \in DC!CacheStates
  BY DEF Control
<1>1. CASE x.state = "Idle"
  <2>1. SameRegs(v, x, {})
    BY <1>1, StepIdle
  <2> HIDE DEF v
  <2>2. Control(v) /\ ~Busy(v) /\ ~Busy(x)
    BY <1>1, <2>1 DEF SameRegs, Control, HasRegs, Busy
  <2> QED
    BY <2>2 DEF v
<1>2. CASE x.state = "CheckHit"
  <2>1. /\ SameRegs(v, x, {"state", "req_type", "write_share"})
        /\ ~DC!Hit(x) => /\ v.write_share = x.write_share
                         /\ v.state = IF {"Store", "Release"} \subseteq x.req_type
                                      THEN "Idle" ELSE "TranslateAddress"
        /\ DC!Hit(x) => \/ v.state = "Idle" /\ (v.write_share <=> x.write_share)
                        \/ v.state = "TranslateAddress" /\ v.write_share
    BY <1>0, <1>2, StepCheckHit
  <2>2. DC!RespValid(x) <=> DC!Hit(x)
    BY <1>2 DEF DC!RespValid, DC!Hits
  <2> HIDE DEF v
  <2>3. Control(v)
    BY <1>2, <2>1 DEF SameRegs, Control, HasRegs, DC!CacheStates
  <2>4. CASE DC!Hit(x)
    <3>1. ~Busy(v)
      BY <2>1, <2>4 DEF Busy
    <3> QED
      BY <2>2, <2>3, <2>4, <3>1 DEF v
  <2>5. CASE ~DC!Hit(x)
    <3>1. Busy(x)
      BY <1>2 DEF Busy
    <3>2. AccessAddr(v) = AccessAddr(x)
      BY <2>1 DEF SameRegs, AccessAddr
    <3>3. ~({"Store", "Release"} \subseteq x.req_type) => Busy(v)
      BY <1>2, <2>1, <2>5 DEF SameRegs, Busy, Control
    <3> QED
      BY <1>2, <2>2, <2>3, <2>5, <3>1, <3>2, <3>3 DEF v
  <2> QED
    BY <2>4, <2>5
<1>3. CASE x.state = "TranslateAddress"
  <2>1. SameRegs(v, x, {"state"}) /\ v.state = "WaitGrant"
    BY <1>0, <1>3, StepTranslate
  <2>2. ~DC!RespValid(x)
    BY <1>3 DEF DC!RespValid, DC!Hits
  <2> HIDE DEF v
  <2>3. Control(v) /\ (Busy(v) <=> Busy(x)) /\ AccessAddr(v) = AccessAddr(x)
    BY <1>3, <2>1 DEF SameRegs, Control, HasRegs, Busy, AccessAddr, DC!CacheStates
  <2> QED
    BY <2>2, <2>3 DEF v
<1>4. CASE x.state = "WaitGrant"
  <2>1. /\ SameRegs(v, x, {"state"})
        /\ \/ v.state = "WriteBus"
           \/ v.state = "WaitResp" /\ ~x.write_share /\ ~x.write_flush
    BY <1>0, <1>4, StepWaitGrant
  <2>2. ~DC!RespValid(x)
    BY <1>4 DEF DC!RespValid, DC!Hits
  <2> HIDE DEF v
  <2>3. Control(v) /\ (Busy(v) <=> Busy(x)) /\ AccessAddr(v) = AccessAddr(x)
    BY <1>4, <2>1 DEF SameRegs, Control, HasRegs, Busy, AccessAddr, DC!CacheStates
  <2> QED
    BY <2>2, <2>3 DEF v
<1>5. ASSUME x.state \in {"WaitResp", "WriteBus"},
             v = DC!TakeSnoop(x, i, Prepared(x, i))
      PROVE  Control(v) /\ GoesOn(x, v)
  <2>1. /\ SameRegs(v, x, {"state", "snoop_restore", "req_addr", "req_addr_restore"})
        /\ v.state = "SnoopSetupAddr"
        /\ v.snoop_restore = x.state
        /\ v.req_addr_restore = x.req_addr
    BY <1>0, <1>5, StepTakeSnoop
  <2>2. ~DC!RespValid(x)
    BY <1>5 DEF DC!RespValid, DC!Hits
  <2> HIDE DEF v
  <2>3. Control(v) /\ (Busy(v) <=> Busy(x)) /\ AccessAddr(v) = AccessAddr(x)
    BY <1>5, <2>1 DEF SameRegs, Control, HasRegs, Busy, AccessAddr, DC!CacheStates
  <2> QED
    BY <2>2, <2>3 DEF v
<1>6. CASE x.state = "WaitResp"
  <2>1. CASE SameRegs(v, x, {"state"}) /\ v.state \in {"WaitResp", "CheckResp"}
    <3>2. ~DC!RespValid(x)
      BY <1>6 DEF DC!RespValid, DC!Hits
    <3> HIDE DEF v
    <3>3. Control(v) /\ (Busy(v) <=> Busy(x)) /\ AccessAddr(v) = AccessAddr(x)
      BY <1>6, <2>1 DEF SameRegs, Control, HasRegs, Busy, AccessAddr, DC!CacheStates
    <3> QED
      BY <3>2, <3>3 DEF v
  <2> QED
    BY <1>0, <1>5, <1>6, <2>1, StepWaitResp
<1>7. CASE x.state = "CheckResp"
  <2>1. /\ SameRegs(v, x, {"state", "req_type"})
        /\ v.state = IF DC!IsStore(x) THEN "Idle" ELSE "SetupReadAdr"
    BY <1>0, <1>7, StepCheckResp
  <2>2. DC!RespValid(x) <=> DC!IsStore(x)
    BY <1>7 DEF DC!RespValid, DC!Hits
  <2> HIDE DEF v
  <2>3. Control(v) /\ Busy(x) /\ (Busy(v) <=> ~DC!IsStore(x)) /\ AccessAddr(v) = AccessAddr(x)
    BY <1>7, <2>1 DEF SameRegs, Control, HasRegs, Busy, AccessAddr, DC!CacheStates
  <2> QED
    BY <2>2, <2>3 DEF v
<1>8. CASE x.state = "SetupReadAdr"
  <2>1. SameRegs(v, x, {"state"}) /\ v.state = "CheckHit"
    BY <1>0, <1>8, StepSetupRead
  <2>2. ~DC!RespValid(x)
    BY <1>8 DEF DC!RespValid, DC!Hits
  <2> HIDE DEF v
  <2>3. Control(v) /\ (Busy(v) <=> Busy(x)) /\ AccessAddr(v) = AccessAddr(x)
    BY <1>8, <2>1 DEF SameRegs, Control, HasRegs, Busy, AccessAddr, DC!CacheStates
  <2> QED
    BY <2>2, <2>3 DEF v
<1>9. CASE x.state = "WriteBus"
  <2>1. ~DC!RespValid(x)
    BY <1>9 DEF DC!RespValid, DC!Hits
  <2>2. CASE \/ SameRegs(v, x, {})
             \/ /\ SameRegs(v, x, {"state", "write_share"})
                /\ x.write_share /\ ~v.write_share /\ v.state = "Idle" /\ ~x.write_flush
             \/ /\ SameRegs(v, x, {"state"}) /\ ~x.write_share
                /\ v.state = IF x.write_flush THEN "FlushAddr" ELSE "WaitGrant"
    <3> HIDE DEF v
    <3>3. Control(v) /\ (Busy(v) <=> Busy(x)) /\ AccessAddr(v) = AccessAddr(x)
      BY <1>9, <2>2 DEF SameRegs, Control, HasRegs, Busy, AccessAddr, DC!CacheStates
    <3> QED
      BY <2>1, <3>3 DEF v
  <2>3. ~(x.write_share /\ x.write_flush)
    BY DEF Control
  <2> QED
    BY <1>0, <1>5, <1>9, <2>2, <2>3, StepWriteBus
<1>10. CASE x.state = "FlushAddr"
  <2>1. /\ SameRegs(v, x, {"state", "write_flush"})
        /\ ~v.write_flush /\ v.state = "FlushCheck"
    BY <1>0, <1>10, StepFlushAddr
  <2> HIDE DEF v
  <2>3. Control(v) /\ ~Busy(v) /\ ~Busy(x)
    BY <1>10, <2>1 DEF SameRegs, Control, HasRegs, Busy, DC!CacheStates
  <2> QED
    BY <2>3 DEF v
<1>11. CASE x.state = "FlushCheck"
  <2>1. /\ SameRegs(v, x, {"state", "write_flush"})
        /\ \/ v.state \in {"Idle", "FlushAddr"} /\ v.write_flush = x.write_flush
           \/ v.state = "WaitGrant" /\ v.write_flush
    BY <1>0, <1>11, StepFlushCheck
  <2> HIDE DEF v
  <2>3. Control(v) /\ ~Busy(v) /\ ~Busy(x)
    BY <1>11, <2>1 DEF SameRegs, Control, HasRegs, Busy, DC!CacheStates
  <2> QED
    BY <2>3 DEF v
<1>12. CASE x.state = "SnoopSetupAddr"
  <2>1. SameRegs(v, x, {"state"}) /\ v.state = "SnoopReadData"
    BY <1>0, <1>12, StepSnoopSetup
  <2>2. ~DC!RespValid(x)
    BY <1>12 DEF DC!RespValid, DC!Hits
  <2> HIDE DEF v
  <2>3. Control(v) /\ (Busy(v) <=> Busy(x)) /\ AccessAddr(v) = AccessAddr(x)
    BY <1>12, <2>1 DEF SameRegs, Control, HasRegs, Busy, AccessAddr, DC!CacheStates
  <2> QED
    BY <2>2, <2>3 DEF v
<1>13. CASE x.state = "SnoopReadData"
  <2>1. /\ SameRegs(v, x, {"state", "req_addr", "snoop_restore"})
        /\ v.snoop_restore = "none"
        /\ v.req_addr = IF x.snoop_restore = "none" THEN x.req_addr ELSE x.req_addr_restore
        /\ v.state = IF x.snoop_restore = "none" THEN "Idle" ELSE x.snoop_restore
    BY <1>0, <1>13, StepSnoopRead
  <2>2. ~DC!RespValid(x)
    BY <1>13 DEF DC!RespValid, DC!Hits
  <2> HIDE DEF v
  <2>3. Control(v) /\ (Busy(v) <=> Busy(x)) /\ AccessAddr(v) = AccessAddr(x)
    BY <1>13, <2>1 DEF SameRegs, Control, HasRegs, Busy, AccessAddr, DC!CacheStates
  <2> QED
    BY <2>2, <2>3 DEF v
<1> QED
  BY <1>0, <1>1, <1>2, <1>3, <1>4, <1>6, <1>7, <1>8, <1>9, <1>10, <1>11, <1>12, <1>13
     DEF DC!CacheStates

\* A cache that is ready for something new is idle or has just answered.
LEMMA ReadyIsIdle ==
    ASSUME NEW x, NEW i, Control(x), DC!ReadyNext(x, i)
    PROVE  /\ Worked(x, i).state = "Idle"
           /\ Busy(x) => DC!RespValid(x)
<1>0. HasRegs(x)
  BY DEF Control
<1>1. CASE x.state = "Idle"
  <2>1. Worked(x, i).state = "Idle"
    BY <1>1, StepIdle DEF SameRegs
  <2>2. ~Busy(x)
    BY <1>1 DEF Busy
  <2> QED
    BY <2>1, <2>2
<1>2. CASE x.state # "Idle"
  <2>1. x.state = "CheckHit" /\ DC!Hit(x) /\ ~DC!Upgrades(x)
    BY <1>2 DEF DC!ReadyNext, DC!LoadHits, DC!StoreHits, DC!Hits, DC!Upgrades
  <2>2. Worked(x, i).state = "Idle"
    BY <1>0, <2>1, StepCheckHit
  <2>3. DC!RespValid(x)
    BY <2>1 DEF DC!RespValid, DC!Hits
  <2> QED
    BY <2>2, <2>3
<1> QED
  BY <1>1, <1>2

\* The registers after the edge, before what is not needed is forgotten.
LEMMA NextGoesOn ==
    ASSUME NEW x, NEW i, Control(x)
    PROVE  LET r == DC!CacheNext(x, i)
           IN /\ Control(r)
              /\ DC!ReqReady(x, i) /\ i.req.valid
                    => /\ Busy(r) /\ AccessAddr(r) = i.req.addr
              /\ ~(DC!ReqReady(x, i) /\ i.req.valid) => GoesOn(x, r)
<1> DEFINE v == Worked(x, i)
           r == DC!CacheNext(x, i)
<1>1. Control(v) /\ GoesOn(x, v)
  BY WorkedGoesOn
<1>2. r = IF DC!ReadyNext(x, i) THEN DC!Accept(x, i, v) ELSE v
  BY CacheNextIs
<1>3. CASE ~DC!ReadyNext(x, i)
  <2>1. ~DC!ReqReady(x, i)
    BY <1>3 DEF DC!ReqReady
  <2> QED
    BY <1>1, <1>2, <1>3, <2>1
<1>4. CASE DC!ReadyNext(x, i)
  <2>1. v.state = "Idle" /\ (Busy(x) => DC!RespValid(x))
    BY <1>4, ReadyIsIdle
  <2>2. r = DC!Accept(x, i, v) /\ HasRegs(v)
    BY <1>1, <1>2, <1>4 DEF Control
  <2>3. \/ /\ ~DC!ReqReady(x, i)
           /\ SameRegs(r, v, {"state", "req_addr"})
           /\ r.state \in {"SnoopSetupAddr", "FlushAddr"}
        \/ /\ DC!ReqReady(x, i) /\ i.req.valid
           /\ SameRegs(r, v, {"state", "req_addr", "req_type"})
           /\ r.state = "CheckHit" /\ r.req_addr = i.req.addr
        \/ ~(DC!ReqReady(x, i) /\ i.req.valid) /\ r = v
    BY <1>4, <2>2, AcceptCases
  <2> HIDE DEF v, r
  <2>4. CASE /\ ~DC!ReqReady(x, i)
             /\ SameRegs(r, v, {"state", "req_addr"})
             /\ r.state \in {"SnoopSetupAddr", "FlushAddr"}
    <3>1. Control(r) /\ ~Busy(r)
      BY <1>1, <2>1, <2>4 DEF SameRegs, Control, HasRegs, Busy, DC!CacheStates
    <3> QED
      BY <2>1, <2>4, <3>1 DEF GoesOn, r
  <2>5. CASE /\ DC!ReqReady(x, i) /\ i.req.valid
             /\ SameRegs(r, v, {"state", "req_addr", "req_type"})
             /\ r.state = "CheckHit" /\ r.req_addr = i.req.addr
    <3>1. Control(r) /\ Busy(r) /\ AccessAddr(r) = i.req.addr
      BY <1>1, <2>1, <2>5 DEF SameRegs, Control, HasRegs, Busy, AccessAddr, DC!CacheStates
    <3> QED
      BY <2>5, <3>1 DEF r
  <2>6. CASE ~(DC!ReqReady(x, i) /\ i.req.valid) /\ r = v
    BY <1>1, <2>6 DEF r
  <2> QED
    BY <2>3, <2>4, <2>5, <2>6
<1> QED
  BY <1>3, <1>4

\* The same after it is forgotten.
LEMMA EdgeGoesOn ==
    ASSUME NEW x, NEW i, Control(x)
    PROVE  LET f == DC!ForgetCache(DC!CacheNext(x, i))
           IN /\ Control(f)
              /\ DC!ReqReady(x, i) /\ i.req.valid
                    => /\ Busy(f) /\ AccessAddr(f) = i.req.addr
              /\ ~(DC!ReqReady(x, i) /\ i.req.valid) => GoesOn(x, f)
<1> DEFINE r == DC!CacheNext(x, i)
           f == DC!ForgetCache(r)
<1>1. /\ Control(r)
      /\ DC!ReqReady(x, i) /\ i.req.valid => /\ Busy(r) /\ AccessAddr(r) = i.req.addr
      /\ ~(DC!ReqReady(x, i) /\ i.req.valid) => GoesOn(x, r)
  BY NextGoesOn
<1> HIDE DEF r
<1>2. HasRegs(r)
  BY <1>1 DEF Control
<1>3. /\ SameRegs(f, r, {"req_addr", "req_type", "req_addr_restore"})
      /\ r.state # "Idle" => f.req_addr = r.req_addr
      /\ r.snoop_restore # "none" => f.req_addr_restore = r.req_addr_restore
  BY <1>2, ForgetRegs
<1> HIDE DEF f
<1>4. Control(f) /\ (Busy(f) <=> Busy(r)) /\ (Busy(r) => AccessAddr(f) = AccessAddr(r))
  BY <1>1, <1>3 DEF SameRegs, Control, HasRegs, Busy, AccessAddr
<1>5. GoesOn(x, r) => GoesOn(x, f)
  BY <1>4 DEF GoesOn
<1> QED
  BY <1>1, <1>4, <1>5 DEF r, f

\* The type of an access comes with it and only loses its store.
LEMMA TypeStep ==
    ASSUME NEW x, NEW i, Control(x), NEW T,
           \A t \in T : t \ {"Store"} \in T, {} \in T,
           x.req_type \in T, i.req.valid => i.req.type \in T
    PROVE  DC!ForgetCache(DC!CacheNext(x, i)).req_type \in T
<1> DEFINE v == Worked(x, i)
           r == DC!CacheNext(x, i)
<1>0. HasRegs(x) /\ x.state \in DC!CacheStates
  BY DEF Control
<1>1. v.req_type \in {x.req_type, x.req_type \ {"Store"}}
  <2>1. CASE x.state = "Idle"
    BY <2>1, StepIdle DEF SameRegs
  <2>2. CASE x.state = "CheckHit"
    BY <1>0, <2>2, StepCheckHit
  <2>3. CASE x.state = "TranslateAddress"
    BY <1>0, <2>3, StepTranslate DEF SameRegs
  <2>4. CASE x.state = "WaitGrant"
    BY <1>0, <2>4, StepWaitGrant DEF SameRegs
  <2>5. ASSUME v = DC!TakeSnoop(x, i, Prepared(x, i)) PROVE v.req_type = x.req_type
    BY <1>0, <2>5, StepTakeSnoop DEF SameRegs
  <2>6. CASE x.state = "WaitResp"
    <3>1. SameRegs(v, x, {"state"}) => v.req_type = x.req_type
      BY DEF SameRegs
    <3> QED
      BY <1>0, <2>5, <2>6, <3>1, StepWaitResp
  <2>7. CASE x.state = "CheckResp"
    BY <1>0, <2>7, StepCheckResp
  <2>8. CASE x.state = "SetupReadAdr"
    BY <1>0, <2>8, StepSetupRead DEF SameRegs
  <2>9. CASE x.state = "WriteBus"
    <3>1. \/ SameRegs(v, x, {}) \/ SameRegs(v, x, {"state", "write_share"})
          \/ SameRegs(v, x, {"state"})
          => v.req_type = x.req_type
      BY DEF SameRegs
    <3> QED
      BY <1>0, <2>5, <2>9, <3>1, StepWriteBus
  <2>10. CASE x.state = "FlushAddr"
    BY <1>0, <2>10, StepFlushAddr DEF SameRegs
  <2>11. CASE x.state = "FlushCheck"
    BY <1>0, <2>11, StepFlushCheck DEF SameRegs
  <2>12. CASE x.state = "SnoopSetupAddr"
    BY <1>0, <2>12, StepSnoopSetup DEF SameRegs
  <2>13. CASE x.state = "SnoopReadData"
    BY <1>0, <2>13, StepSnoopRead DEF SameRegs
  <2> QED
    BY <1>0, <2>1, <2>2, <2>3, <2>4, <2>6, <2>7, <2>8, <2>9, <2>10, <2>11, <2>12, <2>13
       DEF DC!CacheStates
<1>2. Control(v) /\ Control(r)
  BY WorkedGoesOn, NextGoesOn
<1>3. HasRegs(v) /\ HasRegs(r)
  BY <1>2 DEF Control
<1>4. r = IF DC!ReadyNext(x, i) THEN DC!Accept(x, i, v) ELSE v
  BY CacheNextIs
<1>5. r.req_type = v.req_type \/ (i.req.valid /\ r.req_type = i.req.type)
  <2>1. CASE ~DC!ReadyNext(x, i)
    BY <1>4, <2>1
  <2>2. CASE DC!ReadyNext(x, i)
    <3>1. r = DC!Accept(x, i, v)
      BY <1>4, <2>2
    <3>2. SameRegs(r, v, {"state", "req_addr"}) => r.req_type = v.req_type
      BY DEF SameRegs
    <3> QED
      BY <1>3, <2>2, <3>1, <3>2, AcceptCases
  <2> QED
    BY <2>1, <2>2
<1>6. r.req_type \in T
  BY <1>1, <1>5
<1>7. DC!ForgetCache(r).req_type \in {r.req_type, {}}
  BY <1>3, ForgetRegs
<1> QED
  BY <1>6, <1>7

-----------------------------------------------------------------------------
(* The caches of the cluster.                                              *)

\* What a core may drive: an access of its own, and a flush only while it
\* waits for nothing or gets its answer.
LEMMA ChoiceFacts ==
    ASSUME NEW c \in Cores, NEW u \in CoreChoices(c)
    PROVE  /\ u.req.valid => \E y \in Accesses[c] : u.req.addr = y.addr /\ u.req.type = y.type
           /\ u.flush => Free(c)
BY DEF CoreChoices, Quiet, NoRequest, Request

\* Every cache has the shape and the control states of the circuit; an access
\* it works on is the one its core waits for.
AnswerInv ==
    /\ d = [c \in Cores |-> d[c]]
    /\ asked = [c \in Cores |-> asked[c]]
    /\ \A c \in Cores :
          /\ Control(d[c])
          /\ Busy(d[c]) => asked[c] \in Lines /\ AccessAddr(d[c]) = asked[c]

\* No core executes a store conditional.
NoConditional == \A c \in Cores : \A y \in Accesses[c] : ~({"Store", "Release"} \subseteq y.type)

\* A cache whose core waits for an access works on it.
WaitInv ==
    \A c \in Cores :
        /\ ~({"Store", "Release"} \subseteq d[c].req_type)
        /\ asked[c] \in Lines => Busy(d[c])

\* One edge for one core, as the lemmas above take it.
LEMMA CoreEdge ==
    ASSUME Next, NEW c \in Cores
    PROVE  \E u \in CoreChoices(c) : \E i :
              /\ i.req = u.req
              /\ d' = [e \in Cores |-> d'[e]]
              /\ asked' = [e \in Cores |-> asked'[e]]
              /\ d'[c] = DC!ForgetCache(DC!CacheNext(d[c], i))
              /\ asked'[c] = AskedNext(c, u, i)
<1>1. PICK w \in Choices, done \in Done : Edge(w, done)
  BY DEF Next
<1> DEFINE i == ToCache(w, M(done))
<1>2. w[c] \in CoreChoices(c)
  BY DEF Choices
<1>3. /\ d' = [e \in Cores |-> DC!ForgetCache(DC!CacheNext(d[e], i[e]))]
      /\ asked' = [e \in Cores |-> AskedNext(e, w[e], i[e])]
  BY <1>1 DEF Edge
<1>4. i[c].req = w[c].req
  BY DEF ToCache
<1> HIDE DEF i
<1>5. /\ d'[c] = DC!ForgetCache(DC!CacheNext(d[c], i[c]))
      /\ asked'[c] = AskedNext(c, w[c], i[c])
      /\ d' = [e \in Cores |-> d'[e]]
      /\ asked' = [e \in Cores |-> asked'[e]]
  BY <1>3
<1> QED
  BY <1>2, <1>4, <1>5

\* The reset state.
LEMMA AnswerInit == Init => AnswerInv /\ WaitInv
<1> SUFFICES ASSUME Init PROVE AnswerInv /\ WaitInv
  OBVIOUS
<1> DEFINE x == DC!CacheReset
<1>1. /\ HasRegs(x) /\ x.state = "Idle" /\ x.snoop_restore = "none" /\ x.req_type = {}
      /\ ~x.write_share /\ ~x.write_flush
  BY DEF DC!CacheReset, HasRegs, Regs
<1>2. d = [c \in Cores |-> x] /\ asked = [c \in Cores |-> "nothing"]
  BY DEF Init
<1> HIDE DEF x
<1>3. Control(x) /\ ~Busy(x)
  BY <1>1 DEF Control, Busy, DC!CacheStates
<1>4. "nothing" \notin Lines
  BY LinesAssumption
<1> QED
  BY <1>1, <1>2, <1>3, <1>4 DEF AnswerInv, WaitInv

\* What a core waits for changes with the answer of its cache.
LEMMA AnswerNext ==
    ASSUME AnswerInv, [Next]_vars PROVE AnswerInv'
<1>1. CASE UNCHANGED vars
  BY <1>1 DEF vars, AnswerInv
<1>2. CASE Next
  <2>1. ASSUME NEW c \in Cores
        PROVE  /\ d' = [e \in Cores |-> d'[e]] /\ asked' = [e \in Cores |-> asked'[e]]
               /\ Control(d'[c])
               /\ Busy(d'[c]) => asked'[c] \in Lines /\ AccessAddr(d'[c]) = asked'[c]
    <3>0. PICK u \in CoreChoices(c) : \E i :
              /\ i.req = u.req
              /\ d' = [e \in Cores |-> d'[e]]
              /\ asked' = [e \in Cores |-> asked'[e]]
              /\ d'[c] = DC!ForgetCache(DC!CacheNext(d[c], i))
              /\ asked'[c] = AskedNext(c, u, i)
      BY <1>2, CoreEdge
    <3>1. PICK i :
              /\ i.req = u.req
              /\ d' = [e \in Cores |-> d'[e]]
              /\ asked' = [e \in Cores |-> asked'[e]]
              /\ d'[c] = DC!ForgetCache(DC!CacheNext(d[c], i))
              /\ asked'[c] = AskedNext(c, u, i)
      BY <3>0
    <3> DEFINE x == d[c]
               f == d'[c]
               taken == DC!ReqReady(x, i) /\ i.req.valid
    <3>2. Control(x) /\ (Busy(x) => asked[c] \in Lines /\ AccessAddr(x) = asked[c])
      BY DEF AnswerInv
    <3>3. /\ Control(f)
          /\ taken => Busy(f) /\ AccessAddr(f) = i.req.addr
          /\ ~taken => GoesOn(x, f)
      BY <3>1, <3>2, EdgeGoesOn
    <3>4. CASE taken
      <4>1. asked'[c] = u.req.addr
        BY <3>1, <3>4 DEF AskedNext
      <4>2. u.req.addr \in Lines
        BY <3>1, <3>4, ChoiceFacts, AccessAssumption
      <4> QED
        BY <3>1, <3>3, <3>4, <4>1, <4>2
    <3>5. ASSUME ~taken, Busy(f)
          PROVE  asked'[c] \in Lines /\ AccessAddr(f) = asked'[c]
      <4>1. Busy(x) /\ ~DC!RespValid(x) /\ AccessAddr(f) = AccessAddr(x)
        BY <3>3, <3>5 DEF GoesOn
      <4>2. ~u.flush
        BY <3>2, <4>1, ChoiceFacts, LinesAssumption DEF Free
      <4>3. ~DC!FlushEnd(x)
        BY <4>1 DEF Busy, DC!FlushEnd
      <4>4. asked'[c] = asked[c]
        BY <3>1, <3>5, <4>1, <4>2, <4>3 DEF AskedNext
      <4> QED
        BY <3>2, <4>1, <4>4
    <3> QED
      BY <3>1, <3>3, <3>4, <3>5
  <2>2. ASSUME Cores = {} PROVE FALSE
    BY <2>2, CoresAssumption
  <2> QED
    BY <2>1, <2>2 DEF AnswerInv
<1> QED
  BY <1>1, <1>2

\* Without store conditionals a cache stays with an access until it has answered.
LEMMA WaitNext ==
    ASSUME NoConditional, AnswerInv, WaitInv, [Next]_vars PROVE WaitInv'
<1>1. CASE UNCHANGED vars
  BY <1>1 DEF vars, WaitInv
<1>2. CASE Next
  <2>1. ASSUME NEW c \in Cores
        PROVE  /\ ~({"Store", "Release"} \subseteq d'[c].req_type)
               /\ asked'[c] \in Lines => Busy(d'[c])
    <3>0. PICK u \in CoreChoices(c) : \E i :
              /\ i.req = u.req
              /\ d'[c] = DC!ForgetCache(DC!CacheNext(d[c], i))
              /\ asked'[c] = AskedNext(c, u, i)
      BY <1>2, CoreEdge
    <3>1. PICK i :
              /\ i.req = u.req
              /\ d'[c] = DC!ForgetCache(DC!CacheNext(d[c], i))
              /\ asked'[c] = AskedNext(c, u, i)
      BY <3>0
    <3> DEFINE x == d[c]
               f == d'[c]
               T == {t \in SUBSET (x.req_type \union u.req.type) :
                        ~({"Store", "Release"} \subseteq t)}
               taken == DC!ReqReady(x, i) /\ i.req.valid
    <3>2. /\ Control(x) /\ ~({"Store", "Release"} \subseteq x.req_type)
          /\ asked[c] \in Lines => Busy(x)
      BY DEF AnswerInv, WaitInv
    <3>3. /\ Control(f)
          /\ taken => Busy(f)
          /\ ~taken => GoesOn(x, f)
      BY <3>1, <3>2, EdgeGoesOn
    <3>4. f.req_type \in T
      <4>1. i.req.valid => i.req.type \in T
        BY <3>1, ChoiceFacts DEF NoConditional
      <4>2. (\A t \in T : t \ {"Store"} \in T) /\ {} \in T /\ x.req_type \in T
        BY <3>2
      <4> HIDE DEF T
      <4> QED
        BY <3>1, <3>2, <4>1, <4>2, TypeStep
    <3>5. ASSUME asked'[c] \in Lines PROVE Busy(f)
      <4>1. CASE taken
        BY <3>3, <4>1
      <4>2. CASE ~taken
        <5>1. asked'[c] = asked[c] /\ ~DC!RespValid(x)
          BY <3>1, <3>5, <4>2, LinesAssumption DEF AskedNext
        <5>2. Busy(x)
          BY <3>2, <3>5, <5>1
        <5>3. ~Drops(x)
          BY <3>2 DEF Drops
        <5> QED
          BY <3>3, <4>2, <5>1, <5>2, <5>3 DEF GoesOn
      <4> QED
        BY <4>1, <4>2
    <3> QED
      BY <3>4, <3>5
  <2> QED
    BY <2>1 DEF WaitInv
<1> QED
  BY <1>1, <1>2

\* The answer of a data cache is for the access its core waits for, although
\* snoops take its address register over in the middle of a miss: for every
\* number of cores, and whatever the arbiter and the other caches do.
THEOREM CacheAnswersOwnAccess == Spec => []AnswersOwnAccess
<1>1. AnswerInv => AnswersOwnAccess
  <2> SUFFICES ASSUME AnswerInv, NEW c \in Cores, DC!RespValid(d[c])
               PROVE  d[c].req_addr = asked[c]
    BY DEF AnswersOwnAccess
  <2>1. d[c].state \in {"CheckHit", "CheckResp"}
    BY DEF DC!RespValid, DC!Hits
  <2>2. Control(d[c]) /\ (Busy(d[c]) => AccessAddr(d[c]) = asked[c])
    BY DEF AnswerInv
  <2> QED
    BY <2>1, <2>2 DEF Control, Busy, AccessAddr
<1>2. Init => AnswerInv
  BY AnswerInit
<1>3. AnswerInv /\ [Next]_vars => AnswerInv'
  BY AnswerNext
<1> QED
  BY <1>1, <1>2, <1>3, PTL DEF Spec

\* A cache does not return to its idle state while its core waits for a load or
\* a store.  Store conditionals are excluded: one that misses is dropped (Drops).
THEOREM CacheKeepsAccess ==
    ASSUME NoConditional PROVE Spec => []AccessNotForgotten
<1>1. AnswerInv /\ WaitInv => AccessNotForgotten
  BY DEF WaitInv, Busy, AccessNotForgotten
<1>2. Init => AnswerInv /\ WaitInv
  BY AnswerInit
<1>3. AnswerInv /\ WaitInv /\ [Next]_vars => (AnswerInv /\ WaitInv)'
  BY AnswerNext, WaitNext
<1> QED
  BY <1>1, <1>2, <1>3, PTL DEF Spec

-----------------------------------------------------------------------------
(* All registers of a cache: what the state machine does to each of them.  *)

CacheRegs == {"state", "req_addr", "req_type", "req_word", "req_wdata", "mem_addr",
              "req_mem_valid", "req_mem_type", "write_first", "write_flush", "write_share",
              "req_flush", "cache_line_i", "cache_line_o", "req_snoop_type",
              "snoop_flags_valid", "snoop_addr", "snoop_restore", "req_addr_restore",
              "flush_cnt", "lines", "lru"}

\* The places of the memory m where line l hits.
Copies(m, l) == {P \in DC!Places : /\ P[1] = Index[l] /\ m[P].tag = l
                                   /\ "VALID" \in m[P].flags}

\* m has all places, and no line hits in two of them.
MemShape(m) ==
    /\ m = [P \in DC!Places |-> m[P]]
    /\ \A l : \A P, R \in Copies(m, l) : P = R

\* x has the registers of a cache, with its memory, the order of use of the ways
\* and the counter of a flush.
CacheShape(x) ==
    /\ CacheRegs \subseteq DOMAIN x
    /\ MemShape(x.lines)
    /\ x.lru \in [DC!Sets -> [DC!Ways -> DC!Ways]]
    /\ x.flush_cnt \in 0..DC!FLUSH_ALL_VALUE

\* v and w agree on the registers that are not in S.
SameCache(v, w, S) ==
    /\ DOMAIN v = DOMAIN w
    /\ "state" \notin S => v.state = w.state
    /\ "req_addr" \notin S => v.req_addr = w.req_addr
    /\ "req_type" \notin S => v.req_type = w.req_type
    /\ "req_word" \notin S => v.req_word = w.req_word
    /\ "req_wdata" \notin S => v.req_wdata = w.req_wdata
    /\ "mem_addr" \notin S => v.mem_addr = w.mem_addr
    /\ "req_mem_valid" \notin S => v.req_mem_valid = w.req_mem_valid
    /\ "req_mem_type" \notin S => v.req_mem_type = w.req_mem_type
    /\ "write_first" \notin S => v.write_first = w.write_first
    /\ "write_flush" \notin S => v.write_flush = w.write_flush
    /\ "write_share" \notin S => v.write_share = w.write_share
    /\ "req_flush" \notin S => v.req_flush = w.req_flush
    /\ "cache_line_i" \notin S => v.cache_line_i = w.cache_line_i
    /\ "cache_line_o" \notin S => v.cache_line_o = w.cache_line_o
    /\ "req_snoop_type" \notin S => v.req_snoop_type = w.req_snoop_type
    /\ "snoop_flags_valid" \notin S => v.snoop_flags_valid = w.snoop_flags_valid
    /\ "snoop_addr" \notin S => v.snoop_addr = w.snoop_addr
    /\ "snoop_restore" \notin S => v.snoop_restore = w.snoop_restore
    /\ "req_addr_restore" \notin S => v.req_addr_restore = w.req_addr_restore
    /\ "flush_cnt" \notin S => v.flush_cnt = w.flush_cnt
    /\ "lines" \notin S => v.lines = w.lines
    /\ "lru" \notin S => v.lru = w.lru

\* The order of use after the place of x was used.
Touched(x) == [x.lru EXCEPT ![DC!Place(x)[1]] = DC!Up(@, DC!Place(x)[2])]

(* A flush has something to visit. *)
LEMMA FlushCount == DC!FLUSH_ALL_VALUE \in Nat
<1>1. NWAYS \in Nat /\ LINES_PER_WAY \in Nat /\ NWAYS >= 1 /\ LINES_PER_WAY >= 1
  BY ShapeAssumption
<1>2. \A m, n \in Nat : m >= 1 /\ n >= 1 => m * n \in Nat /\ m * n >= 1
  OBVIOUS
<1> QED
  BY <1>1, <1>2 DEF DC!FLUSH_ALL_VALUE

(* The order of use of a set stays one of its ways. *)
LEMMA OrderKept ==
    ASSUME NEW r \in [DC!Ways -> DC!Ways], NEW w \in DC!Ways
    PROVE  /\ DC!Up(r, w) \in [DC!Ways -> DC!Ways]
           /\ DC!Down(r, w) \in [DC!Ways -> DC!Ways]
           /\ DC!InitOrder \in [DC!Ways -> DC!Ways]
<1>1. NWAYS \in Nat /\ NWAYS >= 1
  BY ShapeAssumption
<1>2. \A k \in DC!Ways : /\ k # NWAYS - 1 => k + 1 \in DC!Ways
                         /\ k # 0 => k - 1 \in DC!Ways
  BY <1>1 DEF DC!Ways
<1>3. DC!Up(r, w) \in [DC!Ways -> DC!Ways]
  BY <1>2 DEF DC!Up
<1>4. DC!Down(r, w) \in [DC!Ways -> DC!Ways]
  BY <1>2 DEF DC!Down
<1> QED
  BY <1>3, <1>4 DEF DC!InitOrder

\* The place of a cache: where the address hits, else the least recently used
\* way of its set.
LEMMA PlaceIs ==
    ASSUME NEW x, MemShape(x.lines), x.state # "FlushCheck"
    PROVE  /\ DC!Tagged(x, x.req_addr) \subseteq {DC!Place(x)}
           /\ DC!Hit(x) => DC!Tagged(x, x.req_addr) = {DC!Place(x)}
           /\ ~DC!Hit(x) => DC!Place(x) = DC!LruPlace(x)
<1>1. DC!Tagged(x, x.req_addr) = Copies(x.lines, x.req_addr)
  BY DEF DC!Tagged, Copies
<1>2. CASE DC!Hit(x)
  <2>1. PICK P \in DC!Tagged(x, x.req_addr) : TRUE
    BY <1>2 DEF DC!Hit
  <2>2. \A R \in DC!Tagged(x, x.req_addr) : R = P
    BY <1>1, <2>1 DEF MemShape
  <2>3. DC!Place(x) \in DC!Tagged(x, x.req_addr)
    BY <1>2, <2>1 DEF DC!Place
  <2> QED
    BY <1>2, <2>2, <2>3
<1>3. CASE ~DC!Hit(x)
  BY <1>3 DEF DC!Hit, DC!Place
<1> QED
  BY <1>2, <1>3

\* The least recently used way is one of the ways, if the address has a set.
LEMMA UsedPlace ==
    ASSUME NEW x, CacheShape(x), x.state # "FlushCheck", DC!Place(x)[1] \in DC!Sets
    PROVE  DC!Place(x) \in DC!Places /\ DC!Place(x)[1] = Index[x.req_addr]
<1>1. CASE DC!Hit(x)
  <2>1. DC!Place(x) \in DC!Tagged(x, x.req_addr)
    BY <1>1, PlaceIs DEF CacheShape
  <2> QED
    BY <2>1 DEF DC!Tagged
<1>2. CASE ~DC!Hit(x)
  <2>1. DC!Place(x) = <<Index[x.req_addr], x.lru[Index[x.req_addr]][0]>>
    BY <1>2, PlaceIs DEF CacheShape, DC!LruPlace
  <2>2. x.lru[Index[x.req_addr]] \in [DC!Ways -> DC!Ways]
    BY <2>1 DEF CacheShape
  <2>3. 0 \in DC!Ways
    BY ShapeAssumption DEF DC!Ways
  <2> QED
    BY <2>1, <2>2, <2>3 DEF DC!Places
<1> QED
  BY <1>1, <1>2

\* Whatever place is written, the order of use has its type.
LEMMA TouchedIs ==
    ASSUME NEW x, CacheShape(x), x.state # "FlushCheck"
    PROVE  Touched(x) \in [DC!Sets -> [DC!Ways -> DC!Ways]]
<1>1. CASE DC!Place(x)[1] \notin DC!Sets
  BY <1>1 DEF Touched, CacheShape
<1>2. CASE DC!Place(x)[1] \in DC!Sets
  <2>1. DC!Place(x) \in DC!Sets \X DC!Ways
    BY <1>2, UsedPlace DEF DC!Places
  <2>2. DC!Place(x)[2] \in DC!Ways
    BY <2>1
  <2>3. x.lru[DC!Place(x)[1]] \in [DC!Ways -> DC!Ways]
    BY <1>2 DEF CacheShape
  <2>4. DC!Up(x.lru[DC!Place(x)[1]], DC!Place(x)[2]) \in [DC!Ways -> DC!Ways]
    BY <2>2, <2>3, OrderKept
  <2> QED
    BY <1>2, <2>4 DEF Touched, CacheShape
<1> QED
  BY <1>1, <1>2

\* The memory n is m with line l in place P: it hits there and nowhere else, and
\* what was there does not hit any more.
Rewritten(n, m, P, l) ==
    /\ MemShape(n)
    /\ \A k : k # l.tag \/ "VALID" \notin l.flags => Copies(n, k) = Copies(m, k) \ {P}
    /\ "VALID" \in l.flags => Copies(n, l.tag) \subseteq {P}
    /\ "VALID" \in l.flags /\ P \in DC!Places /\ P[1] = Index[l.tag]
          => Copies(n, l.tag) = {P}
    /\ \A R \in DC!Places : R # P => n[R] = m[R]
    /\ P \in DC!Places => n[P] = l

(* That is what a write does, when the line does not hit elsewhere. *)
LEMMA MemWritten ==
    ASSUME NEW m, MemShape(m), NEW P, NEW l,
           "VALID" \in l.flags => Copies(m, l.tag) \subseteq {P}
    PROVE  Rewritten([m EXCEPT ![P] = l], m, P, l)
<1> DEFINE n == [m EXCEPT ![P] = l]
<1>1. m = [R \in DC!Places |-> m[R]]
  BY DEF MemShape
<1>2. n = [R \in DC!Places |-> n[R]]
  BY <1>1
<1>3. /\ \A R \in DC!Places : R # P => n[R] = m[R]
      /\ P \in DC!Places => n[P] = l
  BY <1>1
<1> HIDE DEF n
<1>4. \A k : k # l.tag \/ "VALID" \notin l.flags => Copies(n, k) = Copies(m, k) \ {P}
  BY <1>3 DEF Copies
<1>5. "VALID" \in l.flags => Copies(n, l.tag) \subseteq {P}
  BY <1>3 DEF Copies
<1>6. "VALID" \in l.flags /\ P \in DC!Places /\ P[1] = Index[l.tag]
          => Copies(n, l.tag) = {P}
  BY <1>3, <1>5 DEF Copies
<1>7. ASSUME NEW k, NEW R \in Copies(n, k), NEW Q \in Copies(n, k)
      PROVE  R = Q
  <2>1. CASE k # l.tag \/ "VALID" \notin l.flags
    <3>1. R \in Copies(m, k) /\ Q \in Copies(m, k)
      BY <1>4, <1>7, <2>1
    <3> QED
      BY <3>1 DEF MemShape
  <2>2. CASE k = l.tag /\ "VALID" \in l.flags
    BY <1>5, <1>7, <2>2
  <2> QED
    BY <2>1, <2>2
<1>8. MemShape(n)
  BY <1>2, <1>7 DEF MemShape
<1> QED
  BY <1>3, <1>4, <1>5, <1>6, <1>8 DEF n, Rewritten

(* A line of the memory has a place for a fill. *)
LEMMA PlaceThere ==
    ASSUME NEW x, CacheShape(x), x.state # "FlushCheck", x.req_addr \in Lines \cup {NoLine}
    PROVE  DC!Place(x) \in DC!Places /\ DC!Place(x)[1] = Index[x.req_addr]
<1>1. Index[x.req_addr] \in DC!Sets
  BY ShapeAssumption DEF DC!Sets
<1>2. CASE DC!Hit(x)
  <2>1. DC!Place(x) \in DC!Tagged(x, x.req_addr)
    BY <1>2, PlaceIs DEF CacheShape
  <2> QED
    BY <2>1 DEF DC!Tagged
<1>3. CASE ~DC!Hit(x)
  <2>1. DC!Place(x) = <<Index[x.req_addr], x.lru[Index[x.req_addr]][0]>>
    BY <1>3, PlaceIs DEF CacheShape, DC!LruPlace
  <2> QED
    BY <1>1, <2>1, UsedPlace
<1> QED
  BY <1>2, <1>3

(* The line that is written hits in its place only, the others hit as before. *)
LEMMA LineWritten ==
    ASSUME NEW x, CacheShape(x), x.state # "FlushCheck", NEW v, NEW l, l.tag = x.req_addr,
           v.lines = [x.lines EXCEPT ![DC!Place(x)] = l]
    PROVE  /\ MemShape(v.lines)
           /\ \A k : k # x.req_addr \/ "VALID" \notin l.flags
                       => DC!Tagged(v, k) = DC!Tagged(x, k) \ {DC!Place(x)}
           /\ "VALID" \in l.flags => DC!Tagged(v, x.req_addr) \subseteq {DC!Place(x)}
           /\ "VALID" \in l.flags /\ x.req_addr \in Lines
                 => DC!Tagged(v, x.req_addr) = {DC!Place(x)}
           /\ \A R \in DC!Places : R # DC!Place(x) => v.lines[R] = x.lines[R]
           /\ DC!Place(x) \in DC!Places => v.lines[DC!Place(x)] = l
<1> DEFINE P == DC!Place(x)
           n == [x.lines EXCEPT ![P] = l]
<1>1. \A k : /\ DC!Tagged(v, k) = Copies(n, k)
             /\ DC!Tagged(x, k) = Copies(x.lines, k)
  BY DEF DC!Tagged, Copies
<1>2. Copies(x.lines, l.tag) \subseteq {P}
  BY <1>1, PlaceIs DEF CacheShape
<1>3. x.req_addr \in Lines => P \in DC!Places /\ P[1] = Index[l.tag]
  BY PlaceThere
<1> HIDE DEF P
<1>4. Rewritten(n, x.lines, P, l)
  BY <1>2, MemWritten DEF CacheShape
<1>5. v.lines = n
  BY DEF P
<1> HIDE DEF n
<1>6. \A k : k # x.req_addr \/ "VALID" \notin l.flags
                => DC!Tagged(v, k) = DC!Tagged(x, k) \ {P}
  BY <1>1, <1>4 DEF Rewritten
<1>7. "VALID" \in l.flags => /\ DC!Tagged(v, x.req_addr) \subseteq {P}
                             /\ x.req_addr \in Lines => DC!Tagged(v, x.req_addr) = {P}
  BY <1>1, <1>3, <1>4 DEF Rewritten
<1>8. /\ MemShape(v.lines)
      /\ \A R \in DC!Places : R # P => v.lines[R] = x.lines[R]
      /\ P \in DC!Places => v.lines[P] = l
  BY <1>4, <1>5 DEF Rewritten
<1> QED
  BY <1>6, <1>7, <1>8 DEF P

(* A line that is flushed is gone, the others hit as before. *)
LEMMA LineFlushed ==
    ASSUME NEW x, CacheShape(x), NEW v, NEW l, l.flags = {},
           v.lines = [x.lines EXCEPT ![DC!Place(x)] = l]
    PROVE  /\ MemShape(v.lines)
           /\ \A k : DC!Tagged(v, k) = DC!Tagged(x, k) \ {DC!Place(x)}
           /\ \A R \in DC!Places : R # DC!Place(x) => v.lines[R] = x.lines[R]
           /\ DC!Place(x) \in DC!Places => v.lines[DC!Place(x)] = l
<1> DEFINE P == DC!Place(x)
           n == [x.lines EXCEPT ![P] = l]
<1>1. \A k : /\ DC!Tagged(v, k) = Copies(n, k)
             /\ DC!Tagged(x, k) = Copies(x.lines, k)
  BY DEF DC!Tagged, Copies
<1> HIDE DEF P
<1>4. Rewritten(n, x.lines, P, l)
  BY MemWritten DEF CacheShape
<1>5. v.lines = n
  BY DEF P
<1> HIDE DEF n
<1> QED
  BY <1>1, <1>4, <1>5 DEF P, Rewritten

\* The registers before the case on the state.
LEMMA PreparedIs ==
    ASSUME NEW x, NEW i, CacheShape(x)
    PROVE  LET p == Prepared(x, i)
           IN /\ SameCache(p, x, {"req_flush", "snoop_addr", "snoop_flags_valid"})
              /\ p.snoop_addr = i.snoop.addr
              /\ p.snoop_flags_valid = (i.snoop.valid /\ ~DC!WritesTags(x)
                                        /\ i.snoop.type = "FLAGS")
              /\ CacheShape(p)
<1> DEFINE e == i.snoop.valid /\ ~DC!WritesTags(x) /\ i.snoop.type = "FLAGS"
           g == x.req_flush \/ i.flush
           p == [x EXCEPT !.req_flush = g, !.snoop_addr = i.snoop.addr,
                          !.snoop_flags_valid = e]
<1>1. Prepared(x, i) = p
  BY DEF Prepared
<1> HIDE DEF e, g
<1>2. SameCache(p, x, {"req_flush", "snoop_addr", "snoop_flags_valid"})
  BY DEF SameCache, CacheShape, CacheRegs
<1>3. p.snoop_addr = i.snoop.addr /\ p.snoop_flags_valid = e
  BY DEF CacheShape, CacheRegs
<1>4. CacheShape(p)
  BY <1>2 DEF SameCache, CacheShape
<1> QED
  BY <1>1, <1>2, <1>3, <1>4 DEF e

\* The place of the cache is used, or written.
LEMMA WriteIs ==
    ASSUME NEW x, NEW p, NEW l, CacheShape(p), p.lru = x.lru
    PROVE  /\ SameCache(DC!Used(x, p), p, {"lru"})
           /\ DC!Used(x, p).lru = Touched(x)
           /\ SameCache(DC!Write(x, p, l), p, {"lines", "lru"})
           /\ DC!Write(x, p, l).lru = Touched(x)
           /\ DC!Write(x, p, l).lines = [p.lines EXCEPT ![DC!Place(x)] = l]
<1> DEFINE t == Touched(x)
           u == [p EXCEPT !.lru = t]
           n == [p.lines EXCEPT ![DC!Place(x)] = l]
           w == [u EXCEPT !.lines = n]
<1>1. DC!Used(x, p) = u
  BY DEF DC!Used, Touched
<1>2. SameCache(u, p, {"lru"}) /\ u.lru = t /\ CacheRegs \subseteq DOMAIN u
  BY DEF SameCache, CacheShape, CacheRegs
<1>3. DC!Write(x, p, l) = w
  BY <1>1, <1>2 DEF DC!Write, SameCache
<1> HIDE DEF t, n, u
<1>4. SameCache(w, p, {"lines", "lru"}) /\ w.lru = t /\ w.lines = n
  BY <1>2 DEF SameCache, CacheRegs
<1> QED
  BY <1>1, <1>2, <1>3, <1>4 DEF t, n

\* A miss goes on to the bus, but a store conditional.
LEMMA CacheMiss ==
    ASSUME NEW x, NEW i, CacheShape(x), x.state = "CheckHit", ~DC!Hit(x)
    PROVE  LET p == Prepared(x, i)
               v == Worked(x, i)
           IN /\ SameCache(v, p, {"state"})
              /\ v.state = IF {"Store", "Release"} \subseteq x.req_type
                           THEN "Idle" ELSE "TranslateAddress"
<1> DEFINE p == Prepared(x, i)
           s == IF {"Store", "Release"} \subseteq x.req_type THEN "Idle" ELSE "TranslateAddress"
<1>1. Worked(x, i) = [p EXCEPT !.state = s]
  BY DEF Worked, DC!CacheState, DC!CheckHit
<1>2. CacheShape(p)
  BY PreparedIs
<1> HIDE DEF p, s
<1>3. SameCache([p EXCEPT !.state = s], p, {"state"}) /\ [p EXCEPT !.state = s].state = s
  BY <1>2 DEF SameCache, CacheShape, CacheRegs
<1> QED
  BY <1>1, <1>3 DEF p, s

\* A load that hits leaves the line as it is, or reserves it.
LEMMA CacheLoadHit ==
    ASSUME NEW x, NEW i, CacheShape(x), x.state = "CheckHit", DC!Hit(x), ~DC!IsStore(x)
    PROVE  LET p == Prepared(x, i)
               v == Worked(x, i)
           IN /\ SameCache(v, p, {"state", "lines", "lru"})
              /\ v.state = "Idle" /\ v.lru = Touched(x)
              /\ "Reserve" \in x.req_type =>
                    v.lines = [x.lines EXCEPT ![DC!Place(x)] =
                                 [tag |-> x.req_addr, data |-> DC!ReservedData(x),
                                  flags |-> DC!Line(x).flags \cup {"RESERVED"}]]
              /\ "Reserve" \notin x.req_type => v.lines = x.lines
<1> DEFINE p == Prepared(x, i)
           l == [tag |-> x.req_addr, data |-> DC!ReservedData(x),
                 flags |-> DC!Line(x).flags \cup {"RESERVED"}]
           b == DC!Write(x, p, l)
           k == DC!Used(x, p)
           v == [b EXCEPT !.state = "Idle"]
           u == [k EXCEPT !.state = "Idle"]
<1>0. Worked(x, i) = DC!CheckHit(x, p)
  BY DEF Worked, DC!CacheState
<1>2. CacheShape(p) /\ p.lines = x.lines /\ p.lru = x.lru
  BY PreparedIs DEF SameCache
<1> HIDE DEF p
<1>1. Worked(x, i) = IF "Reserve" \in x.req_type THEN v ELSE u
  BY <1>0 DEF DC!CheckHit
<1> HIDE DEF l
<1>5. /\ SameCache(b, p, {"lines", "lru"}) /\ b.lru = Touched(x)
      /\ b.lines = [x.lines EXCEPT ![DC!Place(x)] = l]
      /\ SameCache(k, p, {"lru"}) /\ k.lru = Touched(x)
  BY <1>2, WriteIs
<1> HIDE DEF b, k
<1>3. SameCache(v, p, {"state", "lines", "lru"}) /\ v.state = "Idle" /\ v.lru = Touched(x)
      /\ v.lines = [x.lines EXCEPT ![DC!Place(x)] = l]
  BY <1>2, <1>5 DEF SameCache, CacheShape, CacheRegs
<1>4. SameCache(u, p, {"state", "lines", "lru"}) /\ u.state = "Idle" /\ u.lru = Touched(x)
      /\ u.lines = x.lines
  BY <1>2, <1>5 DEF SameCache, CacheShape, CacheRegs
<1> HIDE DEF u, v
<1> QED
  BY <1>1, <1>3, <1>4 DEF p, l

\* A store that hits writes the line and asks for the other copies to go, or
\* is a store conditional that has lost its reservation.
LEMMA CacheStoreHit ==
    ASSUME NEW x, NEW i, CacheShape(x), x.state = "CheckHit", DC!Hit(x), DC!IsStore(x)
    PROVE  LET p == Prepared(x, i)
               v == Worked(x, i)
           IN /\ SameCache(v, p, {"state", "lines", "lru", "req_type", "write_share"})
              /\ v.req_type = p.req_type \ {"Store"} /\ v.lru = Touched(x)
              /\ DC!ScFails(x) => /\ v.lines = x.lines
                                  /\ v.write_share = p.write_share
                                  /\ v.state = "Idle"
              /\ ~DC!ScFails(x) =>
                    /\ v.lines = [x.lines EXCEPT ![DC!Place(x)] =
                                    [tag |-> x.req_addr, flags |-> DC!StoreFlags,
                                     data |-> DC!Modified(x, DC!Line(x).data)]]
                    /\ v.write_share = (p.write_share \/ DC!Upgrades(x))
                    /\ v.state = IF DC!Upgrades(x) THEN "TranslateAddress" ELSE "Idle"
<1> DEFINE p == Prepared(x, i)
           l == [tag |-> x.req_addr, flags |-> DC!StoreFlags,
                 data |-> DC!Modified(x, DC!Line(x).data)]
           b == DC!Write(x, p, l)
           k == DC!Used(x, p)
           e == b.write_share \/ DC!Upgrades(x)
           s == IF DC!Upgrades(x) THEN "TranslateAddress" ELSE "Idle"
           v == [b EXCEPT !.req_type = @ \ {"Store"}, !.write_share = e, !.state = s]
           u == [k EXCEPT !.state = "Idle", !.req_type = @ \ {"Store"}]
<1>0. Worked(x, i) = DC!CheckHit(x, p)
  BY DEF Worked, DC!CacheState
<1>1. CacheShape(p) /\ p.lines = x.lines /\ p.lru = x.lru
  BY PreparedIs DEF SameCache
<1> HIDE DEF p
<1>2. Worked(x, i) = DC!CheckHitStore(x, p)
  BY <1>0 DEF DC!CheckHit
<1>3. Worked(x, i) = IF DC!ScFails(x) THEN u ELSE v
  BY <1>2 DEF DC!CheckHitStore
<1> HIDE DEF l
<1>9. /\ SameCache(b, p, {"lines", "lru"}) /\ b.lru = Touched(x)
      /\ b.lines = [x.lines EXCEPT ![DC!Place(x)] = l]
      /\ SameCache(k, p, {"lru"}) /\ k.lru = Touched(x)
  <2>1. /\ SameCache(b, p, {"lines", "lru"}) /\ b.lru = Touched(x)
        /\ b.lines = [p.lines EXCEPT ![DC!Place(x)] = l]
    BY <1>1, WriteIs
  <2>2. SameCache(k, p, {"lru"}) /\ k.lru = Touched(x)
    BY <1>1, WriteIs
  <2> QED
    BY <1>1, <2>1, <2>2
<1> HIDE DEF b, k
<1>11. b.write_share = p.write_share
  <2>1. SameCache(b, p, {"lines", "lru"})
    BY <1>9
  <2> QED
    BY <2>1 DEF SameCache
<1>10. e = (p.write_share \/ DC!Upgrades(x))
  BY <1>11, Zenon
<1> HIDE DEF e, s
<1>4. /\ SameCache(v, p, {"state", "lines", "lru", "req_type", "write_share"})
      /\ v.req_type = p.req_type \ {"Store"} /\ v.state = s /\ v.lru = Touched(x)
      /\ v.lines = [x.lines EXCEPT ![DC!Place(x)] = l]
  BY <1>1, <1>9 DEF SameCache, CacheShape, CacheRegs
<1>5. v.write_share = e
  BY <1>1, <1>9 DEF SameCache, CacheShape, CacheRegs
<1>6. /\ SameCache(u, p, {"state", "lines", "lru", "req_type", "write_share"})
      /\ u.req_type = p.req_type \ {"Store"} /\ u.state = "Idle" /\ u.lru = Touched(x)
      /\ u.write_share = p.write_share /\ u.lines = x.lines
  BY <1>1, <1>9 DEF SameCache, CacheShape, CacheRegs
<1> HIDE DEF u, v
<1>7. CASE DC!ScFails(x)
  BY <1>3, <1>6, <1>7 DEF p
<1>8. CASE ~DC!ScFails(x)
  BY <1>3, <1>4, <1>5, <1>8, <1>10 DEF p, l, s
<1> QED
  BY <1>7, <1>8

\* The request to the bus: the line written before has to be announced, a dirty
\* line goes out first, or the line asked for is read.
LEMMA CacheTranslate ==
    ASSUME NEW x, NEW i, CacheShape(x), x.state = "TranslateAddress"
    PROVE  LET p == Prepared(x, i)
               v == Worked(x, i)
               old == DC!Dirty(DC!Line(x))
           IN /\ SameCache(v, p, {"state", "req_mem_valid", "write_first", "req_mem_type",
                                  "mem_addr", "cache_line_o", "cache_line_i"})
              /\ v.state = "WaitGrant" /\ v.req_mem_valid = TRUE
              /\ v.write_first = (p.write_first \/ (old /\ ~x.write_share))
              /\ v.req_mem_type = IF x.write_share THEN "WriteLineUnique"
                                  ELSE IF old THEN "WriteBack" ELSE DC!FillType(x)
              /\ v.mem_addr = IF x.write_share \/ old THEN DC!Line(x).tag ELSE x.req_addr
              /\ v.cache_line_o = DC!Line(x).data /\ v.cache_line_i = ZeroLine
<1> DEFINE p == Prepared(x, i)
           old == DC!Dirty(DC!Line(x))
           e == p.write_first \/ (old /\ ~x.write_share)
           t == IF x.write_share THEN "WriteLineUnique"
                ELSE IF old THEN "WriteBack" ELSE DC!FillType(x)
           b == IF x.write_share \/ old THEN DC!Line(x).tag ELSE x.req_addr
           v == [p EXCEPT !.req_mem_valid = TRUE, !.state = "WaitGrant", !.write_first = e,
                          !.req_mem_type = t, !.mem_addr = b,
                          !.cache_line_o = DC!Line(x).data, !.cache_line_i = ZeroLine]
<1>0. Worked(x, i) = DC!TranslateAddress(x, p)
  BY DEF Worked, DC!CacheState
<1>1. CacheShape(p)
  BY PreparedIs
<1> HIDE DEF p
<1>2. Worked(x, i) = v
  BY <1>0 DEF DC!TranslateAddress
<1> HIDE DEF e, t, b
<1>3. /\ SameCache(v, p, {"state", "req_mem_valid", "write_first", "req_mem_type",
                          "mem_addr", "cache_line_o", "cache_line_i"})
      /\ v.state = "WaitGrant"
      /\ v.req_mem_type = t /\ v.mem_addr = b
      /\ v.cache_line_o = DC!Line(x).data /\ v.cache_line_i = ZeroLine
  BY <1>1 DEF SameCache, CacheShape, CacheRegs
<1>4. v.write_first = e /\ v.req_mem_valid = TRUE
  BY <1>1 DEF CacheShape, CacheRegs
<1> HIDE DEF v
<1> QED
  BY <1>2, <1>3, <1>4 DEF p, e, t, b

\* The bus has taken the request.
LEMMA CacheGrant ==
    ASSUME NEW x, NEW i, CacheShape(x), x.state = "WaitGrant"
    PROVE  LET p == Prepared(x, i)
               v == Worked(x, i)
           IN /\ SameCache(v, p, {"state", "req_mem_valid"})
              /\ v.req_mem_valid = FALSE
              /\ v.state = IF x.write_flush \/ x.write_first \/ x.write_share
                           THEN "WriteBus" ELSE "WaitResp"
<1> DEFINE p == Prepared(x, i)
           s == IF x.write_flush \/ x.write_first \/ x.write_share THEN "WriteBus" ELSE "WaitResp"
           v == [p EXCEPT !.req_mem_valid = FALSE, !.state = s]
<1>0. Worked(x, i) = DC!WaitGrant(x, p)
  BY DEF Worked, DC!CacheState
<1>1. CacheShape(p)
  BY PreparedIs
<1> HIDE DEF p
<1>2. Worked(x, i) = v
  BY <1>0 DEF DC!WaitGrant
<1> HIDE DEF s
<1>3. SameCache(v, p, {"state", "req_mem_valid"}) /\ v.state = s
  BY <1>1 DEF SameCache, CacheShape, CacheRegs
<1>4. v.req_mem_valid = FALSE
  BY <1>1 DEF CacheShape, CacheRegs
<1> HIDE DEF v
<1> QED
  BY <1>2, <1>3, <1>4 DEF p, s

\* A snoop of the data puts the address and the state aside.
LEMMA CacheTakeSnoop ==
    ASSUME NEW x, NEW i, CacheShape(x)
    PROVE  LET p == Prepared(x, i)
               v == DC!TakeSnoop(x, i, p)
           IN /\ SameCache(v, p, {"state", "snoop_restore", "req_addr_restore", "req_addr",
                                  "req_snoop_type"})
              /\ v.state = "SnoopSetupAddr" /\ v.snoop_restore = x.state
              /\ v.req_addr_restore = x.req_addr /\ v.req_addr = i.snoop.addr
              /\ v.req_snoop_type = i.snoop.type
<1> DEFINE p == Prepared(x, i)
           v == DC!TakeSnoop(x, i, p)
<1>1. CacheShape(p)
  BY PreparedIs
<1> HIDE DEF p
<1>2. /\ SameCache(v, p, {"state", "snoop_restore", "req_addr_restore", "req_addr",
                          "req_snoop_type"})
      /\ v.state = "SnoopSetupAddr" /\ v.snoop_restore = x.state
      /\ v.req_addr_restore = x.req_addr /\ v.req_addr = i.snoop.addr
      /\ v.req_snoop_type = i.snoop.type
  BY <1>1 DEF SameCache, CacheShape, CacheRegs, DC!TakeSnoop
<1> QED
  BY <1>2 DEF p

\* The answer of the bus is kept; without one a snoop may come in between.
LEMMA CacheWaitResp ==
    ASSUME NEW x, NEW i, CacheShape(x), x.state = "WaitResp"
    PROVE  LET p == Prepared(x, i)
               v == Worked(x, i)
           IN /\ i.mem_valid => /\ SameCache(v, p, {"state", "cache_line_i"})
                                /\ v.state = "CheckResp" /\ v.cache_line_i = i.mem_data
              /\ ~i.mem_valid /\ DC!DataSnoop(i) => v = DC!TakeSnoop(x, i, p)
              /\ ~i.mem_valid /\ ~DC!DataSnoop(i) => v = p
<1> DEFINE p == Prepared(x, i)
           v == [p EXCEPT !.cache_line_i = i.mem_data, !.state = "CheckResp"]
<1>0. Worked(x, i) = DC!WaitResp(x, i, p)
  BY DEF Worked, DC!CacheState
<1>1. CacheShape(p)
  BY PreparedIs
<1> HIDE DEF p
<1>2. Worked(x, i) = IF i.mem_valid THEN v
                     ELSE IF DC!DataSnoop(i) THEN DC!TakeSnoop(x, i, p) ELSE p
  BY <1>0 DEF DC!WaitResp, DC!ReadyOnWait
<1>3. /\ SameCache(v, p, {"state", "cache_line_i"})
      /\ v.state = "CheckResp" /\ v.cache_line_i = i.mem_data
  BY <1>1 DEF SameCache, CacheShape, CacheRegs
<1> HIDE DEF v
<1> QED
  BY <1>2, <1>3 DEF p

\* The line that has come is written, by a store with its word.
LEMMA CacheCheckResp ==
    ASSUME NEW x, NEW i, CacheShape(x), x.state = "CheckResp"
    PROVE  LET p == Prepared(x, i)
               v == Worked(x, i)
           IN /\ SameCache(v, p, {"state", "lines", "lru", "req_type"}) /\ v.lru = Touched(x)
              /\ DC!IsStore(x) =>
                    /\ v.state = "Idle" /\ v.req_type = p.req_type \ {"Store"}
                    /\ v.lines = [x.lines EXCEPT ![DC!Place(x)] =
                                    [tag |-> x.req_addr, flags |-> DC!StoreFlags,
                                     data |-> DC!Modified(x, x.cache_line_i)]]
              /\ ~DC!IsStore(x) =>
                    /\ v.state = "SetupReadAdr" /\ v.req_type = p.req_type
                    /\ v.lines = [x.lines EXCEPT ![DC!Place(x)] =
                                    [tag |-> x.req_addr, data |-> x.cache_line_i,
                                     flags |-> {"VALID", "SHARED"} \cup
                                               (IF "Reserve" \in x.req_type
                                                THEN {"RESERVED"} ELSE {})]]
<1> DEFINE p == Prepared(x, i)
           l == [tag |-> x.req_addr, flags |-> DC!StoreFlags,
                 data |-> DC!Modified(x, x.cache_line_i)]
           n == [tag |-> x.req_addr, data |-> x.cache_line_i,
                 flags |-> {"VALID", "SHARED"} \cup
                           (IF "Reserve" \in x.req_type THEN {"RESERVED"} ELSE {})]
           b == DC!Write(x, p, l)
           k == DC!Write(x, p, n)
           v == [b EXCEPT !.req_type = @ \ {"Store"}, !.state = "Idle"]
           u == [k EXCEPT !.state = "SetupReadAdr"]
<1>0. Worked(x, i) = DC!CheckResp(x, p)
  BY DEF Worked, DC!CacheState
<1>1. CacheShape(p) /\ p.lines = x.lines /\ p.lru = x.lru
  BY PreparedIs DEF SameCache
<1> HIDE DEF p
<1>2. Worked(x, i) = IF DC!IsStore(x) THEN v ELSE u
  BY <1>0, Zenon DEF DC!CheckResp
<1> HIDE DEF l, n
<1>5. /\ SameCache(b, p, {"lines", "lru"}) /\ b.lru = Touched(x)
      /\ b.lines = [x.lines EXCEPT ![DC!Place(x)] = l]
  BY <1>1, WriteIs
<1>6. /\ SameCache(k, p, {"lines", "lru"}) /\ k.lru = Touched(x)
      /\ k.lines = [x.lines EXCEPT ![DC!Place(x)] = n]
  BY <1>1, WriteIs
<1> HIDE DEF b, k
<1>3. /\ SameCache(v, p, {"state", "lines", "lru", "req_type"}) /\ v.lru = Touched(x)
      /\ v.state = "Idle" /\ v.req_type = p.req_type \ {"Store"}
      /\ v.lines = [x.lines EXCEPT ![DC!Place(x)] = l]
  BY <1>1, <1>5 DEF SameCache, CacheShape, CacheRegs
<1>4. /\ SameCache(u, p, {"state", "lines", "lru", "req_type"}) /\ u.lru = Touched(x)
      /\ u.state = "SetupReadAdr" /\ u.req_type = p.req_type
      /\ u.lines = [x.lines EXCEPT ![DC!Place(x)] = n]
  BY <1>1, <1>6 DEF SameCache, CacheShape, CacheRegs
<1> HIDE DEF u, v
<1> QED
  BY <1>2, <1>3, <1>4 DEF p, l, n

\* The line just written is read again.
LEMMA CacheSetupRead ==
    ASSUME NEW x, NEW i, CacheShape(x), x.state = "SetupReadAdr"
    PROVE  LET p == Prepared(x, i)
               v == Worked(x, i)
           IN SameCache(v, p, {"state"}) /\ v.state = "CheckHit"
<1> DEFINE p == Prepared(x, i)
<1>0. Worked(x, i) = [p EXCEPT !.state = "CheckHit"]
  BY DEF Worked, DC!CacheState
<1>1. CacheShape(p)
  BY PreparedIs
<1> HIDE DEF p
<1> QED
  BY <1>0, <1>1 DEF p, SameCache, CacheShape, CacheRegs

\* What a write-back does to v, from the prepared registers p of x.
WroteBus(x, i, p, v) ==
    /\ i.mem_valid /\ x.write_share =>
          /\ SameCache(v, p, {"state", "write_share"})
          /\ v.state = "Idle" /\ v.write_share = FALSE
    /\ i.mem_valid /\ ~x.write_share /\ x.write_flush =>
          SameCache(v, p, {"state"}) /\ v.state = "FlushAddr"
    /\ i.mem_valid /\ ~x.write_share /\ ~x.write_flush =>
          /\ SameCache(v, p, {"state", "write_first", "mem_addr", "req_mem_valid",
                              "req_mem_type"})
          /\ v.state = "WaitGrant" /\ v.write_first = FALSE
          /\ v.mem_addr = x.req_addr /\ v.req_mem_valid = TRUE
          /\ v.req_mem_type = DC!FillType(x)
    /\ ~i.mem_valid /\ DC!DataSnoop(i) => v = DC!TakeSnoop(x, i, p)
    /\ ~i.mem_valid /\ ~DC!DataSnoop(i) => v = p

\* A write has been answered: the line is unique, the flush goes on, or the line
\* asked for can be read.
LEMMA CacheWriteBus ==
    ASSUME NEW x, NEW i, CacheShape(x), x.state = "WriteBus"
    PROVE  WroteBus(x, i, Prepared(x, i), Worked(x, i))
<1> DEFINE p == Prepared(x, i)
           v == [p EXCEPT !.write_share = FALSE, !.state = "Idle"]
           u == [p EXCEPT !.state = "FlushAddr"]
           w == [p EXCEPT !.write_first = FALSE, !.mem_addr = x.req_addr,
                          !.req_mem_valid = TRUE, !.req_mem_type = DC!FillType(x),
                          !.state = "WaitGrant"]
<1>0. Worked(x, i) = DC!WriteBus(x, i, p)
  BY DEF Worked, DC!CacheState
<1>1. CacheShape(p)
  BY PreparedIs
<1> HIDE DEF p
<1>2. Worked(x, i) = IF i.mem_valid
                     THEN IF x.write_share THEN v ELSE IF x.write_flush THEN u ELSE w
                     ELSE IF DC!DataSnoop(i) THEN DC!TakeSnoop(x, i, p) ELSE p
  BY <1>0 DEF DC!WriteBus, DC!ReadyOnWait
<1>3. SameCache(v, p, {"state", "write_share"}) /\ v.state = "Idle"
  BY <1>1 DEF SameCache, CacheShape, CacheRegs
<1>4. v.write_share = FALSE
  BY <1>1 DEF CacheShape, CacheRegs
<1>5. SameCache(u, p, {"state"}) /\ u.state = "FlushAddr"
  BY <1>1 DEF SameCache, CacheShape, CacheRegs
<1>6. /\ SameCache(w, p, {"state", "write_first", "mem_addr", "req_mem_valid", "req_mem_type"})
      /\ w.state = "WaitGrant" /\ w.mem_addr = x.req_addr /\ w.req_mem_type = DC!FillType(x)
  BY <1>1 DEF SameCache, CacheShape, CacheRegs
<1>7. w.write_first = FALSE /\ w.req_mem_valid = TRUE
  BY <1>1 DEF CacheShape, CacheRegs
<1> HIDE DEF u, v, w
<1>8. WroteBus(x, i, p, Worked(x, i))
  BY <1>2, <1>3, <1>4, <1>5, <1>6, <1>7 DEF WroteBus
<1> QED
  BY <1>8 DEF p

\* A write-back that is not answered lets a snoop in, or waits.
LEMMA WriteBusWaits ==
    ASSUME NEW x, NEW i, x.state = "WriteBus", ~i.mem_valid
    PROVE  LET p == Prepared(x, i)
           IN  Worked(x, i) = p \/ Worked(x, i) = DC!TakeSnoop(x, i, p)
<1> DEFINE p == Prepared(x, i)
<1>1. Worked(x, i) = DC!WriteBus(x, i, p)
  BY DEF Worked, DC!CacheState
<1> HIDE DEF p
<1>2. Worked(x, i) = p \/ Worked(x, i) = DC!TakeSnoop(x, i, p)
  BY <1>1 DEF DC!WriteBus
<1> QED
  BY <1>2 DEF p

\* The flush reads the line.
LEMMA CacheFlushAddr ==
    ASSUME NEW x, NEW i, CacheShape(x), x.state = "FlushAddr"
    PROVE  LET p == Prepared(x, i)
               v == Worked(x, i)
           IN /\ SameCache(v, p, {"state", "write_flush", "cache_line_i"})
              /\ v.state = "FlushCheck" /\ v.write_flush = FALSE /\ v.cache_line_i = ZeroLine
<1> DEFINE p == Prepared(x, i)
           v == [p EXCEPT !.write_flush = FALSE, !.cache_line_i = ZeroLine,
                          !.state = "FlushCheck"]
<1>0. Worked(x, i) = v
  BY DEF Worked, DC!CacheState, DC!FlushAddr
<1>1. CacheShape(p)
  BY PreparedIs
<1> HIDE DEF p
<1>2. /\ SameCache(v, p, {"state", "write_flush", "cache_line_i"})
      /\ v.state = "FlushCheck" /\ v.cache_line_i = ZeroLine
  BY <1>1 DEF SameCache, CacheShape, CacheRegs
<1>3. v.write_flush = FALSE
  BY <1>1 DEF CacheShape, CacheRegs
<1> HIDE DEF v
<1> QED
  BY <1>0, <1>2, <1>3 DEF p

\* What the visit of a flush does to v, from the prepared registers p of x: the
\* line is invalid, and is written back when it was dirty; the flush goes on to
\* the next place until none is left.
FlushChecked(x, p, v) ==
    /\ v.lines = [x.lines EXCEPT ![DC!Place(x)] = [tag |-> x.req_addr, flags |-> {},
                                                   data |-> x.cache_line_i]]
    /\ v.cache_line_o = DC!Line(x).data
    /\ v.lru = [x.lru EXCEPT ![DC!Place(x)[1]] = DC!InitOrder]
    /\ v.flush_cnt = IF x.flush_cnt = 0 THEN 0 ELSE x.flush_cnt - 1
    /\ ~DC!Dirty(DC!Line(x)) =>
          /\ SameCache(v, p, {"state", "cache_line_o", "lines", "lru", "flush_cnt"})
          /\ v.state = IF x.flush_cnt = 0 THEN "Idle" ELSE "FlushAddr"
    /\ DC!Dirty(DC!Line(x)) =>
          /\ SameCache(v, p, {"state", "cache_line_o", "lines", "lru", "flush_cnt",
                              "write_flush", "mem_addr", "req_mem_valid", "req_mem_type"})
          /\ v.state = "WaitGrant" /\ v.write_flush = TRUE
          /\ v.mem_addr = DC!Line(x).tag /\ v.req_mem_valid = TRUE
          /\ v.req_mem_type = "WriteBack"

(* That is what State_FlushCheck does. *)
LEMMA CacheFlushCheck ==
    ASSUME NEW x, NEW i, CacheShape(x), x.state = "FlushCheck"
    PROVE  FlushChecked(x, Prepared(x, i), Worked(x, i))
<1> DEFINE p == Prepared(x, i)
           l == [tag |-> x.req_addr, flags |-> {}, data |-> x.cache_line_i]
           n == [x.lines EXCEPT ![DC!Place(x)] = l]
           o == [x.lru EXCEPT ![DC!Place(x)[1]] = DC!InitOrder]
           k == IF x.flush_cnt = 0 THEN 0 ELSE x.flush_cnt - 1
           g == DC!Line(x).data
           b == [p EXCEPT !.cache_line_o = g, !.lines = n, !.lru = o, !.flush_cnt = k]
           s == IF x.flush_cnt = 0 THEN "Idle" ELSE "FlushAddr"
           v == [b EXCEPT !.state = s]
           u == [b EXCEPT !.write_flush = TRUE, !.mem_addr = DC!Line(x).tag,
                          !.req_mem_valid = TRUE, !.req_mem_type = "WriteBack",
                          !.state = "WaitGrant"]
<1>0. Worked(x, i) = DC!FlushCheck(x, p)
  BY DEF Worked, DC!CacheState
<1>1. CacheShape(p) /\ p.lines = x.lines /\ p.lru = x.lru /\ p.flush_cnt = x.flush_cnt
  BY PreparedIs DEF SameCache
<1> HIDE DEF p
<1>9. [p EXCEPT !.cache_line_o = DC!Line(x).data, !.lines[DC!Place(x)] = l,
                !.lru[DC!Place(x)[1]] = DC!InitOrder,
                !.flush_cnt = IF @ = 0 THEN 0 ELSE @ - 1] = b
  <2> HIDE DEF l
  <2> QED
    BY <1>1 DEF CacheShape, CacheRegs
<1>2. Worked(x, i) = IF DC!Dirty(DC!Line(x)) THEN u ELSE v
  BY <1>0, <1>9, Zenon DEF DC!FlushCheck
<1> HIDE DEF n, o, k, g, s
<1>3. /\ SameCache(b, p, {"cache_line_o", "lines", "lru", "flush_cnt"})
      /\ b.lines = n /\ b.cache_line_o = g /\ b.lru = o /\ b.flush_cnt = k
      /\ CacheRegs \subseteq DOMAIN b
  BY <1>1 DEF SameCache, CacheShape, CacheRegs
<1> HIDE DEF b
<1>4. /\ SameCache(v, p, {"state", "cache_line_o", "lines", "lru", "flush_cnt"})
      /\ v.state = s /\ v.lines = n /\ v.cache_line_o = g /\ v.lru = o /\ v.flush_cnt = k
  BY <1>3 DEF SameCache, CacheRegs
<1>5. /\ SameCache(u, p, {"state", "cache_line_o", "lines", "lru", "flush_cnt", "write_flush",
                          "mem_addr", "req_mem_valid", "req_mem_type"})
      /\ u.state = "WaitGrant" /\ u.lines = n /\ u.cache_line_o = g /\ u.lru = o
      /\ u.flush_cnt = k
      /\ u.mem_addr = DC!Line(x).tag /\ u.req_mem_type = "WriteBack"
  BY <1>3 DEF SameCache, CacheRegs
<1>6. u.write_flush = TRUE /\ u.req_mem_valid = TRUE
  BY <1>3 DEF CacheRegs
<1> HIDE DEF u, v
<1>7. CASE DC!Dirty(DC!Line(x))
  BY <1>2, <1>5, <1>6, <1>7 DEF p, n, o, k, g, FlushChecked
<1>8. CASE ~DC!Dirty(DC!Line(x))
  BY <1>2, <1>4, <1>8 DEF p, n, o, k, g, s, FlushChecked
<1> QED
  BY <1>7, <1>8

\* The line memory reads the line of the snoop.
LEMMA CacheSnoopSetup ==
    ASSUME NEW x, NEW i, CacheShape(x), x.state = "SnoopSetupAddr"
    PROVE  LET p == Prepared(x, i)
               v == Worked(x, i)
           IN SameCache(v, p, {"state"}) /\ v.state = "SnoopReadData"
<1> DEFINE p == Prepared(x, i)
<1>0. Worked(x, i) = [p EXCEPT !.state = "SnoopReadData"]
  BY DEF Worked, DC!CacheState
<1>1. CacheShape(p)
  BY PreparedIs
<1> HIDE DEF p
<1> QED
  BY <1>0, <1>1 DEF p, SameCache, CacheShape, CacheRegs

\* The line has been given away: it is shared or gone, and the cache goes on with
\* what was put aside.
LEMMA CacheSnoopRead ==
    ASSUME NEW x, NEW i, CacheShape(x), x.state = "SnoopReadData"
    PROVE  LET p == Prepared(x, i)
               v == Worked(x, i)
               P == DC!Place(x)
           IN /\ SameCache(v, p, {"state", "lines", "lru", "req_addr", "snoop_restore"})
              /\ v.state = DC!RestoredState(x) /\ v.req_addr = DC!RestoredAddr(x)
              /\ v.snoop_restore = "none"
              /\ x.req_snoop_type = "READDATA" =>
                    /\ v.lines = [x.lines EXCEPT ![P] =
                                    [tag |-> x.req_addr, flags |-> DC!SnoopedFlags(x),
                                     data |-> DC!Line(x).data]]
                    /\ v.lru = Touched(x)
              /\ x.req_snoop_type # "READDATA" /\ DC!Hit(x) =>
                    /\ v.lines = [x.lines EXCEPT ![P] = [tag |-> x.req_addr, flags |-> {},
                                                         data |-> DC!Line(x).data]]
                    /\ v.lru = [x.lru EXCEPT ![P[1]] = DC!Down(@, P[2])]
              /\ x.req_snoop_type # "READDATA" /\ ~DC!Hit(x) =>
                    v.lines = x.lines /\ v.lru = x.lru
<1> DEFINE p == Prepared(x, i)
           P == DC!Place(x)
           l == [tag |-> x.req_addr, flags |-> DC!SnoopedFlags(x), data |-> DC!Line(x).data]
           n == [x.lines EXCEPT ![P] = [tag |-> x.req_addr, flags |-> {},
                                        data |-> DC!Line(x).data]]
           o == [x.lru EXCEPT ![P[1]] = DC!Down(@, P[2])]
           g == [p EXCEPT !.lines = n, !.lru = o]
           b == DC!SnoopLine(x, p)
           v == [b EXCEPT !.req_addr = DC!RestoredAddr(x),
                          !.snoop_restore = "none", !.state = DC!RestoredState(x)]
<1>0. Worked(x, i) = v
  BY DEF Worked, DC!CacheState, DC!SnoopReadData
<1>1. CacheShape(p) /\ p.lines = x.lines /\ p.lru = x.lru
  BY PreparedIs DEF SameCache
<1> HIDE DEF p
<1>2. b = IF x.req_snoop_type = "READDATA" THEN DC!Write(x, p, l)
          ELSE IF DC!Hit(x) THEN g ELSE p
  BY <1>1 DEF DC!SnoopLine
<1> HIDE DEF l
<1>3. /\ SameCache(DC!Write(x, p, l), p, {"lines", "lru"})
      /\ DC!Write(x, p, l).lru = Touched(x)
      /\ DC!Write(x, p, l).lines = [x.lines EXCEPT ![P] = l]
  BY <1>1, WriteIs
<1> HIDE DEF n, o
<1>4. SameCache(g, p, {"lines", "lru"}) /\ g.lru = o /\ g.lines = n
  BY <1>1 DEF SameCache, CacheShape, CacheRegs
<1> HIDE DEF g
<1>5. SameCache(p, p, {"lines", "lru"})
  BY DEF SameCache
<1>6. /\ SameCache(b, p, {"lines", "lru"})
      /\ x.req_snoop_type = "READDATA" =>
            b.lines = [x.lines EXCEPT ![P] = l] /\ b.lru = Touched(x)
      /\ x.req_snoop_type # "READDATA" /\ DC!Hit(x) => b.lines = n /\ b.lru = o
      /\ x.req_snoop_type # "READDATA" /\ ~DC!Hit(x) => b.lines = x.lines /\ b.lru = x.lru
  BY <1>1, <1>2, <1>3, <1>4, <1>5
<1> HIDE DEF b
<1>7. /\ SameCache(v, p, {"state", "lines", "lru", "req_addr", "snoop_restore"})
      /\ v.state = DC!RestoredState(x) /\ v.req_addr = DC!RestoredAddr(x)
      /\ v.snoop_restore = "none" /\ v.lines = b.lines /\ v.lru = b.lru
  BY <1>1, <1>6 DEF SameCache, CacheShape, CacheRegs
<1> HIDE DEF v
<1> QED
  BY <1>0, <1>6, <1>7 DEF p, l, n, o

\* What a cache that is ready takes: a snoop of the data, its flush, a request.
LEMMA CacheAccept ==
    ASSUME NEW x, NEW i, NEW v, CacheShape(v)
    PROVE  LET r == DC!Accept(x, i, v)
           IN /\ DC!DataSnoop(i) =>
                    /\ SameCache(r, v, {"state", "req_addr", "req_snoop_type"})
                    /\ r.state = "SnoopSetupAddr" /\ r.req_addr = i.snoop.addr
                    /\ r.req_snoop_type = i.snoop.type
              /\ ~DC!DataSnoop(i) /\ x.req_flush =>
                    /\ SameCache(r, v, {"state", "req_addr", "req_flush", "cache_line_i",
                                        "flush_cnt"})
                    /\ r.state = "FlushAddr" /\ r.req_addr = NoLine
                    /\ r.cache_line_i = ZeroLine /\ r.flush_cnt = DC!FLUSH_ALL_VALUE
              /\ ~DC!DataSnoop(i) /\ ~x.req_flush /\ i.req.valid =>
                    /\ SameCache(r, v, {"state", "req_addr", "req_type", "req_word",
                                        "req_wdata"})
                    /\ r.state = "CheckHit" /\ r.req_addr = i.req.addr
                    /\ r.req_type = i.req.type /\ r.req_word = i.req.word
                    /\ r.req_wdata = i.req.wdata
              /\ ~DC!DataSnoop(i) /\ ~x.req_flush /\ ~i.req.valid => r = v
<1> DEFINE u == [v EXCEPT !.req_addr = i.snoop.addr, !.req_snoop_type = i.snoop.type,
                          !.state = "SnoopSetupAddr"]
           w == [v EXCEPT !.req_flush = FALSE, !.req_addr = NoLine,
                          !.flush_cnt = DC!FLUSH_ALL_VALUE, !.cache_line_i = ZeroLine,
                          !.state = "FlushAddr"]
           k == [v EXCEPT !.req_addr = i.req.addr, !.req_type = i.req.type,
                          !.req_word = i.req.word, !.req_wdata = i.req.wdata,
                          !.state = "CheckHit"]
<1>1. DC!Accept(x, i, v) = IF DC!DataSnoop(i) THEN u ELSE IF x.req_flush THEN w
                           ELSE IF i.req.valid THEN k ELSE v
  BY DEF DC!Accept
<1>2. /\ SameCache(u, v, {"state", "req_addr", "req_snoop_type"})
      /\ u.state = "SnoopSetupAddr" /\ u.req_addr = i.snoop.addr
      /\ u.req_snoop_type = i.snoop.type
  BY DEF SameCache, CacheShape, CacheRegs
<1>3. /\ SameCache(w, v, {"state", "req_addr", "req_flush", "cache_line_i", "flush_cnt"})
      /\ w.state = "FlushAddr" /\ w.req_addr = NoLine /\ w.cache_line_i = ZeroLine
      /\ w.flush_cnt = DC!FLUSH_ALL_VALUE
  BY DEF SameCache, CacheShape, CacheRegs
<1>4. /\ SameCache(k, v, {"state", "req_addr", "req_type", "req_word", "req_wdata"})
      /\ k.state = "CheckHit" /\ k.req_addr = i.req.addr
      /\ k.req_type = i.req.type /\ k.req_word = i.req.word /\ k.req_wdata = i.req.wdata
  BY DEF SameCache, CacheShape, CacheRegs
<1> HIDE DEF u, w, k
<1> QED
  BY <1>1, <1>2, <1>3, <1>4

\* The registers a cache may forget when it is idle.
Forgotten == {"req_addr", "req_type", "req_word", "req_wdata", "mem_addr", "req_mem_type",
              "cache_line_i", "cache_line_o", "req_snoop_type"}

\* What is forgotten, and by what it is replaced.
LEMMA CacheForget ==
    ASSUME NEW x, CacheShape(x)
    PROVE  LET f == DC!ForgetCache(x)
           IN /\ CacheShape(f)
              /\ f.snoop_addr = (IF x.snoop_flags_valid THEN x.snoop_addr ELSE NoLine)
              /\ f.req_addr_restore = (IF x.snoop_restore = "none" THEN NoLine
                                       ELSE x.req_addr_restore)
              /\ x.state # "Idle" => SameCache(f, x, {"snoop_addr", "req_addr_restore"})
              /\ x.state = "Idle" =>
                    /\ SameCache(f, x, Forgotten \cup {"snoop_addr", "req_addr_restore"})
                    /\ f.req_addr = NoLine /\ f.req_type = {} /\ f.req_word = 0
                    /\ f.req_wdata = 0 /\ f.mem_addr = NoLine
                    /\ f.req_mem_type = "ReadShared" /\ f.cache_line_i = ZeroLine
                    /\ f.cache_line_o = NoData /\ f.req_snoop_type = "FLAGS"
<1> DEFINE b == IF x.snoop_flags_valid THEN x.snoop_addr ELSE NoLine
           k == IF x.snoop_restore = "none" THEN NoLine ELSE x.req_addr_restore
           v == [x EXCEPT !.snoop_addr = b, !.req_addr_restore = k]
           w == [v EXCEPT !.req_addr = NoLine, !.req_type = {}, !.req_word = 0,
                          !.req_wdata = 0, !.mem_addr = NoLine,
                          !.req_mem_type = "ReadShared", !.cache_line_i = ZeroLine,
                          !.cache_line_o = NoData, !.req_snoop_type = "FLAGS"]
<1>1. DC!ForgetCache(x) = IF x.state # "Idle" THEN v ELSE w
  BY DEF DC!ForgetCache
<1> HIDE DEF b, k
<1>2. /\ SameCache(v, x, {"snoop_addr", "req_addr_restore"}) /\ v.snoop_addr = b
      /\ v.req_addr_restore = k
  BY DEF SameCache, CacheShape, CacheRegs
<1>3. CacheShape(v)
  BY <1>2 DEF SameCache, CacheShape
<1> HIDE DEF v
<1>4. /\ SameCache(w, x, Forgotten \cup {"snoop_addr", "req_addr_restore"})
      /\ w.snoop_addr = b /\ w.req_addr_restore = k
      /\ w.req_addr = NoLine /\ w.req_type = {} /\ w.req_word = 0
      /\ w.req_wdata = 0 /\ w.mem_addr = NoLine
      /\ w.req_mem_type = "ReadShared" /\ w.cache_line_i = ZeroLine
      /\ w.cache_line_o = NoData /\ w.req_snoop_type = "FLAGS"
  BY <1>2, <1>3 DEF SameCache, CacheShape, CacheRegs, Forgotten
<1>5. CacheShape(w)
  BY <1>2, <1>4, <1>3 DEF SameCache, CacheShape, Forgotten
<1> HIDE DEF w
<1>6. CASE x.state # "Idle"
  BY <1>1, <1>2, <1>3, <1>6 DEF b, k
<1>7. CASE x.state = "Idle"
  BY <1>1, <1>4, <1>5, <1>7 DEF b, k
<1> QED
  BY <1>6, <1>7

-----------------------------------------------------------------------------
(* How long a cache keeps a snoop of the data waiting.                     *)

InSnoop(x) == x.state \in {"SnoopSetupAddr", "SnoopReadData"}

\* A line that has just been filled is there when it is read again.
FillHits(x) == x.state = "SetupReadAdr" => DC!Hit(x) /\ ~DC!IsStore(x)

\* The cycles until the cache is ready for a snoop of the data, if the bus does
\* not answer before.
Left(x) ==
    IF x.state = "FlushAddr" THEN 2 * x.flush_cnt + 3
    ELSE IF x.state = "FlushCheck" THEN 2 * x.flush_cnt + 2
    ELSE IF x.state = "CheckResp" THEN 3
    ELSE IF x.state = "CheckHit" THEN IF DC!Hit(x) /\ ~DC!IsStore(x) THEN 1 ELSE 3
    ELSE IF x.state \in {"TranslateAddress", "SetupReadAdr"} THEN 2
    ELSE IF x.state = "WaitGrant" THEN 1 ELSE 0

\* The address of a fill is one of the lines.
FillKnown(x) == x.state = "CheckResp" => x.req_addr \in Lines

\* What the state machine does, as far as snoops can see it.
SnoopView(x, i, v) ==
    /\ CacheShape(v)
    /\ v.snoop_flags_valid <=> i.snoop.valid /\ i.snoop.type = "FLAGS" /\ ~DC!WritesTags(x)
    /\ v.snoop_flags_valid => v.snoop_addr = i.snoop.addr
    /\ FillHits(v)

\* While a snoop of the data waits and the bus does not answer, every cycle brings the
\* cache closer to taking it; once taken it is worked on in the two snoop states.
LEMMA SnoopViewFacts ==
    ASSUME NEW x, NEW i, CacheShape(x), Control(x), FillHits(x), FillKnown(x)
    PROVE  LET v == Worked(x, i)
           IN /\ SnoopView(x, i, v)
              /\ x.state = "SnoopSetupAddr" => v.state = "SnoopReadData"
              /\ DC!ReadyOnWait(x, i) => v.state = "SnoopSetupAddr"
              /\ ~DC!ReadyOnWait(x, i) /\ x.state # "SnoopSetupAddr" => ~InSnoop(v)
              /\ DC!DataSnoop(i) /\ ~DC!ReadyOnWait(x, i) /\ ~i.mem_valid
                 /\ x.state # "Idle" /\ ~InSnoop(x) => Left(v) + 1 <= Left(x)
<1> DEFINE p == Prepared(x, i)
           v == Worked(x, i)
           f == i.snoop.valid /\ ~DC!WritesTags(x) /\ i.snoop.type = "FLAGS"
           Same == {"req_flush", "snoop_addr", "snoop_flags_valid"}
           Orders == [DC!Sets -> [DC!Ways -> DC!Ways]]
           Counts == 0..DC!FLUSH_ALL_VALUE
           Goal == /\ SnoopView(x, i, v)
                   /\ x.state = "SnoopSetupAddr" => v.state = "SnoopReadData"
                   /\ DC!ReadyOnWait(x, i) => v.state = "SnoopSetupAddr"
                   /\ ~DC!ReadyOnWait(x, i) /\ x.state # "SnoopSetupAddr" => ~InSnoop(v)
                   /\ DC!DataSnoop(i) /\ ~DC!ReadyOnWait(x, i) /\ ~i.mem_valid
                      /\ x.state # "Idle" /\ ~InSnoop(x) => Left(v) + 1 <= Left(x)
<1>1. /\ SameCache(p, x, Same) /\ p.snoop_addr = i.snoop.addr /\ p.snoop_flags_valid = f
      /\ CacheShape(p)
  BY PreparedIs
<1>2. p.snoop_flags_valid <=> i.snoop.valid /\ i.snoop.type = "FLAGS" /\ ~DC!WritesTags(x)
  BY <1>1
<1>3. ASSUME NEW S, SameCache(v, p, S), "snoop_addr" \notin S, "snoop_flags_valid" \notin S,
             MemShape(v.lines), v.lru \in Orders, v.flush_cnt \in Counts, FillHits(v)
      PROVE  SnoopView(x, i, v)
  <2>1. CacheShape(v)
    BY <1>1, <1>3 DEF SameCache, CacheShape
  <2>2. v.snoop_addr = i.snoop.addr /\ v.snoop_flags_valid = p.snoop_flags_valid
    BY <1>1, <1>3 DEF SameCache
  <2> QED
    BY <1>2, <1>3, <2>1, <2>2 DEF SnoopView
<1>4. ASSUME NEW S, SameCache(v, p, S)
      PROVE  /\ "lines" \notin S => MemShape(v.lines)
             /\ "lru" \notin S => v.lru \in Orders
             /\ "flush_cnt" \notin S => v.flush_cnt \in Counts /\ v.flush_cnt = x.flush_cnt
  BY <1>1, <1>4 DEF SameCache, CacheShape
<1>22. x.state # "FlushCheck" => Touched(x) \in Orders
  BY TouchedIs
<1>23. MemShape(x.lines) /\ x.flush_cnt \in Counts
  BY DEF CacheShape
<1>24. DC!FLUSH_ALL_VALUE \in Nat
  BY FlushCount
<1>5. x.state \in DC!CacheStates /\ x.snoop_restore \in {"none", "WaitResp", "WriteBus"}
  BY DEF Control
<1> HIDE DEF p, f
<1>6. CASE x.state = "Idle"
  <2>1. v = p
    BY <1>6 DEF p, Worked, DC!CacheState
  <2>2. SameCache(v, p, {}) /\ v.state = "Idle"
    BY <1>1, <1>6, <2>1 DEF SameCache
  <2> HIDE DEF v
  <2>3. SnoopView(x, i, v)
    BY <1>3, <1>4, <2>2 DEF FillHits
  <2> QED
    BY <1>6, <2>2, <2>3 DEF v, InSnoop, DC!ReadyOnWait
<1>7. CASE x.state = "CheckHit" /\ ~DC!Hit(x)
  <2>1. /\ SameCache(v, p, {"state"})
        /\ v.state \in {"Idle", "TranslateAddress"}
    BY <1>7, CacheMiss DEF p
  <2> HIDE DEF v
  <2>2. SnoopView(x, i, v)
    BY <1>3, <1>4, <2>1 DEF FillHits
  <2> QED
    BY <1>7, <2>1, <2>2 DEF v, InSnoop, Left, DC!ReadyOnWait
<1>8. CASE x.state = "CheckHit" /\ DC!Hit(x) /\ ~DC!IsStore(x)
  <2> DEFINE l == [tag |-> x.req_addr, data |-> DC!ReservedData(x),
                   flags |-> DC!Line(x).flags \cup {"RESERVED"}]
  <2>1. /\ SameCache(v, p, {"state", "lines", "lru"})
        /\ v.state = "Idle" /\ v.lru = Touched(x)
        /\ \/ v.lines = [x.lines EXCEPT ![DC!Place(x)] = l]
           \/ v.lines = x.lines
    BY <1>8, CacheLoadHit DEF p
  <2>2. l.tag = x.req_addr
    OBVIOUS
  <2> HIDE DEF v, l
  <2>3. MemShape(v.lines)
    BY <1>8, <1>23, <2>1, <2>2, LineWritten
  <2>4. SnoopView(x, i, v)
    BY <1>3, <1>4, <1>8, <1>22, <2>1, <2>3 DEF FillHits
  <2> QED
    BY <1>8, <2>1, <2>4 DEF v, InSnoop, Left, DC!ReadyOnWait
<1>9. CASE x.state = "CheckHit" /\ DC!Hit(x) /\ DC!IsStore(x)
  <2> DEFINE l == [tag |-> x.req_addr, flags |-> DC!StoreFlags,
                   data |-> DC!Modified(x, DC!Line(x).data)]
  <2>1. /\ SameCache(v, p, {"state", "lines", "lru", "req_type", "write_share"})
        /\ v.state \in {"Idle", "TranslateAddress"} /\ v.lru = Touched(x)
        /\ \/ v.lines = [x.lines EXCEPT ![DC!Place(x)] = l]
           \/ v.lines = x.lines
    BY <1>9, CacheStoreHit DEF p
  <2>2. l.tag = x.req_addr
    OBVIOUS
  <2> HIDE DEF v, l
  <2>3. MemShape(v.lines)
    BY <1>9, <1>23, <2>1, <2>2, LineWritten
  <2>4. SnoopView(x, i, v)
    BY <1>3, <1>4, <1>9, <1>22, <2>1, <2>3 DEF FillHits
  <2> QED
    BY <1>9, <2>1, <2>4 DEF v, InSnoop, Left, DC!ReadyOnWait
<1>10. CASE x.state = "TranslateAddress"
  <2>1. /\ SameCache(v, p, {"state", "req_mem_valid", "write_first", "req_mem_type",
                            "mem_addr", "cache_line_o", "cache_line_i"})
        /\ v.state = "WaitGrant"
    BY <1>10, CacheTranslate DEF p
  <2> HIDE DEF v
  <2>2. SnoopView(x, i, v)
    BY <1>3, <1>4, <2>1 DEF FillHits
  <2> QED
    BY <1>10, <2>1, <2>2 DEF v, InSnoop, Left, DC!ReadyOnWait
<1>11. CASE x.state = "WaitGrant"
  <2>1. SameCache(v, p, {"state", "req_mem_valid"}) /\ v.state \in {"WriteBus", "WaitResp"}
    BY <1>11, CacheGrant DEF p
  <2> HIDE DEF v
  <2>2. SnoopView(x, i, v)
    BY <1>3, <1>4, <2>1 DEF FillHits
  <2> QED
    BY <1>11, <2>1, <2>2 DEF v, InSnoop, Left, DC!ReadyOnWait
<1>12. ASSUME v = DC!TakeSnoop(x, i, p)
       PROVE  SnoopView(x, i, v) /\ v.state = "SnoopSetupAddr"
  <2>1. /\ SameCache(v, p, {"state", "snoop_restore", "req_addr_restore", "req_addr",
                            "req_snoop_type"})
        /\ v.state = "SnoopSetupAddr"
    BY <1>12, CacheTakeSnoop DEF p
  <2> QED
    BY <1>3, <1>4, <2>1 DEF FillHits
<1>13. ASSUME v = p, x.state # "SetupReadAdr"
       PROVE  SnoopView(x, i, v) /\ v.state = x.state
  <2>1. SameCache(v, p, {}) /\ v.state = x.state
    BY <1>1, <1>13 DEF SameCache
  <2> QED
    BY <1>3, <1>4, <1>13, <2>1 DEF FillHits
<1>14. CASE x.state = "WaitResp"
  <2>1. /\ i.mem_valid => SameCache(v, p, {"state", "cache_line_i"}) /\ v.state = "CheckResp"
        /\ ~i.mem_valid /\ DC!DataSnoop(i) => v = DC!TakeSnoop(x, i, p)
        /\ ~i.mem_valid /\ ~DC!DataSnoop(i) => v = p
    BY <1>14, CacheWaitResp DEF p
  <2> HIDE DEF v
  <2>2. i.mem_valid => SnoopView(x, i, v)
    BY <1>3, <1>4, <2>1 DEF FillHits
  <2> QED
    BY <1>12, <1>13, <1>14, <2>1, <2>2 DEF v, InSnoop, DC!ReadyOnWait
<1>15. CASE x.state = "CheckResp"
  <2> DEFINE l == [tag |-> x.req_addr, flags |-> DC!StoreFlags,
                   data |-> DC!Modified(x, x.cache_line_i)]
             n == [tag |-> x.req_addr, data |-> x.cache_line_i,
                   flags |-> {"VALID", "SHARED"} \cup
                             (IF "Reserve" \in x.req_type THEN {"RESERVED"} ELSE {})]
  <2>1. /\ SameCache(v, p, {"state", "lines", "lru", "req_type"}) /\ v.lru = Touched(x)
        /\ DC!IsStore(x) => /\ v.state = "Idle"
                            /\ v.lines = [x.lines EXCEPT ![DC!Place(x)] = l]
        /\ ~DC!IsStore(x) => /\ v.state = "SetupReadAdr" /\ v.req_type = p.req_type
                             /\ v.lines = [x.lines EXCEPT ![DC!Place(x)] = n]
    BY <1>15, CacheCheckResp DEF p
  <2>2. l.tag = x.req_addr /\ n.tag = x.req_addr /\ "VALID" \in n.flags
    OBVIOUS
  <2> HIDE DEF v, l, n
  <2>3. x.req_addr \in Lines
    BY <1>15 DEF FillKnown
  <2>4. ~DC!IsStore(x) => v.req_addr = x.req_addr /\ v.req_type = x.req_type
    BY <1>1, <2>1 DEF SameCache
  <2>5. MemShape(v.lines) /\ FillHits(v)
    <3>1. CASE DC!IsStore(x)
      BY <1>15, <2>1, <2>2, <3>1, LineWritten DEF FillHits
    <3>2. CASE ~DC!IsStore(x)
      <4>1. MemShape(v.lines) /\ DC!Tagged(v, x.req_addr) = {DC!Place(x)}
        BY <1>15, <2>1, <2>2, <2>3, <3>2, LineWritten
      <4>2. DC!Hit(v)
        BY <2>4, <3>2, <4>1 DEF DC!Hit
      <4> QED
        BY <2>4, <3>2, <4>1, <4>2 DEF FillHits, DC!IsStore
    <3> QED
      BY <3>1, <3>2
  <2>6. SnoopView(x, i, v)
    BY <1>3, <1>4, <1>15, <1>22, <2>1, <2>5
  <2> QED
    BY <1>15, <2>1, <2>6 DEF v, InSnoop, Left, DC!ReadyOnWait
<1>16. CASE x.state = "SetupReadAdr"
  <2>1. SameCache(v, p, {"state"}) /\ v.state = "CheckHit"
    BY <1>16, CacheSetupRead DEF p
  <2> HIDE DEF v
  <2>2. SnoopView(x, i, v)
    BY <1>3, <1>4, <2>1 DEF FillHits
  <2>3. v.lines = x.lines /\ v.req_addr = x.req_addr /\ v.req_type = x.req_type
    BY <1>1, <2>1 DEF SameCache
  <2>4. DC!Hit(v) /\ ~DC!IsStore(v)
    BY <1>16, <2>3 DEF FillHits, DC!Hit, DC!Tagged, DC!IsStore
  <2> QED
    BY <1>16, <2>1, <2>2, <2>4 DEF v, InSnoop, Left, DC!ReadyOnWait
<1>17. CASE x.state = "WriteBus"
  <2>0. WroteBus(x, i, p, v)
    BY <1>17, CacheWriteBus DEF p
  <2> HIDE DEF v
  <2>1. /\ i.mem_valid => \/ SameCache(v, p, {"state", "write_share"}) /\ v.state = "Idle"
                          \/ SameCache(v, p, {"state"}) /\ v.state = "FlushAddr"
                          \/ /\ SameCache(v, p, {"state", "write_first", "mem_addr",
                                                 "req_mem_valid", "req_mem_type"})
                             /\ v.state = "WaitGrant"
        /\ ~i.mem_valid /\ DC!DataSnoop(i) => v = DC!TakeSnoop(x, i, p)
        /\ ~i.mem_valid /\ ~DC!DataSnoop(i) => v = p
    BY <2>0 DEF WroteBus
  <2>2. i.mem_valid => SnoopView(x, i, v) /\ ~InSnoop(v)
    BY <1>3, <1>4, <2>1 DEF FillHits, InSnoop
  <2> QED
    BY <1>12, <1>13, <1>17, <2>1, <2>2 DEF v, InSnoop, DC!ReadyOnWait
<1>18. CASE x.state = "FlushAddr"
  <2>1. SameCache(v, p, {"state", "write_flush", "cache_line_i"}) /\ v.state = "FlushCheck"
    BY <1>18, CacheFlushAddr DEF p
  <2> HIDE DEF v
  <2>2. SnoopView(x, i, v)
    BY <1>3, <1>4, <2>1 DEF FillHits
  <2>3. v.flush_cnt = x.flush_cnt /\ x.flush_cnt \in Nat
    BY <1>4, <1>23, <1>24, <2>1
  <2>4. Left(v) + 1 <= Left(x)
    BY <1>18, <2>1, <2>3 DEF Left
  <2> QED
    BY <1>18, <2>1, <2>2, <2>4 DEF v, InSnoop, DC!ReadyOnWait
<1>19. CASE x.state = "FlushCheck"
  <2> DEFINE l == [tag |-> x.req_addr, flags |-> {}, data |-> x.cache_line_i]
  <2>0. FlushChecked(x, p, v)
    BY <1>19, CacheFlushCheck DEF p
  <2>9. v.lines = [x.lines EXCEPT ![DC!Place(x)] = l]
    BY <2>0 DEF FlushChecked
  <2>2. l.flags = {}
    OBVIOUS
  <2> HIDE DEF v, l
  <2>3. MemShape(v.lines)
    BY <2>9, <2>2, LineFlushed
  <2>1. /\ v.flush_cnt = IF x.flush_cnt = 0 THEN 0 ELSE x.flush_cnt - 1
        /\ \/ /\ SameCache(v, p, {"state", "cache_line_o", "lines", "lru", "flush_cnt"})
              /\ v.state = IF x.flush_cnt = 0 THEN "Idle" ELSE "FlushAddr"
           \/ /\ SameCache(v, p, {"state", "cache_line_o", "lines", "lru", "flush_cnt",
                                  "write_flush", "mem_addr", "req_mem_valid",
                                  "req_mem_type"})
              /\ v.state = "WaitGrant"
    BY <2>0 DEF FlushChecked
  <2>4. v.lru \in Orders
    <3>1. DC!InitOrder \in [DC!Ways -> DC!Ways]
      BY DEF DC!InitOrder
    <3>2. v.lru = [x.lru EXCEPT ![DC!Place(x)[1]] = DC!InitOrder]
      BY <2>0 DEF FlushChecked
    <3> QED
      BY <3>1, <3>2 DEF CacheShape
  <2>5. x.flush_cnt \in Nat /\ x.flush_cnt <= DC!FLUSH_ALL_VALUE
    BY <1>23, <1>24
  <2>6. v.flush_cnt \in Counts
    BY <1>24, <2>1, <2>5
  <2>7. SnoopView(x, i, v)
    <3>1. v.state # "SetupReadAdr"
      BY <2>1
    <3>2. FillHits(v)
      BY <3>1 DEF FillHits
    <3>3. CASE SameCache(v, p, {"state", "cache_line_o", "lines", "lru", "flush_cnt"})
      BY <1>3, <2>3, <2>4, <2>6, <3>2, <3>3
    <3>4. CASE SameCache(v, p, {"state", "cache_line_o", "lines", "lru", "flush_cnt",
                                "write_flush", "mem_addr", "req_mem_valid", "req_mem_type"})
      <4>1. /\ "snoop_addr" \notin {"state", "cache_line_o", "lines", "lru", "flush_cnt",
                                "write_flush", "mem_addr", "req_mem_valid", "req_mem_type"}
            /\ "snoop_flags_valid" \notin {"state", "cache_line_o", "lines", "lru",
                                           "flush_cnt", "write_flush", "mem_addr",
                                           "req_mem_valid", "req_mem_type"}
        OBVIOUS
      <4> QED
        BY <1>3, <2>3, <2>4, <2>6, <3>2, <3>4, <4>1
    <3>5. \/ SameCache(v, p, {"state", "cache_line_o", "lines", "lru", "flush_cnt"})
          \/ SameCache(v, p, {"state", "cache_line_o", "lines", "lru", "flush_cnt",
                              "write_flush", "mem_addr", "req_mem_valid", "req_mem_type"})
      BY <2>1, Zenon
    <3> QED
      BY <3>3, <3>4, <3>5
  <2>8. Left(v) + 1 <= Left(x)
    <3>1. Left(x) = 2 * x.flush_cnt + 2
      BY <1>19 DEF Left
    <3>2. /\ v.state = "Idle" => Left(v) = 0
          /\ v.state = "WaitGrant" => Left(v) = 1
          /\ v.state = "FlushAddr" => Left(v) = 2 * v.flush_cnt + 3
      BY DEF Left
    <3>3. v.state = "FlushAddr" => v.flush_cnt = x.flush_cnt - 1
      BY <2>1
    <3>4. v.state \in {"Idle", "FlushAddr", "WaitGrant"}
      BY <2>1
    <3> QED
      BY <2>5, <3>1, <3>2, <3>3, <3>4
  <2> QED
    BY <1>19, <2>1, <2>7, <2>8 DEF v, InSnoop, DC!ReadyOnWait
<1>20. CASE x.state = "SnoopSetupAddr"
  <2>1. SameCache(v, p, {"state"}) /\ v.state = "SnoopReadData"
    BY <1>20, CacheSnoopSetup DEF p
  <2> HIDE DEF v
  <2>2. SnoopView(x, i, v)
    BY <1>3, <1>4, <2>1 DEF FillHits
  <2> QED
    BY <1>20, <2>1, <2>2 DEF v, InSnoop, DC!ReadyOnWait
<1>21. CASE x.state = "SnoopReadData"
  <2> DEFINE P == DC!Place(x)
             l == [tag |-> x.req_addr, flags |-> DC!SnoopedFlags(x), data |-> DC!Line(x).data]
             n == [tag |-> x.req_addr, flags |-> {}, data |-> DC!Line(x).data]
  <2>1. /\ SameCache(v, p, {"state", "lines", "lru", "req_addr", "snoop_restore"})
        /\ v.state = DC!RestoredState(x)
        /\ \/ v.lines = [x.lines EXCEPT ![P] = l] /\ v.lru = Touched(x)
           \/ /\ v.lines = [x.lines EXCEPT ![P] = n]
              /\ v.lru = [x.lru EXCEPT ![P[1]] = DC!Down(@, P[2])] /\ DC!Hit(x)
           \/ v.lines = x.lines /\ v.lru = x.lru
    BY <1>21, CacheSnoopRead DEF p
  <2>2. l.tag = x.req_addr /\ n.tag = x.req_addr
    OBVIOUS
  <2> HIDE DEF v, l, n
  <2>5. MemShape(v.lines)
    BY <1>21, <1>23, <2>1, <2>2, LineWritten
  <2>6. DC!Hit(x) => P \in DC!Sets \X DC!Ways
    BY <1>21, PlaceIs DEF CacheShape, DC!Tagged, DC!Places
  <2>7. v.lru \in Orders
    <3>1. x.lru \in Orders
      BY DEF CacheShape
    <3>2. DC!Hit(x) => DC!Down(x.lru[P[1]], P[2]) \in [DC!Ways -> DC!Ways]
      BY <2>6, <3>1, OrderKept
    <3> HIDE DEF P
    <3> QED
      BY <1>21, <1>22, <2>1, <3>1, <3>2
  <2>3. v.state \in {"Idle", "WaitResp", "WriteBus"}
    BY <1>5, <2>1 DEF DC!RestoredState
  <2>4. SnoopView(x, i, v)
    BY <1>3, <1>4, <2>1, <2>3, <2>5, <2>7 DEF FillHits
  <2> QED
    BY <1>21, <2>3, <2>4 DEF v, InSnoop, DC!ReadyOnWait
<1> QED
  BY <1>5, <1>6, <1>7, <1>8, <1>9, <1>10, <1>11, <1>14, <1>15, <1>16, <1>17, <1>18, <1>19,
     <1>20, <1>21 DEF DC!CacheStates

\* A clock edge of a cache, as the snoops see it.
LEMMA SnoopEdge ==
    ASSUME NEW x, NEW i, CacheShape(x), Control(x), FillHits(x), FillKnown(x)
    PROVE  LET y == DC!ForgetCache(DC!CacheNext(x, i))
           IN /\ CacheShape(y) /\ Control(y) /\ FillHits(y)
              /\ y.snoop_flags_valid <=> /\ i.snoop.valid /\ i.snoop.type = "FLAGS"
                                         /\ DC!SnoopReady(x, i)
              /\ y.snoop_flags_valid => y.snoop_addr = i.snoop.addr
              /\ DC!DataSnoop(i) /\ DC!SnoopReady(x, i) => y.state = "SnoopSetupAddr"
              /\ x.state = "SnoopSetupAddr" => y.state = "SnoopReadData"
              /\ ~(DC!DataSnoop(i) /\ DC!SnoopReady(x, i)) /\ x.state # "SnoopSetupAddr"
                    => ~InSnoop(y)
              /\ DC!DataSnoop(i) /\ ~DC!SnoopReady(x, i) /\ ~i.mem_valid /\ ~InSnoop(x)
                    => Left(y) + 1 <= Left(x)
<1> DEFINE v == Worked(x, i)
           r == DC!CacheNext(x, i)
           y == DC!ForgetCache(r)
<1>1. /\ SnoopView(x, i, v)
      /\ x.state = "SnoopSetupAddr" => v.state = "SnoopReadData"
      /\ DC!ReadyOnWait(x, i) => v.state = "SnoopSetupAddr"
      /\ ~DC!ReadyOnWait(x, i) /\ x.state # "SnoopSetupAddr" => ~InSnoop(v)
      /\ DC!DataSnoop(i) /\ ~DC!ReadyOnWait(x, i) /\ ~i.mem_valid
         /\ x.state # "Idle" /\ ~InSnoop(x) => Left(v) + 1 <= Left(x)
  BY SnoopViewFacts
<1>2. Control(y)
  BY EdgeGoesOn
<1>3. r = IF DC!ReadyNext(x, i) THEN DC!Accept(x, i, v) ELSE v
  BY CacheNextIs
<1>4. DC!ReadyNext(x, i) => x.state \in {"Idle", "CheckHit"} /\ v.state = "Idle"
  BY ReadyIsIdle DEF DC!ReadyNext, DC!LoadHits, DC!StoreHits, DC!Hits
<1>5. DC!DataSnoop(i) => (DC!SnoopReady(x, i) <=> DC!ReadyNext(x, i) \/ DC!ReadyOnWait(x, i))
  BY DEF DC!DataSnoop, DC!SnoopReady
<1>6. i.snoop.type = "FLAGS" => (DC!SnoopReady(x, i) <=> ~DC!WritesTags(x))
  BY DEF DC!SnoopReady
<1>7. x.state = "Idle" => DC!ReadyNext(x, i)
  BY DEF DC!ReadyNext
<1> HIDE DEF v
<1>8. /\ SnoopView(x, i, r)
      /\ DC!DataSnoop(i) /\ DC!SnoopReady(x, i) => r.state = "SnoopSetupAddr"
      /\ x.state = "SnoopSetupAddr" => r.state = "SnoopReadData"
      /\ ~(DC!DataSnoop(i) /\ DC!SnoopReady(x, i)) /\ x.state # "SnoopSetupAddr" => ~InSnoop(r)
      /\ DC!DataSnoop(i) /\ ~DC!SnoopReady(x, i) /\ ~i.mem_valid /\ ~InSnoop(x)
            => Left(r) + 1 <= Left(x)
  <2>1. CASE ~DC!ReadyNext(x, i)
    <3>1. DC!ReadyOnWait(x, i) => DC!DataSnoop(i)
      BY DEF DC!ReadyOnWait
    <3> QED
      BY <1>1, <1>3, <1>5, <1>7, <2>1, <3>1
  <2>2. CASE DC!ReadyNext(x, i)
    <3>1. CacheShape(v)
      BY <1>1 DEF SnoopView
    <3>2. r = DC!Accept(x, i, v)
      BY <1>3, <2>2
    <3> HIDE DEF r
    <3>3. /\ DC!DataSnoop(i) =>
                /\ SameCache(r, v, {"state", "req_addr", "req_snoop_type"})
                /\ r.state = "SnoopSetupAddr"
          /\ ~DC!DataSnoop(i) =>
                \/ /\ SameCache(r, v, {"state", "req_addr", "req_flush", "cache_line_i",
                                       "flush_cnt"})
                   /\ r.state = "FlushAddr" /\ r.flush_cnt = DC!FLUSH_ALL_VALUE
                \/ /\ SameCache(r, v, {"state", "req_addr", "req_type", "req_word",
                                       "req_wdata"})
                   /\ r.state = "CheckHit"
                \/ r = v
      BY <3>1, <3>2, CacheAccept
    <3>4. ASSUME NEW S, SameCache(r, v, S), "snoop_addr" \notin S,
                 "snoop_flags_valid" \notin S, "lines" \notin S, "lru" \notin S,
                 r.flush_cnt \in 0..DC!FLUSH_ALL_VALUE, r.state # "SetupReadAdr"
          PROVE  SnoopView(x, i, r)
      BY <1>1, <3>4 DEF SameCache, SnoopView, CacheShape, FillHits
    <3>6. /\ v.flush_cnt \in 0..DC!FLUSH_ALL_VALUE
          /\ DC!FLUSH_ALL_VALUE \in 0..DC!FLUSH_ALL_VALUE
      BY <3>1, FlushCount DEF CacheShape
    <3>7. r.flush_cnt \in 0..DC!FLUSH_ALL_VALUE
      BY <3>3, <3>6 DEF SameCache
    <3>5. SnoopView(x, i, r)
      BY <1>1, <1>4, <2>2, <3>3, <3>4, <3>7
    <3> QED
      BY <1>4, <1>5, <2>2, <3>3, <3>5 DEF InSnoop
  <2> QED
    BY <2>1, <2>2
<1> HIDE DEF r
<1>9. CacheShape(r)
  BY <1>8 DEF SnoopView
<1>10. /\ CacheShape(y)
       /\ y.snoop_addr = (IF r.snoop_flags_valid THEN r.snoop_addr ELSE NoLine)
       /\ r.state # "Idle" => SameCache(y, r, {"snoop_addr", "req_addr_restore"})
       /\ r.state = "Idle" =>
             SameCache(y, r, Forgotten \cup {"snoop_addr", "req_addr_restore"})
  BY <1>9, CacheForget
<1> HIDE DEF y
<1>11. y.state = r.state /\ y.snoop_flags_valid = r.snoop_flags_valid
  BY <1>10 DEF SameCache, Forgotten
<1>12. y.state # "Idle" => /\ y.lines = r.lines /\ y.req_addr = r.req_addr
                           /\ y.req_type = r.req_type /\ y.flush_cnt = r.flush_cnt
  BY <1>10, <1>11 DEF SameCache
<1>13. FillHits(y)
  BY <1>8, <1>11, <1>12 DEF SnoopView, FillHits, DC!Hit, DC!Tagged, DC!IsStore
<1>14. Left(y) = Left(r)
  <2>1. CASE y.state = "Idle"
    BY <1>11, <2>1 DEF Left
  <2>2. CASE y.state # "Idle"
    BY <1>11, <1>12, <2>2 DEF Left, DC!Hit, DC!Tagged, DC!IsStore
  <2> QED
    BY <2>1, <2>2
<1>15. /\ y.snoop_flags_valid <=> /\ i.snoop.valid /\ i.snoop.type = "FLAGS"
                                  /\ DC!SnoopReady(x, i)
       /\ y.snoop_flags_valid => y.snoop_addr = i.snoop.addr
  BY <1>6, <1>8, <1>10, <1>11 DEF SnoopView
<1> QED
  BY <1>2, <1>8, <1>10, <1>11, <1>13, <1>14, <1>15 DEF r, y, InSnoop

-----------------------------------------------------------------------------
(* The bus adapter of a core.                                              *)

AdapterRegs == {"state", "req_addr", "req_snoop", "req_wdata", "snoop_state", "ac_addr",
                "ac_unique", "req_snoop_type", "cache_access", "cr_data", "resp_snoop_data"}

AdapterShape(y) == AdapterRegs \subseteq DOMAIN y

\* v and w agree on the registers of the requests, of the snoops.
SameBus(v, w) ==
    /\ DOMAIN v = DOMAIN w
    /\ v.state = w.state /\ v.req_addr = w.req_addr /\ v.req_snoop = w.req_snoop
    /\ v.req_wdata = w.req_wdata

SameSnoop(v, w) ==
    /\ DOMAIN v = DOMAIN w
    /\ v.snoop_state = w.snoop_state /\ v.ac_addr = w.ac_addr /\ v.ac_unique = w.ac_unique
    /\ v.req_snoop_type = w.req_snoop_type /\ v.cache_access = w.cache_access
    /\ v.cr_data = w.cr_data /\ v.resp_snoop_data = w.resp_snoop_data

\* v keeps the request of y, in state s.
BusGoes(v, y, s) ==
    /\ v.state = s /\ v.req_addr = y.req_addr /\ v.req_snoop = y.req_snoop
    /\ v.req_wdata = y.req_wdata

\* What the request side does: z are the registers after the edge.
BusView(y, j, z) ==
    /\ y.state = "idle" /\ ~j.req_mem_valid => z.state = "idle"
    /\ y.state = "idle" /\ j.req_mem_valid =>
          /\ z.state = (IF AD!IsWrite(j.req_mem_type) THEN "aw" ELSE "ar")
          /\ z.req_addr = j.req_mem_addr /\ z.req_snoop = j.req_mem_type
          /\ z.req_wdata = (IF AD!IsWrite(j.req_mem_type) THEN j.req_mem_data ELSE NoData)
    /\ y.state = "ar" => BusGoes(z, y, IF j.ar_ready THEN "r" ELSE "ar")
    /\ y.state = "r" => IF j.r_valid THEN z.state = "idle" ELSE BusGoes(z, y, "r")
    /\ y.state = "aw" => BusGoes(z, y, IF j.aw_ready THEN "b" ELSE "aw")
    /\ y.state = "b" => IF j.b_valid THEN z.state = "idle" ELSE BusGoes(z, y, "b")

\* The state machine of the requests.
LEMMA BusNextIs ==
    ASSUME NEW y, NEW j, AdapterShape(y), y.state \in AD!BusStates
    PROVE  /\ SameSnoop(AD!BusNext(y, j), y)
           /\ AdapterShape(AD!BusNext(y, j))
           /\ BusView(y, j, AD!BusNext(y, j))
<1> DEFINE v == AD!BusNext(y, j)
<1> USE DEF SameSnoop, AdapterShape, AdapterRegs, BusView, BusGoes
<1>1. CASE y.state = "idle" /\ ~j.req_mem_valid
  BY <1>1 DEF AD!BusNext
<1>2. CASE y.state = "idle" /\ j.req_mem_valid
  <2> DEFINE s == IF AD!IsWrite(j.req_mem_type) THEN "aw" ELSE "ar"
             t == IF AD!IsWrite(j.req_mem_type) THEN j.req_mem_data ELSE NoData
  <2>1. v = [y EXCEPT !.state = s, !.req_addr = j.req_mem_addr, !.req_snoop = j.req_mem_type,
                      !.req_wdata = t]
    BY <1>2 DEF AD!BusNext
  <2> HIDE DEF v, s, t
  <2>2. SameSnoop(v, y) /\ AdapterShape(v)
    BY <2>1
  <2>3. v.state = s /\ v.req_addr = j.req_mem_addr /\ v.req_snoop = j.req_mem_type
        /\ v.req_wdata = t
    BY <2>1
  <2> QED
    BY <1>2, <2>2, <2>3 DEF v, s, t
<1>3. ASSUME NEW s, v = [y EXCEPT !.state = s] \/ (v = y /\ s = y.state)
      PROVE  SameSnoop(v, y) /\ AdapterShape(v) /\ BusGoes(v, y, s)
  <2> HIDE DEF v
  <2> QED
    BY <1>3
<1>4. CASE y.state = "ar"
  <2>1. v = IF j.ar_ready THEN [y EXCEPT !.state = "r"] ELSE y
    BY <1>4 DEF AD!BusNext
  <2> HIDE DEF v
  <2>2. BusGoes(v, y, IF j.ar_ready THEN "r" ELSE "ar") /\ SameSnoop(v, y) /\ AdapterShape(v)
    BY <1>3, <1>4, <2>1
  <2> QED
    BY <1>4, <2>2 DEF v
<1>5. CASE y.state = "r"
  <2>1. v = IF j.r_valid THEN [y EXCEPT !.state = "idle"] ELSE y
    BY <1>5 DEF AD!BusNext
  <2> HIDE DEF v
  <2>2. BusGoes(v, y, IF j.r_valid THEN "idle" ELSE "r") /\ SameSnoop(v, y) /\ AdapterShape(v)
    BY <1>3, <1>5, <2>1
  <2> QED
    BY <1>5, <2>2 DEF v
<1>6. CASE y.state = "aw"
  <2>1. v = IF j.aw_ready THEN [y EXCEPT !.state = "b"] ELSE y
    BY <1>6 DEF AD!BusNext
  <2> HIDE DEF v
  <2>2. BusGoes(v, y, IF j.aw_ready THEN "b" ELSE "aw") /\ SameSnoop(v, y) /\ AdapterShape(v)
    BY <1>3, <1>6, <2>1
  <2> QED
    BY <1>6, <2>2 DEF v
<1>7. CASE y.state = "b"
  <2>1. v = IF j.b_valid THEN [y EXCEPT !.state = "idle"] ELSE y
    BY <1>7 DEF AD!BusNext
  <2> HIDE DEF v
  <2>2. BusGoes(v, y, IF j.b_valid THEN "idle" ELSE "b") /\ SameSnoop(v, y) /\ AdapterShape(v)
    BY <1>3, <1>7, <2>1
  <2> QED
    BY <1>7, <2>2 DEF v
<1> QED
  BY <1>1, <1>2, <1>4, <1>5, <1>6, <1>7 DEF AD!BusStates

\* z has the snoop of y, in state s.
SnoopKeeps(z, y, s) ==
    /\ z.snoop_state = s
    /\ s # "snoop_idle" =>
          /\ z.ac_addr = y.ac_addr /\ z.ac_unique = y.ac_unique
          /\ z.req_snoop_type = y.req_snoop_type /\ z.cache_access = y.cache_access
          /\ z.cr_data = y.cr_data

\* What the snoop side does in the states that occur.
AckView(y, j, z) ==
    /\ y.snoop_state = "snoop_idle" =>
          IF ~j.ac.valid THEN z.snoop_state = "snoop_idle"
          ELSE /\ z.snoop_state = (IF j.snoop_ready THEN "snoop_cr" ELSE "snoop_ac_wait_accept")
               /\ ~z.cache_access /\ z.req_snoop_type = "FLAGS"
               /\ z.ac_addr = j.ac.addr /\ z.ac_unique = j.ac.unique
    /\ y.snoop_state = "snoop_ac_wait_accept" =>
          SnoopKeeps(z, y, IF ~j.snoop_ready THEN "snoop_ac_wait_accept"
                           ELSE IF y.cache_access THEN "snoop_cd" ELSE "snoop_cr")
    /\ y.snoop_state = "snoop_cr" /\ ~j.resp_valid => SnoopKeeps(z, y, "snoop_cr")
    /\ y.snoop_state = "snoop_cr" /\ j.resp_valid =>
          LET give == AD!MustGive(y, j.resp_flags)
          IN  /\ z.snoop_state = IF ~j.cr_ready THEN "snoop_cr_wait_accept"
                                 ELSE IF give THEN "snoop_ac_wait_accept"
                                 ELSE "snoop_idle"
              /\ z.snoop_state # "snoop_idle" =>
                    /\ z.ac_addr = y.ac_addr /\ z.ac_unique = y.ac_unique
                    /\ z.cr_data <=> give
                    /\ z.cache_access <=> y.cache_access \/ give
                    /\ z.req_snoop_type = IF ~give THEN y.req_snoop_type
                                          ELSE IF y.ac_unique THEN "READCLEAN"
                                          ELSE "READDATA"
    /\ y.snoop_state = "snoop_cr_wait_accept" =>
          SnoopKeeps(z, y, IF ~j.cr_ready THEN "snoop_cr_wait_accept"
                           ELSE IF y.cache_access THEN "snoop_ac_wait_accept"
                           ELSE "snoop_idle")
    /\ y.snoop_state = "snoop_cd" =>
          SnoopKeeps(z, y, IF ~j.resp_valid THEN "snoop_cd"
                           ELSE IF j.cd_ready THEN "snoop_idle" ELSE "snoop_cd_wait_accept")

\* The state machine of the snoops.
LEMMA SnoopNextIs ==
    ASSUME NEW y, NEW j, NEW v, AdapterShape(y), AdapterShape(v), SameSnoop(v, y),
           y.snoop_state \in AD!SnoopStates \ {"snoop_cd_wait_accept"}
    PROVE  /\ SameBus(AD!SnoopNext(y, j, v), v)
           /\ AckView(y, j, AD!SnoopNext(y, j, v))
<1> DEFINE w == AD!SnoopNext(y, j, v)
<1>0. /\ v.snoop_state = y.snoop_state /\ v.ac_addr = y.ac_addr /\ v.ac_unique = y.ac_unique
      /\ v.req_snoop_type = y.req_snoop_type /\ v.cache_access = y.cache_access
      /\ v.cr_data = y.cr_data /\ AdapterRegs \subseteq DOMAIN v
  BY DEF SameSnoop, AdapterShape
<1>1. CASE y.snoop_state = "snoop_idle"
  <2> DEFINE s == IF j.snoop_ready THEN "snoop_cr" ELSE "snoop_ac_wait_accept"
  <2>1. w = IF ~j.ac.valid THEN v
            ELSE [v EXCEPT !.cache_access = FALSE, !.req_snoop_type = "FLAGS",
                           !.ac_addr = j.ac.addr, !.ac_unique = j.ac.unique,
                           !.snoop_state = s]
    BY <1>1 DEF AD!SnoopNext
  <2> HIDE DEF w, s
  <2>2. SameBus(w, v)
    BY <1>0, <2>1 DEF SameBus, AdapterRegs
  <2>3. ~j.ac.valid => w.snoop_state = "snoop_idle"
    BY <1>0, <1>1, <2>1
  <2>4. j.ac.valid => /\ w.snoop_state = s
                      /\ ~w.cache_access /\ w.req_snoop_type = "FLAGS"
                      /\ w.ac_addr = j.ac.addr /\ w.ac_unique = j.ac.unique
    BY <1>0, <2>1 DEF AdapterRegs
  <2> QED
    BY <1>1, <2>2, <2>3, <2>4 DEF w, s, AckView
<1>2. ASSUME NEW s, \/ w = [v EXCEPT !.snoop_state = s] 
                    \/ w = v /\ s = y.snoop_state
                    \/ \E t : w = [v EXCEPT !.resp_snoop_data = t, !.snoop_state = s]
      PROVE  SameBus(w, v) /\ SnoopKeeps(w, y, s)
  <2> HIDE DEF w
  <2> QED
    BY <1>0, <1>2 DEF SameBus, SnoopKeeps, AdapterRegs
<1>3. CASE y.snoop_state = "snoop_ac_wait_accept"
  <2>1. w = IF ~j.snoop_ready THEN v
            ELSE [v EXCEPT !.snoop_state = IF y.cache_access THEN "snoop_cd" ELSE "snoop_cr"]
    BY <1>3 DEF AD!SnoopNext
  <2> HIDE DEF w
  <2>2. /\ SameBus(w, v)
        /\ SnoopKeeps(w, y, IF ~j.snoop_ready THEN "snoop_ac_wait_accept"
                            ELSE IF y.cache_access THEN "snoop_cd" ELSE "snoop_cr")
    BY <1>2, <1>3, <2>1
  <2> QED
    BY <1>3, <2>2 DEF w, AckView
<1>4. CASE y.snoop_state = "snoop_cr" /\ ~j.resp_valid
  <2>1. w = v
    BY <1>4 DEF AD!SnoopNext
  <2> HIDE DEF w
  <2>2. SameBus(w, v) /\ SnoopKeeps(w, y, "snoop_cr")
    BY <1>2, <1>4, <2>1
  <2> QED
    BY <1>4, <2>2 DEF w, AckView
<1>5. CASE y.snoop_state = "snoop_cr" /\ j.resp_valid
  <2> DEFINE give == AD!MustGive(y, j.resp_flags)
             t == IF ~give THEN y.req_snoop_type
                  ELSE IF y.ac_unique THEN "READCLEAN" ELSE "READDATA"
             s == IF ~j.cr_ready THEN "snoop_cr_wait_accept"
                  ELSE IF give THEN "snoop_ac_wait_accept" ELSE "snoop_idle"
             b == v.cache_access \/ give
  <2>1. w = AD!CrAnswer(y, j, v)
    BY <1>5 DEF AD!SnoopNext
  <2>2. w = [v EXCEPT !.cr_data = give, !.cache_access = b, !.req_snoop_type = t,
                      !.snoop_state = s]
    BY <1>0, <2>1 DEF AD!CrAnswer
  <2>3. b <=> y.cache_access \/ give
    BY <1>0
  <2> HIDE DEF w, s, t, b, give
  <2>4. SameBus(w, v)
    BY <1>0, <2>2 DEF SameBus, AdapterRegs
  <2>5. /\ w.snoop_state = s /\ w.ac_addr = y.ac_addr /\ w.ac_unique = y.ac_unique
        /\ w.req_snoop_type = t
    BY <1>0, <2>2 DEF AdapterRegs
  <2>6. w.cr_data = give /\ w.cache_access = b
    BY <1>0, <2>2 DEF AdapterRegs
  <2>7. (w.cr_data <=> give) /\ (w.cache_access <=> y.cache_access \/ give)
    BY <2>3, <2>6
  <2> QED
    BY <1>5, <2>4, <2>5, <2>7 DEF w, s, t, give, AckView
<1>6. CASE y.snoop_state = "snoop_cr_wait_accept"
  <2>1. w = IF ~j.cr_ready THEN v
            ELSE [v EXCEPT !.snoop_state = IF y.cache_access THEN "snoop_ac_wait_accept"
                                           ELSE "snoop_idle"]
    BY <1>6 DEF AD!SnoopNext
  <2> HIDE DEF w
  <2>2. /\ SameBus(w, v)
        /\ SnoopKeeps(w, y, IF ~j.cr_ready THEN "snoop_cr_wait_accept"
                            ELSE IF y.cache_access THEN "snoop_ac_wait_accept"
                            ELSE "snoop_idle")
    BY <1>2, <1>6, <2>1
  <2> QED
    BY <1>6, <2>2 DEF w, AckView
<1>7. CASE y.snoop_state = "snoop_cd"
  <2> DEFINE s == IF j.cd_ready THEN "snoop_idle" ELSE "snoop_cd_wait_accept"
  <2>1. w = IF ~j.resp_valid THEN v
            ELSE [v EXCEPT !.resp_snoop_data = j.resp_data, !.snoop_state = s]
    BY <1>7 DEF AD!SnoopNext
  <2> HIDE DEF w
  <2>2. /\ SameBus(w, v)
        /\ SnoopKeeps(w, y, IF ~j.resp_valid THEN "snoop_cd" ELSE s)
    BY <1>2, <1>7, <2>1
  <2> QED
    BY <1>7, <2>2 DEF w, AckView
<1> QED
  BY <1>1, <1>3, <1>4, <1>5, <1>6, <1>7 DEF AD!SnoopStates

\* The registers that are forgotten are those of an idle machine.
LEMMA AdapterForget ==
    ASSUME NEW w, AdapterShape(w)
    PROVE  LET z == AD!ForgetAdapter(w)
           IN  /\ AdapterShape(z)
               /\ z.state = w.state /\ z.snoop_state = w.snoop_state
               /\ w.state # "idle" => BusGoes(z, w, w.state)
               /\ SnoopKeeps(z, w, w.snoop_state)
<1> DEFINE v == IF w.state # "idle" THEN w
                ELSE [w EXCEPT !.req_addr = NoLine, !.req_snoop = "ReadShared",
                               !.req_wdata = NoData]
           u == IF w.snoop_state = "snoop_cd_wait_accept" THEN v
                ELSE [v EXCEPT !.resp_snoop_data = NoData]
           z == IF w.snoop_state # "snoop_idle" THEN u
                ELSE [u EXCEPT !.ac_addr = NoLine, !.ac_unique = FALSE,
                               !.req_snoop_type = "FLAGS", !.cache_access = FALSE,
                               !.cr_data = FALSE]
<1>1. AD!ForgetAdapter(w) = z
  BY DEF AD!ForgetAdapter
<1>2. /\ SameSnoop(v, w) /\ AdapterShape(v) /\ v.state = w.state
      /\ w.state # "idle" => BusGoes(v, w, w.state)
  BY DEF SameSnoop, AdapterShape, AdapterRegs, BusGoes
<1> HIDE DEF v
<1>3. SameBus(u, v) /\ AdapterShape(u) /\ SnoopKeeps(u, w, w.snoop_state)
  BY <1>2 DEF SameBus, SameSnoop, AdapterShape, AdapterRegs, SnoopKeeps
<1> HIDE DEF u
<1>4. SameBus(z, u) /\ AdapterShape(z) /\ SnoopKeeps(z, w, w.snoop_state)
  BY <1>3 DEF SameBus, AdapterShape, AdapterRegs, SnoopKeeps
<1> HIDE DEF z
<1> QED
  BY <1>1, <1>2, <1>3, <1>4 DEF SameBus, BusGoes, SnoopKeeps

\* A clock edge of an adapter.
LEMMA AdapterEdge ==
    ASSUME NEW y, NEW j, AdapterShape(y), y.state \in AD!BusStates,
           y.snoop_state \in AD!SnoopStates \ {"snoop_cd_wait_accept"}
    PROVE  LET z == AD!ForgetAdapter(AD!AdapterNext(y, j))
           IN  AdapterShape(z) /\ BusView(y, j, z) /\ AckView(y, j, z)
<1> DEFINE v == AD!BusNext(y, j)
           w == AD!SnoopNext(y, j, v)
           z == AD!ForgetAdapter(w)
<1>1. SameSnoop(v, y) /\ AdapterShape(v) /\ BusView(y, j, v)
  BY BusNextIs
<1> HIDE DEF v
<1>2. SameBus(w, v) /\ AckView(y, j, w)
  BY <1>1, SnoopNextIs
<1> HIDE DEF w
<1>3. AdapterShape(w) /\ BusView(y, j, w)
  BY <1>1, <1>2 DEF SameBus, AdapterShape, BusView, BusGoes
<1>4. /\ AdapterShape(z)
      /\ z.state = w.state /\ z.snoop_state = w.snoop_state
      /\ w.state # "idle" => BusGoes(z, w, w.state)
      /\ SnoopKeeps(z, w, w.snoop_state)
  BY <1>3, AdapterForget
<1> HIDE DEF z
<1>5. BusView(y, j, z)
  BY <1>3, <1>4 DEF BusView, BusGoes
<1>6. AckView(y, j, z)
  BY <1>2, <1>4 DEF AckView, SnoopKeeps
<1> QED
  BY <1>4, <1>5, <1>6 DEF z, w, v, AD!AdapterNext

-----------------------------------------------------------------------------
(* The handshake of a snoop between a cache and its adapter.               *)

\* The snoop side of an adapter has asked for the data of the line, or asks.
DataPhase(y) ==
    y.snoop_state = "snoop_cd" \/ (y.snoop_state = "snoop_ac_wait_accept" /\ y.cache_access)

\* The age a snoop has at most while this cache owes the data.
Late(x, y) ==
    2 * DC!FLUSH_ALL_VALUE +
      IF y.snoop_state = "snoop_ac_wait_accept" THEN 5 - Left(x)
      ELSE IF x.state = "SnoopSetupAddr" THEN 6 ELSE 7

\* What cache x and its adapter y know of each other.
LocalHand(x, y) ==
    /\ y.snoop_state \in AD!SnoopStates \ {"snoop_cd_wait_accept"}
    /\ x.snoop_flags_valid <=> y.snoop_state = "snoop_cr"
    /\ InSnoop(x) <=> y.snoop_state = "snoop_cd"
    /\ y.snoop_state \in {"snoop_ac_wait_accept", "snoop_cr_wait_accept", "snoop_cd"} =>
          (y.cache_access <=> y.req_snoop_type # "FLAGS")
    /\ y.snoop_state = "snoop_cr" => ~y.cache_access /\ y.req_snoop_type = "FLAGS"
    /\ y.snoop_state = "snoop_cr_wait_accept" => (y.cr_data <=> y.cache_access)

\* The registers of a cache and its adapter are in their ranges.
LocalShape(x, y) ==
    /\ CacheShape(x) /\ Control(x) /\ FillHits(x)
    /\ AdapterShape(y) /\ y.state \in AD!BusStates

\* The wires between the two.
Wired(x, y, i, j) ==
    /\ i.snoop = AD!SnoopReq(y, j.ac)
    /\ j.snoop_ready <=> DC!SnoopReady(x, i)
    /\ j.resp_valid <=> DC!SnoopRespValid(x)
    /\ j.resp_flags = DC!SnoopFlags(x)
    /\ i.mem_valid <=> AD!RespMemValid(y, j)

\* A cache is ready for a snoop of the data within three cycles.
LEMMA LeftBound ==
    ASSUME NEW x, CacheShape(x)
    PROVE  /\ DC!FLUSH_ALL_VALUE \in Nat
           /\ Left(x) \in Nat /\ Left(x) <= 2 * DC!FLUSH_ALL_VALUE + 3
<1>1. DC!FLUSH_ALL_VALUE \in Nat
  BY FlushCount
<1>2. x.flush_cnt \in Nat /\ x.flush_cnt <= DC!FLUSH_ALL_VALUE
  BY <1>1 DEF CacheShape
<1>3. Left(x) \in {0, 1, 2, 3, 2 * x.flush_cnt + 2, 2 * x.flush_cnt + 3}
  BY DEF Left
<1> QED
  BY <1>1, <1>2, <1>3

\* One cycle of the handshake.  The arbiter waits for data when the adapter has
\* announced it.
LEMMA HandStep ==
    ASSUME NEW x, NEW y, NEW i, NEW j, LocalShape(x, y), FillKnown(x), LocalHand(x, y),
           Wired(x, y, i, j), DataPhase(y) => j.cd_ready
    PROVE  LET v == DC!ForgetCache(DC!CacheNext(x, i))
               z == AD!ForgetAdapter(AD!AdapterNext(y, j))
           IN  /\ LocalShape(v, z) /\ LocalHand(v, z)
               /\ DataPhase(z) <=> \/ DataPhase(y) /\ ~AD!CdValid(y, j)
                                   \/ AD!CrData(y, j) /\ j.cr_ready
               /\ DataPhase(y) => ~AD!CrData(y, j)
               /\ DataPhase(y) /\ DataPhase(z) /\ ~i.mem_valid => Late(x, y) + 1 <= Late(v, z)
               /\ DataPhase(z) /\ ~DataPhase(y) => 2 <= Late(v, z)
<1> DEFINE v == DC!ForgetCache(DC!CacheNext(x, i))
           z == AD!ForgetAdapter(AD!AdapterNext(y, j))
           Goal == /\ LocalHand(v, z)
                   /\ DataPhase(z) <=> \/ DataPhase(y) /\ ~AD!CdValid(y, j)
                                       \/ AD!CrData(y, j) /\ j.cr_ready
                   /\ DataPhase(y) => ~AD!CrData(y, j)
                   /\ DataPhase(y) /\ DataPhase(z) /\ ~i.mem_valid => Late(x, y) + 1 <= Late(v, z)
                   /\ DataPhase(z) /\ ~DataPhase(y) => 2 <= Late(v, z)
<1>1. /\ CacheShape(v) /\ Control(v) /\ FillHits(v)
      /\ v.snoop_flags_valid <=> /\ i.snoop.valid /\ i.snoop.type = "FLAGS"
                                 /\ DC!SnoopReady(x, i)
      /\ DC!DataSnoop(i) /\ DC!SnoopReady(x, i) => v.state = "SnoopSetupAddr"
      /\ x.state = "SnoopSetupAddr" => v.state = "SnoopReadData"
      /\ ~(DC!DataSnoop(i) /\ DC!SnoopReady(x, i)) /\ x.state # "SnoopSetupAddr"
            => ~InSnoop(v)
      /\ DC!DataSnoop(i) /\ ~DC!SnoopReady(x, i) /\ ~i.mem_valid /\ ~InSnoop(x)
            => Left(v) + 1 <= Left(x)
  BY SnoopEdge DEF LocalShape
<1>2. AdapterShape(z) /\ BusView(y, j, z) /\ AckView(y, j, z)
  BY AdapterEdge DEF LocalShape, LocalHand
<1>3. z.state \in AD!BusStates
  BY <1>2 DEF BusView, BusGoes, LocalShape, AD!BusStates
<1>4. j.snoop_ready <=> DC!SnoopReady(x, i)
  BY DEF Wired
<1>5. j.resp_valid <=> x.snoop_flags_valid \/ x.state = "SnoopReadData"
  BY DEF Wired, DC!SnoopRespValid
<1>6. /\ AD!TakesSnoop(y, j.ac) =>
            i.snoop.valid /\ i.snoop.type = "FLAGS"
      /\ y.snoop_state = "snoop_ac_wait_accept" =>
            i.snoop.valid /\ i.snoop.type = y.req_snoop_type
      /\ ~AD!TakesSnoop(y, j.ac) /\ y.snoop_state # "snoop_ac_wait_accept" =>
            ~i.snoop.valid
  BY DEF Wired, AD!SnoopReq, AD!TakesSnoop
<1> DEFINE F == DC!FLUSH_ALL_VALUE
<1>7. /\ F \in Nat
      /\ Left(x) \in Nat /\ Left(x) <= 2 * F + 3
      /\ Left(v) \in Nat /\ Left(v) <= 2 * F + 3
  BY <1>1, LeftBound DEF LocalShape
<1> SUFFICES Goal
  BY <1>1, <1>2, <1>3 DEF LocalShape
<1> HIDE DEF v, z
<1>8. CASE y.snoop_state = "snoop_idle"
  <2>1. ~DC!DataSnoop(i) /\ ~InSnoop(x)
    BY <1>6, <1>8 DEF DC!DataSnoop, LocalHand
  <2>2. ~InSnoop(v)
    BY <1>1, <2>1 DEF InSnoop
  <2>3. CASE j.ac.valid
    <3>1. i.snoop.valid /\ i.snoop.type = "FLAGS"
      BY <1>6, <1>8, <2>3 DEF AD!TakesSnoop
    <3>2. v.snoop_flags_valid <=> DC!SnoopReady(x, i)
      BY <1>1, <3>1
    <3>3. /\ z.snoop_state = (IF j.snoop_ready THEN "snoop_cr" ELSE "snoop_ac_wait_accept")
          /\ ~z.cache_access /\ z.req_snoop_type = "FLAGS"
      BY <1>2, <1>8, <2>3 DEF AckView
    <3>4. LocalHand(v, z) /\ ~DataPhase(z)
      BY <1>4, <2>2, <3>2, <3>3 DEF LocalHand, DataPhase, AD!SnoopStates
    <3> QED
      BY <1>8, <3>4 DEF DataPhase, AD!CrData
  <2>4. CASE ~j.ac.valid
    <3>1. ~v.snoop_flags_valid
      BY <1>1, <1>6, <1>8, <2>4 DEF AD!TakesSnoop
    <3>2. z.snoop_state = "snoop_idle"
      BY <1>2, <1>8, <2>4 DEF AckView
    <3>3. LocalHand(v, z) /\ ~DataPhase(z)
      BY <2>2, <3>1, <3>2 DEF LocalHand, DataPhase, AD!SnoopStates
    <3> QED
      BY <1>8, <3>3 DEF DataPhase, AD!CrData
  <2> QED
    BY <2>3, <2>4
<1>9. CASE y.snoop_state = "snoop_ac_wait_accept"
  <2>1. /\ i.snoop.valid /\ i.snoop.type = y.req_snoop_type
        /\ y.cache_access <=> y.req_snoop_type # "FLAGS"
        /\ ~InSnoop(x)
    BY <1>6, <1>9 DEF LocalHand
  <2>2. SnoopKeeps(z, y, IF ~j.snoop_ready THEN "snoop_ac_wait_accept"
                         ELSE IF y.cache_access THEN "snoop_cd" ELSE "snoop_cr")
    BY <1>2, <1>9 DEF AckView
  <2>3. ~AD!CrData(y, j) /\ ~AD!CdValid(y, j)
    BY <1>9 DEF AD!CrData, AD!CdValid
  <2>4. CASE ~y.cache_access
    <3>1. i.snoop.type = "FLAGS" /\ ~DC!DataSnoop(i)
      BY <2>1, <2>4 DEF DC!DataSnoop
    <3>2. ~InSnoop(v) /\ (v.snoop_flags_valid <=> j.snoop_ready)
      BY <1>1, <1>4, <2>1, <3>1 DEF InSnoop
    <3>3. /\ z.snoop_state = IF ~j.snoop_ready THEN "snoop_ac_wait_accept" ELSE "snoop_cr"
          /\ ~z.cache_access /\ z.req_snoop_type = "FLAGS"
      BY <2>1, <2>2, <2>4 DEF SnoopKeeps
    <3>4. LocalHand(v, z) /\ ~DataPhase(z)
      BY <3>2, <3>3 DEF LocalHand, DataPhase, AD!SnoopStates
    <3> QED
      BY <1>9, <2>3, <2>4, <3>4 DEF DataPhase
  <2>5. CASE y.cache_access
    <3>1. i.snoop.type # "FLAGS" /\ DC!DataSnoop(i)
      BY <2>1, <2>5 DEF DC!DataSnoop
    <3>2. ~v.snoop_flags_valid
      BY <1>1, <3>1
    <3>3. /\ z.snoop_state = IF ~j.snoop_ready THEN "snoop_ac_wait_accept" ELSE "snoop_cd"
          /\ z.cache_access /\ z.req_snoop_type # "FLAGS"
      BY <2>1, <2>2, <2>5 DEF SnoopKeeps
    <3>4. DataPhase(z) /\ DataPhase(y)
      BY <1>9, <2>5, <3>3 DEF DataPhase
    <3>5. CASE j.snoop_ready
      <4>1. v.state = "SnoopSetupAddr"
        BY <1>1, <1>4, <3>1, <3>5
      <4>2. LocalHand(v, z)
        BY <3>2, <3>3, <3>5, <4>1 DEF LocalHand, InSnoop, AD!SnoopStates
      <4>3. Late(v, z) = 2 * F + 6 /\ Late(x, y) = 2 * F + (5 - Left(x))
        BY <1>9, <3>3, <3>5, <4>1 DEF Late
      <4>4. Late(x, y) + 1 <= Late(v, z)
        BY <1>7, <4>3
      <4> QED
        BY <2>3, <3>4, <4>2, <4>4
    <3>6. CASE ~j.snoop_ready
      <4>1. ~InSnoop(v) /\ (~i.mem_valid => Left(v) + 1 <= Left(x))
        BY <1>1, <1>4, <2>1, <3>1, <3>6 DEF InSnoop
      <4>2. LocalHand(v, z)
        BY <3>2, <3>3, <3>6, <4>1 DEF LocalHand, AD!SnoopStates
      <4>3. Late(v, z) = 2 * F + (5 - Left(v)) /\ Late(x, y) = 2 * F + (5 - Left(x))
        BY <1>9, <3>3, <3>6 DEF Late
      <4>4. ~i.mem_valid => Late(x, y) + 1 <= Late(v, z)
        BY <1>7, <4>1, <4>3
      <4> QED
        BY <2>3, <3>4, <4>2, <4>4
    <3> QED
      BY <3>5, <3>6
  <2> QED
    BY <2>4, <2>5
<1>10. ASSUME y.snoop_state \in {"snoop_cr", "snoop_cr_wait_accept"}
       PROVE  ~InSnoop(v) /\ ~v.snoop_flags_valid /\ ~AD!CdValid(y, j) /\ ~DataPhase(y)
  <2>1. ~i.snoop.valid /\ ~InSnoop(x)
    BY <1>6, <1>10 DEF AD!TakesSnoop, LocalHand
  <2> QED
    BY <1>1, <1>10, <2>1 DEF DC!DataSnoop, InSnoop, AD!CdValid, DataPhase
<1>11. CASE y.snoop_state = "snoop_cr"
  <2> DEFINE give == AD!MustGive(y, j.resp_flags)
  <2>1. j.resp_valid
    BY <1>5, <1>11 DEF LocalHand
  <2>2. ~y.cache_access /\ y.req_snoop_type = "FLAGS"
    BY <1>11 DEF LocalHand
  <2>3. AD!CrData(y, j) <=> give
    BY <1>11, <2>1 DEF AD!CrData
  <2> HIDE DEF give
  <2>4. /\ z.snoop_state = IF ~j.cr_ready THEN "snoop_cr_wait_accept"
                           ELSE IF give THEN "snoop_ac_wait_accept"
                           ELSE "snoop_idle"
        /\ z.snoop_state # "snoop_idle" =>
              /\ z.cr_data <=> give
              /\ z.cache_access <=> give
              /\ z.req_snoop_type # "FLAGS" <=> give
    BY <1>2, <1>11, <2>1, <2>2 DEF AckView, give
  <2>5. LocalHand(v, z) /\ (DataPhase(z) <=> give /\ j.cr_ready)
    BY <1>10, <1>11, <2>4 DEF LocalHand, DataPhase, AD!SnoopStates
  <2>6. DataPhase(z) => 2 <= Late(v, z)
    <3>1. DataPhase(z) => Late(v, z) = 2 * F + (5 - Left(v))
      BY <2>4, <2>5 DEF Late
    <3> QED
      BY <1>7, <3>1
  <2> QED
    BY <1>10, <1>11, <2>3, <2>5, <2>6
<1>12. CASE y.snoop_state = "snoop_cr_wait_accept"
  <2>1. /\ y.cr_data <=> y.cache_access
        /\ y.cache_access <=> y.req_snoop_type # "FLAGS"
    BY <1>12 DEF LocalHand
  <2>2. AD!CrData(y, j) <=> y.cr_data
    BY <1>12 DEF AD!CrData
  <2>3. SnoopKeeps(z, y, IF ~j.cr_ready THEN "snoop_cr_wait_accept"
                         ELSE IF y.cache_access THEN "snoop_ac_wait_accept"
                         ELSE "snoop_idle")
    BY <1>2, <1>12 DEF AckView
  <2>4. LocalHand(v, z) /\ (DataPhase(z) <=> y.cr_data /\ j.cr_ready)
    BY <1>10, <1>12, <2>1, <2>3 DEF LocalHand, DataPhase, SnoopKeeps, AD!SnoopStates
  <2>5. DataPhase(z) => 2 <= Late(v, z)
    <3>1. DataPhase(z) => Late(v, z) = 2 * F + (5 - Left(v))
      BY <2>3, <2>4 DEF Late, SnoopKeeps, DataPhase
    <3> QED
      BY <1>7, <3>1
  <2> QED
    BY <1>10, <1>12, <2>2, <2>4, <2>5
<1>13. CASE y.snoop_state = "snoop_cd"
  <2>1. InSnoop(x) /\ ~x.snoop_flags_valid /\ j.cd_ready /\ DataPhase(y)
    BY <1>13 DEF LocalHand, DataPhase
  <2>2. ~i.snoop.valid
    BY <1>6, <1>13 DEF AD!TakesSnoop
  <2>3. SnoopKeeps(z, y, IF ~j.resp_valid THEN "snoop_cd" ELSE "snoop_idle")
    BY <1>2, <1>13, <2>1 DEF AckView
  <2>4. /\ ~v.snoop_flags_valid /\ (x.state = "SnoopSetupAddr" => v.state = "SnoopReadData")
        /\ x.state # "SnoopSetupAddr" => ~InSnoop(v)
    BY <1>1, <2>2 DEF DC!DataSnoop
  <2>5. /\ AD!CdValid(y, j) <=> j.resp_valid
        /\ j.resp_valid <=> x.state = "SnoopReadData"
        /\ ~AD!CrData(y, j)
    BY <1>5, <1>13, <2>1 DEF AD!CdValid, AD!CrData
  <2>6. LocalHand(v, z) /\ (DataPhase(z) <=> ~j.resp_valid)
    BY <1>13, <2>1, <2>3, <2>4, <2>5 DEF LocalHand, DataPhase, SnoopKeeps, InSnoop,
       AD!SnoopStates
  <2>7. DataPhase(z) => Late(x, y) + 1 <= Late(v, z)
    <3>1. DataPhase(z) => Late(x, y) = 2 * F + 6 /\ Late(v, z) = 2 * F + 7
      BY <1>13, <2>1, <2>3, <2>4, <2>5, <2>6 DEF Late, SnoopKeeps, InSnoop
    <3> QED
      BY <1>7, <3>1
  <2> QED
    BY <2>1, <2>5, <2>6, <2>7
<1> QED
  BY <1>8, <1>9, <1>11, <1>12, <1>13 DEF LocalHand, AD!SnoopStates

-----------------------------------------------------------------------------
(* The arbiter.                                                            *)

DstRegs == {"state", "srcid", "req_addr", "req_type", "req_wdata", "ac_valid", "cr_ready",
            "cd_ready"}

DstShape(x) == DstRegs \subseteq DOMAIN x /\ x.state \in DS!DstStates

\* z has the request of x, in state s.
DstGoes(z, x, s) ==
    /\ z.state = s
    /\ z.srcid = x.srcid /\ z.req_addr = x.req_addr /\ z.req_type = x.req_type

\* z is the request of slot c, of which A[c] is the adapter, with the snoop
\* masks of a new snoop.
Granted(z, A, c, t, s) ==
    /\ z.srcid = c /\ z.req_addr = A[c].req_addr /\ z.req_wdata = A[c].req_wdata
    /\ z.req_type = t /\ z.state = s
    /\ s = "snoop_ac" => z.ac_valid = Cores \ {c} /\ z.cr_ready = {} /\ z.cd_ready = {}

\* What the arbiter does; t are the answers to the snoops.
DstView(x, A, t, done, z) ==
    /\ x.state = "Idle" /\ DS!SrcAw(A) # {} =>
          IF A[DS!Src(A)].req_snoop = "WriteLineUnique"
          THEN Granted(z, A, DS!Src(A), {"WRITE", "UNIQUE"}, "snoop_ac")
          ELSE Granted(z, A, DS!Src(A), {"WRITE"}, "CacheWriteReq")
    /\ x.state = "Idle" /\ DS!SrcAw(A) = {} /\ DS!SrcAr(A) # {} =>
          Granted(z, A, DS!Src(A), IF A[DS!Src(A)].req_snoop = "ReadMakeUnique"
                                   THEN {"UNIQUE"} ELSE {}, "snoop_ac")
    /\ x.state = "Idle" /\ DS!SrcAw(A) = {} /\ DS!SrcAr(A) = {} => z.state = "Idle"
    /\ x.state = "CacheReadReq" => DstGoes(z, x, "ReadMem") /\ z.req_wdata = x.req_wdata
    /\ x.state = "CacheWriteReq" => DstGoes(z, x, "WriteMem") /\ z.req_wdata = x.req_wdata
    /\ x.state \in {"ReadMem", "WriteMem"} =>
          IF done THEN z.state = "Idle"
          ELSE DstGoes(z, x, x.state) /\ z.req_wdata = x.req_wdata
    /\ x.state = "snoop_ac" /\ x.ac_valid \subseteq t.ac_ready =>
          /\ DstGoes(z, x, "snoop_cr") /\ z.req_wdata = x.req_wdata
          /\ z.cr_ready = x.cr_ready \cup x.ac_valid /\ z.cd_ready = x.cd_ready
          /\ z.ac_valid = {}
    /\ x.state = "snoop_cr" /\ x.cr_ready \subseteq t.cr_valid =>
          /\ z.cr_ready = {} /\ z.cd_ready = x.cd_ready \cup (x.cr_ready \cap t.cr_data)
          /\ DstGoes(z, x, IF z.cd_ready # {} THEN "snoop_cd" ELSE DS!CacheReq(x))
          /\ z.ac_valid = x.ac_valid /\ z.req_wdata = x.req_wdata
    /\ x.state = "snoop_cd" =>
          /\ z.cd_ready = x.cd_ready \ t.cd_valid
          /\ z.ac_valid = x.ac_valid /\ z.cr_ready = x.cr_ready
          /\ z.srcid = x.srcid /\ z.req_addr = x.req_addr
          /\ z.state = IF z.cd_ready # {} THEN "snoop_cd" ELSE DS!CacheReq(x)
          /\ z.req_type = IF z.cd_ready # {} THEN x.req_type
                          ELSE x.req_type \cup {"WRITE", "SNOOP"}
          /\ z.req_wdata =
                LET took == x.cd_ready \cap t.cd_valid
                IN IF took = {} THEN x.req_wdata
                   ELSE t.cd_data[CHOOSE c \in took : \A k \in took : k <= c]

\* The state machine of the arbiter.
LEMMA DstNextIs ==
    ASSUME NEW x, NEW A, NEW t, NEW done, DstShape(x)
    PROVE  LET w == DS!DstNext(x, A, t, TRUE, done)
           IN  DstRegs \subseteq DOMAIN w /\ DstView(x, A, t, done, w)
<1> DEFINE w == DS!DstNext(x, A, t, TRUE, done)
           Goal == DstRegs \subseteq DOMAIN w /\ DstView(x, A, t, done, w)
<1> SUFFICES Goal
  OBVIOUS
<1>0. DstRegs \subseteq DOMAIN x
  BY DEF DstShape
<1>1. CASE x.state = "Idle" /\ DS!SrcAw(A) # {}
  <2> DEFINE c == DS!Src(A)
             v == [x EXCEPT !.srcid = c, !.req_addr = A[c].req_addr,
                            !.req_wdata = A[c].req_wdata]
  <2>1. w = IF A[c].req_snoop = "WriteLineUnique"
            THEN [v EXCEPT !.req_type = {"WRITE", "UNIQUE"}, !.state = "snoop_ac",
                           !.ac_valid = Cores \ {c}, !.cr_ready = {}, !.cd_ready = {}]
            ELSE [v EXCEPT !.req_type = {"WRITE"}, !.state = "CacheWriteReq"]
    BY <1>1 DEF DS!DstNext, DS!GrantWrite
  <2>2. /\ DOMAIN v = DOMAIN x
        /\ v.srcid = c /\ v.req_addr = A[c].req_addr /\ v.req_wdata = A[c].req_wdata
    BY <1>0 DEF DstRegs
  <2> HIDE DEF w, v, c
  <2>3. /\ DstRegs \subseteq DOMAIN w
        /\ IF A[c].req_snoop = "WriteLineUnique"
           THEN Granted(w, A, c, {"WRITE", "UNIQUE"}, "snoop_ac")
           ELSE Granted(w, A, c, {"WRITE"}, "CacheWriteReq")
    BY <1>0, <2>1, <2>2 DEF DstRegs, Granted
  <2> QED
    BY <1>1, <2>3 DEF c, DstView
<1>2. CASE x.state = "Idle" /\ DS!SrcAw(A) = {} /\ DS!SrcAr(A) # {}
  <2> DEFINE c == DS!Src(A)
             r == IF A[c].req_snoop = "ReadMakeUnique" THEN {"UNIQUE"} ELSE {}
  <2>1. w = [x EXCEPT !.srcid = c, !.req_addr = A[c].req_addr,
                      !.req_wdata = A[c].req_wdata, !.state = "snoop_ac", !.req_type = r,
                      !.ac_valid = Cores \ {c}, !.cr_ready = {}, !.cd_ready = {}]
    BY <1>2 DEF DS!DstNext, DS!GrantRead
  <2> HIDE DEF w, c, r
  <2>2. DstRegs \subseteq DOMAIN w /\ Granted(w, A, c, r, "snoop_ac")
    BY <1>0, <2>1 DEF DstRegs, Granted
  <2> QED
    BY <1>2, <2>2 DEF c, r, DstView
<1>3. CASE x.state = "Idle" /\ DS!SrcAw(A) = {} /\ DS!SrcAr(A) = {}
  <2>1. w = x
    BY <1>3 DEF DS!DstNext
  <2> HIDE DEF w
  <2> QED
    BY <1>0, <1>3, <2>1 DEF DstView
<1>4. ASSUME NEW s, w = [x EXCEPT !.state = s] \/ (w = x /\ s = x.state)
      PROVE  DstRegs \subseteq DOMAIN w /\ DstGoes(w, x, s) /\ w.req_wdata = x.req_wdata
  <2> HIDE DEF w
  <2> QED
    BY <1>0, <1>4 DEF DstGoes, DstRegs
<1>5. CASE x.state = "CacheReadReq"
  <2>1. w = [x EXCEPT !.state = "ReadMem"]
    BY <1>5 DEF DS!DstNext
  <2>2. DstRegs \subseteq DOMAIN w /\ DstGoes(w, x, "ReadMem") /\ w.req_wdata = x.req_wdata
    BY <1>4, <2>1
  <2> HIDE DEF w
  <2> QED
    BY <1>5, <2>2 DEF DstView
<1>6. CASE x.state = "CacheWriteReq"
  <2>1. w = [x EXCEPT !.state = "WriteMem"]
    BY <1>6 DEF DS!DstNext
  <2>2. DstRegs \subseteq DOMAIN w /\ DstGoes(w, x, "WriteMem") /\ w.req_wdata = x.req_wdata
    BY <1>4, <2>1
  <2> HIDE DEF w
  <2> QED
    BY <1>6, <2>2 DEF DstView
<1>7. CASE x.state \in {"ReadMem", "WriteMem"}
  <2>1. w = IF done THEN [x EXCEPT !.state = "Idle"] ELSE x
    BY <1>7 DEF DS!DstNext
  <2>2. /\ DstRegs \subseteq DOMAIN w /\ DstGoes(w, x, IF done THEN "Idle" ELSE x.state)
        /\ w.req_wdata = x.req_wdata
    BY <1>4, <2>1
  <2> HIDE DEF w
  <2> QED
    BY <1>7, <2>2 DEF DstView, DstGoes
<1>8. CASE x.state = "snoop_ac"
  <2> DEFINE left == x.ac_valid \ t.ac_ready
             cr == x.cr_ready \cup (x.ac_valid \cap t.ac_ready)
             s == IF left = {} THEN "snoop_cr" ELSE x.state
  <2>1. w = [x EXCEPT !.ac_valid = left, !.cr_ready = cr, !.state = s]
    BY <1>8 DEF DS!DstNext, DS!SnoopAc
  <2>2. x.ac_valid \subseteq t.ac_ready =>
            left = {} /\ cr = x.cr_ready \cup x.ac_valid /\ s = "snoop_cr"
    OBVIOUS
  <2> HIDE DEF w, left, cr, s
  <2>3. /\ DstRegs \subseteq DOMAIN w /\ DstGoes(w, x, s) /\ w.req_wdata = x.req_wdata
        /\ w.ac_valid = left /\ w.cr_ready = cr /\ w.cd_ready = x.cd_ready
    BY <1>0, <2>1 DEF DstGoes, DstRegs
  <2> QED
    BY <1>8, <2>2, <2>3 DEF DstView
<1>9. CASE x.state = "snoop_cr"
  <2> DEFINE left == x.cr_ready \ t.cr_valid
             cd == x.cd_ready \cup (x.cr_ready \cap t.cr_valid \cap t.cr_data)
             s == IF left # {} THEN x.state
                  ELSE IF cd # {} THEN "snoop_cd" ELSE DS!CacheReq(x)
  <2>1. w = [x EXCEPT !.cr_ready = left, !.cd_ready = cd, !.state = s]
    BY <1>9 DEF DS!DstNext, DS!SnoopCr
  <2>2. x.cr_ready \subseteq t.cr_valid =>
            /\ left = {} /\ cd = x.cd_ready \cup (x.cr_ready \cap t.cr_data)
            /\ s = IF cd # {} THEN "snoop_cd" ELSE DS!CacheReq(x)
    <3>1. ASSUME x.cr_ready \subseteq t.cr_valid
          PROVE  left = {} /\ cd = x.cd_ready \cup (x.cr_ready \cap t.cr_data)
      BY <3>1
    <3> QED
      BY <3>1
  <2> HIDE DEF w, left, cd, s
  <2>3. /\ DstRegs \subseteq DOMAIN w /\ DstGoes(w, x, s) /\ w.req_wdata = x.req_wdata
        /\ w.cr_ready = left /\ w.cd_ready = cd /\ w.ac_valid = x.ac_valid
    BY <1>0, <2>1 DEF DstGoes, DstRegs
  <2> QED
    BY <1>9, <2>2, <2>3 DEF DstView
<1>10. CASE x.state = "snoop_cd"
  <2> DEFINE left == x.cd_ready \ t.cd_valid
             took == x.cd_ready \cap t.cd_valid
             e == IF took = {} THEN x.req_wdata
                  ELSE t.cd_data[CHOOSE c \in took : \A k \in took : k <= c]
             v == [x EXCEPT !.cd_ready = left, !.req_wdata = e]
             r == x.req_type \cup {"WRITE", "SNOOP"}
  <2>1. w = IF left # {} THEN v
            ELSE [v EXCEPT !.state = DS!CacheReq(x), !.req_type = @ \cup {"WRITE", "SNOOP"}]
    BY <1>10 DEF DS!DstNext, DS!SnoopCd
  <2> HIDE DEF left, e
  <2>2. /\ DOMAIN v = DOMAIN x /\ DstGoes(v, x, x.state) /\ v.req_wdata = e
        /\ v.cd_ready = left /\ v.ac_valid = x.ac_valid /\ v.cr_ready = x.cr_ready
    BY <1>0 DEF DstGoes, DstRegs
  <2> HIDE DEF w, v
  <2>3. w = IF left # {} THEN v ELSE [v EXCEPT !.state = DS!CacheReq(x), !.req_type = r]
    BY <2>1, <2>2 DEF DstGoes
  <2> HIDE DEF r
  <2>4. /\ DstRegs \subseteq DOMAIN w
        /\ w.srcid = x.srcid /\ w.req_addr = x.req_addr /\ w.req_wdata = e
        /\ w.cd_ready = left /\ w.ac_valid = x.ac_valid /\ w.cr_ready = x.cr_ready
        /\ w.state = IF left # {} THEN "snoop_cd" ELSE DS!CacheReq(x)
        /\ w.req_type = IF left # {} THEN x.req_type ELSE r
    BY <1>0, <1>10, <2>2, <2>3 DEF DstGoes, DstRegs
  <2> QED
    BY <1>10, <2>4 DEF DstView, left, e, r
<1> QED
  BY <1>1, <1>2, <1>3, <1>5, <1>6, <1>7, <1>8, <1>9, <1>10 DEF DstShape, DS!DstStates

\* A clock edge of the arbiter.
LEMMA DstEdge ==
    ASSUME NEW x, NEW A, NEW t, NEW done, DstShape(x),
           x.state = "snoop_ac" => x.ac_valid \subseteq t.ac_ready,
           x.state = "snoop_cr" => x.cr_ready \subseteq t.cr_valid
    PROVE  LET z == DS!ForgetDst(DS!DstNext(x, A, t, TRUE, done))
           IN  DstShape(z) /\ DstView(x, A, t, done, z)
<1> DEFINE w == DS!DstNext(x, A, t, TRUE, done)
           z == DS!ForgetDst(w)
<1> SUFFICES DstShape(z) /\ DstView(x, A, t, done, z)
  OBVIOUS
<1>1. DstRegs \subseteq DOMAIN w /\ DstView(x, A, t, done, w)
  BY DstNextIs
<1> HIDE DEF w
<1>2. /\ w.state \in DS!DstStates
      /\ w.state = "Idle" => \/ x.state \in {"ReadMem", "WriteMem"} /\ done
                             \/ x.state = "Idle" /\ DS!SrcAw(A) = {} /\ DS!SrcAr(A) = {}
  <2>1. CASE x.state = "Idle"
    <3>1. w.state \in {"Idle", "snoop_ac", "CacheWriteReq"}
      BY <1>1, <2>1 DEF DstView, Granted
    <3>2. DS!SrcAw(A) # {} \/ DS!SrcAr(A) # {} => w.state # "Idle"
      BY <1>1, <2>1 DEF DstView, Granted
    <3> QED
      BY <2>1, <3>1, <3>2 DEF DS!DstStates
  <2>2. CASE x.state \in {"CacheReadReq", "CacheWriteReq", "ReadMem", "WriteMem"}
    BY <1>1, <2>2 DEF DstView, DstGoes, DS!DstStates
  <2>3. CASE x.state \in {"snoop_ac", "snoop_cr", "snoop_cd"}
    <3>1. w.state \in {"snoop_cr", "snoop_cd", DS!CacheReq(x)}
      <4>1. CASE x.state = "snoop_ac"
        BY <1>1, <4>1 DEF DstView, DstGoes
      <4>2. CASE x.state = "snoop_cr"
        BY <1>1, <4>2 DEF DstView, DstGoes
      <4>3. CASE x.state = "snoop_cd"
        BY <1>1, <4>3 DEF DstView
      <4> QED
        BY <2>3, <4>1, <4>2, <4>3
    <3> QED
      BY <2>3, <3>1 DEF DS!CacheReq, DS!DstStates
  <2> QED
    BY <2>1, <2>2, <2>3 DEF DstShape, DS!DstStates
<1>3. CASE w.state # "Idle"
  BY <1>1, <1>2, <1>3 DEF DS!ForgetDst, DstShape
<1>4. CASE w.state = "Idle"
  <2>1. z.state = "Idle" /\ DstRegs \subseteq DOMAIN z
    BY <1>4 DEF DS!ForgetDst, DS!DstReset, DstRegs
  <2>2. \/ x.state \in {"ReadMem", "WriteMem"} /\ done
        \/ x.state = "Idle" /\ DS!SrcAw(A) = {} /\ DS!SrcAr(A) = {}
    BY <1>2, <1>4
  <2> HIDE DEF z
  <2> QED
    BY <2>1, <2>2 DEF DstView, DstShape, DS!DstStates
<1> QED
  BY <1>3, <1>4

-----------------------------------------------------------------------------
(* One cycle of the cluster.                                               *)

\* The wires into the caches and the adapters.
CacheWires(u, done) == ToCache(u, M(done))
AdapterWires(u, done) == ToAdapter(M(done), CacheWires(u, done))
Answered(u, done) == Answers(M(done), AdapterWires(u, done))

Uniq == "UNIQUE" \in q.req_type

\* What the wires of core c carry.
LEMMA WireFacts ==
    ASSUME NEW u, NEW done, NEW c \in Cores
    PROVE  LET m == M(done)[c]
               i == CacheWires(u, done)[c]
               j == AdapterWires(u, done)[c]
           IN  /\ Wired(d[c], a[c], i, j)
               /\ i.req = u[c].req /\ i.flush = u[c].flush
               /\ i.mem_data = m.r_data
               /\ j.ac.valid <=> q.state = "snoop_ac" /\ c \in q.ac_valid
               /\ j.ac.addr = q.req_addr /\ (j.ac.unique <=> Uniq)
               /\ j.cr_ready <=> q.state = "snoop_cr" /\ c \in q.cr_ready
               /\ j.cd_ready <=> q.state = "snoop_cd" /\ c \in q.cd_ready
               /\ j.ar_ready <=> DS!Granted(q, a, c) /\ DS!SrcAw(a) = {}
               /\ j.aw_ready <=> DS!Granted(q, a, c) /\ DS!SrcAw(a) # {}
               /\ j.r_valid <=> q.state = "ReadMem" /\ q.srcid = c /\ done
               /\ j.b_valid <=> q.state = "WriteMem" /\ q.srcid = c /\ done
               /\ j.req_mem_valid = d[c].req_mem_valid
               /\ j.req_mem_type = d[c].req_mem_type
               /\ j.req_mem_addr = d[c].mem_addr
               /\ j.req_mem_data = d[c].cache_line_o
               /\ j.resp_data = DC!Line(d[c]).data
               /\ m.ac = j.ac /\ m.aw_ready = j.aw_ready
               /\ m.r_data = IF "SNOOP" \in q.req_type THEN q.req_wdata ELSE RData
<1> DEFINE m == M(done)[c]
           i == CacheWires(u, done)[c]
           j == AdapterWires(u, done)[c]
<1>1. m = DS!ToCore(q, a, c, done, RData)
  BY DEF M
<1>2. i = [req |-> u[c].req, flush |-> u[c].flush,
           snoop |-> AD!SnoopReq(a[c], m.ac),
           mem_valid |-> AD!RespMemValid(a[c], m), mem_data |-> m.r_data]
  BY DEF CacheWires, ToCache
<1>3. j = [ac |-> m.ac, cr_ready |-> m.cr_ready, cd_ready |-> m.cd_ready,
           ar_ready |-> m.ar_ready, aw_ready |-> m.aw_ready,
           r_valid |-> m.r_valid, b_valid |-> m.b_valid,
           req_mem_valid |-> d[c].req_mem_valid,
           req_mem_type |-> d[c].req_mem_type,
           req_mem_addr |-> d[c].mem_addr,
           req_mem_data |-> d[c].cache_line_o,
           snoop_ready |-> DC!SnoopReady(d[c], i),
           resp_valid |-> DC!SnoopRespValid(d[c]),
           resp_flags |-> DC!SnoopFlags(d[c]),
           resp_data |-> DC!Line(d[c]).data]
  BY DEF AdapterWires, ToAdapter
<1> DEFINE ac == [valid |-> q.state = "snoop_ac" /\ c \in q.ac_valid,
                  addr |-> q.req_addr, unique |-> "UNIQUE" \in q.req_type]
           r_data == IF "SNOOP" \in q.req_type THEN q.req_wdata ELSE RData
<1>4a. m = [ac |-> ac,
            cr_ready |-> q.state = "snoop_cr" /\ c \in q.cr_ready,
            cd_ready |-> q.state = "snoop_cd" /\ c \in q.cd_ready,
            ar_ready |-> DS!Granted(q, a, c) /\ DS!SrcAw(a) = {},
            aw_ready |-> DS!Granted(q, a, c) /\ DS!SrcAw(a) # {},
            r_valid |-> q.state = "ReadMem" /\ q.srcid = c /\ done,
            r_data |-> r_data,
            b_valid |-> q.state = "WriteMem" /\ q.srcid = c /\ done]
  BY <1>1 DEF DS!ToCore
<1>4b. /\ ac.valid <=> q.state = "snoop_ac" /\ c \in q.ac_valid
       /\ ac.addr = q.req_addr /\ (ac.unique <=> Uniq)
  BY DEF Uniq
<1> HIDE DEF ac, r_data, m
<1>4c. m.ac = ac /\ m.r_data = r_data
  BY <1>4a
<1>4. /\ m.ac.valid <=> q.state = "snoop_ac" /\ c \in q.ac_valid
      /\ m.ac.addr = q.req_addr /\ (m.ac.unique <=> Uniq)
      /\ m.cr_ready <=> q.state = "snoop_cr" /\ c \in q.cr_ready
      /\ m.cd_ready <=> q.state = "snoop_cd" /\ c \in q.cd_ready
      /\ m.ar_ready <=> DS!Granted(q, a, c) /\ DS!SrcAw(a) = {}
      /\ m.aw_ready <=> DS!Granted(q, a, c) /\ DS!SrcAw(a) # {}
      /\ m.r_valid <=> q.state = "ReadMem" /\ q.srcid = c /\ done
      /\ m.b_valid <=> q.state = "WriteMem" /\ q.srcid = c /\ done
      /\ m.r_data = IF "SNOOP" \in q.req_type THEN q.req_wdata ELSE RData
  BY <1>4a, <1>4b, <1>4c DEF r_data
<1> HIDE DEF m, i, j
<1>5. j.r_valid = m.r_valid /\ j.b_valid = m.b_valid /\ j.ac = m.ac
  BY <1>3
<1>6. AD!RespMemValid(a[c], m) <=> AD!RespMemValid(a[c], j)
  BY <1>5 DEF AD!RespMemValid
<1>7. i.snoop = AD!SnoopReq(a[c], j.ac) /\ (i.mem_valid <=> AD!RespMemValid(a[c], j))
  BY <1>2, <1>5, <1>6
<1>8. /\ j.snoop_ready = DC!SnoopReady(d[c], i)
      /\ j.resp_valid = DC!SnoopRespValid(d[c])
      /\ j.resp_flags = DC!SnoopFlags(d[c])
  BY <1>3
<1>9. Wired(d[c], a[c], i, j)
  BY <1>7, <1>8 DEF Wired
<1>10. i.req = u[c].req /\ i.flush = u[c].flush /\ i.mem_data = m.r_data
  BY <1>2
<1>11. /\ j.cr_ready = m.cr_ready /\ j.cd_ready = m.cd_ready
       /\ j.ar_ready = m.ar_ready /\ j.aw_ready = m.aw_ready
       /\ j.req_mem_valid = d[c].req_mem_valid /\ j.req_mem_type = d[c].req_mem_type
       /\ j.req_mem_addr = d[c].mem_addr /\ j.req_mem_data = d[c].cache_line_o
       /\ j.resp_data = DC!Line(d[c]).data
  BY <1>3
<1> QED
  BY <1>4, <1>5, <1>9, <1>10, <1>11 DEF m, i, j

\* What a cycle does to the registers of a core, of the arbiter and to the histories.
LEMMA EdgeIs ==
    ASSUME NEW u, NEW done, Edge(u, done)
    PROVE  /\ \A c \in Cores :
                 /\ d'[c] = DC!ForgetCache(DC!CacheNext(d[c], CacheWires(u, done)[c]))
                 /\ a'[c] = AD!ForgetAdapter(AD!AdapterNext(a[c], AdapterWires(u, done)[c]))
           /\ q' = DS!ForgetDst(DS!DstNext(q, a, Answered(u, done), TRUE, done))
           /\ races' = RacesNext(M(done), AdapterWires(u, done))
           /\ age' = IF Snooping THEN age + 1 ELSE 0
BY DEF Edge, CacheWires, AdapterWires, Answered

\* The answers of the adapters to the arbiter.
LEMMA AnswerFacts ==
    ASSUME NEW u, NEW done
    PROVE  LET t == Answered(u, done)
           IN  /\ t.ac_ready = Cores
               /\ q.state # "snoop_ac" => t.cr_valid = Cores
               /\ \A c \in Cores :
                     /\ c \in t.cr_data <=> AD!CrData(a[c], AdapterWires(u, done)[c])
                     /\ c \in t.cd_valid <=> AD!CdValid(a[c], AdapterWires(u, done)[c])
                     /\ t.cd_data[c] = AD!CdData(a[c], AdapterWires(u, done)[c])
<1>1. ASSUME NEW c \in Cores, q.state # "snoop_ac"
      PROVE  AD!CrValid(a[c], M(done)[c].ac)
  BY <1>1 DEF M, DS!ToCore, AD!CrValid, AD!TakesSnoop
<1>2. q.state # "snoop_ac" => {c \in Cores : AD!CrValid(a[c], M(done)[c].ac)} = Cores
  BY <1>1
<1>3. {c \in Cores : AD!AcReady(a[c], M(done)[c].ac)} = Cores
  BY DEF AD!AcReady
<1> QED
  BY <1>2, <1>3 DEF Answered, Answers

-----------------------------------------------------------------------------
(* A snoop is answered in time.                                            *)

\* The arbiter waits for the data of core c.
Cd(c) == q.state = "snoop_cd" /\ c \in q.cd_ready

\* A core and the arbiter agree on whether data is owed, and the core is in time.
HandCore(c) ==
    /\ LocalShape(d[c], a[c]) /\ FillKnown(d[c]) /\ LocalHand(d[c], a[c])
    /\ DataPhase(a[c]) <=> Cd(c)
    /\ Cd(c) => age <= Late(d[c], a[c])

\* The address and the flags of a snoop take one cycle each.
HandDst ==
    /\ DstShape(q)
    /\ q.state = "snoop_ac" => /\ age = 0 /\ q.cr_ready = {} /\ q.cd_ready = {}
                               /\ q.ac_valid = Cores \ {q.srcid}
    /\ q.state = "snoop_cr" => /\ age = 1 /\ q.cd_ready = {}
                               /\ q.cr_ready = Cores \ {q.srcid}
    /\ q.state = "snoop_cd" => /\ q.cd_ready # {} /\ q.cd_ready \subseteq Cores \ {q.srcid}
                               /\ 2 <= age
    /\ age \in 0..SnoopBound

HandInv == (\A c \in Cores : HandCore(c)) /\ HandDst

(* The bound is that of a flush of all places. *)
LEMMA BoundIs ==
    /\ SnoopBound = 2 * DC!FLUSH_ALL_VALUE + 8
    /\ DC!FLUSH_ALL_VALUE \in Nat /\ SnoopBound \in Nat
<1>1. NWAYS \in Nat /\ LINES_PER_WAY \in Nat
  BY ShapeAssumption
<1>2. \A m, n \in Nat : m * n \in Nat /\ n * m = m * n /\ 2 * m * n = 2 * (n * m)
  OBVIOUS
<1>3. /\ NWAYS * LINES_PER_WAY \in Nat
      /\ 2 * NWAYS * LINES_PER_WAY = 2 * (LINES_PER_WAY * NWAYS)
      /\ LINES_PER_WAY * NWAYS = NWAYS * LINES_PER_WAY
  BY <1>1, <1>2
<1> QED
  BY <1>3, FlushCount DEF SnoopBound, DC!FLUSH_ALL_VALUE

\* The handshake holds after reset.
LEMMA HandInit == Init => HandInv
<1> SUFFICES ASSUME Init PROVE HandInv
  OBVIOUS
<1>1. ASSUME NEW c \in Cores PROVE HandCore(c)
  <2>1. d[c] = DC!CacheReset /\ a[c] = AD!AdapterReset /\ q = DS!DstReset
    BY DEF Init
  <2>2. Control(DC!CacheReset)
    BY AnswerInit, <2>1 DEF AnswerInv
  <2>6. CacheShape(DC!CacheReset)
    <3> DEFINE m == [P \in DC!Places |-> [tag |-> NoLine, flags |-> {}, data |-> ZeroLine]]
    <3>1. /\ DC!CacheReset.lines = m /\ DC!CacheReset.lru = [k \in DC!Sets |-> DC!InitOrder]
          /\ DC!CacheReset.flush_cnt = 0 /\ CacheRegs \subseteq DOMAIN DC!CacheReset
      BY DEF DC!CacheReset, CacheRegs
    <3>2. MemShape(m)
      BY DEF MemShape, Copies
    <3>3. DC!InitOrder \in [DC!Ways -> DC!Ways]
      BY DEF DC!InitOrder
    <3> HIDE DEF m
    <3> QED
      BY <3>1, <3>2, <3>3, FlushCount DEF CacheShape
  <2>7. FillHits(DC!CacheReset) /\ FillKnown(DC!CacheReset)
    BY DEF DC!CacheReset, FillHits, FillKnown
  <2>3. LocalShape(d[c], a[c]) /\ FillKnown(d[c])
    BY <2>1, <2>2, <2>6, <2>7 DEF LocalShape, AdapterShape, AdapterRegs, AD!AdapterReset,
       AD!BusStates
  <2>4. LocalHand(d[c], a[c])
    BY <2>1 DEF LocalHand, DC!CacheReset, AD!AdapterReset, InSnoop, AD!SnoopStates
  <2>5. ~DataPhase(a[c]) /\ ~Cd(c)
    BY <2>1 DEF DataPhase, Cd, AD!AdapterReset, DS!DstReset
  <2> QED
    BY <2>3, <2>4, <2>5 DEF HandCore
<1>2. HandDst
  BY BoundIs DEF Init, HandDst, DstShape, DstRegs, DS!DstReset, DS!DstStates
<1> QED
  BY <1>1, <1>2 DEF HandInv

\* The masks of the arbiter and the answers of the adapters fit.
LEMMA HandArbiter ==
    ASSUME HandInv, NEW u, NEW done, Edge(u, done)
    PROVE  DstShape(q') /\ DstView(q, a, Answered(u, done), done, q')
<1> DEFINE t == Answered(u, done)
<1>1. DstShape(q)
  BY DEF HandInv, HandDst
<1>2. t.ac_ready = Cores /\ (q.state # "snoop_ac" => t.cr_valid = Cores)
  BY AnswerFacts
<1>3. /\ q.state = "snoop_ac" => q.ac_valid \subseteq Cores
      /\ q.state = "snoop_cr" => q.cr_ready \subseteq Cores
  BY DEF HandInv, HandDst
<1>4. q' = DS!ForgetDst(DS!DstNext(q, a, t, TRUE, done))
  BY EdgeIs
<1> HIDE DEF t
<1> QED
  BY <1>1, <1>2, <1>3, <1>4, DstEdge DEF t

\* One cycle of a core in the cluster.
LEMMA HandCores ==
    ASSUME HandInv, NEW u, NEW done, Edge(u, done), NEW c \in Cores
    PROVE  LET i == CacheWires(u, done)[c]
               j == AdapterWires(u, done)[c]
           IN  /\ LocalShape(d'[c], a'[c]) /\ LocalHand(d'[c], a'[c])
               /\ DataPhase(a'[c]) <=> \/ Cd(c) /\ ~AD!CdValid(a[c], j)
                                       \/ AD!CrData(a[c], j) /\ q.state = "snoop_cr"
                                          /\ c \in q.cr_ready
               /\ Cd(c) => ~AD!CrData(a[c], j)
               /\ Cd(c) /\ DataPhase(a'[c]) => Late(d[c], a[c]) + 1 <= Late(d'[c], a'[c])
               /\ DataPhase(a'[c]) /\ ~Cd(c) => 2 <= Late(d'[c], a'[c])
<1> DEFINE i == CacheWires(u, done)[c]
           j == AdapterWires(u, done)[c]
<1>1. /\ Wired(d[c], a[c], i, j)
      /\ j.cr_ready <=> q.state = "snoop_cr" /\ c \in q.cr_ready
      /\ j.cd_ready <=> q.state = "snoop_cd" /\ c \in q.cd_ready
      /\ j.r_valid => q.state = "ReadMem"
      /\ j.b_valid => q.state = "WriteMem"
  BY WireFacts
<1>2. /\ LocalShape(d[c], a[c]) /\ FillKnown(d[c]) /\ LocalHand(d[c], a[c])
      /\ DataPhase(a[c]) <=> Cd(c)
  BY DEF HandInv, HandCore
<1>3. DataPhase(a[c]) => j.cd_ready
  BY <1>1, <1>2 DEF Cd
<1>4. Cd(c) => ~i.mem_valid
  BY <1>1 DEF Cd, Wired, AD!RespMemValid
<1>5. /\ d'[c] = DC!ForgetCache(DC!CacheNext(d[c], i))
      /\ a'[c] = AD!ForgetAdapter(AD!AdapterNext(a[c], j))
  BY EdgeIs
<1> HIDE DEF i, j
<1>6. /\ LocalShape(d'[c], a'[c]) /\ LocalHand(d'[c], a'[c])
      /\ DataPhase(a'[c]) <=> \/ DataPhase(a[c]) /\ ~AD!CdValid(a[c], j)
                              \/ AD!CrData(a[c], j) /\ j.cr_ready
      /\ DataPhase(a[c]) => ~AD!CrData(a[c], j)
      /\ DataPhase(a[c]) /\ DataPhase(a'[c]) /\ ~i.mem_valid
            => Late(d[c], a[c]) + 1 <= Late(d'[c], a'[c])
      /\ DataPhase(a'[c]) /\ ~DataPhase(a[c]) => 2 <= Late(d'[c], a'[c])
  BY <1>1, <1>2, <1>3, <1>5, HandStep
<1> QED
  BY <1>1, <1>2, <1>4, <1>6 DEF i, j

\* The age of data that is owed is bounded.
LEMMA LateBound ==
    ASSUME NEW x, NEW y, LocalShape(x, y)
    PROVE  /\ Late(x, y) \in Nat /\ 2 <= Late(x, y) /\ Late(x, y) + 1 <= SnoopBound
<1> DEFINE F == DC!FLUSH_ALL_VALUE
<1>1. F \in Nat /\ Left(x) \in Nat /\ Left(x) <= 2 * F + 3
  BY LeftBound DEF LocalShape
<1>2. Late(x, y) \in {2 * F + (5 - Left(x)), 2 * F + 6, 2 * F + 7}
  BY DEF Late
<1> QED
  BY <1>1, <1>2, BoundIs

\* A cycle keeps the handshake.
LEMMA HandNext == ASSUME HandInv, AnswerInv, [Next]_vars PROVE HandInv'
<1>3. ASSUME NEW c \in Cores PROVE FillKnown(d'[c])
  <2>1. Control(d'[c]) /\ (Busy(d'[c]) => asked'[c] \in Lines /\ AccessAddr(d'[c]) = asked'[c])
    BY AnswerNext DEF AnswerInv
  <2> QED
    BY <2>1 DEF FillKnown, Busy, AccessAddr, Control
<1>1. CASE UNCHANGED vars
  BY <1>1 DEF vars, HandInv, HandCore, HandDst, Cd
<1>2. CASE Next
  <2>1. PICK u \in Choices, done \in Done : Edge(u, done)
    BY <1>2 DEF Next
  <2> DEFINE t == Answered(u, done)
  <2>2. DstShape(q') /\ DstView(q, a, t, done, q')
    BY <2>1, HandArbiter
  <2>3. /\ \A c \in Cores : c \in t.cr_data <=> AD!CrData(a[c], AdapterWires(u, done)[c])
        /\ \A c \in Cores : c \in t.cd_valid <=> AD!CdValid(a[c], AdapterWires(u, done)[c])
        /\ t.ac_ready = Cores /\ (q.state # "snoop_ac" => t.cr_valid = Cores)
    BY AnswerFacts
  <2>4. age' = IF Snooping THEN age + 1 ELSE 0
    BY <2>1, EdgeIs
  <2>5. HandDst
    BY DEF HandInv
  <2> HIDE DEF t
  \* the data that is owed after the cycle
  <2>6. ASSUME NEW c \in Cores
        PROVE  Cd(c)' <=> \/ Cd(c) /\ c \notin t.cd_valid
                          \/ q.state = "snoop_cr" /\ c \in q.cr_ready /\ c \in t.cr_data
    <3>1. CASE q.state = "snoop_cr"
      <4>1. /\ q'.cd_ready = q.cr_ready \cap t.cr_data
            /\ q'.state = IF q'.cd_ready # {} THEN "snoop_cd" ELSE DS!CacheReq(q)
        BY <2>2, <2>3, <2>5, <3>1 DEF DstView, DstGoes, HandDst
      <4> QED
        BY <3>1, <4>1 DEF Cd, DS!CacheReq
    <3>2. CASE q.state = "snoop_cd"
      <4>1. /\ q'.cd_ready = q.cd_ready \ t.cd_valid
            /\ q'.state = IF q'.cd_ready # {} THEN "snoop_cd" ELSE DS!CacheReq(q)
        BY <2>2, <3>2 DEF DstView
      <4> QED
        BY <3>2, <4>1 DEF Cd, DS!CacheReq
    <3>3. CASE q.state \notin {"snoop_cr", "snoop_cd"}
      <4>1. q'.state # "snoop_cd"
        <5>1. CASE q.state = "Idle"
          BY <2>2, <5>1 DEF DstView, Granted
        <5>2. CASE q.state = "snoop_ac"
          BY <2>2, <2>3, <2>5, <5>2 DEF DstView, DstGoes, HandDst
        <5>3. CASE q.state \in {"CacheReadReq", "CacheWriteReq", "ReadMem", "WriteMem"}
          BY <2>2, <5>3 DEF DstView, DstGoes
        <5> QED
          BY <2>5, <3>3, <5>1, <5>2, <5>3 DEF HandDst, DstShape, DS!DstStates
      <4> QED
        BY <3>3, <4>1 DEF Cd
    <3> QED
      BY <3>1, <3>2, <3>3
  <2>7. ASSUME NEW c \in Cores PROVE HandCore(c)'
    <3> DEFINE j == AdapterWires(u, done)[c]
    <3>1. /\ LocalShape(d'[c], a'[c]) /\ LocalHand(d'[c], a'[c])
          /\ DataPhase(a'[c]) <=> \/ Cd(c) /\ ~AD!CdValid(a[c], j)
                                  \/ AD!CrData(a[c], j) /\ q.state = "snoop_cr"
                                     /\ c \in q.cr_ready
          /\ Cd(c) => ~AD!CrData(a[c], j)
          /\ Cd(c) /\ DataPhase(a'[c]) => Late(d[c], a[c]) + 1 <= Late(d'[c], a'[c])
          /\ DataPhase(a'[c]) /\ ~Cd(c) => 2 <= Late(d'[c], a'[c])
      BY <2>1, HandCores
    <3>2. (c \in t.cd_valid <=> AD!CdValid(a[c], j)) /\ (c \in t.cr_data <=> AD!CrData(a[c], j))
      BY <2>3
    <3> HIDE DEF j
    <3>3. DataPhase(a'[c]) <=> Cd(c)'
      BY <2>6, <3>1, <3>2
    <3>4. ASSUME Cd(c)' PROVE age' <= Late(d'[c], a'[c])
      <4>1. Late(d[c], a[c]) \in Nat /\ Late(d'[c], a'[c]) \in Nat
        BY <3>1, LateBound DEF HandInv, HandCore
      <4>2. CASE Cd(c)
        <5>1. age <= Late(d[c], a[c]) /\ age \in Nat
          BY <2>5, <4>2, BoundIs DEF HandInv, HandCore, HandDst
        <5>2. age' = age + 1
          BY <2>4, <4>2 DEF Cd, Snooping
        <5>3. Late(d[c], a[c]) + 1 <= Late(d'[c], a'[c])
          BY <3>1, <3>3, <3>4, <4>2
        <5> QED
          BY <4>1, <5>1, <5>2, <5>3
      <4>3. CASE ~Cd(c)
        <5>1. q.state = "snoop_cr"
          BY <2>6, <3>4, <4>3
        <5>2. age' = 2
          BY <2>4, <2>5, <5>1 DEF HandDst, Snooping
        <5> QED
          BY <3>1, <3>3, <3>4, <4>1, <4>3, <5>2
      <4> QED
        BY <4>2, <4>3
    <3> QED
      BY <1>3, <3>1, <3>3, <3>4 DEF HandCore
  <2>9. SnoopBound \in Nat /\ 8 <= SnoopBound
    BY BoundIs
  <2>8. HandDst'
    <3>1. CASE q.state = "Idle"
      <4>1. age' = 0
        BY <2>4, <3>1 DEF Snooping
      <4>2. /\ q'.state \in {"Idle", "CacheWriteReq", "snoop_ac"}
            /\ q'.state = "snoop_ac" => /\ q'.ac_valid = Cores \ {q'.srcid}
                                        /\ q'.cr_ready = {} /\ q'.cd_ready = {}
        BY <2>2, <3>1 DEF DstView, Granted
      <4> QED
        BY <2>2, <2>9, <4>1, <4>2 DEF HandDst
    <3>2. CASE q.state \in {"CacheReadReq", "CacheWriteReq", "ReadMem", "WriteMem"}
      <4>1. age' = 0
        BY <2>4, <3>2 DEF Snooping
      <4>2. q'.state \in {"Idle", "ReadMem", "WriteMem"}
        BY <2>2, <3>2 DEF DstView, DstGoes
      <4> QED
        BY <2>2, <2>9, <4>1, <4>2 DEF HandDst
    <3>3. CASE q.state = "snoop_ac"
      <4>1. age' = 1
        BY <2>4, <2>5, <3>3 DEF Snooping, HandDst
      <4>2. /\ DstGoes(q', q, "snoop_cr") 
            /\ q'.cr_ready = q.cr_ready \cup q.ac_valid /\ q'.cd_ready = q.cd_ready
        BY <2>2, <2>3, <2>5, <3>3 DEF DstView, HandDst
      <4>3. q'.cr_ready = Cores \ {q'.srcid} /\ q'.cd_ready = {}
        BY <2>5, <3>3, <4>2 DEF HandDst, DstGoes
      <4> QED
        BY <2>2, <2>9, <4>1, <4>2, <4>3 DEF HandDst, DstGoes
    <3>4. CASE q.state = "snoop_cr"
      <4>1. age' = 2
        BY <2>4, <2>5, <3>4 DEF Snooping, HandDst
      <4>2. /\ q'.cd_ready = q.cd_ready \cup (q.cr_ready \cap t.cr_data)
            /\ DstGoes(q', q, IF q'.cd_ready # {} THEN "snoop_cd" ELSE DS!CacheReq(q))
        BY <2>2, <2>3, <2>5, <3>4 DEF DstView, HandDst
      <4>3. q'.cd_ready \subseteq Cores \ {q'.srcid}
        BY <2>5, <3>4, <4>2 DEF HandDst, DstGoes
      <4> QED
        BY <2>2, <2>9, <4>1, <4>2, <4>3 DEF HandDst, DstGoes, DS!CacheReq
    <3>5. CASE q.state = "snoop_cd"
      <4>1. PICK c \in Cores : Cd(c)
        BY <2>5, <3>5 DEF HandDst, Cd
      <4>2. /\ age <= Late(d[c], a[c]) /\ Late(d[c], a[c]) \in Nat
            /\ Late(d[c], a[c]) + 1 <= SnoopBound
        BY <4>1, LateBound DEF HandInv, HandCore
      <4>3. age' = age + 1 /\ age \in Nat /\ 2 <= age
        BY <2>4, <2>5, <2>9, <3>5 DEF Snooping, HandDst
      <4>4. age' \in 0..SnoopBound /\ 2 <= age'
        BY <2>9, <4>2, <4>3
      <4>5. /\ q'.cd_ready = q.cd_ready \ t.cd_valid /\ q'.srcid = q.srcid
            /\ q'.state = IF q'.cd_ready # {} THEN "snoop_cd" ELSE DS!CacheReq(q)
        BY <2>2, <3>5 DEF DstView
      <4>6. q'.cd_ready \subseteq Cores \ {q'.srcid}
        BY <2>5, <3>5, <4>5 DEF HandDst
      <4>7. q'.state \notin {"snoop_ac", "snoop_cr"} /\ (q'.state = "snoop_cd" => q'.cd_ready # {})
        BY <4>5 DEF DS!CacheReq
      <4> QED
        BY <2>2, <4>4, <4>6, <4>7 DEF HandDst
    <3> QED
      BY <2>5, <3>1, <3>2, <3>3, <3>4, <3>5 DEF HandDst, DstShape, DS!DstStates
  <2> QED
    BY <2>7, <2>8 DEF HandInv
<1> QED
  BY <1>1, <1>2

\* The answers to a snoop reach the arbiter within SnoopBound cycles, for every
\* number of cores and whatever they do: also after a race.
THEOREM SnoopAnsweredInTime == Spec => []SnoopInTime
<1>1. Init => HandInv /\ AnswerInv
  BY HandInit, AnswerInit
<1>2. HandInv /\ AnswerInv /\ [Next]_vars => HandInv' /\ AnswerInv'
  BY HandNext, AnswerNext
<1>3. HandInv => SnoopInTime
  BY BoundIs DEF HandInv, HandDst, SnoopInTime
<1> QED
  BY <1>1, <1>2, <1>3, PTL DEF Spec

-----------------------------------------------------------------------------
(* The bus side of a cache and of its adapter.                             *)

\* What an edge adds to the work of the state machine: a cache that is ready
\* takes something new, and registers that are not needed are forgotten.
LEMMA FromWorked ==
    ASSUME NEW x, NEW i, CacheShape(x), Control(x), FillHits(x), FillKnown(x)
    PROVE  LET w == Worked(x, i)
               v == DC!ForgetCache(DC!CacheNext(x, i))
           IN  /\ CacheShape(w)
               /\ v.lines = w.lines /\ v.req_mem_valid = w.req_mem_valid
               /\ v.write_first = w.write_first /\ v.write_flush = w.write_flush
               /\ v.write_share = w.write_share /\ v.snoop_restore = w.snoop_restore
               /\ w.state # "Idle" =>
                     /\ SameCache(v, w, {"snoop_addr", "req_addr_restore"})
                     /\ v.snoop_restore # "none" => v.req_addr_restore = w.req_addr_restore
               /\ w.state = "Idle" =>
                     \/ v.state = "Idle"
                     \/ DC!ReadyNext(x, i) /\ v.state \in {"CheckHit", "FlushAddr"}
                     \/ /\ DC!ReadyNext(x, i) /\ DC!DataSnoop(i) /\ v.state = "SnoopSetupAddr"
                        /\ v.req_addr = i.snoop.addr /\ v.req_snoop_type = i.snoop.type
<1> DEFINE w == Worked(x, i)
           r == DC!CacheNext(x, i)
           v == DC!ForgetCache(r)
           Goal(t) ==
              /\ v.lines = t.lines /\ v.req_mem_valid = t.req_mem_valid
              /\ v.write_first = t.write_first /\ v.write_flush = t.write_flush
              /\ v.write_share = t.write_share /\ v.snoop_restore = t.snoop_restore
<1>1. CacheShape(w)
  BY SnoopViewFacts DEF SnoopView
<1>2. r = IF DC!ReadyNext(x, i) THEN DC!Accept(x, i, w) ELSE w
  BY CacheNextIs
<1>3. DC!ReadyNext(x, i) => w.state = "Idle"
  BY ReadyIsIdle DEF DC!ReadyNext, DC!LoadHits, DC!StoreHits, DC!Hits
<1> HIDE DEF w
<1>4. ASSUME CacheShape(r)
      PROVE  /\ Goal(r)
             /\ r.state # "Idle" =>
                   /\ SameCache(v, r, {"snoop_addr", "req_addr_restore"})
                   /\ v.snoop_restore # "none" => v.req_addr_restore = r.req_addr_restore
             /\ v.state = r.state
  <2>1. /\ v.req_addr_restore = (IF r.snoop_restore = "none" THEN NoLine
                                 ELSE r.req_addr_restore)
        /\ r.state # "Idle" => SameCache(v, r, {"snoop_addr", "req_addr_restore"})
        /\ r.state = "Idle" =>
              SameCache(v, r, Forgotten \cup {"snoop_addr", "req_addr_restore"})
    BY <1>4, CacheForget
  <2> HIDE DEF r, v
  <2>2. Goal(r) /\ v.state = r.state
    BY <2>1 DEF SameCache, Forgotten
  <2> QED
    BY <2>1, <2>2
<1> SUFFICES /\ Goal(w)
             /\ w.state # "Idle" =>
                   /\ SameCache(v, w, {"snoop_addr", "req_addr_restore"})
                   /\ v.snoop_restore # "none" => v.req_addr_restore = w.req_addr_restore
             /\ w.state = "Idle" =>
                   \/ v.state = "Idle"
                   \/ DC!ReadyNext(x, i) /\ v.state \in {"CheckHit", "FlushAddr"}
                   \/ /\ DC!ReadyNext(x, i) /\ DC!DataSnoop(i) /\ v.state = "SnoopSetupAddr"
                      /\ v.req_addr = i.snoop.addr /\ v.req_snoop_type = i.snoop.type
  BY <1>1 DEF w
<1>5. CASE ~DC!ReadyNext(x, i)
  <2>1. r = w
    BY <1>2, <1>5
  <2> QED
    BY <1>1, <1>4, <2>1
<1>6. CASE DC!ReadyNext(x, i)
  <2>1. r = DC!Accept(x, i, w)
    BY <1>2, <1>6
  <2> HIDE DEF r
  <2>2. \/ /\ DC!DataSnoop(i)
           /\ SameCache(r, w, {"state", "req_addr", "req_snoop_type"})
           /\ r.state = "SnoopSetupAddr" /\ r.req_addr = i.snoop.addr
           /\ r.req_snoop_type = i.snoop.type
        \/ /\ SameCache(r, w, {"state", "req_addr", "req_flush", "cache_line_i",
                               "flush_cnt"})
           /\ r.state = "FlushAddr" /\ r.flush_cnt = DC!FLUSH_ALL_VALUE
        \/ /\ SameCache(r, w, {"state", "req_addr", "req_type", "req_word", "req_wdata"})
           /\ r.state = "CheckHit"
        \/ r = w
    BY <1>1, <2>1, CacheAccept
  <2>3. /\ r.lines = w.lines /\ r.req_mem_valid = w.req_mem_valid
        /\ r.write_first = w.write_first /\ r.write_flush = w.write_flush
        /\ r.write_share = w.write_share /\ r.snoop_restore = w.snoop_restore
        /\ DOMAIN r = DOMAIN w /\ r.lru = w.lru
        /\ r.flush_cnt \in {w.flush_cnt, DC!FLUSH_ALL_VALUE}
    BY <2>2 DEF SameCache
  <2>4. CacheShape(r)
    BY <1>1, <2>3, FlushCount DEF CacheShape
  <2>5. /\ Goal(r) /\ v.state = r.state
        /\ r.state # "Idle" => SameCache(v, r, {"snoop_addr", "req_addr_restore"})
    BY <1>4, <2>4
  <2> HIDE DEF v
  <2>6. Goal(w)
    BY <2>3, <2>5
  <2>7. \/ v.state = "Idle"
        \/ v.state \in {"CheckHit", "FlushAddr"}
        \/ /\ DC!DataSnoop(i) /\ v.state = "SnoopSetupAddr"
           /\ v.req_addr = i.snoop.addr /\ v.req_snoop_type = i.snoop.type
    BY <1>3, <1>6, <2>2, <2>5 DEF SameCache
  <2> QED
    BY <1>3, <1>6, <2>6, <2>7
<1> QED
  BY <1>5, <1>6

\* What the cache waits for on the bus, also while it serves a snoop.
Waits(x) == IF InSnoop(x) THEN x.snoop_restore ELSE x.state

\* The registers of the request and the states of cache x and adapter y fit.
LocalBus(x, y) ==
    /\ Waits(x) = "WaitResp" <=> y.state \in {"ar", "r"}
    /\ Waits(x) = "WriteBus" <=> y.state \in {"aw", "b"}
    /\ x.req_mem_valid <=> x.state = "WaitGrant"
    /\ x.write_first => x.state = "WaitGrant" \/ Waits(x) = "WriteBus"
    /\ x.write_share \/ x.write_flush => ~x.write_first
    /\ x.state = "WaitGrant" =>
          (AD!IsWrite(x.req_mem_type) <=> x.write_flush \/ x.write_first \/ x.write_share)
    /\ Waits(x) = "WriteBus" => AD!IsWrite(x.req_mem_type)
    /\ x.state = "WaitGrant" \/ Waits(x) \in {"WaitResp", "WriteBus"} =>
          (x.write_share <=> x.req_mem_type = "WriteLineUnique")
    /\ y.state # "idle" => y.req_addr = x.mem_addr /\ y.req_snoop = x.req_mem_type
    /\ Waits(x) = "WaitResp" \/ (x.state = "WaitGrant" /\ ~AD!IsWrite(x.req_mem_type)) =>
          x.req_mem_type = DC!FillType(x) /\ x.mem_addr = AccessAddr(x)

\* The cache has no request on the bus and makes none.
BusQuiet(x) == x.state # "WaitGrant" /\ Waits(x) \notin {"WaitResp", "WriteBus"}

\* v has the request of x, and the access it is for.
SameRequest(v, x) ==
    /\ v.req_mem_valid = x.req_mem_valid /\ v.req_mem_type = x.req_mem_type
    /\ v.mem_addr = x.mem_addr
    /\ v.write_first = x.write_first /\ v.write_flush = x.write_flush
    /\ v.write_share = x.write_share
    /\ v.req_type = x.req_type /\ AccessAddr(v) = AccessAddr(x)

\* A cache that waits for the bus goes on waiting until it is answered.
LEMMA WaitsOn ==
    ASSUME NEW x, NEW i, CacheShape(x), Control(x), FillHits(x), FillKnown(x),
           Waits(x) \in {"WaitResp", "WriteBus"}, ~i.mem_valid
    PROVE  LET v == DC!ForgetCache(DC!CacheNext(x, i))
           IN  /\ Waits(v) = Waits(x) /\ v.state # "WaitGrant" /\ SameRequest(v, x)
               /\ x.state # "SnoopReadData" => v.lines = x.lines
<1> DEFINE p == Prepared(x, i)
           w == Worked(x, i)
           v == DC!ForgetCache(DC!CacheNext(x, i))
<1> SUFFICES /\ Waits(v) = Waits(x) /\ v.state # "WaitGrant" /\ SameRequest(v, x)
             /\ x.state # "SnoopReadData" => v.lines = x.lines
  OBVIOUS
<1>1. SameCache(p, x, {"req_flush", "snoop_addr", "snoop_flags_valid"})
  BY PreparedIs
<1>2. /\ v.lines = w.lines /\ v.snoop_restore = w.snoop_restore
      /\ w.state # "Idle" =>
            /\ SameCache(v, w, {"snoop_addr", "req_addr_restore"})
            /\ v.snoop_restore # "none" => v.req_addr_restore = w.req_addr_restore
  BY FromWorked
<1>3. /\ x.snoop_restore \in {"none", "WaitResp", "WriteBus"}
      /\ x.snoop_restore # "none" => InSnoop(x)
  BY DEF Control, InSnoop
<1> HIDE DEF v
<1>4. CASE x.state \in {"WaitResp", "WriteBus"}
  <2>1. w = p \/ (w = DC!TakeSnoop(x, i, p))
    <3>1. CASE x.state = "WaitResp"
      BY <3>1, CacheWaitResp, Zenon
    <3>2. CASE x.state = "WriteBus"
      BY <3>2, WriteBusWaits, Zenon
    <3> QED
      BY <1>4, <3>1, <3>2
  <2> HIDE DEF w
  <2>2. x.snoop_restore = "none" /\ ~InSnoop(x) /\ Waits(x) = x.state
    BY <1>3, <1>4 DEF InSnoop, Waits
  <2>3. CASE w = p
    <3>1. /\ w.state = x.state /\ w.snoop_restore = "none" /\ w.req_addr = x.req_addr
          /\ w.lines = x.lines
          /\ w.req_mem_valid = x.req_mem_valid /\ w.req_mem_type = x.req_mem_type
          /\ w.mem_addr = x.mem_addr /\ w.req_type = x.req_type
          /\ w.write_first = x.write_first /\ w.write_flush = x.write_flush
          /\ w.write_share = x.write_share
      BY <1>1, <2>2, <2>3 DEF SameCache
    <3>2. SameCache(v, w, {"snoop_addr", "req_addr_restore"}) /\ v.snoop_restore = "none"
      BY <1>2, <1>4, <3>1
    <3>3. v.state = x.state /\ SameRequest(v, x)
      BY <2>2, <3>1, <3>2 DEF SameCache, SameRequest, AccessAddr
    <3> QED
      BY <1>2, <1>4, <2>2, <3>1, <3>3 DEF Waits, InSnoop
  <2>4. CASE w = DC!TakeSnoop(x, i, p)
    <3>1. /\ SameCache(w, p, {"state", "snoop_restore", "req_addr_restore", "req_addr",
                              "req_snoop_type"})
          /\ w.state = "SnoopSetupAddr" /\ w.snoop_restore = x.state
          /\ w.req_addr_restore = x.req_addr
      BY <2>4, CacheTakeSnoop
    <3> HIDE DEF p
    <3>2. /\ w.lines = x.lines
          /\ w.req_mem_valid = x.req_mem_valid /\ w.req_mem_type = x.req_mem_type
          /\ w.mem_addr = x.mem_addr /\ w.req_type = x.req_type
          /\ w.write_first = x.write_first /\ w.write_flush = x.write_flush
          /\ w.write_share = x.write_share
      BY <1>1, <3>1 DEF SameCache
    <3>3. /\ SameCache(v, w, {"snoop_addr", "req_addr_restore"})
          /\ v.snoop_restore = x.state /\ v.req_addr_restore = x.req_addr
      BY <1>2, <1>4, <3>1
    <3>4. v.state = "SnoopSetupAddr" /\ SameRequest(v, x)
      BY <1>4, <2>2, <3>1, <3>2, <3>3 DEF SameCache, SameRequest, AccessAddr
    <3> QED
      BY <1>2, <2>2, <3>2, <3>3, <3>4 DEF Waits, InSnoop
  <2> QED
    BY <2>1, <2>3, <2>4
<1>5. CASE x.state = "SnoopSetupAddr"
  <2>1. SameCache(w, p, {"state"}) /\ w.state = "SnoopReadData"
    BY <1>5, CacheSnoopSetup
  <2> HIDE DEF w, p
  <2>2. SameCache(v, w, {"snoop_addr", "req_addr_restore"})
    BY <1>2, <2>1
  <2>3. Waits(x) = x.snoop_restore /\ x.snoop_restore # "none"
    BY <1>5 DEF Waits, InSnoop
  <2>4. v.snoop_restore = x.snoop_restore /\ v.req_addr_restore = x.req_addr_restore
    BY <1>1, <1>2, <2>1, <2>3 DEF SameCache
  <2>5. /\ v.lines = x.lines /\ v.state = "SnoopReadData"
        /\ v.req_mem_valid = x.req_mem_valid /\ v.req_mem_type = x.req_mem_type
        /\ v.mem_addr = x.mem_addr /\ v.req_type = x.req_type
        /\ v.write_first = x.write_first /\ v.write_flush = x.write_flush
        /\ v.write_share = x.write_share
    BY <1>1, <2>1, <2>2 DEF SameCache
  <2> QED
    BY <2>3, <2>4, <2>5 DEF SameRequest, AccessAddr, Waits, InSnoop
<1>6. CASE x.state = "SnoopReadData"
  <2>1. /\ SameCache(w, p, {"state", "lines", "lru", "req_addr", "snoop_restore"})
        /\ w.state = DC!RestoredState(x) /\ w.req_addr = DC!RestoredAddr(x)
        /\ w.snoop_restore = "none"
    BY <1>6, CacheSnoopRead
  <2> HIDE DEF w, p
  <2>2. Waits(x) = x.snoop_restore /\ x.snoop_restore # "none"
    BY <1>6 DEF Waits, InSnoop
  <2>3. w.state = x.snoop_restore /\ w.req_addr = x.req_addr_restore
    BY <2>1, <2>2 DEF DC!RestoredState, DC!RestoredAddr
  <2>4. SameCache(v, w, {"snoop_addr", "req_addr_restore"}) /\ v.snoop_restore = "none"
    BY <1>2, <2>1, <2>2, <2>3
  <2>5. /\ v.state = x.snoop_restore /\ v.req_addr = x.req_addr_restore
        /\ v.req_mem_valid = x.req_mem_valid /\ v.req_mem_type = x.req_mem_type
        /\ v.mem_addr = x.mem_addr /\ v.req_type = x.req_type
        /\ v.write_first = x.write_first /\ v.write_flush = x.write_flush
        /\ v.write_share = x.write_share
    BY <1>1, <2>1, <2>3, <2>4 DEF SameCache
  <2> QED
    BY <1>6, <2>2, <2>4, <2>5 DEF SameRequest, AccessAddr, Waits, InSnoop
<1> QED
  BY <1>4, <1>5, <1>6 DEF Waits, InSnoop

\* A cache without a request makes one in two places: a miss or a shared line
\* that is written, and a flush of a dirty line.
LEMMA QuietStep ==
    ASSUME NEW x, NEW i, CacheShape(x), Control(x), FillHits(x), FillKnown(x),
           BusQuiet(x),
           ~x.req_mem_valid, ~x.write_first
    PROVE  LET v == DC!ForgetCache(DC!CacheNext(x, i))
           IN  \/ BusQuiet(v) /\ ~v.req_mem_valid /\ ~v.write_first
               \/ /\ v.state = "WaitGrant" /\ v.req_mem_valid
                  /\ AD!IsWrite(v.req_mem_type) <=> v.write_flush \/ v.write_first \/ v.write_share
                  /\ v.write_share <=> v.req_mem_type = "WriteLineUnique"
                  /\ v.write_share \/ v.write_flush => ~v.write_first
                  /\ ~AD!IsWrite(v.req_mem_type) =>
                        v.req_mem_type = DC!FillType(v) /\ v.mem_addr = AccessAddr(v)
<1> DEFINE p == Prepared(x, i)
           w == Worked(x, i)
           v == DC!ForgetCache(DC!CacheNext(x, i))
           New(e) == /\ e.state = "WaitGrant" /\ e.req_mem_valid
                     /\ AD!IsWrite(e.req_mem_type) <=>
                           e.write_flush \/ e.write_first \/ e.write_share
                     /\ e.write_share <=> e.req_mem_type = "WriteLineUnique"
                     /\ e.write_share \/ e.write_flush => ~e.write_first
                     /\ ~AD!IsWrite(e.req_mem_type) =>
                           e.req_mem_type = DC!FillType(e) /\ e.mem_addr = AccessAddr(e)
<1> SUFFICES (BusQuiet(v) /\ ~v.req_mem_valid /\ ~v.write_first) \/ New(v)
  OBVIOUS
<1>1. SameCache(p, x, {"req_flush", "snoop_addr", "snoop_flags_valid"})
  BY PreparedIs
<1>2. /\ v.snoop_restore = w.snoop_restore
      /\ v.req_mem_valid = w.req_mem_valid /\ v.write_first = w.write_first
      /\ v.write_flush = w.write_flush /\ v.write_share = w.write_share
      /\ w.state # "Idle" => SameCache(v, w, {"snoop_addr", "req_addr_restore"})
      /\ w.state = "Idle" => v.state \in {"Idle", "CheckHit", "FlushAddr", "SnoopSetupAddr"}
  BY FromWorked
<1>3. /\ x.snoop_restore \in {"none", "WaitResp", "WriteBus"}
      /\ x.snoop_restore # "none" => InSnoop(x)
      /\ x.state \notin {"WaitGrant", "WriteBus", "FlushAddr", "SnoopSetupAddr",
                         "SnoopReadData"} => ~x.write_flush
      /\ x.state = "FlushCheck" => ~x.write_share
      /\ x.state \in DC!CacheStates
  BY DEF Control, InSnoop
<1>4. x.snoop_restore = "none"
  BY <1>3 DEF BusQuiet, Waits
<1>5. /\ p.snoop_restore = "none" /\ ~p.req_mem_valid /\ ~p.write_first
      /\ p.write_flush = x.write_flush /\ p.write_share = x.write_share
      /\ p.req_type = x.req_type /\ p.req_addr = x.req_addr
  BY <1>1, <1>4 DEF SameCache
<1> HIDE DEF v, p
<1>6. ASSUME w.snoop_restore = "none", w.req_mem_valid = p.req_mem_valid,
             w.write_first = p.write_first, w.state \notin {"WaitGrant", "WaitResp", "WriteBus"}
      PROVE  BusQuiet(v) /\ ~v.req_mem_valid /\ ~v.write_first
  <2>1. ~v.req_mem_valid /\ ~v.write_first /\ v.snoop_restore = "none"
    BY <1>2, <1>5, <1>6
  <2>2. v.state \notin {"WaitGrant", "WaitResp", "WriteBus"}
    BY <1>2, <1>6 DEF SameCache
  <2> QED
    BY <2>1, <2>2 DEF BusQuiet, Waits
<1>7. ASSUME w.state # "Idle", w.snoop_restore = "none", New(w) PROVE New(v)
  <2> HIDE DEF w
  <2>1. SameCache(v, w, {"snoop_addr", "req_addr_restore"}) /\ v.snoop_restore = "none"
    BY <1>2, <1>7
  <2> QED
    BY <1>7, <2>1 DEF SameCache, DC!FillType, DC!IsStore, AccessAddr
<1>8. CASE x.state = "Idle"
  <2>1. w = p
    BY <1>8 DEF p, Worked, DC!CacheState
  <2>2. p.state = "Idle"
    BY <1>1, <1>8 DEF SameCache
  <2> HIDE DEF w
  <2> QED
    BY <1>5, <1>6, <2>1, <2>2
<1>9. CASE x.state = "CheckHit"
  <2>1. SameCache(w, p, {"state", "lines", "lru", "req_type", "write_share"})
        /\ w.state \in {"Idle", "TranslateAddress"}
    <3>1. CASE ~DC!Hit(x)
      <4>1. SameCache(w, p, {"state"}) /\ w.state \in {"Idle", "TranslateAddress"}
        BY <1>9, <3>1, CacheMiss DEF p
      <4> HIDE DEF w
      <4> QED
        BY <4>1 DEF SameCache
    <3>2. CASE DC!Hit(x) /\ ~DC!IsStore(x)
      <4>1. SameCache(w, p, {"state", "lines", "lru"}) /\ w.state = "Idle"
        BY <1>9, <3>2, CacheLoadHit DEF p
      <4> HIDE DEF w
      <4> QED
        BY <4>1 DEF SameCache
    <3>3. CASE DC!Hit(x) /\ DC!IsStore(x)
      BY <1>9, <3>3, CacheStoreHit DEF p
    <3> QED
      BY <3>1, <3>2, <3>3
  <2> HIDE DEF w
  <2> QED
    BY <1>5, <1>6, <2>1 DEF SameCache
<1>10. CASE x.state = "TranslateAddress"
  <2> DEFINE old == DC!Dirty(DC!Line(x))
  <2>1. /\ SameCache(w, p, {"state", "req_mem_valid", "write_first", "req_mem_type",
                            "mem_addr", "cache_line_o", "cache_line_i"})
        /\ w.state = "WaitGrant" /\ w.req_mem_valid = TRUE
        /\ w.write_first = (p.write_first \/ (old /\ ~x.write_share))
        /\ w.req_mem_type = IF x.write_share THEN "WriteLineUnique"
                            ELSE IF old THEN "WriteBack" ELSE DC!FillType(x)
        /\ w.mem_addr = IF x.write_share \/ old THEN DC!Line(x).tag ELSE x.req_addr
    BY <1>10, CacheTranslate DEF p
  <2> HIDE DEF w, old
  <2>2. ~x.write_flush
    BY <1>3, <1>10
  <2>3. /\ w.write_flush = x.write_flush /\ w.write_share = x.write_share
        /\ w.req_type = x.req_type /\ w.req_addr = x.req_addr /\ w.snoop_restore = "none"
    BY <1>5, <2>1 DEF SameCache
  <2>4. w.write_first <=> old /\ ~x.write_share
    BY <1>5, <2>1
  <2>5. DC!FillType(x) \in {"ReadMakeUnique", "ReadShared"} /\ DC!FillType(w) = DC!FillType(x)
        /\ AccessAddr(w) = x.req_addr
    BY <2>3 DEF DC!FillType, DC!IsStore, AccessAddr
  <2>6. CASE x.write_share
    BY <1>7, <2>1, <2>2, <2>3, <2>4, <2>6 DEF AD!IsWrite
  <2>7. CASE ~x.write_share /\ old
    BY <1>7, <2>1, <2>2, <2>3, <2>4, <2>7 DEF AD!IsWrite
  <2>8. CASE ~x.write_share /\ ~old
    BY <1>7, <2>1, <2>2, <2>3, <2>4, <2>5, <2>8 DEF AD!IsWrite
  <2> QED
    BY <2>6, <2>7, <2>8
<1>11. CASE x.state = "CheckResp"
  <2>1. SameCache(w, p, {"state", "lines", "lru", "req_type"}) /\ w.state \in {"Idle", "SetupReadAdr"}
    BY <1>11, CacheCheckResp DEF p
  <2> HIDE DEF w
  <2> QED
    BY <1>5, <1>6, <2>1 DEF SameCache
<1>12. CASE x.state = "SetupReadAdr"
  <2>1. SameCache(w, p, {"state"}) /\ w.state = "CheckHit"
    BY <1>12, CacheSetupRead DEF p
  <2> HIDE DEF w
  <2> QED
    BY <1>5, <1>6, <2>1 DEF SameCache
<1>13. CASE x.state = "FlushAddr"
  <2>1. SameCache(w, p, {"state", "write_flush", "cache_line_i"}) /\ w.state = "FlushCheck"
    BY <1>13, CacheFlushAddr DEF p
  <2> HIDE DEF w
  <2> QED
    BY <1>5, <1>6, <2>1 DEF SameCache
<1>14. CASE x.state = "FlushCheck"
  <2>0. FlushChecked(x, p, w)
    BY <1>14, CacheFlushCheck DEF p
  <2> HIDE DEF w
  <2>1. CASE ~DC!Dirty(DC!Line(x))
    <3>1. /\ SameCache(w, p, {"state", "cache_line_o", "lines", "lru", "flush_cnt"})
          /\ w.state \in {"Idle", "FlushAddr"}
      BY <2>0, <2>1 DEF FlushChecked
    <3> QED
      BY <1>5, <1>6, <3>1 DEF SameCache
  <2>2. CASE DC!Dirty(DC!Line(x))
    <3>1. /\ SameCache(w, p, {"state", "cache_line_o", "lines", "lru", "flush_cnt",
                              "write_flush", "mem_addr", "req_mem_valid", "req_mem_type"})
          /\ w.state = "WaitGrant" /\ w.write_flush = TRUE
          /\ w.req_mem_valid = TRUE /\ w.req_mem_type = "WriteBack"
      BY <2>0, <2>2 DEF FlushChecked
    <3>2. ~w.write_share /\ ~w.write_first /\ w.snoop_restore = "none"
      BY <1>3, <1>5, <1>14, <3>1 DEF SameCache
    <3> QED
      BY <1>7, <3>1, <3>2 DEF AD!IsWrite
  <2> QED
    BY <2>1, <2>2
<1>15. CASE x.state = "SnoopSetupAddr"
  <2>1. SameCache(w, p, {"state"}) /\ w.state = "SnoopReadData"
    BY <1>15, CacheSnoopSetup DEF p
  <2> HIDE DEF w
  <2> QED
    BY <1>5, <1>6, <2>1 DEF SameCache
<1>16. CASE x.state = "SnoopReadData"
  <2>1. /\ SameCache(w, p, {"state", "lines", "lru", "req_addr", "snoop_restore"})
        /\ w.state = DC!RestoredState(x) /\ w.snoop_restore = "none"
    BY <1>16, CacheSnoopRead DEF p
  <2> HIDE DEF w
  <2>2. w.state = "Idle"
    BY <1>4, <2>1 DEF DC!RestoredState
  <2> QED
    BY <1>5, <1>6, <2>1, <2>2 DEF SameCache
<1> QED
  BY <1>3, <1>8, <1>9, <1>10, <1>11, <1>12, <1>13, <1>14, <1>15, <1>16
     DEF DC!CacheStates, BusQuiet, Waits, InSnoop

\* The wires of a request.
WiredBus(x, j) ==
    /\ j.req_mem_valid = x.req_mem_valid /\ j.req_mem_type = x.req_mem_type
    /\ j.req_mem_addr = x.mem_addr

\* A request that is granted, and one that is answered.
LEMMA GrantStep ==
    ASSUME NEW x, NEW i, CacheShape(x), Control(x), FillHits(x), FillKnown(x),
           x.state = "WaitGrant"
    PROVE  LET v == DC!ForgetCache(DC!CacheNext(x, i))
           IN  /\ v.state = IF x.write_flush \/ x.write_first \/ x.write_share
                            THEN "WriteBus" ELSE "WaitResp"
               /\ ~v.req_mem_valid /\ v.req_mem_type = x.req_mem_type
               /\ v.mem_addr = x.mem_addr /\ v.req_type = x.req_type
               /\ v.write_first = x.write_first /\ v.write_flush = x.write_flush
               /\ v.write_share = x.write_share /\ v.lines = x.lines
               /\ v.snoop_restore = "none" /\ v.req_addr = x.req_addr
               /\ x.snoop_restore = "none"
<1> DEFINE p == Prepared(x, i)
           w == Worked(x, i)
           v == DC!ForgetCache(DC!CacheNext(x, i))
<1>1. SameCache(p, x, {"req_flush", "snoop_addr", "snoop_flags_valid"})
  BY PreparedIs
<1>2. x.snoop_restore = "none"
  BY DEF Control
<1>3. /\ SameCache(w, p, {"state", "req_mem_valid"})
      /\ w.req_mem_valid = FALSE
      /\ w.state = IF x.write_flush \/ x.write_first \/ x.write_share
                   THEN "WriteBus" ELSE "WaitResp"
  BY CacheGrant
<1>4. w.state # "Idle" => SameCache(v, w, {"snoop_addr", "req_addr_restore"})
  BY FromWorked
<1> HIDE DEF p, w, v
<1>5. /\ v.state = w.state /\ v.req_mem_valid = FALSE /\ v.req_mem_type = x.req_mem_type
      /\ v.mem_addr = x.mem_addr /\ v.req_type = x.req_type
      /\ v.write_first = x.write_first /\ v.write_flush = x.write_flush
      /\ v.write_share = x.write_share /\ v.lines = x.lines
      /\ v.snoop_restore = "none" /\ v.req_addr = x.req_addr
  BY <1>1, <1>2, <1>3, <1>4 DEF SameCache
<1> QED
  BY <1>2, <1>3, <1>5 DEF v

\* The answer of the bus: a line that was read is checked, after a write the line
\* asked for is read, the next line is flushed, or the line is unique.
LEMMA AnswerStep ==
    ASSUME NEW x, NEW i, CacheShape(x), Control(x), FillHits(x), FillKnown(x),
           i.mem_valid,
           x.state \in {"WaitResp", "WriteBus"}
    PROVE  LET v == DC!ForgetCache(DC!CacheNext(x, i))
           IN  /\ v.lines = x.lines /\ v.snoop_restore = "none"
               /\ v.write_share => x.write_share
               /\ x.state = "WaitResp" =>
                     /\ v.state = "CheckResp" /\ v.req_addr = x.req_addr
                     /\ v.req_type = x.req_type /\ v.req_mem_valid = x.req_mem_valid
                     /\ v.write_first = x.write_first
               /\ x.state = "WriteBus" /\ (x.write_share \/ x.write_flush) =>
                     /\ v.state \in {"Idle", "FlushAddr"} /\ v.req_mem_valid = x.req_mem_valid
                     /\ v.write_first = x.write_first
               /\ x.state = "WriteBus" /\ ~x.write_share /\ ~x.write_flush =>
                     /\ v.state = "WaitGrant" /\ v.req_mem_valid /\ ~v.write_first
                     /\ ~v.write_share /\ ~v.write_flush
                     /\ v.req_mem_type = DC!FillType(v) /\ v.mem_addr = v.req_addr
<1> DEFINE p == Prepared(x, i)
           w == Worked(x, i)
           v == DC!ForgetCache(DC!CacheNext(x, i))
           Goal == /\ v.lines = x.lines /\ v.snoop_restore = "none"
                   /\ v.write_share => x.write_share
                   /\ x.state = "WaitResp" =>
                         /\ v.state = "CheckResp" /\ v.req_addr = x.req_addr
                         /\ v.req_type = x.req_type /\ v.req_mem_valid = x.req_mem_valid
                         /\ v.write_first = x.write_first
                   /\ x.state = "WriteBus" /\ (x.write_share \/ x.write_flush) =>
                         /\ v.state \in {"Idle", "FlushAddr"}
                         /\ v.req_mem_valid = x.req_mem_valid
                         /\ v.write_first = x.write_first
                   /\ x.state = "WriteBus" /\ ~x.write_share /\ ~x.write_flush =>
                         /\ v.state = "WaitGrant" /\ v.req_mem_valid /\ ~v.write_first
                         /\ ~v.write_share /\ ~v.write_flush
                         /\ v.req_mem_type = DC!FillType(v) /\ v.mem_addr = v.req_addr
<1> SUFFICES Goal
  OBVIOUS
<1>1. SameCache(p, x, {"req_flush", "snoop_addr", "snoop_flags_valid"})
  BY PreparedIs
<1>2. x.snoop_restore = "none"
  BY DEF Control
<1>3. /\ v.lines = w.lines /\ v.req_mem_valid = w.req_mem_valid
      /\ v.write_first = w.write_first /\ v.write_flush = w.write_flush
      /\ v.write_share = w.write_share /\ v.snoop_restore = w.snoop_restore
      /\ w.state # "Idle" => SameCache(v, w, {"snoop_addr", "req_addr_restore"})
      /\ w.state = "Idle" => v.state = "Idle" \/ DC!ReadyNext(x, i)
  BY FromWorked
<1>4. ~DC!ReadyNext(x, i)
  BY DEF DC!ReadyNext, DC!LoadHits, DC!StoreHits, DC!Hits
<1>5. CASE x.state = "WaitResp"
  <2>1. SameCache(w, p, {"state", "cache_line_i"}) /\ w.state = "CheckResp"
    BY <1>5, CacheWaitResp
  <2> HIDE DEF p, w, v
  <2>2. /\ v.state = "CheckResp" /\ v.req_addr = x.req_addr /\ v.req_type = x.req_type
        /\ v.req_mem_valid = x.req_mem_valid /\ v.write_first = x.write_first
        /\ v.lines = x.lines /\ v.write_share = x.write_share /\ v.snoop_restore = "none"
    BY <1>1, <1>2, <1>3, <2>1 DEF SameCache
  <2> QED
    BY <1>5, <2>2
<1>6. CASE x.state = "WriteBus" /\ x.write_share
  <2>1. SameCache(w, p, {"state", "write_share"}) /\ w.state = "Idle" /\ w.write_share = FALSE
    BY <1>6, CacheWriteBus DEF WroteBus
  <2> HIDE DEF p, w, v
  <2>2. /\ v.state = "Idle" /\ v.req_mem_valid = x.req_mem_valid
        /\ v.write_first = x.write_first
        /\ v.lines = x.lines /\ v.snoop_restore = "none"
    BY <1>1, <1>2, <1>3, <1>4, <2>1 DEF SameCache
  <2> QED
    BY <1>6, <2>2
<1>7. CASE x.state = "WriteBus" /\ ~x.write_share /\ x.write_flush
  <2>1. SameCache(w, p, {"state"}) /\ w.state = "FlushAddr"
    BY <1>7, CacheWriteBus DEF WroteBus
  <2> HIDE DEF p, w, v
  <2>2. /\ v.state = "FlushAddr" /\ v.req_mem_valid = x.req_mem_valid
        /\ v.write_first = x.write_first /\ v.write_share = x.write_share
        /\ v.lines = x.lines /\ v.snoop_restore = "none"
    BY <1>1, <1>2, <1>3, <1>4, <2>1 DEF SameCache
  <2> QED
    BY <1>7, <2>2
<1>8. CASE x.state = "WriteBus" /\ ~x.write_share /\ ~x.write_flush
  <2>1. /\ SameCache(w, p, {"state", "write_first", "mem_addr", "req_mem_valid",
                            "req_mem_type"})
        /\ w.state = "WaitGrant" /\ w.write_first = FALSE
        /\ w.mem_addr = x.req_addr /\ w.req_mem_valid = TRUE
        /\ w.req_mem_type = DC!FillType(x)
    BY <1>8, CacheWriteBus DEF WroteBus
  <2> HIDE DEF p, w, v
  <2>2. /\ v.state = "WaitGrant" /\ v.req_mem_valid = TRUE /\ v.write_first = FALSE
        /\ v.write_share = x.write_share /\ v.write_flush = x.write_flush
        /\ v.lines = x.lines /\ v.snoop_restore = "none" /\ v.mem_addr = x.req_addr
        /\ v.req_addr = x.req_addr /\ v.req_type = x.req_type
        /\ v.req_mem_type = DC!FillType(x)
    BY <1>1, <1>2, <1>3, <1>4, <2>1 DEF SameCache
  <2> QED
    BY <1>8, <2>2 DEF DC!FillType, DC!IsStore
<1> QED
  BY <1>5, <1>6, <1>7, <1>8

\* One cycle of a request between a cache and its adapter.  The bus does not
\* answer while the cache serves a snoop.
LEMMA BusStep ==
    ASSUME NEW x, NEW y, NEW i, NEW j, LocalShape(x, y), LocalHand(x, y), LocalBus(x, y),
           FillKnown(x), Wired(x, y, i, j), WiredBus(x, j), InSnoop(x) => ~i.mem_valid
    PROVE  LET v == DC!ForgetCache(DC!CacheNext(x, i))
               z == AD!ForgetAdapter(AD!AdapterNext(y, j))
           IN  LocalBus(v, z)
<1> DEFINE v == DC!ForgetCache(DC!CacheNext(x, i))
           z == AD!ForgetAdapter(AD!AdapterNext(y, j))
<1> SUFFICES LocalBus(v, z)
  OBVIOUS
<1>1. CacheShape(x) /\ Control(x) /\ FillHits(x) /\ FillKnown(x)
  BY DEF LocalShape
<1>2. BusView(y, j, z)
  BY AdapterEdge DEF LocalShape, LocalHand
<1>3. y.state \in AD!BusStates
  BY DEF LocalShape
<1>4. i.mem_valid <=> (y.state = "r" /\ j.r_valid) \/ (y.state = "b" /\ j.b_valid)
  BY DEF Wired, AD!RespMemValid
<1>5. /\ j.req_mem_valid = x.req_mem_valid /\ j.req_mem_type = x.req_mem_type
      /\ j.req_mem_addr = x.mem_addr
  BY DEF WiredBus
<1> HIDE DEF z
<1>6. CASE BusQuiet(x)
  <2>1. y.state = "idle" /\ ~x.req_mem_valid /\ ~x.write_first
    BY <1>3, <1>6 DEF LocalBus, BusQuiet, AD!BusStates
  <2>2. z.state = "idle"
    BY <1>2, <1>5, <2>1 DEF BusView
  <2>3. \/ BusQuiet(v) /\ ~v.req_mem_valid /\ ~v.write_first
        \/ /\ v.state = "WaitGrant" /\ v.req_mem_valid
           /\ AD!IsWrite(v.req_mem_type) <=> v.write_flush \/ v.write_first \/ v.write_share
           /\ v.write_share <=> v.req_mem_type = "WriteLineUnique"
           /\ v.write_share \/ v.write_flush => ~v.write_first
           /\ ~AD!IsWrite(v.req_mem_type) =>
                 v.req_mem_type = DC!FillType(v) /\ v.mem_addr = AccessAddr(v)
    BY <1>1, <1>6, <2>1, QuietStep
  <2> HIDE DEF v
  <2> QED
    BY <2>2, <2>3 DEF LocalBus, BusQuiet, Waits, InSnoop
<1>7. CASE x.state = "WaitGrant"
  <2>1. y.state = "idle" /\ x.req_mem_valid
    BY <1>3, <1>7 DEF LocalBus, Waits, InSnoop, AD!BusStates
  <2>2. /\ z.state = (IF AD!IsWrite(x.req_mem_type) THEN "aw" ELSE "ar")
        /\ z.req_addr = x.mem_addr /\ z.req_snoop = x.req_mem_type
    BY <1>2, <1>5, <2>1 DEF BusView
  <2>3. /\ v.state = IF x.write_flush \/ x.write_first \/ x.write_share
                     THEN "WriteBus" ELSE "WaitResp"
        /\ ~v.req_mem_valid /\ v.req_mem_type = x.req_mem_type
        /\ v.mem_addr = x.mem_addr /\ v.req_type = x.req_type
        /\ v.write_first = x.write_first /\ v.write_flush = x.write_flush
        /\ v.write_share = x.write_share
        /\ v.snoop_restore = "none" /\ v.req_addr = x.req_addr
        /\ x.snoop_restore = "none"
    BY <1>1, <1>7, GrantStep
  <2>4. /\ AD!IsWrite(x.req_mem_type) <=> x.write_flush \/ x.write_first \/ x.write_share
        /\ x.write_share <=> x.req_mem_type = "WriteLineUnique"
        /\ x.write_share \/ x.write_flush => ~x.write_first
        /\ ~AD!IsWrite(x.req_mem_type) =>
              x.req_mem_type = DC!FillType(x) /\ x.mem_addr = AccessAddr(x)
    BY <1>7 DEF LocalBus
  <2> HIDE DEF v
  <2>5. Waits(v) = v.state /\ (v.state = "WriteBus" <=> AD!IsWrite(x.req_mem_type))
        /\ v.state \in {"WriteBus", "WaitResp"}
    BY <2>3, <2>4 DEF Waits, InSnoop
  <2>6. DC!FillType(v) = DC!FillType(x) /\ AccessAddr(v) = AccessAddr(x)
    BY <2>3 DEF DC!FillType, DC!IsStore, AccessAddr
  <2> QED
    BY <2>2, <2>3, <2>4, <2>5, <2>6 DEF LocalBus
<1>8. CASE Waits(x) \in {"WaitResp", "WriteBus"} /\ ~i.mem_valid
  <2>1. Waits(v) = Waits(x) /\ v.state # "WaitGrant" /\ SameRequest(v, x)
    BY <1>1, <1>8, WaitsOn
  <2>2. /\ Waits(x) = "WaitResp" => y.state \in {"ar", "r"}
        /\ Waits(x) = "WriteBus" => y.state \in {"aw", "b"}
    BY <1>8 DEF LocalBus
  <2>3. /\ Waits(x) = "WaitResp" => z.state \in {"ar", "r"}
        /\ Waits(x) = "WriteBus" => z.state \in {"aw", "b"}
        /\ z.req_addr = y.req_addr /\ z.req_snoop = y.req_snoop
    BY <1>2, <1>4, <1>8, <2>2 DEF BusView, BusGoes
  <2>4. x.state # "WaitGrant"
    BY <1>8 DEF Waits, InSnoop
  <2> HIDE DEF v
  <2>5. DC!FillType(v) = DC!FillType(x)
    BY <2>1 DEF SameRequest, DC!FillType, DC!IsStore
  <2>6. /\ ~x.req_mem_valid /\ (x.write_first => Waits(x) = "WriteBus")
        /\ x.write_share \/ x.write_flush => ~x.write_first
        /\ Waits(x) = "WriteBus" => AD!IsWrite(x.req_mem_type)
        /\ x.write_share <=> x.req_mem_type = "WriteLineUnique"
        /\ y.req_addr = x.mem_addr /\ y.req_snoop = x.req_mem_type
        /\ Waits(x) = "WaitResp" => x.req_mem_type = DC!FillType(x) /\ x.mem_addr = AccessAddr(x)
    BY <1>8, <2>2, <2>4 DEF LocalBus
  <2> QED
    BY <1>8, <2>1, <2>3, <2>5, <2>6 DEF LocalBus, SameRequest
<1>9. CASE Waits(x) \in {"WaitResp", "WriteBus"} /\ i.mem_valid
  <2>1. x.state = Waits(x)
    BY <1>9 DEF Waits
  <2>2. z.state = "idle"
    BY <1>2, <1>4, <1>9 DEF BusView
  <2>3. /\ v.snoop_restore = "none" /\ (v.write_share => x.write_share)
        /\ x.state = "WaitResp" =>
              /\ v.state = "CheckResp" /\ v.req_mem_valid = x.req_mem_valid
              /\ v.write_first = x.write_first
        /\ x.state = "WriteBus" /\ (x.write_share \/ x.write_flush) =>
              /\ v.state \in {"Idle", "FlushAddr"} /\ v.req_mem_valid = x.req_mem_valid
              /\ v.write_first = x.write_first
        /\ x.state = "WriteBus" /\ ~x.write_share /\ ~x.write_flush =>
              /\ v.state = "WaitGrant" /\ v.req_mem_valid /\ ~v.write_first
              /\ ~v.write_share /\ ~v.write_flush
              /\ v.req_mem_type = DC!FillType(v) /\ v.mem_addr = v.req_addr
    BY <1>1, <1>9, <2>1, AnswerStep
  <2> HIDE DEF v
  <2>4. /\ ~x.req_mem_valid /\ (x.write_first => x.state = "WriteBus")
        /\ x.write_share \/ x.write_flush => ~x.write_first
    BY <1>9, <2>1 DEF LocalBus
  <2>5. Waits(v) = v.state /\ AccessAddr(v) = v.req_addr
    BY <1>9, <2>1, <2>3 DEF Waits, AccessAddr, InSnoop
  <2>6. CASE v.state = "WaitGrant"
    <3>1. x.state = "WriteBus" /\ ~x.write_share /\ ~x.write_flush
      BY <1>9, <2>1, <2>3, <2>6
    <3>2. DC!FillType(v) \in {"ReadMakeUnique", "ReadShared"}
      BY DEF DC!FillType
    <3> QED
      BY <2>2, <2>3, <2>5, <2>6, <3>1, <3>2 DEF LocalBus, AD!IsWrite
  <2>7. CASE v.state # "WaitGrant"
    <3>1. v.state \in {"CheckResp", "Idle", "FlushAddr"} /\ ~v.req_mem_valid /\ ~v.write_first
      BY <1>9, <2>1, <2>3, <2>4, <2>7
    <3> QED
      BY <2>2, <2>5, <3>1 DEF LocalBus
  <2> QED
    BY <2>6, <2>7
<1> QED
  BY <1>6, <1>7, <1>8, <1>9 DEF BusQuiet

-----------------------------------------------------------------------------
(* The lines of a cache.                                                   *)

\* Cache x has line l; it may store into it without asking; it announces that it
\* has stored into it.
Has(x, l) == DC!Tagged(x, l) # {}
Owned(x, l) == \E P \in DC!Tagged(x, l) : "SHARED" \notin x.lines[P].flags
Announced(x, l) ==
    /\ x.write_share
    /\ l = IF x.state = "TranslateAddress" THEN x.req_addr ELSE x.mem_addr

\* That is what the properties say of core c.
LEMMA LinesOfCore ==
    ASSUME NEW c \in Cores, NEW l
    PROVE  /\ Holds(c, l) <=> Has(d[c], l)
           /\ Owns(c, l) <=> Owned(d[c], l)
           /\ Upgrading(c, l) <=> Announced(d[c], l)
BY DEF Holds, Has, Owns, Owned, Upgrading, Announced

\* A store that is announced is in a line of the cache.
ShareHits(x) == x.state = "TranslateAddress" /\ x.write_share => DC!Hit(x)

\* Writing a line at its place takes no other line in.
LEMMA HeldWritten ==
    ASSUME NEW x, CacheShape(x), x.state # "FlushCheck", NEW v, NEW l, l.tag = x.req_addr,
           v.lines = [x.lines EXCEPT ![DC!Place(x)] = l]
    PROVE  /\ \A k : Has(v, k) => Has(x, k) \/ (k = x.req_addr /\ "VALID" \in l.flags)
           /\ \A k : Owned(v, k) =>
                 Owned(x, k) \/ (/\ k = x.req_addr /\ "VALID" \in l.flags
                                 /\ "SHARED" \notin l.flags)
           /\ "VALID" \notin l.flags => ~Has(v, x.req_addr)
           /\ "SHARED" \in l.flags => ~Owned(v, x.req_addr)
           /\ DC!Hit(x) /\ "VALID" \in l.flags => Has(v, x.req_addr)
<1> DEFINE P == DC!Place(x)
           r == x.req_addr
           n == [x.lines EXCEPT ![P] = l]
<1>2. /\ DC!Tagged(x, r) \subseteq {P}
      /\ DC!Hit(x) => P \in DC!Tagged(x, r)
  BY PlaceIs DEF CacheShape
<1>3. \A k : DC!Tagged(v, k) \subseteq DC!Places
  BY DEF DC!Tagged
<1> HIDE DEF P
<1>1. /\ \A k : k # r \/ "VALID" \notin l.flags => DC!Tagged(v, k) = DC!Tagged(x, k) \ {P}
      /\ "VALID" \in l.flags => DC!Tagged(v, r) \subseteq {P}
      /\ \A R \in DC!Places : R # P => v.lines[R] = x.lines[R]
      /\ P \in DC!Places => v.lines[P] = l
  <2>1. v.lines = n
    BY DEF P
  <2>2. Copies(x.lines, l.tag) \subseteq {P}
    BY <1>2 DEF Copies, DC!Tagged
  <2>3. Rewritten(n, x.lines, P, l)
    BY <2>2, MemWritten DEF CacheShape
  <2> HIDE DEF n
  <2>4. \A k : DC!Tagged(v, k) = Copies(n, k) /\ DC!Tagged(x, k) = Copies(x.lines, k)
    BY <2>1 DEF DC!Tagged, Copies
  <2> QED
    BY <2>1, <2>3, <2>4 DEF Rewritten
<1>4. "VALID" \notin l.flags => DC!Tagged(v, r) = {}
  BY <1>1, <1>2
<1>5. ASSUME NEW k, k # r PROVE (Has(v, k) => Has(x, k)) /\ (Owned(v, k) => Owned(x, k))
  BY <1>1, <1>3, <1>5 DEF Has, Owned
<1>6. Owned(v, r) => "VALID" \in l.flags /\ "SHARED" \notin l.flags
  BY <1>1, <1>3, <1>4 DEF Owned
<1>7. DC!Hit(x) /\ "VALID" \in l.flags => P \in DC!Tagged(v, r)
  BY <1>1, <1>2 DEF DC!Tagged
<1> QED
  BY <1>4, <1>5, <1>6, <1>7 DEF Has

\* Invalidating a place takes no line in either.
LEMMA HeldFlushed ==
    ASSUME NEW x, CacheShape(x), NEW v, NEW l, l.flags = {},
           v.lines = [x.lines EXCEPT ![DC!Place(x)] = l]
    PROVE  \A k : (Has(v, k) => Has(x, k)) /\ (Owned(v, k) => Owned(x, k))
<1>1. /\ \A k : DC!Tagged(v, k) = DC!Tagged(x, k) \ {DC!Place(x)}
      /\ \A R \in DC!Places : R # DC!Place(x) => v.lines[R] = x.lines[R]
  BY LineFlushed
<1>2. \A k : DC!Tagged(v, k) \subseteq DC!Places
  BY DEF DC!Tagged
<1> QED
  BY <1>1, <1>2 DEF Has, Owned

\* From x to v a line appears only in CheckResp, and becomes owned only there or
\* with a store that is announced.
HeldStep(x, v) ==
    /\ \A l : Has(v, l) => Has(x, l) \/ (x.state = "CheckResp" /\ x.req_addr = l)
    /\ \A l : Owned(v, l) => \/ Owned(x, l) \/ Announced(v, l)
                             \/ x.state = "CheckResp" /\ x.req_addr = l /\ DC!IsStore(x)

\* What an edge with inputs i does to the lines of x, which becomes v.
LineView(x, i, v) ==
    /\ v.state = "CheckResp" => x.state = "WaitResp" /\ i.mem_valid
    /\ (x.state = "SnoopReadData" => DC!Hit(x)) => HeldStep(x, v)
    /\ x.state = "SnoopReadData" /\ DC!Hit(x) =>
          IF x.req_snoop_type = "READDATA" THEN ~Owned(v, x.req_addr)
          ELSE ~Has(v, x.req_addr)
    /\ ShareHits(v)
    /\ v.state = "SnoopReadData" => /\ x.state = "SnoopSetupAddr" /\ v.req_addr = x.req_addr
                                    /\ v.req_snoop_type = x.req_snoop_type
    /\ v.state = "SnoopSetupAddr" => /\ DC!DataSnoop(i) /\ v.req_addr = i.snoop.addr
                                     /\ v.req_snoop_type = i.snoop.type

\* The lines and the snooped address, state by state.
LEMMA LineEdge ==
    ASSUME NEW x, NEW i, CacheShape(x), Control(x), FillHits(x), FillKnown(x)
    PROVE  LineView(x, i, DC!ForgetCache(DC!CacheNext(x, i)))
<1> DEFINE p == Prepared(x, i)
           w == Worked(x, i)
           v == DC!ForgetCache(DC!CacheNext(x, i))
<1> SUFFICES LineView(x, i, v)
  OBVIOUS
<1>1. SameCache(p, x, {"req_flush", "snoop_addr", "snoop_flags_valid"}) /\ CacheShape(p)
  BY PreparedIs
<1>2. /\ v.lines = w.lines /\ v.write_share = w.write_share
      /\ w.state # "Idle" => SameCache(v, w, {"snoop_addr", "req_addr_restore"})
      /\ w.state = "Idle" =>
            \/ v.state \in {"Idle", "CheckHit", "FlushAddr"}
            \/ /\ DC!DataSnoop(i) /\ v.state = "SnoopSetupAddr"
               /\ v.req_addr = i.snoop.addr /\ v.req_snoop_type = i.snoop.type
  BY FromWorked
<1>3. /\ x.state \in DC!CacheStates /\ x.snoop_restore \in {"none", "WaitResp", "WriteBus"}
      /\ x.state \notin {"TranslateAddress", "WaitGrant", "WriteBus", "SnoopSetupAddr",
                         "SnoopReadData"} => ~x.write_share
  BY DEF Control
<1>4. /\ p.lines = x.lines /\ p.write_share = x.write_share /\ p.state = x.state
      /\ p.req_addr = x.req_addr
  BY <1>1 DEF SameCache
<1> HIDE DEF v, p
<1>5. ASSUME w.state \notin {"CheckResp", "SnoopReadData", "SnoopSetupAddr"}
      PROVE  /\ v.state \notin {"CheckResp", "SnoopReadData"}
             /\ v.state = "SnoopSetupAddr" => /\ DC!DataSnoop(i) /\ v.req_addr = i.snoop.addr
                                              /\ v.req_snoop_type = i.snoop.type
             /\ v.state = "TranslateAddress" => w.state = "TranslateAddress"
  BY <1>2, <1>5 DEF SameCache
<1>h. \A l : (Has(v, l) <=> Has(w, l)) /\ (Owned(v, l) <=> Owned(w, l))
  BY <1>2 DEF Has, Owned, DC!Tagged
<1>k. ASSUME w.lines = x.lines PROVE HeldStep(x, v)
  <2>1. \A l : (Has(w, l) <=> Has(x, l)) /\ (Owned(w, l) <=> Owned(x, l))
    BY <1>k DEF Has, Owned, DC!Tagged
  <2> HIDE DEF w
  <2> QED
    BY <1>h, <2>1 DEF HeldStep
<1>6. ASSUME w.state \notin {"CheckResp", "SnoopReadData", "SnoopSetupAddr"},
             w.lines = x.lines, x.state # "SnoopReadData",
             w.state = "TranslateAddress" => ~w.write_share
      PROVE  LineView(x, i, v)
  BY <1>2, <1>5, <1>6, <1>k DEF LineView, ShareHits
<1>7. CASE x.state = "Idle"
  <2>1. w = p
    BY <1>7 DEF p, Worked, DC!CacheState
  <2> QED
    BY <1>4, <1>6, <1>7, <2>1
<1>8. CASE x.state = "CheckHit" /\ ~DC!Hit(x)
  <2>1. SameCache(w, p, {"state"}) /\ w.state \in {"Idle", "TranslateAddress"}
    BY <1>8, CacheMiss DEF p
  <2> HIDE DEF w
  <2> QED
    BY <1>3, <1>4, <1>6, <1>8, <2>1 DEF SameCache
<1>9. CASE x.state = "CheckHit" /\ DC!Hit(x) /\ ~DC!IsStore(x)
  <2> DEFINE l == [tag |-> x.req_addr, data |-> DC!ReservedData(x),
                   flags |-> DC!Line(x).flags \cup {"RESERVED"}]
  <2>1. /\ w.state = "Idle"
        /\ w.lines = [x.lines EXCEPT ![DC!Place(x)] = l] \/ w.lines = x.lines
    BY <1>9, CacheLoadHit DEF p
  <2>2. DC!Tagged(x, x.req_addr) = {DC!Place(x)}
    BY <1>9, PlaceIs DEF CacheShape
  <2>3. l.tag = x.req_addr /\ l.flags = x.lines[DC!Place(x)].flags \cup {"RESERVED"}
    BY DEF DC!Line
  <2> HIDE DEF w, l
  <2>4. CASE w.lines = x.lines
    BY <1>6, <1>9, <2>1, <2>4
  <2>5. CASE w.lines = [x.lines EXCEPT ![DC!Place(x)] = l]
    <3>1. /\ \A k : Has(w, k) => Has(x, k) \/ k = x.req_addr
          /\ \A k : Owned(w, k) => Owned(x, k) \/ (k = x.req_addr /\ "SHARED" \notin l.flags)
      BY <1>9, <2>3, <2>5, HeldWritten
    <3>2. /\ Has(x, x.req_addr)
          /\ "SHARED" \notin l.flags => Owned(x, x.req_addr)
      BY <2>2, <2>3 DEF Has, Owned
    <3>3. HeldStep(x, v)
      BY <1>h, <3>1, <3>2 DEF HeldStep
    <3> QED
      BY <1>2, <1>5, <1>9, <2>1, <3>3 DEF LineView, ShareHits
  <2> QED
    BY <2>1, <2>4, <2>5
<1>10. CASE x.state = "CheckHit" /\ DC!Hit(x) /\ DC!IsStore(x) /\ DC!ScFails(x)
  <2>1. w.lines = x.lines /\ w.state = "Idle"
    BY <1>10, CacheStoreHit DEF p
  <2> HIDE DEF w
  <2> QED
    BY <1>4, <1>6, <1>10, <2>1
<1>11. CASE x.state = "CheckHit" /\ DC!Hit(x) /\ DC!IsStore(x) /\ ~DC!ScFails(x)
  <2> DEFINE l == [tag |-> x.req_addr, flags |-> DC!StoreFlags,
                   data |-> DC!Modified(x, DC!Line(x).data)]
  <2>1. /\ w.lines = [x.lines EXCEPT ![DC!Place(x)] = l]
        /\ SameCache(w, p, {"state", "lines", "lru", "req_type", "write_share"})
        /\ w.write_share = (p.write_share \/ DC!Upgrades(x))
        /\ w.state = IF DC!Upgrades(x) THEN "TranslateAddress" ELSE "Idle"
    BY <1>11, CacheStoreHit DEF p
  <2>2. l.tag = x.req_addr /\ l.flags = {"VALID", "DIRTY"}
    BY DEF DC!StoreFlags
  <2>3. DC!Tagged(x, x.req_addr) = {DC!Place(x)}
    BY <1>11, PlaceIs DEF CacheShape
  <2>4. DC!Upgrades(x) <=> "SHARED" \in x.lines[DC!Place(x)].flags
    BY <1>11 DEF DC!Upgrades, DC!StoreHits, DC!Hits, DC!Line
  <2> HIDE DEF w, l
  <2>5. /\ \A k : Has(w, k) => Has(x, k) \/ k = x.req_addr
        /\ \A k : Owned(w, k) => Owned(x, k) \/ k = x.req_addr
        /\ Has(w, x.req_addr)
    BY <1>11, <2>1, <2>2, HeldWritten
  <2>6. Has(x, x.req_addr) /\ (~DC!Upgrades(x) => Owned(x, x.req_addr))
    BY <2>3, <2>4 DEF Has, Owned
  <2>7. w.req_addr = x.req_addr /\ (w.write_share <=> DC!Upgrades(x))
    BY <1>3, <1>4, <1>11, <2>1 DEF SameCache
  <2>8. CASE DC!Upgrades(x)
    <3>1. /\ v.state = "TranslateAddress" /\ v.write_share /\ v.req_addr = x.req_addr
      BY <1>2, <2>1, <2>7, <2>8 DEF SameCache
    <3>2. Announced(v, x.req_addr)
      BY <3>1 DEF Announced
    <3>3. HeldStep(x, v)
      BY <1>h, <2>5, <2>6, <3>2 DEF HeldStep
    <3>4. ShareHits(v)
      BY <1>h, <2>5, <3>1 DEF ShareHits, DC!Hit, Has
    <3> QED
      BY <1>11, <3>1, <3>3, <3>4 DEF LineView
  <2>9. CASE ~DC!Upgrades(x)
    <3>1. HeldStep(x, v)
      BY <1>h, <2>5, <2>6, <2>9 DEF HeldStep
    <3> QED
      BY <1>5, <1>11, <2>1, <2>9, <3>1 DEF LineView, ShareHits
  <2> QED
    BY <2>8, <2>9
<1>12. CASE x.state = "TranslateAddress"
  <2>1. /\ SameCache(w, p, {"state", "req_mem_valid", "write_first", "req_mem_type",
                            "mem_addr", "cache_line_o", "cache_line_i"})
        /\ w.state = "WaitGrant"
    BY <1>12, CacheTranslate DEF p
  <2> HIDE DEF w
  <2> QED
    BY <1>4, <1>6, <1>12, <2>1 DEF SameCache
<1>13. CASE x.state = "WaitGrant"
  <2>1. SameCache(w, p, {"state", "req_mem_valid"}) /\ w.state \in {"WriteBus", "WaitResp"}
    BY <1>13, CacheGrant DEF p
  <2> HIDE DEF w
  <2> QED
    BY <1>4, <1>6, <1>13, <2>1 DEF SameCache
<1>14. ASSUME w = DC!TakeSnoop(x, i, p), x.state \in {"WaitResp", "WriteBus"}, DC!DataSnoop(i)
       PROVE  LineView(x, i, v)
  <2> HIDE DEF w
  <2>1. /\ SameCache(w, p, {"state", "snoop_restore", "req_addr_restore", "req_addr",
                            "req_snoop_type"})
        /\ w.state = "SnoopSetupAddr" /\ w.req_addr = i.snoop.addr
        /\ w.req_snoop_type = i.snoop.type
    BY <1>14, CacheTakeSnoop DEF p
  <2>2. w.lines = x.lines
    BY <1>4, <2>1 DEF SameCache
  <2>3. /\ v.state = "SnoopSetupAddr" /\ v.req_addr = i.snoop.addr
        /\ v.req_snoop_type = i.snoop.type
    BY <1>2, <2>1 DEF SameCache
  <2> QED
    BY <1>14, <1>k, <2>2, <2>3 DEF LineView, ShareHits
<1>15. ASSUME w = p, x.state \in {"WaitResp", "WriteBus"} PROVE LineView(x, i, v)
  <2> HIDE DEF w
  <2> QED
    BY <1>4, <1>6, <1>15
<1>16. CASE x.state = "WaitResp"
  <2>1. /\ i.mem_valid => SameCache(w, p, {"state", "cache_line_i"}) /\ w.state = "CheckResp"
        /\ ~i.mem_valid /\ DC!DataSnoop(i) => w = DC!TakeSnoop(x, i, p)
        /\ ~i.mem_valid /\ ~DC!DataSnoop(i) => w = p
    BY <1>16, CacheWaitResp DEF p
  <2>2. CASE i.mem_valid
    <3> HIDE DEF w
    <3>1. w.lines = x.lines /\ v.state = "CheckResp"
      BY <1>2, <1>4, <2>1, <2>2 DEF SameCache
    <3> QED
      BY <1>16, <1>k, <2>2, <3>1 DEF LineView, ShareHits
  <2> QED
    BY <1>14, <1>15, <1>16, <2>1, <2>2
<1>17. CASE x.state = "CheckResp"
  <2> DEFINE l == IF DC!IsStore(x)
                  THEN [tag |-> x.req_addr, flags |-> DC!StoreFlags,
                        data |-> DC!Modified(x, x.cache_line_i)]
                  ELSE [tag |-> x.req_addr, data |-> x.cache_line_i,
                        flags |-> {"VALID", "SHARED"} \cup
                                  (IF "Reserve" \in x.req_type THEN {"RESERVED"} ELSE {})]
  <2>1. /\ w.state \in {"Idle", "SetupReadAdr"}
        /\ w.lines = [x.lines EXCEPT ![DC!Place(x)] = l]
    BY <1>17, CacheCheckResp DEF p
  <2>2. l.tag = x.req_addr /\ (~DC!IsStore(x) => "SHARED" \in l.flags)
    OBVIOUS
  <2> HIDE DEF w, l
  <2>3. /\ \A k : Has(w, k) => Has(x, k) \/ k = x.req_addr
        /\ \A k : Owned(w, k) => Owned(x, k) \/ (k = x.req_addr /\ "SHARED" \notin l.flags)
    BY <1>17, <2>1, <2>2, HeldWritten
  <2>4. HeldStep(x, v)
    BY <1>17, <1>h, <2>2, <2>3 DEF HeldStep
  <2> QED
    BY <1>5, <1>17, <2>1, <2>4 DEF LineView, ShareHits
<1>18. CASE x.state = "SetupReadAdr"
  <2>1. SameCache(w, p, {"state"}) /\ w.state = "CheckHit"
    BY <1>18, CacheSetupRead DEF p
  <2> HIDE DEF w
  <2> QED
    BY <1>4, <1>6, <1>18, <2>1 DEF SameCache
<1>19. CASE x.state = "WriteBus"
  <2>0. WroteBus(x, i, p, w)
    BY <1>19, CacheWriteBus DEF p
  <2>1. /\ i.mem_valid => \/ SameCache(w, p, {"state", "write_share"}) /\ w.state = "Idle"
                          \/ SameCache(w, p, {"state"}) /\ w.state = "FlushAddr"
                          \/ /\ SameCache(w, p, {"state", "write_first", "mem_addr",
                                                 "req_mem_valid", "req_mem_type"})
                             /\ w.state = "WaitGrant"
        /\ ~i.mem_valid /\ DC!DataSnoop(i) => w = DC!TakeSnoop(x, i, p)
        /\ ~i.mem_valid /\ ~DC!DataSnoop(i) => w = p
    <3> HIDE DEF w
    <3> QED
      BY <2>0 DEF WroteBus
  <2>2. CASE i.mem_valid
    <3> HIDE DEF w
    <3>1. w.lines = x.lines /\ w.state \in {"Idle", "FlushAddr", "WaitGrant"}
      BY <1>4, <2>1, <2>2 DEF SameCache
    <3> QED
      BY <1>6, <1>19, <3>1
  <2> QED
    BY <1>14, <1>15, <1>19, <2>1, <2>2
<1>20. CASE x.state = "FlushAddr"
  <2>1. SameCache(w, p, {"state", "write_flush", "cache_line_i"}) /\ w.state = "FlushCheck"
    BY <1>20, CacheFlushAddr DEF p
  <2> HIDE DEF w
  <2> QED
    BY <1>4, <1>6, <1>20, <2>1 DEF SameCache
<1>21. CASE x.state = "FlushCheck"
  <2> DEFINE l == [tag |-> x.req_addr, flags |-> {}, data |-> x.cache_line_i]
  <2>1. FlushChecked(x, p, w)
    BY <1>21, CacheFlushCheck DEF p
  <2> HIDE DEF w
  <2>2. w.lines = [x.lines EXCEPT ![DC!Place(x)] = l] /\ w.state \in {"Idle", "FlushAddr", "WaitGrant"}
    BY <2>1 DEF FlushChecked
  <2>3. l.flags = {}
    OBVIOUS
  <2> HIDE DEF l
  <2>4. \A k : (Has(w, k) => Has(x, k)) /\ (Owned(w, k) => Owned(x, k))
    BY <2>2, <2>3, HeldFlushed
  <2>5. HeldStep(x, v)
    BY <1>h, <2>4 DEF HeldStep
  <2> QED
    BY <1>5, <1>21, <2>2, <2>5 DEF LineView, ShareHits
<1>22. CASE x.state = "SnoopSetupAddr"
  <2>1. SameCache(w, p, {"state"}) /\ w.state = "SnoopReadData"
    BY <1>22, CacheSnoopSetup DEF p
  <2> HIDE DEF w
  <2>2. w.lines = x.lines
    BY <1>4, <2>1 DEF SameCache
  <2>3. /\ v.state = "SnoopReadData" /\ v.req_addr = x.req_addr
        /\ v.req_snoop_type = x.req_snoop_type
    BY <1>1, <1>2, <2>1 DEF SameCache
  <2> QED
    BY <1>22, <1>k, <2>2, <2>3 DEF LineView, ShareHits
<1>23. CASE x.state = "SnoopReadData"
  <2> DEFINE l == [tag |-> x.req_addr, data |-> DC!Line(x).data,
                   flags |-> IF x.req_snoop_type = "READDATA" THEN DC!SnoopedFlags(x) ELSE {}]
  <2>1. /\ w.state = DC!RestoredState(x)
        /\ x.req_snoop_type = "READDATA" \/ DC!Hit(x) =>
              w.lines = [x.lines EXCEPT ![DC!Place(x)] = l]
    <3>1. /\ w.state = DC!RestoredState(x)
          /\ x.req_snoop_type = "READDATA" =>
                w.lines = [x.lines EXCEPT ![DC!Place(x)] =
                             [tag |-> x.req_addr, flags |-> DC!SnoopedFlags(x),
                              data |-> DC!Line(x).data]]
          /\ x.req_snoop_type # "READDATA" /\ DC!Hit(x) =>
                w.lines = [x.lines EXCEPT ![DC!Place(x)] = [tag |-> x.req_addr, flags |-> {},
                                                            data |-> DC!Line(x).data]]
      BY <1>23, CacheSnoopRead DEF p
    <3> HIDE DEF w
    <3>2. CASE x.req_snoop_type = "READDATA"
      BY <3>1, <3>2
    <3>3. CASE x.req_snoop_type # "READDATA"
      BY <3>1, <3>3
    <3> QED
      BY <3>2, <3>3
  <2>2. /\ l.tag = x.req_addr
        /\ IF x.req_snoop_type = "READDATA" THEN "SHARED" \in l.flags ELSE "VALID" \notin l.flags
    BY DEF DC!SnoopedFlags
  <2> HIDE DEF w, l
  <2>3. w.state \in {"Idle", "WaitResp", "WriteBus"}
    BY <1>3, <2>1 DEF DC!RestoredState
  <2>4. CASE DC!Hit(x)
    <3>1. /\ \A k : Has(w, k) => Has(x, k) \/ k = x.req_addr
          /\ \A k : Owned(w, k) => Owned(x, k) \/ (k = x.req_addr /\ "VALID" \in l.flags
                                                   /\ "SHARED" \notin l.flags)
          /\ "VALID" \notin l.flags => ~Has(w, x.req_addr)
          /\ "SHARED" \in l.flags => ~Owned(w, x.req_addr)
      BY <1>23, <2>1, <2>2, <2>4, HeldWritten
    <3>2. Has(x, x.req_addr)
      BY <2>4 DEF Has, DC!Hit
    <3>3. HeldStep(x, v)
      BY <1>h, <2>2, <3>1, <3>2 DEF HeldStep
    <3>4. IF x.req_snoop_type = "READDATA" THEN ~Owned(v, x.req_addr) ELSE ~Has(v, x.req_addr)
      BY <1>h, <2>2, <3>1
    <3> QED
      BY <1>5, <1>23, <2>3, <3>3, <3>4 DEF LineView, ShareHits
  <2>5. CASE ~DC!Hit(x)
    BY <1>5, <1>23, <2>3, <2>5 DEF LineView, ShareHits
  <2> QED
    BY <2>4, <2>5
<1> QED
  BY <1>3, <1>7, <1>8, <1>9, <1>10, <1>11, <1>12, <1>13, <1>16, <1>17, <1>18, <1>19, <1>20,
     <1>21, <1>22, <1>23 DEF DC!CacheStates

\* A store is announced until the bus has answered.
LEMMA AnnounceEdge ==
    ASSUME NEW x, NEW i, CacheShape(x), Control(x), FillHits(x), FillKnown(x), ShareHits(x),
           InSnoop(x) => ~i.mem_valid, ~(x.state = "WriteBus" /\ i.mem_valid),
           NEW l, Announced(x, l)
    PROVE  Announced(DC!ForgetCache(DC!CacheNext(x, i)), l)
<1> DEFINE p == Prepared(x, i)
           w == Worked(x, i)
           v == DC!ForgetCache(DC!CacheNext(x, i))
<1>1. CASE x.state = "TranslateAddress"
  <2>1. /\ SameCache(w, p, {"state", "req_mem_valid", "write_first", "req_mem_type",
                            "mem_addr", "cache_line_o", "cache_line_i"})
        /\ w.state = "WaitGrant"
        /\ x.write_share => w.mem_addr = DC!Line(x).tag
    BY <1>1, CacheTranslate
  <2>2. p.write_share = x.write_share
    BY PreparedIs DEF SameCache
  <2>3. /\ v.write_share = w.write_share
        /\ w.state # "Idle" => SameCache(v, w, {"snoop_addr", "req_addr_restore"})
    BY FromWorked
  <2>4. DC!Place(x) \in DC!Tagged(x, x.req_addr)
    BY <1>1, PlaceIs DEF CacheShape, ShareHits, Announced
  <2>5. DC!Line(x).tag = x.req_addr
    BY <2>4 DEF DC!Line, DC!Tagged
  <2> HIDE DEF p, w, v
  <2>6. x.write_share /\ l = x.req_addr
    BY <1>1 DEF Announced
  <2>7. v.write_share /\ v.state = "WaitGrant" /\ v.mem_addr = l
    BY <2>1, <2>2, <2>3, <2>5, <2>6 DEF SameCache
  <2> QED
    BY <2>7 DEF Announced, v
<1>2. CASE x.state = "WaitGrant"
  <2>1. /\ v.state \in {"WriteBus", "WaitResp"} /\ v.mem_addr = x.mem_addr
        /\ v.write_share = x.write_share
    BY <1>2, GrantStep
  <2> HIDE DEF v
  <2> QED
    BY <1>2, <2>1 DEF Announced, v
<1>3. CASE Waits(x) = "WriteBus" /\ ~i.mem_valid
  <2>1. Waits(v) = "WriteBus" /\ SameRequest(v, x)
    BY <1>3, WaitsOn
  <2> HIDE DEF v
  <2>2. v.state # "TranslateAddress" /\ x.state # "TranslateAddress"
    BY <1>3, <2>1 DEF Waits, InSnoop
  <2>3. Announced(v, l)
    BY <2>1, <2>2 DEF SameRequest, Announced
  <2> QED
    BY <2>3 DEF v
<1>4. x.state \in {"TranslateAddress", "WaitGrant"} \/ (Waits(x) = "WriteBus" /\ ~i.mem_valid)
  BY DEF Control, Announced, Waits, InSnoop
<1> QED
  BY <1>1, <1>2, <1>3, <1>4

-----------------------------------------------------------------------------
(* The requests of the cores and the arbiter.                              *)

\* The arbiter serves a slot that asks, a write if there is one.
LEMMA SrcAsks ==
    ASSUME NEW A
    PROVE  /\ DS!SrcAw(A) # {} => DS!Src(A) \in DS!SrcAw(A)
           /\ DS!SrcAw(A) = {} /\ DS!SrcAr(A) # {} => DS!Src(A) \in DS!SrcAr(A)
<1>1. ASSUME NEW S \in SUBSET Cores, S # {} PROVE DS!Lowest(S) \in S
  <2>1. S \in SUBSET Nat
    BY CoresAssumption
  <2>2. \E c \in S : \A k \in S : c <= k
    BY <1>1, <2>1, LeastNatural
  <2> QED
    BY <2>2 DEF DS!Lowest
<1>2. DS!SrcAw(A) \in SUBSET Cores /\ DS!SrcAr(A) \in SUBSET Cores
  BY DEF DS!SrcAw, DS!SrcAr
<1> QED
  BY <1>1, <1>2 DEF DS!Src

\* The request of the arbiter is the one of its slot c.
Served(c) ==
    /\ q.req_addr = a[c].req_addr
    /\ Uniq <=> a[c].req_snoop \in {"ReadMakeUnique", "WriteLineUnique"}
    /\ q.state \in {"CacheReadReq", "ReadMem"} => a[c].state = "r"
    /\ q.state \in {"CacheWriteReq", "WriteMem"} => a[c].state = "b"
    /\ Snooping => (a[c].state = "b" <=> "WRITE" \in q.req_type)
                   /\ ("WRITE" \in q.req_type => Uniq)

\* A core waits for the answer of the arbiter when the arbiter serves it.  A line
\* that has been read is put into the cache before the arbiter serves anybody.
BusCore(c) ==
    /\ LocalBus(d[c], a[c]) /\ ShareHits(d[c])
    /\ a[c].state \in {"r", "b"} <=> q.state # "Idle" /\ q.srcid = c
    /\ q.state # "Idle" /\ q.srcid = c => Served(c)
    /\ d[c].state = "CheckResp" => q.state = "Idle"

BusInv ==
    /\ \A c \in Cores : BusCore(c)
    /\ \A c, e \in Cores : d[c].state = "CheckResp" /\ d[e].state = "CheckResp" => c = e

\* The bus is quiet after reset.
LEMMA BusInit == Init => BusInv
<1> SUFFICES ASSUME Init PROVE BusInv
  OBVIOUS
<1>1. ASSUME NEW c \in Cores PROVE BusCore(c) /\ d[c].state = "Idle"
  <2>1. d[c] = DC!CacheReset /\ a[c] = AD!AdapterReset /\ q = DS!DstReset
    BY DEF Init
  <2>2. /\ d[c].state = "Idle" /\ ~d[c].req_mem_valid /\ ~d[c].write_first
        /\ a[c].state = "idle" /\ q.state = "Idle"
    BY <2>1 DEF DC!CacheReset, AD!AdapterReset, DS!DstReset
  <2> QED
    BY <2>2 DEF BusCore, LocalBus, Waits, InSnoop, ShareHits
<1> QED
  BY <1>1 DEF BusInv

\* One cycle of a core's request in the cluster.
LEMMA BusCores ==
    ASSUME HandInv, BusInv, NEW u, NEW done, Edge(u, done), NEW c \in Cores
    PROVE  LET i == CacheWires(u, done)[c]
               j == AdapterWires(u, done)[c]
           IN  /\ LocalBus(d'[c], a'[c])
               /\ BusView(a[c], j, a'[c])
               /\ LineView(d[c], i, d'[c])
               /\ \A l : Announced(d[c], l) /\ ~(d[c].state = "WriteBus" /\ i.mem_valid) =>
                         Announced(d'[c], l)
               /\ i.mem_valid <=> \/ a[c].state = "r" /\ q.state = "ReadMem" /\ q.srcid = c /\ done
                                  \/ a[c].state = "b" /\ q.state = "WriteMem" /\ q.srcid = c /\ done
<1> DEFINE i == CacheWires(u, done)[c]
           j == AdapterWires(u, done)[c]
<1>1. /\ Wired(d[c], a[c], i, j)
      /\ j.r_valid <=> q.state = "ReadMem" /\ q.srcid = c /\ done
      /\ j.b_valid <=> q.state = "WriteMem" /\ q.srcid = c /\ done
      /\ j.req_mem_valid = d[c].req_mem_valid
      /\ j.req_mem_type = d[c].req_mem_type
      /\ j.req_mem_addr = d[c].mem_addr
  BY WireFacts
<1>2. /\ LocalShape(d[c], a[c]) /\ LocalHand(d[c], a[c]) /\ (DataPhase(a[c]) <=> Cd(c))
      /\ LocalBus(d[c], a[c]) /\ ShareHits(d[c]) /\ FillKnown(d[c])
  BY DEF HandInv, HandCore, BusInv, BusCore
<1>3. /\ d'[c] = DC!ForgetCache(DC!CacheNext(d[c], i))
      /\ a'[c] = AD!ForgetAdapter(AD!AdapterNext(a[c], j))
  BY EdgeIs
<1>4. CacheShape(d[c]) /\ Control(d[c]) /\ FillHits(d[c]) /\ FillKnown(d[c])
  BY <1>2 DEF LocalShape
<1> HIDE DEF i, j
<1>5. i.mem_valid <=> \/ a[c].state = "r" /\ q.state = "ReadMem" /\ q.srcid = c /\ done
                      \/ a[c].state = "b" /\ q.state = "WriteMem" /\ q.srcid = c /\ done
  BY <1>1 DEF Wired, AD!RespMemValid
<1>6. InSnoop(d[c]) => ~i.mem_valid
  BY <1>2, <1>5 DEF LocalHand, DataPhase, Cd
<1>7. WiredBus(d[c], j)
  BY <1>1 DEF WiredBus
<1>8. LocalBus(d'[c], a'[c])
  BY <1>1, <1>2, <1>3, <1>6, <1>7, BusStep
<1>9. BusView(a[c], j, a'[c])
  BY <1>2, <1>3, AdapterEdge DEF LocalShape, LocalHand
<1>10. LineView(d[c], i, d'[c])
  BY <1>3, <1>4, LineEdge
<1>11. ASSUME NEW l, Announced(d[c], l), ~(d[c].state = "WriteBus" /\ i.mem_valid)
       PROVE  Announced(d'[c], l)
  BY <1>2, <1>3, <1>4, <1>6, <1>11, AnnounceEdge
<1> QED
  BY <1>5, <1>8, <1>9, <1>10, <1>11 DEF i, j

\* The arbiter keeps a request until it is answered.
LEMMA DstKeeps ==
    ASSUME HandInv, NEW u, NEW done, Edge(u, done), q.state # "Idle",
           ~(q.state \in {"ReadMem", "WriteMem"} /\ done)
    PROVE  /\ q'.state # "Idle" /\ q'.srcid = q.srcid /\ q'.req_addr = q.req_addr
           /\ Uniq' <=> Uniq
           /\ q'.state \in {"CacheReadReq", "ReadMem"} =>
                 \/ q.state \in {"CacheReadReq", "ReadMem"}
                 \/ Snooping /\ "WRITE" \notin q.req_type
           /\ q'.state \in {"CacheWriteReq", "WriteMem"} =>
                 \/ q.state \in {"CacheWriteReq", "WriteMem"}
                 \/ Snooping /\ "WRITE" \in q.req_type
           /\ Snooping' => Snooping /\ q'.req_type = q.req_type
           /\ q'.state = "snoop_cr" <=> q.state = "snoop_ac"
           /\ q'.state # "snoop_ac"
<1> DEFINE t == Answered(u, done)
<1>1. DstShape(q) /\ DstView(q, a, t, done, q')
  BY HandArbiter DEF HandInv, HandDst
<1>2. t.ac_ready = Cores /\ (q.state # "snoop_ac" => t.cr_valid = Cores)
  BY AnswerFacts
<1> HIDE DEF t
<1>3. /\ q.state = "snoop_ac" => q.ac_valid \subseteq t.ac_ready
      /\ q.state = "snoop_cr" => q.cr_ready \subseteq t.cr_valid
  BY <1>2 DEF HandInv, HandDst
<1>4. CASE q.state \in {"CacheReadReq", "CacheWriteReq", "ReadMem", "WriteMem"}
  BY <1>1, <1>4 DEF DstView, DstGoes, Uniq, Snooping
<1>5. CASE q.state = "snoop_ac"
  BY <1>1, <1>3, <1>5 DEF DstView, DstGoes, Uniq, Snooping
<1>6. CASE q.state = "snoop_cr"
  <2>1. DstGoes(q', q, IF q'.cd_ready # {} THEN "snoop_cd" ELSE DS!CacheReq(q))
    BY <1>1, <1>3, <1>6 DEF DstView
  <2> QED
    BY <1>6, <2>1 DEF DstGoes, Uniq, Snooping, DS!CacheReq
<1>7. CASE q.state = "snoop_cd"
  <2>1. /\ q'.srcid = q.srcid /\ q'.req_addr = q.req_addr
        /\ q'.state = IF q'.cd_ready # {} THEN "snoop_cd" ELSE DS!CacheReq(q)
        /\ q'.req_type = IF q'.cd_ready # {} THEN q.req_type
                         ELSE q.req_type \cup {"WRITE", "SNOOP"}
    BY <1>1, <1>7 DEF DstView
  <2> QED
    BY <1>7, <2>1 DEF Uniq, Snooping, DS!CacheReq
<1> QED
  BY <1>1, <1>4, <1>5, <1>6, <1>7 DEF DstShape, DS!DstStates

\* A cycle keeps the requests of the cores and of the arbiter together.
LEMMA BusKept == ASSUME HandInv, BusInv, [Next]_vars PROVE BusInv'
<1>1. CASE UNCHANGED vars
  BY <1>1 DEF vars, BusInv, BusCore, Served, Uniq, Snooping
<1>2. CASE Next
  <2>1. PICK u \in Choices, done \in Done : Edge(u, done)
    BY <1>2 DEF Next
  <2> DEFINE t == Answered(u, done)
             j(c) == AdapterWires(u, done)[c]
             i(c) == CacheWires(u, done)[c]
  <2>2. DstShape(q) /\ DstShape(q') /\ DstView(q, a, t, done, q')
    BY <2>1, HandArbiter DEF HandInv, HandDst
  <2>3. ASSUME NEW c \in Cores
        PROVE  /\ LocalBus(d'[c], a'[c]) /\ LocalBus(d[c], a[c]) /\ ShareHits(d'[c])
               /\ BusView(a[c], j(c), a'[c])
               /\ d'[c].state = "CheckResp" => d[c].state = "WaitResp" /\ i(c).mem_valid
               /\ i(c).mem_valid => q.state \in {"ReadMem", "WriteMem"} /\ q.srcid = c /\ done
               /\ j(c).ar_ready <=> DS!Granted(q, a, c) /\ DS!SrcAw(a) = {}
               /\ j(c).aw_ready <=> DS!Granted(q, a, c) /\ DS!SrcAw(a) # {}
               /\ j(c).r_valid <=> q.state = "ReadMem" /\ q.srcid = c /\ done
               /\ j(c).b_valid <=> q.state = "WriteMem" /\ q.srcid = c /\ done
               /\ a[c].state \in AD!BusStates
    <3>1. /\ LocalBus(d'[c], a'[c]) /\ BusView(a[c], j(c), a'[c])
          /\ LineView(d[c], i(c), d'[c])
          /\ i(c).mem_valid => q.state \in {"ReadMem", "WriteMem"} /\ q.srcid = c /\ done
      BY <2>1, BusCores
    <3>2. /\ j(c).ar_ready <=> DS!Granted(q, a, c) /\ DS!SrcAw(a) = {}
          /\ j(c).aw_ready <=> DS!Granted(q, a, c) /\ DS!SrcAw(a) # {}
          /\ j(c).r_valid <=> q.state = "ReadMem" /\ q.srcid = c /\ done
          /\ j(c).b_valid <=> q.state = "WriteMem" /\ q.srcid = c /\ done
      BY WireFacts
    <3>3. LocalBus(d[c], a[c]) /\ a[c].state \in AD!BusStates
      BY DEF BusInv, BusCore, HandInv, HandCore, LocalShape
    <3> HIDE DEF i, j
    <3> QED
      BY <3>1, <3>2, <3>3 DEF LineView
  <2> HIDE DEF i, j, t
  <2>5. ASSUME NEW c \in Cores, q.state = "Idle" PROVE BusCore(c)'
    <3>1. a[c].state \notin {"r", "b"} /\ d'[c].state # "CheckResp"
      BY <2>3, <2>5 DEF BusInv, BusCore
    <3>2. CASE DS!SrcAw(a) # {}
      <4> DEFINE s == DS!Src(a)
      <4>1. s \in Cores /\ a[s].state = "aw"
        BY <3>2, SrcAsks DEF DS!SrcAw
      <4>2. j(c).aw_ready <=> c = s
        BY <2>3, <2>5, <3>2 DEF DS!Granted
      <4>3. ~j(c).ar_ready
        BY <2>3, <3>2
      <4>4. IF a[s].req_snoop = "WriteLineUnique"
            THEN Granted(q', a, s, {"WRITE", "UNIQUE"}, "snoop_ac")
            ELSE Granted(q', a, s, {"WRITE"}, "CacheWriteReq")
        BY <2>2, <2>5, <3>2 DEF DstView
      <4> HIDE DEF s
      <4>5. CASE c = s
        <5>1. BusGoes(a'[c], a[c], "b")
          BY <2>3, <4>1, <4>2, <4>5 DEF BusView
        <5>2. a[c].req_snoop \in {"WriteBack", "WriteLineUnique"}
          BY <2>3, <4>1, <4>5 DEF LocalBus, AD!IsWrite
        <5>3. /\ q'.srcid = c /\ q'.req_addr = a[c].req_addr
              /\ q'.state \in {"snoop_ac", "CacheWriteReq"} /\ "WRITE" \in q'.req_type
              /\ "UNIQUE" \in q'.req_type <=> a[c].req_snoop = "WriteLineUnique"
              /\ q'.state = "snoop_ac" => "UNIQUE" \in q'.req_type
          BY <4>4, <4>5 DEF Granted
        <5> QED
          BY <2>3, <3>1, <5>1, <5>2, <5>3 DEF BusCore, Served, Uniq, Snooping, BusGoes
      <4>6. CASE c # s
        <5>1. a'[c].state \notin {"r", "b"}
          BY <2>3, <3>1, <4>2, <4>3, <4>6 DEF BusView, BusGoes, AD!BusStates
        <5>2. q'.srcid # c
          BY <4>4, <4>6 DEF Granted
        <5> QED
          BY <2>3, <3>1, <5>1, <5>2 DEF BusCore
      <4> QED
        BY <4>5, <4>6
    <3>3. CASE DS!SrcAw(a) = {} /\ DS!SrcAr(a) # {}
      <4> DEFINE s == DS!Src(a)
                 r == IF a[s].req_snoop = "ReadMakeUnique" THEN {"UNIQUE"} ELSE {}
      <4>1. s \in Cores /\ a[s].state = "ar"
        BY <3>3, SrcAsks DEF DS!SrcAr
      <4>2. j(c).ar_ready <=> c = s
        BY <2>3, <2>5, <3>3 DEF DS!Granted
      <4>3. ~j(c).aw_ready
        BY <2>3, <3>3
      <4>4. Granted(q', a, s, r, "snoop_ac")
        BY <2>2, <2>5, <3>3 DEF DstView
      <4> HIDE DEF s
      <4>5. CASE c = s
        <5>1. BusGoes(a'[c], a[c], "r")
          BY <2>3, <4>1, <4>2, <4>5 DEF BusView
        <5>2. a[c].req_snoop \in {"ReadShared", "ReadMakeUnique"}
          BY <2>3, <4>1, <4>5 DEF LocalBus, DC!FillType
        <5>3. /\ q'.srcid = c /\ q'.req_addr = a[c].req_addr
              /\ q'.state = "snoop_ac" /\ "WRITE" \notin q'.req_type
              /\ "UNIQUE" \in q'.req_type <=> a[c].req_snoop = "ReadMakeUnique"
          BY <4>4, <4>5 DEF Granted
        <5> QED
          BY <2>3, <3>1, <5>1, <5>2, <5>3 DEF BusCore, Served, Uniq, Snooping, BusGoes
      <4>6. CASE c # s
        <5>1. a'[c].state \notin {"r", "b"}
          BY <2>3, <3>1, <4>2, <4>3, <4>6 DEF BusView, BusGoes, AD!BusStates
        <5>2. q'.srcid # c
          BY <4>4, <4>6 DEF Granted
        <5> QED
          BY <2>3, <3>1, <5>1, <5>2 DEF BusCore
      <4> QED
        BY <4>5, <4>6
    <3>4. CASE DS!SrcAw(a) = {} /\ DS!SrcAr(a) = {}
      <4>1. q'.state = "Idle"
        BY <2>2, <2>5, <3>4 DEF DstView
      <4>2. a[c].state \notin {"ar", "aw"}
        BY <3>4 DEF DS!SrcAw, DS!SrcAr
      <4>3. a'[c].state \notin {"r", "b"}
        BY <2>3, <3>1, <4>2 DEF BusView, BusGoes, AD!BusStates
      <4> QED
        BY <2>3, <3>1, <4>1, <4>3 DEF BusCore
    <3> QED
      BY <3>2, <3>3, <3>4
  <2>6. ASSUME NEW c \in Cores, q.state \in {"ReadMem", "WriteMem"}, done PROVE BusCore(c)'
    <3>1. q'.state = "Idle"
      BY <2>2, <2>6 DEF DstView
    <3>2. ~j(c).ar_ready /\ ~j(c).aw_ready
      BY <2>3, <2>6 DEF DS!Granted
    <3>3. CASE q.srcid = c
      <4>1. /\ q.state = "ReadMem" => a[c].state = "r" /\ j(c).r_valid
            /\ q.state = "WriteMem" => a[c].state = "b" /\ j(c).b_valid
        BY <2>3, <2>6, <3>3 DEF BusInv, BusCore, Served
      <4>2. a'[c].state = "idle"
        BY <2>3, <2>6, <4>1 DEF BusView
      <4> QED
        BY <2>3, <3>1, <4>2 DEF BusCore
    <3>4. CASE q.srcid # c
      <4>1. a[c].state \notin {"r", "b"}
        BY <3>4 DEF BusInv, BusCore
      <4>2. a'[c].state \notin {"r", "b"}
        BY <2>3, <3>2, <4>1 DEF BusView, BusGoes, AD!BusStates
      <4> QED
        BY <2>3, <3>1, <4>2 DEF BusCore
    <3> QED
      BY <3>3, <3>4
  <2>7. ASSUME q.state # "Idle", ~(q.state \in {"ReadMem", "WriteMem"} /\ done)
        PROVE  /\ q'.state # "Idle" /\ q'.srcid = q.srcid /\ q'.req_addr = q.req_addr
               /\ Uniq' <=> Uniq
               /\ q'.state \in {"CacheReadReq", "ReadMem"} =>
                     \/ q.state \in {"CacheReadReq", "ReadMem"}
                     \/ Snooping /\ "WRITE" \notin q.req_type
               /\ q'.state \in {"CacheWriteReq", "WriteMem"} =>
                     \/ q.state \in {"CacheWriteReq", "WriteMem"}
                     \/ Snooping /\ "WRITE" \in q.req_type
               /\ Snooping' => Snooping /\ q'.req_type = q.req_type
    BY <2>1, <2>7, DstKeeps
  <2>8. ASSUME NEW c \in Cores, q.state # "Idle", ~(q.state \in {"ReadMem", "WriteMem"} /\ done)
        PROVE  BusCore(c)'
    <3>1. /\ ~j(c).ar_ready /\ ~j(c).aw_ready /\ ~j(c).r_valid /\ ~j(c).b_valid
          /\ d'[c].state # "CheckResp"
      BY <2>3, <2>8 DEF DS!Granted
    <3>2. CASE q.srcid = c
      <4>1. a[c].state \in {"r", "b"} /\ Served(c)
        BY <2>8, <3>2 DEF BusInv, BusCore
      <4>2. BusGoes(a'[c], a[c], a[c].state)
        BY <2>3, <3>1, <4>1 DEF BusView
      <4>3. Served(c)'
        BY <2>7, <2>8, <4>1, <4>2 DEF Served, BusGoes, Snooping, Uniq
      <4> QED
        BY <2>3, <2>7, <2>8, <3>1, <3>2, <4>1, <4>2, <4>3 DEF BusCore, BusGoes
    <3>3. CASE q.srcid # c
      <4>1. a[c].state \notin {"r", "b"}
        BY <3>3 DEF BusInv, BusCore
      <4>2. a'[c].state \notin {"r", "b"}
        BY <2>3, <3>1, <4>1 DEF BusView, BusGoes, AD!BusStates
      <4> QED
        BY <2>3, <2>7, <2>8, <3>1, <3>3, <4>2 DEF BusCore
    <3> QED
      BY <3>2, <3>3
  <2>9. \A c, e \in Cores : d'[c].state = "CheckResp" /\ d'[e].state = "CheckResp" => c = e
    BY <2>3
  <2> QED
    BY <2>5, <2>6, <2>8, <2>9 DEF BusInv
<1> QED
  BY <1>1, <1>2

-----------------------------------------------------------------------------
(* Up to the first race a snoop finds the cache and the adapter it is for. *)

\* What the snoop of the arbiter does to the line.
Snooped == IF Uniq THEN "READCLEAN" ELSE "READDATA"

\* The snoop an adapter and its cache work on is the one of the arbiter.
SnoopCore(c) ==
    /\ a[c].snoop_state = "snoop_cr" <=> q.state = "snoop_cr" /\ c # q.srcid
    /\ a[c].snoop_state \in {"snoop_idle", "snoop_cr"} \/ DataPhase(a[c])
    /\ a[c].snoop_state # "snoop_idle" =>
          a[c].ac_addr = q.req_addr /\ (a[c].ac_unique <=> Uniq)
    /\ a[c].snoop_state = "snoop_cr" => d[c].snoop_addr = q.req_addr
    /\ DataPhase(a[c]) => a[c].req_snoop_type = Snooped
    /\ InSnoop(d[c]) => d[c].req_addr = q.req_addr /\ d[c].req_snoop_type = Snooped

SnoopInv == races = {} => \A c \in Cores : SnoopCore(c)

\* A cycle without a race.
LEMMA NoRace ==
    ASSUME NEW u, NEW done, Edge(u, done), races' = {}
    PROVE  /\ races = {}
           /\ \A c \in Cores :
                 /\ AdapterWires(u, done)[c].ac.valid =>
                       /\ a[c].snoop_state = "snoop_idle"
                       /\ AdapterWires(u, done)[c].snoop_ready
                 /\ d[c].state = "SnoopReadData" => DC!Hit(d[c])
<1> DEFINE m == M(done)
           j == AdapterWires(u, done)
<1>1. races' = RacesNext(m, j)
  BY EdgeIs
<1>2. \A c \in Cores : m[c].ac = j[c].ac
  BY WireFacts
<1> HIDE DEF m, j
<1>3. races = {} /\ ~Collision(m, j) /\ ~Flushed(m)
  BY <1>1 DEF RacesNext
<1>4. ASSUME NEW c \in Cores
      PROVE  /\ j[c].ac.valid => a[c].snoop_state = "snoop_idle" /\ j[c].snoop_ready
             /\ d[c].state = "SnoopReadData" => DC!Hit(d[c])
  <2>1. j[c].ac.valid => AD!TakesSnoop(a[c], m[c].ac) /\ j[c].snoop_ready
    BY <1>2, <1>3 DEF Collision
  <2>2. d[c].state = "SnoopReadData" => DC!Hit(d[c])
    BY <1>3 DEF Flushed
  <2> QED
    BY <2>1, <2>2 DEF AD!TakesSnoop
<1> QED
  BY <1>3, <1>4 DEF j

\* The handshake after reset.
LEMMA SnoopInit == Init => SnoopInv
<1> SUFFICES ASSUME Init, NEW c \in Cores PROVE SnoopCore(c)
  BY DEF SnoopInv
<1>1. d[c] = DC!CacheReset /\ a[c] = AD!AdapterReset /\ q = DS!DstReset
  BY DEF Init
<1>2. d[c].state = "Idle" /\ a[c].snoop_state = "snoop_idle" /\ q.state = "Idle"
  BY <1>1 DEF DC!CacheReset, AD!AdapterReset, DS!DstReset
<1> QED
  BY <1>2 DEF SnoopCore, DataPhase, InSnoop

\* A cycle keeps it.
LEMMA SnoopKept ==
    ASSUME HandInv, BusInv, SnoopInv, [Next]_vars PROVE SnoopInv'
<1>1. CASE UNCHANGED vars
  BY <1>1 DEF vars, SnoopInv, SnoopCore, Uniq, Snooped
<1>2. CASE Next
  <2> SUFFICES ASSUME races' = {}, NEW c \in Cores PROVE SnoopCore(c)'
    BY DEF SnoopInv
  <2>1. PICK u \in Choices, done \in Done : Edge(u, done)
    BY <1>2 DEF Next
  <2> DEFINE i == CacheWires(u, done)[c]
             j == AdapterWires(u, done)[c]
             x == d[c]
             y == a[c]
             v == d'[c]
             z == a'[c]
  <2>2. /\ races = {}
        /\ j.ac.valid => y.snoop_state = "snoop_idle" /\ j.snoop_ready
    BY <2>1, NoRace
  <2>3. /\ SnoopCore(c) /\ LocalShape(x, y) /\ LocalHand(x, y) /\ (DataPhase(y) <=> Cd(c))
        /\ FillKnown(x)
    BY <2>2 DEF SnoopInv, HandInv, HandCore
  <2>4. /\ i.snoop = AD!SnoopReq(y, j.ac)
        /\ j.resp_valid <=> DC!SnoopRespValid(x)
        /\ j.ac.valid <=> q.state = "snoop_ac" /\ c \in q.ac_valid
        /\ j.ac.addr = q.req_addr /\ (j.ac.unique <=> Uniq)
        /\ j.cr_ready <=> q.state = "snoop_cr" /\ c \in q.cr_ready
        /\ j.cd_ready <=> q.state = "snoop_cd" /\ c \in q.cd_ready
    BY WireFacts DEF Wired
  <2>5. /\ v = DC!ForgetCache(DC!CacheNext(x, i))
        /\ z = AD!ForgetAdapter(AD!AdapterNext(y, j))
    BY <2>1, EdgeIs
  <2>6. LocalHand(v, z)
    BY <2>1, HandCores
  <2>7. LineView(x, i, v)
    BY <2>1, BusCores
  <2>8. AckView(y, j, z)
    BY <2>3, <2>5, AdapterEdge DEF LocalShape, LocalHand
  <2>9. v.snoop_flags_valid => v.snoop_addr = i.snoop.addr
    BY <2>3, <2>5, SnoopEdge DEF LocalShape
  <2>10. /\ q.state = "snoop_ac" => q.ac_valid = Cores \ {q.srcid}
         /\ q.state = "snoop_cr" => q.cr_ready = Cores \ {q.srcid}
    BY DEF HandInv, HandDst
  <2>11. q.state = "Idle" => q'.state # "snoop_cr"
    <3>1. DstView(q, a, Answered(u, done), done, q')
      BY <2>1, HandArbiter
    <3> QED
      BY <3>1 DEF DstView, Granted
  <2>12. q.state \in {"ReadMem", "WriteMem"} /\ done => q'.state = "Idle"
    <3>1. DstView(q, a, Answered(u, done), done, q')
      BY <2>1, HandArbiter
    <3> QED
      BY <3>1 DEF DstView
  <2>13. q.state # "Idle" /\ ~(q.state \in {"ReadMem", "WriteMem"} /\ done) =>
            /\ q'.srcid = q.srcid /\ q'.req_addr = q.req_addr
            /\ Uniq' <=> Uniq
            /\ q'.state = "snoop_cr" <=> q.state = "snoop_ac"
    BY <2>1, DstKeeps
  <2>14. Snooping => /\ q'.srcid = q.srcid /\ q'.req_addr = q.req_addr
                     /\ Uniq' <=> Uniq
                     /\ Snooped' = Snooped
    BY <2>13 DEF Snooping, Snooped
  <2>15. q'.state = "snoop_cr" <=> q.state = "snoop_ac"
    BY <2>11, <2>12, <2>13
  <2> HIDE DEF i, j, v, z
  <2>16. SnoopCore(c)' = (/\ z.snoop_state = "snoop_cr" <=> q'.state = "snoop_cr" /\ c # q'.srcid
                          /\ z.snoop_state \in {"snoop_idle", "snoop_cr"} \/ DataPhase(z)
                          /\ z.snoop_state # "snoop_idle" =>
                                z.ac_addr = q'.req_addr /\ (z.ac_unique <=> Uniq')
                          /\ z.snoop_state = "snoop_cr" => v.snoop_addr = q'.req_addr
                          /\ DataPhase(z) => z.req_snoop_type = Snooped'
                          /\ InSnoop(v) => v.req_addr = q'.req_addr /\ v.req_snoop_type = Snooped')
    BY DEF SnoopCore, v, z
  <2>17. CASE y.snoop_state = "snoop_idle"
    <3>1. q.state # "snoop_cr" \/ c = q.srcid
      BY <2>3, <2>17 DEF SnoopCore
    <3>2. CASE j.ac.valid
      <4>1. q.state = "snoop_ac" /\ c # q.srcid
        BY <2>4, <2>10, <3>2
      <4>2. z.snoop_state = "snoop_cr" /\ z.ac_addr = q.req_addr /\ (z.ac_unique <=> Uniq)
        BY <2>2, <2>4, <2>8, <2>17, <3>2 DEF AckView
      <4>3. i.snoop.addr = q.req_addr
        BY <2>4, <2>17, <3>2 DEF AD!SnoopReq, AD!TakesSnoop
      <4>4. v.snoop_addr = q.req_addr /\ ~InSnoop(v) /\ ~DataPhase(z)
        BY <2>6, <2>9, <4>2, <4>3 DEF LocalHand, DataPhase
      <4> QED
        BY <2>14, <2>15, <2>16, <4>1, <4>2, <4>4 DEF Snooping
    <3>3. CASE ~j.ac.valid
      <4>1. z.snoop_state = "snoop_idle"
        BY <2>8, <2>17, <3>3 DEF AckView
      <4>2. ~InSnoop(v) /\ ~DataPhase(z)
        BY <2>6, <4>1 DEF LocalHand, DataPhase
      <4>3. ~(q'.state = "snoop_cr" /\ c # q'.srcid)
        BY <2>4, <2>10, <2>14, <2>15, <3>3 DEF Snooping
      <4> QED
        BY <2>16, <4>1, <4>2, <4>3
    <3> QED
      BY <3>2, <3>3
  <2>18. CASE y.snoop_state = "snoop_cr"
    <3>1. q.state = "snoop_cr" /\ c # q.srcid /\ y.ac_addr = q.req_addr /\ (y.ac_unique <=> Uniq)
      BY <2>3, <2>18 DEF SnoopCore
    <3>2. j.cr_ready /\ j.resp_valid
      BY <2>3, <2>4, <2>10, <2>18, <3>1 DEF LocalHand, DC!SnoopRespValid
    <3>3. /\ z.snoop_state \in {"snoop_ac_wait_accept", "snoop_idle"}
          /\ z.snoop_state # "snoop_idle" =>
                /\ z.ac_addr = y.ac_addr /\ z.ac_unique = y.ac_unique /\ z.cache_access
                /\ z.req_snoop_type = IF y.ac_unique THEN "READCLEAN" ELSE "READDATA"
      BY <2>8, <2>18, <3>2 DEF AckView
    <3>4. ~InSnoop(v) /\ q'.state # "snoop_cr"
      BY <2>6, <2>15, <3>1, <3>3 DEF LocalHand
    <3>5. z.snoop_state # "snoop_idle" =>
             /\ z.ac_addr = q'.req_addr /\ (z.ac_unique <=> Uniq')
             /\ DataPhase(z) /\ z.req_snoop_type = Snooped'
      BY <2>14, <3>1, <3>3 DEF Snooping, Snooped, DataPhase
    <3>6. z.snoop_state # "snoop_cr" /\ (z.snoop_state = "snoop_idle" => ~DataPhase(z))
      BY <3>3 DEF DataPhase
    <3> QED
      BY <2>16, <3>4, <3>5, <3>6
  <2>19. CASE DataPhase(y)
    <3>1. q.state = "snoop_cd" /\ j.cd_ready
      BY <2>3, <2>4, <2>19 DEF Cd
    <3>2. /\ y.ac_addr = q.req_addr /\ (y.ac_unique <=> Uniq) /\ y.req_snoop_type = Snooped
          /\ InSnoop(x) => x.req_addr = q.req_addr /\ x.req_snoop_type = Snooped
      BY <2>3, <2>19 DEF SnoopCore, DataPhase
    <3>3. \/ SnoopKeeps(z, y, "snoop_idle")
          \/ SnoopKeeps(z, y, "snoop_cd")
          \/ SnoopKeeps(z, y, "snoop_ac_wait_accept") /\ y.cache_access
      BY <2>8, <2>19, <3>1 DEF AckView, DataPhase
    <3>4. z.snoop_state # "snoop_cr" /\ (z.snoop_state = "snoop_idle" \/ DataPhase(z))
          /\ (DataPhase(z) => z.snoop_state # "snoop_idle")
      BY <3>3 DEF SnoopKeeps, DataPhase
    <3>5. z.snoop_state # "snoop_idle" =>
             /\ z.ac_addr = q'.req_addr /\ (z.ac_unique <=> Uniq')
             /\ z.req_snoop_type = Snooped'
      BY <2>14, <3>1, <3>2, <3>3 DEF SnoopKeeps, Snooping
    <3>6. ASSUME InSnoop(v) PROVE v.req_addr = q'.req_addr /\ v.req_snoop_type = Snooped'
      <4>1. CASE v.state = "SnoopReadData"
        BY <2>7, <2>14, <3>1, <3>2, <4>1 DEF LineView, InSnoop, Snooping
      <4>2. CASE v.state = "SnoopSetupAddr"
        <5>1. DC!DataSnoop(i) /\ v.req_addr = i.snoop.addr /\ v.req_snoop_type = i.snoop.type
          BY <2>7, <4>2 DEF LineView
        <5>2. i.snoop.addr = y.ac_addr /\ i.snoop.type = y.req_snoop_type
          BY <2>4, <5>1 DEF AD!SnoopReq, DC!DataSnoop
        <5> QED
          BY <2>14, <3>1, <3>2, <5>1, <5>2 DEF Snooping
      <4> QED
        BY <3>6, <4>1, <4>2 DEF InSnoop
    <3>7. q'.state # "snoop_cr"
      BY <2>15, <3>1
    <3> QED
      BY <2>16, <3>4, <3>5, <3>6, <3>7
  <2> QED
    BY <2>3, <2>17, <2>18, <2>19 DEF SnoopCore
<1> QED
  BY <1>1, <1>2

-----------------------------------------------------------------------------
(* A line that may be stored to is in one cache.                           *)

\* One cycle of the lines of core c, without a race: a line is new only after
\* CheckResp, and a snoop takes it, or the ownership, away when the data is given.
LineMoves(c, done) ==
    /\ \A l : Holds(c, l)' => \/ Holds(c, l)
                              \/ d[c].state = "CheckResp" /\ d[c].req_addr = l
    /\ \A l : Owns(c, l)' => \/ Owns(c, l) \/ Upgrading(c, l)'
                             \/ /\ d[c].state = "CheckResp" /\ d[c].req_addr = l
                                /\ DC!IsStore(d[c])
    /\ \A l : Upgrading(c, l) =>
          \/ Upgrading(c, l)'
          \/ q.state = "WriteMem" /\ q.srcid = c /\ Uniq /\ q.req_addr = l
    /\ Cd(c) => \/ Cd(c)'
                \/ \A l : l = q.req_addr => ~Owns(c, l)' /\ (Uniq => ~Holds(c, l)')
    /\ q.state = "snoop_cr" /\ c # q.srcid =>
          (Owns(c, q.req_addr) \/ (Uniq /\ Holds(c, q.req_addr)) => Cd(c)')
    /\ d[c].state' = "CheckResp" =>
          /\ q.state = "ReadMem" /\ q.srcid = c
          /\ d[c].req_addr' = q.req_addr
          /\ DC!IsStore(d[c])' => Uniq

\* The cycles of the lines, from what the cache, the adapter and the arbiter do.
LEMMA LineStep ==
    ASSUME HandInv, BusInv, SnoopInv, NEW u, NEW done, Edge(u, done), races' = {}, HandInv',
           NEW c \in Cores
    PROVE  LineMoves(c, done)
<1> DEFINE i == CacheWires(u, done)[c]
           j == AdapterWires(u, done)[c]
           x == d[c]
           y == a[c]
           v == d'[c]
           z == a'[c]
<1>1. races = {} /\ (x.state = "SnoopReadData" => DC!Hit(x))
  BY NoRace
<1>2. /\ SnoopCore(c) /\ LocalShape(x, y) /\ LocalHand(x, y) /\ (DataPhase(y) <=> Cd(c))
      /\ BusCore(c) /\ LocalBus(x, y) /\ FillKnown(x)
      /\ DataPhase(z) <=> Cd(c)'
  BY <1>1 DEF SnoopInv, HandInv, HandCore, BusInv, BusCore
<1>3. /\ v = DC!ForgetCache(DC!CacheNext(x, i))
      /\ j.resp_valid <=> DC!SnoopRespValid(x)
      /\ j.resp_flags = DC!SnoopFlags(x)
  <2>1. v = DC!ForgetCache(DC!CacheNext(x, i))
    BY EdgeIs
  <2>2. Wired(x, y, i, j)
    BY WireFacts
  <2> QED
    BY <2>1, <2>2 DEF Wired
<1>4. /\ LineView(x, i, v)
      /\ \A l : Announced(x, l) /\ ~(x.state = "WriteBus" /\ i.mem_valid) => Announced(v, l)
      /\ i.mem_valid <=> \/ y.state = "r" /\ q.state = "ReadMem" /\ q.srcid = c /\ done
                         \/ y.state = "b" /\ q.state = "WriteMem" /\ q.srcid = c /\ done
  BY BusCores
<1>5. /\ DataPhase(z) <=> \/ Cd(c) /\ ~AD!CdValid(y, j)
                          \/ AD!CrData(y, j) /\ q.state = "snoop_cr" /\ c \in q.cr_ready
  BY HandCores
<1>6. CacheShape(x) /\ Control(x) /\ FillHits(x)
  BY <1>2 DEF LocalShape
<1>7. \A l : /\ Holds(c, l) <=> Has(x, l)
             /\ Holds(c, l)' <=> Has(v, l)
             /\ Owns(c, l) <=> Owned(x, l)
             /\ Owns(c, l)' <=> Owned(v, l)
             /\ Upgrading(c, l) <=> Announced(x, l)
             /\ Upgrading(c, l)' <=> Announced(v, l)
  BY DEF Holds, Owns, Upgrading, Has, Owned, Announced
<1> HIDE DEF i, j, v, z
<1>8. HeldStep(x, v)
  BY <1>1, <1>4 DEF LineView
<1>9. /\ \A l : Holds(c, l)' => Holds(c, l) \/ (x.state = "CheckResp" /\ x.req_addr = l)
      /\ \A l : Owns(c, l)' => \/ Owns(c, l) \/ Upgrading(c, l)'
                               \/ x.state = "CheckResp" /\ x.req_addr = l /\ DC!IsStore(x)
  BY <1>7, <1>8 DEF HeldStep
<1>10. ASSUME NEW l, Announced(x, l), ~Announced(v, l)
       PROVE  q.state = "WriteMem" /\ q.srcid = c /\ Uniq /\ q.req_addr = l
  <2>1. x.state = "WriteBus" /\ i.mem_valid /\ x.write_share /\ x.mem_addr = l
    BY <1>4, <1>10 DEF Announced
  <2>2. Waits(x) = "WriteBus" /\ x.req_mem_type = "WriteLineUnique" /\ y.state \in {"aw", "b"}
    BY <1>2, <2>1 DEF Waits, InSnoop, LocalBus
  <2>3. /\ y.state = "b" /\ q.state = "WriteMem" /\ q.srcid = c
        /\ y.req_snoop = "WriteLineUnique" /\ y.req_addr = l
    BY <1>2, <1>4, <2>1, <2>2 DEF LocalBus
  <2> QED
    BY <1>2, <2>3 DEF BusCore, Served
<1>11. ASSUME Cd(c), ~Cd(c)'
       PROVE  ~Owned(v, q.req_addr) /\ (Uniq => ~Has(v, q.req_addr))
  <2>1. AD!CdValid(y, j)
    BY <1>2, <1>5, <1>11
  <2>2. y.snoop_state = "snoop_cd" /\ j.resp_valid
    BY <1>2, <2>1 DEF AD!CdValid, LocalHand
  <2>3. InSnoop(x) /\ ~x.snoop_flags_valid
    BY <1>2, <2>2 DEF LocalHand
  <2>4. x.state = "SnoopReadData" /\ DC!Hit(x)
    BY <1>1, <1>3, <2>2, <2>3 DEF DC!SnoopRespValid
  <2>5. x.req_addr = q.req_addr /\ x.req_snoop_type = Snooped
    BY <1>2, <2>3 DEF SnoopCore
  <2>6. IF Uniq THEN ~Has(v, q.req_addr) ELSE ~Owned(v, q.req_addr)
    BY <1>4, <2>4, <2>5 DEF LineView, Snooped
  <2>7. Owned(v, q.req_addr) => Has(v, q.req_addr)
    BY DEF Owned, Has
  <2> QED
    BY <2>6, <2>7
<1>12. ASSUME q.state = "snoop_cr", c # q.srcid,
              Owned(x, q.req_addr) \/ (Uniq /\ Has(x, q.req_addr))
       PROVE  Cd(c)'
  <2>1. y.snoop_state = "snoop_cr" /\ x.snoop_addr = q.req_addr /\ (y.ac_unique <=> Uniq)
    BY <1>2, <1>12 DEF SnoopCore
  <2>2. x.snoop_flags_valid /\ j.resp_valid
    BY <1>2, <1>3, <2>1 DEF LocalHand, DC!SnoopRespValid
  <2>3. PICK P \in DC!Tagged(x, q.req_addr) : Uniq \/ "SHARED" \notin x.lines[P].flags
    BY <1>12 DEF Owned, Has
  <2>4. DC!Tagged(x, q.req_addr) = {P}
    <3>1. DC!Tagged(x, q.req_addr) = Copies(x.lines, q.req_addr)
      BY DEF DC!Tagged, Copies
    <3> QED
      BY <1>6, <2>3, <3>1 DEF CacheShape, MemShape
  <2>5. j.resp_flags = x.lines[P].flags
    BY <1>3, <2>1, <2>4 DEF DC!SnoopFlags
  <2>6. "VALID" \in x.lines[P].flags
    BY <2>3 DEF DC!Tagged
  <2>7. AD!CrData(y, j)
    BY <2>1, <2>2, <2>3, <2>5, <2>6 DEF AD!CrData, AD!MustGive
  <2>8. c \in q.cr_ready
    BY <1>12 DEF HandInv, HandDst
  <2> QED
    BY <1>2, <1>5, <1>12, <2>7, <2>8
<1>13. ASSUME v.state = "CheckResp"
       PROVE  /\ q.state = "ReadMem" /\ q.srcid = c
              /\ v.req_addr = q.req_addr
              /\ DC!IsStore(v) => Uniq
  <2>1. x.state = "WaitResp" /\ i.mem_valid
    BY <1>4, <1>13 DEF LineView
  <2>2. v.req_addr = x.req_addr /\ v.req_type = x.req_type
    BY <1>2, <1>3, <1>6, <2>1, AnswerStep
  <2>3. Waits(x) = "WaitResp" /\ y.state \in {"ar", "r"}
    BY <1>2, <2>1 DEF Waits, InSnoop, LocalBus
  <2>4. y.state = "r" /\ q.state = "ReadMem" /\ q.srcid = c
    BY <1>4, <2>1, <2>3
  <2>5. x.snoop_restore = "none"
    BY <1>6, <2>1 DEF Control
  <2>6. y.req_addr = x.req_addr /\ y.req_snoop = DC!FillType(x)
    BY <1>2, <2>3, <2>4, <2>5 DEF LocalBus, AccessAddr
  <2>7. q.req_addr = y.req_addr /\ (Uniq <=> y.req_snoop \in {"ReadMakeUnique", "WriteLineUnique"})
    BY <1>2, <2>4 DEF BusCore, Served
  <2> QED
    BY <2>2, <2>4, <2>6, <2>7 DEF DC!FillType, DC!IsStore
<1>14. Cd(c) => Cd(c)' \/ \A l : l = q.req_addr => ~Owns(c, l)' /\ (Uniq => ~Holds(c, l)')
  BY <1>7, <1>11
<1>15. q.state = "snoop_cr" /\ c # q.srcid =>
          (Owns(c, q.req_addr) \/ (Uniq /\ Holds(c, q.req_addr)) => Cd(c)')
  BY <1>7, <1>12
<1>16. \A l : Upgrading(c, l) =>
          Upgrading(c, l)' \/ (q.state = "WriteMem" /\ q.srcid = c /\ Uniq /\ q.req_addr = l)
  BY <1>7, <1>10
<1> QED
  BY <1>9, <1>13, <1>14, <1>15, <1>16 DEF LineMoves, v

\* The snoops for the request of the arbiter have been answered, but for the data
\* that is still owed.
Passed == \/ q.state \in {"snoop_cd", "CacheReadReq", "ReadMem"}
          \/ q.state \in {"CacheWriteReq", "WriteMem"} /\ Uniq

\* Two caches have a line that one of them owns only while that one announces a
\* store into it.
OwnedOnce ==
    \A l, c, e : c \in Cores /\ e \in Cores /\ c # e /\ Owns(c, l) /\ Holds(e, l)
                    => Upgrading(c, l)

\* What the others still have of the line that the arbiter serves.
OwnedPassed ==
    Passed => \A c \in Cores \ {q.srcid} : \A l : l = q.req_addr =>
                 /\ Uniq /\ Holds(c, l) => Cd(c)
                 /\ Owns(c, l) => Cd(c) \/ Upgrading(c, l)

\* What the others still have of a line that is about to enter a cache.
OwnedFill ==
    \A e \in Cores : d[e].state = "CheckResp" =>
       \A c \in Cores \ {e} : \A l : l = d[e].req_addr =>
          /\ DC!IsStore(d[e]) => ~Holds(c, l)
          /\ Owns(c, l) => Upgrading(c, l)

OwnInv == races = {} => OwnedOnce /\ OwnedPassed /\ OwnedFill

\* Nobody owns a line after reset.
LEMMA OwnInit == Init => OwnInv
<1> SUFFICES ASSUME Init PROVE OwnInv
  OBVIOUS
<1>1. ASSUME NEW c \in Cores
      PROVE  d[c].state = "Idle" /\ \A P \in DC!Places : d[c].lines[P].flags = {}
  <2>1. d[c] = DC!CacheReset
    BY DEF Init
  <2> QED
    BY <2>1 DEF DC!CacheReset
<1>2. q.state = "Idle"
  BY DEF Init, DS!DstReset
<1>3. \A c \in Cores : \A l : DC!Tagged(d[c], l) = {}
  BY <1>1 DEF DC!Tagged
<1>4. \A c \in Cores : \A l : ~Holds(c, l) /\ ~Owns(c, l)
  BY <1>3 DEF Holds, Owns
<1> QED
  BY <1>1, <1>2, <1>4 DEF OwnInv, OwnedOnce, OwnedPassed, OwnedFill, Passed

\* A cycle keeps it.
LEMMA OwnKept ==
    ASSUME HandInv, BusInv, SnoopInv, OwnInv, [Next]_vars, HandInv', BusInv' PROVE OwnInv'
<1>1. CASE UNCHANGED vars
  <2>1. d' = d /\ q' = q /\ races' = races
    BY <1>1 DEF vars
  <2>2. ASSUME NEW c, NEW l
        PROVE  /\ Holds(c, l)' <=> Holds(c, l)
               /\ Owns(c, l)' <=> Owns(c, l)
               /\ Upgrading(c, l)' <=> Upgrading(c, l)
    BY <2>1 DEF Holds, Owns, Upgrading, DC!Tagged
  <2>3. /\ Passed' <=> Passed
        /\ Uniq' <=> Uniq
        /\ \A c : Cd(c)' <=> Cd(c)
    BY <2>1 DEF Passed, Uniq, Cd
  <2>4. OwnedOnce' <=> OwnedOnce
    BY <2>2 DEF OwnedOnce
  <2>5. OwnedPassed' <=> OwnedPassed
    BY <2>1, <2>2, <2>3 DEF OwnedPassed
  <2>6. OwnedFill' <=> OwnedFill
    BY <2>1, <2>2 DEF OwnedFill
  <2> QED
    BY <2>1, <2>4, <2>5, <2>6 DEF OwnInv
<1>2. CASE Next
  <2> SUFFICES ASSUME races' = {}
               PROVE  (OwnedOnce /\ OwnedPassed /\ OwnedFill)'
    BY DEF OwnInv
  <2>1. PICK u \in Choices, done \in Done : Edge(u, done)
    BY <1>2 DEF Next
  <2>2. races = {}
    BY <2>1, NoRace
  <2>3. OwnedOnce /\ OwnedPassed /\ OwnedFill
    BY <2>2 DEF OwnInv
  <2>4. \A c \in Cores : LineMoves(c, done)
    BY <2>1, LineStep
  <2>5. /\ \A c \in Cores : d[c].state = "CheckResp" => q.state = "Idle"
        /\ \A c, e \in Cores : d[c].state = "CheckResp" /\ d[e].state = "CheckResp" => c = e
    BY DEF BusInv, BusCore
  <2>6. \A c \in Cores : Cd(c) => q.state = "snoop_cd"
    BY DEF Cd
  <2>7. OwnedOnce'
    <3> SUFFICES ASSUME NEW l, NEW c \in Cores, NEW e \in Cores, c # e,
                        Owns(c, l)', Holds(e, l)', ~Upgrading(c, l)'
                 PROVE  FALSE
      BY DEF OwnedOnce
    <3>1. /\ \/ Owns(c, l)
             \/ d[c].state = "CheckResp" /\ d[c].req_addr = l /\ DC!IsStore(d[c])
          /\ Holds(e, l) \/ (d[e].state = "CheckResp" /\ d[e].req_addr = l)
          /\ Upgrading(c, l) => q.state = "WriteMem" /\ q.srcid = c /\ Uniq /\ q.req_addr = l
      BY <2>4 DEF LineMoves
    <3>2. CASE d[c].state = "CheckResp" /\ d[c].req_addr = l /\ DC!IsStore(d[c])
      BY <2>3, <2>5, <3>1, <3>2 DEF OwnedFill
    <3>3. CASE Owns(c, l) /\ Holds(e, l)
      <4>1. q.state = "WriteMem" /\ q.srcid = c /\ Uniq /\ q.req_addr = l
        BY <2>3, <3>1, <3>3 DEF OwnedOnce
      <4>2. Cd(e)
        BY <2>3, <3>3, <4>1 DEF OwnedPassed, Passed
      <4> QED
        BY <2>6, <4>1, <4>2
    <3>4. CASE Owns(c, l) /\ d[e].state = "CheckResp" /\ d[e].req_addr = l
      BY <2>3, <2>5, <3>1, <3>4 DEF OwnedFill
    <3> QED
      BY <3>1, <3>2, <3>3, <3>4
  <2>8. OwnedPassed'
    <3> SUFFICES ASSUME Passed', NEW c \in Cores \ {q'.srcid}, NEW l, l = q'.req_addr
                 PROVE  /\ Uniq' /\ Holds(c, l)' => Cd(c)'
                        /\ Owns(c, l)' => Cd(c)' \/ Upgrading(c, l)'
      BY DEF OwnedPassed
    <3>1. /\ q.state # "Idle" /\ ~(q.state \in {"ReadMem", "WriteMem"} /\ done)
          /\ q.state \in DS!DstStates
      <4>1. DstShape(q) /\ DstView(q, a, Answered(u, done), done, q')
        BY <2>1, HandArbiter DEF HandInv, HandDst
      <4>2. q.state = "Idle" =>
               \/ q'.state \in {"Idle", "snoop_ac"}
               \/ q'.state = "CacheWriteReq" /\ q'.req_type = {"WRITE"}
        BY <4>1 DEF DstView, Granted
      <4>3. q.state \in {"ReadMem", "WriteMem"} /\ done => q'.state = "Idle"
        BY <4>1 DEF DstView
      <4> QED
        BY <4>1, <4>2, <4>3 DEF Passed, Uniq, DstShape
    <3>2. /\ q'.srcid = q.srcid /\ q'.req_addr = q.req_addr
          /\ Uniq' <=> Uniq
          /\ q'.state \in {"CacheReadReq", "ReadMem"} =>
                q.state \in {"CacheReadReq", "ReadMem"} \/ Snooping
          /\ Snooping' => Snooping
          /\ q'.state = "snoop_cr" <=> q.state = "snoop_ac"
      BY <2>1, <3>1, DstKeeps
    <3>3. Passed \/ q.state = "snoop_cr"
      BY <3>1, <3>2 DEF Passed, Snooping, DS!DstStates
    <3>4. c # q.srcid /\ l = q.req_addr
      BY <3>2
    <3>5. LineMoves(c, done) /\ d[c].state # "CheckResp"
      BY <2>4, <2>5, <3>1
    <3>6. /\ Holds(c, l)' => Holds(c, l)
          /\ Owns(c, l)' => Owns(c, l) \/ Upgrading(c, l)'
          /\ Upgrading(c, l) => Upgrading(c, l)'
      BY <3>4, <3>5 DEF LineMoves
    <3>7. CASE q.state = "snoop_cr"
      BY <3>2, <3>4, <3>5, <3>6, <3>7 DEF LineMoves
    <3>8. CASE Passed
      <4>1. /\ Uniq /\ Holds(c, l) => Cd(c)
            /\ Owns(c, l) => Cd(c) \/ Upgrading(c, l)
        BY <2>3, <3>4, <3>8 DEF OwnedPassed
      <4>2. Cd(c) => Cd(c)' \/ (~Owns(c, l)' /\ (Uniq => ~Holds(c, l)'))
        BY <3>4, <3>5 DEF LineMoves
      <4> QED
        BY <3>2, <3>6, <4>1, <4>2
    <3> QED
      BY <3>3, <3>7, <3>8
  <2>9. OwnedFill'
    <3> SUFFICES ASSUME NEW e \in Cores, d'[e].state = "CheckResp", NEW c \in Cores \ {e},
                        NEW l, l = d'[e].req_addr
                 PROVE  /\ DC!IsStore(d'[e]) => ~Holds(c, l)'
                        /\ Owns(c, l)' => Upgrading(c, l)'
      BY DEF OwnedFill
    <3>1. q.state = "ReadMem" /\ q.srcid = e /\ l = q.req_addr
          /\ (DC!IsStore(d'[e]) => Uniq)
      BY <2>4 DEF LineMoves
    <3>2. /\ Uniq => ~Holds(c, l)
          /\ Owns(c, l) => Upgrading(c, l)
      BY <2>3, <2>6, <3>1 DEF OwnedPassed, Passed
    <3>3. LineMoves(c, done) /\ d[c].state # "CheckResp"
      BY <2>4, <2>5, <3>1
    <3>4. /\ Holds(c, l)' => Holds(c, l)
          /\ Owns(c, l)' => Owns(c, l) \/ Upgrading(c, l)'
          /\ Upgrading(c, l) => Upgrading(c, l)'
      BY <3>1, <3>3 DEF LineMoves
    <3> QED
      BY <3>1, <3>2, <3>4
  <2> QED
    BY <2>7, <2>8, <2>9
<1> QED
  BY <1>1, <1>2

\* Up to the first race a line that a cache may store to without asking is in no
\* other cache, for every number of cores and lines, every number of sets and ways
\* of the caches, and whatever the cores ask.
THEOREM OwnerIsAlone == Spec => []OneOwner
<1> DEFINE I == HandInv /\ AnswerInv /\ BusInv /\ SnoopInv /\ OwnInv
<1>1. Init => I
  BY HandInit, AnswerInit, BusInit, SnoopInit, OwnInit
<1>2. I /\ [Next]_vars => I'
  <2> SUFFICES ASSUME I, [Next]_vars PROVE I'
    OBVIOUS
  <2>1. HandInv'
    BY HandNext
  <2>2. BusInv'
    BY BusKept
  <2>3. SnoopInv'
    BY SnoopKept
  <2>4. OwnInv'
    BY <2>1, <2>2, OwnKept
  <2>5. AnswerInv'
    BY AnswerNext
  <2> QED
    BY <2>1, <2>2, <2>3, <2>4, <2>5
<1>3. I => OneOwner
  BY DEF OwnInv, OwnedOnce, OneOwner, LineUnique
<1> QED
  BY <1>1, <1>2, <1>3, PTL DEF Spec

-----------------------------------------------------------------------------
(* The ranges of the registers, after races too.                           *)

\* The contents of a line stay contents of a line.
LEMMA LineData ==
    ASSUME NEW x, NEW b \in Data, x.req_word \in Cores, x.req_wdata \in {0, 1}
    PROVE  DC!Modified(x, b) \in Data
BY DEF DC!Modified, Data, Words

\* A line of a cache; one that is valid has an address.
LineTyped(l) ==
    /\ l.flags \subseteq DC!Flags /\ l.data \in Data
    /\ "VALID" \in l.flags => l.tag \in Lines

\* The memory of a cache has such lines only.
LinesTyped(m) == \A P \in DC!Places : LineTyped(m[P])

(* Writing one of them keeps the others. *)
LEMMA LinesKept ==
    ASSUME NEW m, MemShape(m), LinesTyped(m), NEW P, NEW l, LineTyped(l)
    PROVE  LinesTyped([m EXCEPT ![P] = l])
<1>1. m = [R \in DC!Places |-> m[R]]
  BY DEF MemShape
<1>2. \A R \in DC!Places : [m EXCEPT ![P] = l][R] \in {l, m[R]}
  BY <1>1
<1> QED
  BY <1>2 DEF LinesTyped

(* A flush visits places of the memory. *)
LEMMA FlushPlaceThere ==
    ASSUME NEW x, CacheShape(x)
    PROVE  DC!FlushPlace(x) \in DC!Places
<1> DEFINE k == DC!FLUSH_ALL_VALUE - x.flush_cnt
           e == k \div NWAYS
           w == k % NWAYS
<1>1. NWAYS \in Nat /\ LINES_PER_WAY \in Nat /\ NWAYS >= 1 /\ LINES_PER_WAY >= 1
  BY ShapeAssumption
<1>2. k \in Int /\ 0 <= k /\ k <= LINES_PER_WAY * NWAYS - 1
  <2>1. x.flush_cnt \in 0..DC!FLUSH_ALL_VALUE
    BY DEF CacheShape
  <2>2. DC!FLUSH_ALL_VALUE = LINES_PER_WAY * NWAYS - 1
    BY DEF DC!FLUSH_ALL_VALUE
  <2> QED
    BY <2>1, <2>2, FlushCount
<1> HIDE DEF k
<1>3. /\ e \in Int /\ w \in Int /\ 0 <= w /\ w <= NWAYS - 1
      /\ k = NWAYS * e + w
  BY <1>1, <1>2
<1> HIDE DEF e, w
<1>4. \A n, f, g \in Int : n >= 1 /\ f >= g => n * f >= n * g
  OBVIOUS
<1>5. e >= 0
  <2> SUFFICES ASSUME e <= -1 PROVE FALSE
    BY <1>3
  <2>1. NWAYS * (-1) >= NWAYS * e
    BY <1>1, <1>3, <1>4
  <2> QED
    BY <1>1, <1>2, <1>3, <2>1
<1>6. e <= LINES_PER_WAY - 1
  <2> SUFFICES ASSUME e >= LINES_PER_WAY PROVE FALSE
    BY <1>1, <1>3
  <2>1. NWAYS * e >= NWAYS * LINES_PER_WAY
    BY <1>1, <1>3, <1>4
  <2>2. NWAYS * LINES_PER_WAY = LINES_PER_WAY * NWAYS
    BY <1>1
  <2> QED
    BY <1>1, <1>2, <1>3, <2>1, <2>2
<1>7. DC!FlushPlace(x) = <<e, w>>
  BY DEF DC!FlushPlace, k, e, w
<1> QED
  BY <1>1, <1>3, <1>5, <1>6, <1>7 DEF DC!Places, DC!Sets, DC!Ways

(* What is read from a place of the memory is a line of it. *)
LEMMA LineRead ==
    ASSUME NEW x, LinesTyped(x.lines), DC!Place(x) \in DC!Places
    PROVE  /\ DC!Line(x) = x.lines[DC!Place(x)] /\ LineTyped(DC!Line(x))
           /\ DC!Dirty(DC!Line(x)) => DC!Line(x).tag \in Lines
BY DEF DC!Line, DC!Dirty, LinesTyped, LineTyped

\* The registers of a cache are in their ranges, as far as they are read.
CacheTyped(x) ==
    /\ LinesTyped(x.lines) /\ x.cache_line_i \in Data
    /\ x.req_mem_type \in DC!MemTypes /\ x.req_snoop_type \in DC!SnoopTypes
    /\ x.state = "WaitGrant" =>
          x.mem_addr \in Lines /\ (AD!IsWrite(x.req_mem_type) => x.cache_line_o \in Data)
    /\ Busy(x) => x.req_word \in Cores /\ x.req_wdata \in {0, 1}
    /\ InSnoop(x) => x.req_addr \in Lines

\* So are the wires into it.
InputTyped(x, i) ==
    /\ i.snoop.type \in DC!SnoopTypes /\ (DC!DataSnoop(i) => i.snoop.addr \in Lines)
    /\ i.mem_valid /\ x.state = "WaitResp" => i.mem_data \in Data
    /\ i.req.valid => i.req.addr \in Lines /\ i.req.word \in Cores /\ i.req.wdata \in {0, 1}

\* The work of the state machine stays in the ranges.
LEMMA WorkedTyped ==
    ASSUME NEW x, NEW i, CacheShape(x), Control(x), FillHits(x), FillKnown(x),
           ShareHits(x), CacheTyped(x), InputTyped(x, i),
           Busy(x) => AccessAddr(x) \in Lines
    PROVE  CacheTyped(Worked(x, i))
<1> DEFINE p == Prepared(x, i)
           w == Worked(x, i)
           Typed(r) == LinesTyped(r.lines)
<1> SUFFICES CacheTyped(w)
  OBVIOUS
<1>1. SameCache(p, x, {"req_flush", "snoop_addr", "snoop_flags_valid"}) /\ CacheShape(p)
  BY PreparedIs
<1>2. Busy(w) => Busy(x)
  BY WorkedGoesOn DEF GoesOn
<1>3. /\ x.state \in DC!CacheStates /\ x.snoop_restore \in {"none", "WaitResp", "WriteBus"}
      /\ x.snoop_restore # "none" => InSnoop(x)
      /\ x.state \notin {"TranslateAddress", "WaitGrant", "WriteBus", "SnoopSetupAddr",
                         "SnoopReadData"} => ~x.write_share
  BY DEF Control, InSnoop
<1>4. Typed(x) /\ x.cache_line_i \in Data
      /\ x.req_mem_type \in DC!MemTypes /\ x.req_snoop_type \in DC!SnoopTypes
      /\ (Busy(x) => x.req_word \in Cores /\ x.req_wdata \in {0, 1})
  BY DEF CacheTyped
<1>5. ZeroLine \in Data
  BY DEF ZeroLine, Data
<1>6. DC!FillType(x) \in DC!MemTypes /\ ~AD!IsWrite(DC!FillType(x))
  BY DEF DC!FillType, DC!MemTypes, AD!IsWrite
<1>7. x.state \in {"CheckHit", "WaitResp", "CheckResp"} \/
      (x.state \in {"TranslateAddress", "WriteBus"} /\ ~x.write_share /\ ~x.write_flush)
         => Busy(x) /\ x.req_addr \in Lines
  BY <1>3 DEF Busy, AccessAddr, InSnoop
<1>8. ASSUME w.state \notin {"TranslateAddress", "WaitGrant", "SnoopSetupAddr", "SnoopReadData"},
             Typed(w), w.cache_line_i \in Data, w.req_mem_type = x.req_mem_type,
             w.req_snoop_type = x.req_snoop_type,
             w.req_word = x.req_word, w.req_wdata = x.req_wdata
      PROVE  CacheTyped(w)
  BY <1>2, <1>4, <1>8 DEF CacheTyped, InSnoop
<1>9. p.lines = x.lines /\ p.cache_line_i = x.cache_line_i /\ p.req_mem_type = x.req_mem_type
      /\ p.req_snoop_type = x.req_snoop_type /\ p.req_word = x.req_word
      /\ p.req_wdata = x.req_wdata /\ p.write_share = x.write_share
      /\ p.cache_line_o = x.cache_line_o /\ p.mem_addr = x.mem_addr
      /\ p.req_addr = x.req_addr /\ p.state = x.state
  BY <1>1 DEF SameCache
<1> HIDE DEF p
<1>26. ASSUME NEW l, LineTyped(l) PROVE LinesTyped([x.lines EXCEPT ![DC!Place(x)] = l])
  BY <1>4, <1>26, LinesKept DEF CacheShape
<1>27. ASSUME x.state # "FlushCheck", DC!Hit(x) \/ x.req_addr \in Lines
       PROVE  /\ DC!Place(x) \in DC!Places /\ LineTyped(DC!Line(x))
              /\ DC!Dirty(DC!Line(x)) => DC!Line(x).tag \in Lines
              /\ DC!Hit(x) => DC!Line(x).tag \in Lines
  <2>1. DC!Hit(x) => DC!Place(x) \in DC!Tagged(x, x.req_addr)
    BY <1>27, PlaceIs DEF CacheShape
  <2>2. DC!Place(x) \in DC!Places
    BY <1>27, <2>1, PlaceThere DEF DC!Tagged
  <2>3. DC!Hit(x) => "VALID" \in DC!Line(x).flags
    BY <2>1 DEF DC!Tagged, DC!Line
  <2> QED
    BY <1>4, <2>2, <2>3, LineRead DEF LineTyped
<1>10. CASE x.state = "Idle"
  <2>1. w = p
    BY <1>10 DEF p, Worked, DC!CacheState
  <2> HIDE DEF w
  <2> QED
    BY <1>4, <1>8, <1>9, <1>10, <2>1
<1>11. CASE x.state = "CheckHit" /\ ~DC!Hit(x)
  <2>1. SameCache(w, p, {"state"}) /\ w.state \in {"Idle", "TranslateAddress"}
    BY <1>11, CacheMiss DEF p
  <2>2. ~x.write_share
    BY <1>3, <1>11
  <2> HIDE DEF w
  <2> QED
    BY <1>2, <1>4, <1>9, <2>1, <2>2 DEF SameCache, CacheTyped, InSnoop
<1>12. CASE x.state = "CheckHit" /\ DC!Hit(x) /\ ~DC!IsStore(x)
  <2> DEFINE l == [tag |-> x.req_addr, data |-> DC!ReservedData(x),
                   flags |-> DC!Line(x).flags \cup {"RESERVED"}]
  <2>1. /\ SameCache(w, p, {"state", "lines", "lru"})
        /\ w.state = "Idle"
        /\ w.lines = [x.lines EXCEPT ![DC!Place(x)] = l] \/ w.lines = x.lines
    BY <1>12, CacheLoadHit DEF p
  <2>2. LineTyped(DC!Line(x)) /\ x.req_addr \in Lines
    BY <1>7, <1>12, <1>27
  <2>3. DC!ReservedData(x) \in Data
    BY <1>4, <1>7, <1>12, <2>2 DEF DC!ReservedData, Data, Words, LineTyped
  <2>4. LineTyped(l)
    BY <2>2, <2>3 DEF LineTyped, DC!Flags
  <2> HIDE DEF w, l
  <2>5. Typed(w)
    BY <1>4, <1>26, <2>1, <2>4
  <2> QED
    BY <1>4, <1>8, <1>9, <2>1, <2>5 DEF SameCache
<1>13. CASE x.state = "CheckHit" /\ DC!Hit(x) /\ DC!IsStore(x)
  <2> DEFINE l == [tag |-> x.req_addr, flags |-> DC!StoreFlags,
                   data |-> DC!Modified(x, DC!Line(x).data)]
  <2>1. /\ SameCache(w, p, {"state", "lines", "lru", "req_type", "write_share"})
        /\ DC!ScFails(x) => w.lines = x.lines /\ w.state = "Idle"
        /\ ~DC!ScFails(x) => /\ w.lines = [x.lines EXCEPT ![DC!Place(x)] = l]
                             /\ w.state \in {"Idle", "TranslateAddress"}
    BY <1>13, CacheStoreHit DEF p
  <2>2. x.req_addr \in Lines /\ DC!Line(x).data \in Data
    BY <1>7, <1>13, <1>27 DEF LineTyped
  <2>3. DC!Modified(x, DC!Line(x).data) \in Data
    BY <1>4, <1>7, <1>13, <2>2, LineData
  <2>4. LineTyped(l)
    BY <2>2, <2>3 DEF LineTyped, DC!Flags, DC!StoreFlags
  <2> HIDE DEF w, l
  <2>5. Typed(w)
    BY <1>4, <1>26, <2>1, <2>4
  <2> QED
    BY <1>2, <1>4, <1>9, <2>1, <2>5 DEF SameCache, CacheTyped, InSnoop
<1>14. CASE x.state = "TranslateAddress"
  <2> DEFINE old == DC!Dirty(DC!Line(x))
  <2>1. /\ SameCache(w, p, {"state", "req_mem_valid", "write_first", "req_mem_type",
                            "mem_addr", "cache_line_o", "cache_line_i"})
        /\ w.state = "WaitGrant"
        /\ w.req_mem_type = IF x.write_share THEN "WriteLineUnique"
                            ELSE IF old THEN "WriteBack" ELSE DC!FillType(x)
        /\ w.mem_addr = IF x.write_share \/ old THEN DC!Line(x).tag ELSE x.req_addr
        /\ w.cache_line_o = DC!Line(x).data /\ w.cache_line_i = ZeroLine
    BY <1>14, CacheTranslate DEF p
  <2> HIDE DEF w
  <2>4. ~x.write_share => x.req_addr \in Lines
    <3>1. ~x.write_flush
      BY <1>14 DEF Control
    <3> QED
      BY <1>7, <1>14, <3>1
  <2>0. x.write_share => DC!Hit(x)
    BY <1>14 DEF ShareHits
  <2>2. LineTyped(DC!Line(x)) /\ (old => DC!Line(x).tag \in Lines)
    BY <1>14, <1>27, <2>0, <2>4
  <2>3. x.write_share => DC!Line(x).tag \in Lines
    BY <1>14, <1>27, <2>0
  <2>5. w.mem_addr \in Lines /\ w.req_mem_type \in DC!MemTypes
    BY <1>6, <2>1, <2>2, <2>3, <2>4 DEF DC!MemTypes
  <2>6. Typed(w) /\ w.req_word = x.req_word /\ w.req_wdata = x.req_wdata
        /\ w.req_snoop_type = x.req_snoop_type /\ w.cache_line_o \in Data
    BY <1>4, <1>9, <2>1, <2>2 DEF SameCache, LineTyped
  <2> HIDE DEF old
  <2> QED
    BY <1>2, <1>4, <1>5, <2>1, <2>5, <2>6 DEF CacheTyped, InSnoop
<1>15. CASE x.state = "WaitGrant"
  <2>1. SameCache(w, p, {"state", "req_mem_valid"}) /\ w.state \in {"WriteBus", "WaitResp"}
    BY <1>15, CacheGrant DEF p
  <2> HIDE DEF w
  <2> QED
    BY <1>4, <1>8, <1>9, <2>1 DEF SameCache
<1>16. ASSUME w = p, x.state \notin {"TranslateAddress", "WaitGrant", "SnoopSetupAddr", "SnoopReadData"}
       PROVE  CacheTyped(w)
  <2> HIDE DEF w
  <2> QED
    BY <1>4, <1>8, <1>9, <1>16
<1>17. ASSUME w = DC!TakeSnoop(x, i, p), DC!DataSnoop(i) PROVE CacheTyped(w)
  <2>1. /\ SameCache(w, p, {"state", "snoop_restore", "req_addr_restore", "req_addr",
                            "req_snoop_type"})
        /\ w.state = "SnoopSetupAddr" /\ w.req_addr = i.snoop.addr
        /\ w.req_snoop_type = i.snoop.type
    BY <1>17, CacheTakeSnoop DEF p
  <2> HIDE DEF w
  <2>2. w.req_addr \in Lines /\ w.req_snoop_type \in DC!SnoopTypes
    BY <1>17, <2>1 DEF InputTyped
  <2> QED
    BY <1>2, <1>4, <1>9, <2>1, <2>2 DEF CacheTyped, SameCache
<1>18. CASE x.state = "WaitResp"
  <2>1. /\ i.mem_valid => /\ SameCache(w, p, {"state", "cache_line_i"})
                          /\ w.state = "CheckResp" /\ w.cache_line_i = i.mem_data
        /\ ~i.mem_valid /\ DC!DataSnoop(i) => w = DC!TakeSnoop(x, i, p)
        /\ ~i.mem_valid /\ ~DC!DataSnoop(i) => w = p
    BY <1>18, CacheWaitResp DEF p
  <2> HIDE DEF w
  <2>2. CASE i.mem_valid
    <3>1. w.cache_line_i \in Data
      BY <1>18, <2>1, <2>2 DEF InputTyped
    <3> QED
      BY <1>4, <1>8, <1>9, <2>1, <2>2, <3>1 DEF SameCache
  <2> QED
    BY <1>16, <1>17, <1>18, <2>1, <2>2
<1>19. CASE x.state = "CheckResp"
  <2> DEFINE l == IF DC!IsStore(x)
                  THEN [tag |-> x.req_addr, flags |-> DC!StoreFlags,
                        data |-> DC!Modified(x, x.cache_line_i)]
                  ELSE [tag |-> x.req_addr, data |-> x.cache_line_i,
                        flags |-> {"VALID", "SHARED"} \cup
                                  (IF "Reserve" \in x.req_type THEN {"RESERVED"} ELSE {})]
  <2>1. /\ SameCache(w, p, {"state", "lines", "lru", "req_type"})
        /\ w.state \in {"Idle", "SetupReadAdr"}
        /\ w.lines = [x.lines EXCEPT ![DC!Place(x)] = l]
    BY <1>19, CacheCheckResp DEF p
  <2>2. x.req_addr \in Lines /\ DC!Modified(x, x.cache_line_i) \in Data
    BY <1>4, <1>7, <1>19, LineData
  <2>3. LineTyped(l)
    BY <1>4, <2>2 DEF LineTyped, DC!Flags, DC!StoreFlags
  <2> HIDE DEF w, l
  <2>4. Typed(w)
    BY <1>26, <2>1, <2>3
  <2> QED
    BY <1>4, <1>8, <1>9, <2>1, <2>4 DEF SameCache
<1>20. CASE x.state = "SetupReadAdr"
  <2>1. SameCache(w, p, {"state"}) /\ w.state = "CheckHit"
    BY <1>20, CacheSetupRead DEF p
  <2> HIDE DEF w
  <2> QED
    BY <1>4, <1>8, <1>9, <2>1 DEF SameCache
<1>21. CASE x.state = "WriteBus"
  <2>1. /\ i.mem_valid /\ (x.write_share \/ x.write_flush) =>
              SameCache(w, p, {"state", "write_share"}) /\ w.state \in {"Idle", "FlushAddr"}
        /\ i.mem_valid /\ ~x.write_share /\ ~x.write_flush =>
              /\ SameCache(w, p, {"state", "write_first", "mem_addr", "req_mem_valid",
                                  "req_mem_type"})
              /\ w.state = "WaitGrant" /\ w.mem_addr = x.req_addr
              /\ w.req_mem_type = DC!FillType(x)
        /\ ~i.mem_valid /\ DC!DataSnoop(i) => w = DC!TakeSnoop(x, i, p)
        /\ ~i.mem_valid /\ ~DC!DataSnoop(i) => w = p
    <3>0. WroteBus(x, i, p, w)
      BY <1>21, CacheWriteBus DEF p
    <3> HIDE DEF w
    <3>1. /\ i.mem_valid /\ x.write_share =>
                /\ SameCache(w, p, {"state", "write_share"}) /\ w.state = "Idle"
          /\ i.mem_valid /\ ~x.write_share /\ x.write_flush =>
                SameCache(w, p, {"state"}) /\ w.state = "FlushAddr"
          /\ i.mem_valid /\ ~x.write_share /\ ~x.write_flush =>
                /\ SameCache(w, p, {"state", "write_first", "mem_addr", "req_mem_valid",
                                    "req_mem_type"})
                /\ w.state = "WaitGrant" /\ w.mem_addr = x.req_addr
                /\ w.req_mem_type = DC!FillType(x)
          /\ ~i.mem_valid /\ DC!DataSnoop(i) => w = DC!TakeSnoop(x, i, p)
          /\ ~i.mem_valid /\ ~DC!DataSnoop(i) => w = p
      BY <3>0 DEF WroteBus
    <3>2. SameCache(w, p, {"state"}) => SameCache(w, p, {"state", "write_share"})
      BY DEF SameCache
    <3> QED
      BY <3>1, <3>2
  <2> HIDE DEF w
  <2>2. CASE i.mem_valid /\ (x.write_share \/ x.write_flush)
    BY <1>4, <1>8, <1>9, <2>1, <2>2 DEF SameCache
  <2>3. CASE i.mem_valid /\ ~x.write_share /\ ~x.write_flush
    <3>1. x.req_addr \in Lines
      BY <1>7, <1>21, <2>3
    <3> QED
      BY <1>2, <1>4, <1>6, <1>9, <2>1, <2>3, <3>1 DEF SameCache, CacheTyped, InSnoop
  <2> QED
    BY <1>16, <1>17, <1>21, <2>1, <2>2, <2>3
<1>22. CASE x.state = "FlushAddr"
  <2>1. /\ SameCache(w, p, {"state", "write_flush", "cache_line_i"})
        /\ w.state = "FlushCheck" /\ w.cache_line_i = ZeroLine
    BY <1>22, CacheFlushAddr DEF p
  <2> HIDE DEF w
  <2> QED
    BY <1>4, <1>5, <1>8, <1>9, <2>1 DEF SameCache
<1>23. CASE x.state = "FlushCheck"
  <2> DEFINE l == [tag |-> x.req_addr, flags |-> {}, data |-> x.cache_line_i]
  <2>1. FlushChecked(x, p, w)
    BY <1>23, CacheFlushCheck DEF p
  <2>2. LineTyped(l)
    BY <1>4 DEF LineTyped
  <2>3. DC!Place(x) \in DC!Places
    BY <1>23, FlushPlaceThere DEF DC!Place
  <2>4. DC!Line(x).data \in Data /\ (DC!Dirty(DC!Line(x)) => DC!Line(x).tag \in Lines)
    BY <1>4, <2>3, LineRead DEF LineTyped
  <2> HIDE DEF w
  <2>5. w.lines = [x.lines EXCEPT ![DC!Place(x)] = l] /\ w.cache_line_o = DC!Line(x).data
    BY <2>1 DEF FlushChecked
  <2> HIDE DEF l
  <2>6. Typed(w)
    BY <1>26, <2>2, <2>5
  <2>7. CASE ~DC!Dirty(DC!Line(x))
    <3>1. /\ SameCache(w, p, {"state", "cache_line_o", "lines", "lru", "flush_cnt"})
          /\ w.state \in {"Idle", "FlushAddr"}
      BY <2>1, <2>7 DEF FlushChecked
    <3> QED
      BY <1>4, <1>8, <1>9, <2>6, <3>1 DEF SameCache
  <2>8. CASE DC!Dirty(DC!Line(x))
    <3>1. /\ SameCache(w, p, {"state", "cache_line_o", "lines", "lru", "flush_cnt",
                              "write_flush", "mem_addr", "req_mem_valid", "req_mem_type"})
          /\ w.state = "WaitGrant" /\ w.mem_addr = DC!Line(x).tag
          /\ w.req_mem_type = "WriteBack"
      BY <2>1, <2>8 DEF FlushChecked
    <3>2. "WriteBack" \in DC!MemTypes
      BY DEF DC!MemTypes
    <3>3. /\ w.mem_addr \in Lines /\ w.cache_line_o \in Data /\ w.cache_line_i \in Data
          /\ w.req_snoop_type \in DC!SnoopTypes /\ w.req_mem_type \in DC!MemTypes
          /\ w.req_word = x.req_word /\ w.req_wdata = x.req_wdata
      BY <1>4, <1>9, <2>4, <2>5, <2>8, <3>1, <3>2 DEF SameCache
    <3> QED
      BY <1>2, <1>4, <2>6, <3>1, <3>3 DEF CacheTyped, InSnoop
  <2> QED
    BY <2>7, <2>8
<1>24. CASE x.state = "SnoopSetupAddr"
  <2>1. SameCache(w, p, {"state"}) /\ w.state = "SnoopReadData"
    BY <1>24, CacheSnoopSetup DEF p
  <2>2. x.req_addr \in Lines
    BY <1>24 DEF CacheTyped, InSnoop
  <2> HIDE DEF w
  <2> QED
    BY <1>2, <1>4, <1>9, <2>1, <2>2 DEF SameCache, CacheTyped
<1>25. CASE x.state = "SnoopReadData"
  <2> DEFINE l == [tag |-> x.req_addr, flags |-> DC!SnoopedFlags(x), data |-> DC!Line(x).data]
             n == [tag |-> x.req_addr, flags |-> {}, data |-> DC!Line(x).data]
  <2>1. /\ SameCache(w, p, {"state", "lines", "lru", "req_addr", "snoop_restore"})
        /\ w.state = DC!RestoredState(x)
        /\ \/ w.lines = [x.lines EXCEPT ![DC!Place(x)] = l]
           \/ w.lines = [x.lines EXCEPT ![DC!Place(x)] = n]
           \/ w.lines = x.lines
    BY <1>25, CacheSnoopRead DEF p
  <2>2. x.req_addr \in Lines
    BY <1>25 DEF CacheTyped, InSnoop
  <2>3. w.state \in {"Idle", "WaitResp", "WriteBus"}
    BY <1>3, <2>1 DEF DC!RestoredState
  <2>4. LineTyped(DC!Line(x))
    BY <1>25, <1>27, <2>2
  <2>5. LineTyped(l) /\ LineTyped(n)
    BY <2>2, <2>4 DEF LineTyped, DC!SnoopedFlags, DC!Flags
  <2> HIDE DEF w, l, n
  <2>6. Typed(w)
    BY <1>4, <1>26, <2>1, <2>5
  <2> QED
    BY <1>4, <1>8, <1>9, <2>1, <2>3, <2>6 DEF SameCache
<1> QED
  BY <1>3, <1>10, <1>11, <1>12, <1>13, <1>14, <1>15, <1>18, <1>19, <1>20, <1>21, <1>22, <1>23,
     <1>24, <1>25 DEF DC!CacheStates

\* An edge keeps the registers of a cache in their ranges.
LEMMA CacheTypedEdge ==
    ASSUME NEW x, NEW i, CacheShape(x), Control(x), FillHits(x), FillKnown(x),
           ShareHits(x), CacheTyped(x), InputTyped(x, i),
           Busy(x) => AccessAddr(x) \in Lines
    PROVE  CacheTyped(DC!ForgetCache(DC!CacheNext(x, i)))
<1> DEFINE w == Worked(x, i)
           r == DC!CacheNext(x, i)
           v == DC!ForgetCache(r)
<1> SUFFICES CacheTyped(v)
  OBVIOUS
<1>1. CacheShape(w) /\ CacheTyped(w) /\ Control(w)
  BY SnoopViewFacts, WorkedTyped, WorkedGoesOn DEF SnoopView
<1>2. r = IF DC!ReadyNext(x, i) THEN DC!Accept(x, i, w) ELSE w
  BY CacheNextIs
<1>3. DC!ReadyNext(x, i) => w.state = "Idle"
  BY ReadyIsIdle DEF DC!ReadyNext, DC!LoadHits, DC!StoreHits, DC!Hits
<1>4. ZeroLine \in Data
  BY DEF ZeroLine, Data
<1> HIDE DEF w
<1>5. CacheShape(r) /\ CacheTyped(r)
  <2>1. CASE ~DC!ReadyNext(x, i)
    BY <1>1, <1>2, <2>1
  <2>2. CASE DC!ReadyNext(x, i)
    <3>1. r = DC!Accept(x, i, w) /\ w.state = "Idle" /\ w.snoop_restore = "none"
      BY <1>1, <1>2, <1>3, <2>2 DEF Control
    <3> HIDE DEF r
    <3>2. CASE DC!DataSnoop(i)
      <4>1. /\ SameCache(r, w, {"state", "req_addr", "req_snoop_type"})
            /\ r.state = "SnoopSetupAddr" /\ r.req_addr = i.snoop.addr
            /\ r.req_snoop_type = i.snoop.type
        BY <1>1, <3>1, <3>2, CacheAccept
      <4>2. r.req_addr \in Lines /\ r.req_snoop_type \in DC!SnoopTypes
        BY <3>2, <4>1 DEF InputTyped
      <4>3. r.snoop_restore = "none" /\ ~Busy(r)
        BY <3>1, <4>1 DEF SameCache, Busy
      <4> QED
        BY <1>1, <4>1, <4>2, <4>3 DEF SameCache, CacheShape, CacheTyped
    <3>3. CASE ~DC!DataSnoop(i) /\ x.req_flush
      <4>1. /\ SameCache(r, w, {"state", "req_addr", "req_flush", "cache_line_i", "flush_cnt"})
            /\ r.state = "FlushAddr" /\ r.cache_line_i = ZeroLine
            /\ r.flush_cnt = DC!FLUSH_ALL_VALUE
        BY <1>1, <3>1, <3>3, CacheAccept
      <4>2. ~Busy(r)
        BY <4>1 DEF Busy
      <4> QED
        BY <1>1, <1>4, <4>1, <4>2, FlushCount DEF SameCache, CacheShape, CacheTyped, InSnoop
    <3>4. CASE ~DC!DataSnoop(i) /\ ~x.req_flush /\ i.req.valid
      <4>1. /\ SameCache(r, w, {"state", "req_addr", "req_type", "req_word", "req_wdata"})
            /\ r.state = "CheckHit" /\ r.req_word = i.req.word /\ r.req_wdata = i.req.wdata
        BY <1>1, <3>1, <3>4, CacheAccept
      <4>2. r.req_word \in Cores /\ r.req_wdata \in {0, 1}
        BY <3>4, <4>1 DEF InputTyped
      <4> QED
        BY <1>1, <4>1, <4>2 DEF SameCache, CacheShape, CacheTyped, InSnoop
    <3>5. CASE ~DC!DataSnoop(i) /\ ~x.req_flush /\ ~i.req.valid
      BY <1>1, <3>1, <3>5, CacheAccept
    <3> QED
      BY <3>2, <3>3, <3>4, <3>5
  <2> QED
    BY <2>1, <2>2
<1> HIDE DEF r
<1>6. /\ v.req_addr_restore = (IF r.snoop_restore = "none" THEN NoLine ELSE r.req_addr_restore)
      /\ r.state # "Idle" => SameCache(v, r, {"snoop_addr", "req_addr_restore"})
      /\ r.state = "Idle" =>
            /\ SameCache(v, r, Forgotten \cup {"snoop_addr", "req_addr_restore"})
            /\ v.req_mem_type = "ReadShared" /\ v.cache_line_i = ZeroLine
            /\ v.req_snoop_type = "FLAGS"
  BY <1>5, CacheForget
<1> HIDE DEF v
<1>7. CASE r.state # "Idle"
  <2>1. Busy(v) => Busy(r)
    BY <1>6, <1>7 DEF SameCache, Busy
  <2> QED
    BY <1>5, <1>6, <1>7, <2>1 DEF SameCache, CacheTyped, InSnoop
<1>8. CASE r.state = "Idle"
  <2>1. v.state = "Idle" /\ v.lines = r.lines
    BY <1>6, <1>8 DEF SameCache, Forgotten
  <2>2. ~Busy(v) /\ ~InSnoop(v)
    BY <2>1 DEF Busy, InSnoop
  <2> QED
    BY <1>4, <1>5, <1>6, <1>8, <2>1, <2>2 DEF CacheTyped, DC!MemTypes, DC!SnoopTypes
<1> QED
  BY <1>7, <1>8

\* The registers of an adapter are in their ranges, as far as they are read.
AdapterTyped(y) ==
    /\ y.state # "idle" => y.req_addr \in Lines
    /\ y.state \in {"aw", "b"} => y.req_wdata \in Data
    /\ y.snoop_state # "snoop_idle" =>
          y.ac_addr \in Lines /\ y.req_snoop_type \in DC!SnoopTypes

\* An edge keeps them there.
LEMMA AdapterTypedEdge ==
    ASSUME NEW y, NEW j, NEW z, AdapterTyped(y), BusView(y, j, z), AckView(y, j, z),
           y.state \in AD!BusStates,
           y.snoop_state \in AD!SnoopStates \ {"snoop_cd_wait_accept"},
           j.req_mem_valid => /\ j.req_mem_addr \in Lines
                              /\ AD!IsWrite(j.req_mem_type) => j.req_mem_data \in Data,
           j.ac.valid => j.ac.addr \in Lines
    PROVE  AdapterTyped(z)
<1>1. /\ z.state # "idle" => z.req_addr \in Lines
      /\ z.state \in {"aw", "b"} => z.req_wdata \in Data
  BY DEF AdapterTyped, BusView, BusGoes, AD!BusStates
<1>2. z.snoop_state # "snoop_idle" =>
         z.ac_addr \in Lines /\ z.req_snoop_type \in DC!SnoopTypes
  <2>1. CASE y.snoop_state = "snoop_idle"
    BY <2>1 DEF AckView, DC!SnoopTypes
  <2>2. CASE y.snoop_state = "snoop_cr"
    BY <2>2 DEF AckView, AdapterTyped, SnoopKeeps, DC!SnoopTypes
  <2>3. CASE y.snoop_state \notin {"snoop_idle", "snoop_cr"}
    BY <2>3 DEF AckView, AdapterTyped, SnoopKeeps, AD!SnoopStates
  <2> QED
    BY <2>1, <2>2, <2>3
<1> QED
  BY <1>1, <1>2 DEF AdapterTyped

\* The slots are finitely many: among several that give data one is the highest.
LEMMA HighestSlot ==
    ASSUME NEW S \in SUBSET Cores, S # {}
    PROVE  \E c \in S : \A k \in S : k <= c
<1>1. PICK n \in Nat : ExistsSurjection(1..n, Cores)
  BY CoresAssumption, FS_NatSurjection
<1>2. PICK f \in [1..n -> Cores] : \A c \in Cores : \E k \in 1..n : f[k] = c
  BY <1>1 DEF ExistsSurjection, Surjection
<1>2a. \A m \in 1..n : f[m] \in Nat
  BY <1>2, CoresAssumption
<1> DEFINE B == {k \in Nat : k <= n => \E b \in Nat : \A m \in 1..k : f[m] <= b}
<1>3. 0 \in B
  OBVIOUS
<1>4. ASSUME NEW k \in Nat, k \in B PROVE k + 1 \in B
  <2> SUFFICES ASSUME k + 1 <= n
               PROVE  \E b \in Nat : \A m \in 1..(k + 1) : f[m] <= b
    OBVIOUS
  <2>1. PICK b \in Nat : \A m \in 1..k : f[m] <= b
    BY <1>4
  <2>2. k + 1 \in 1..n /\ f[k + 1] \in Nat
    <3>1. k + 1 \in 1..n
      OBVIOUS
    <3> QED
      BY <1>2a, <3>1
  <2> DEFINE h == IF f[k + 1] <= b THEN b ELSE f[k + 1]
  <2>3. h \in Nat /\ b <= h /\ f[k + 1] <= h
    BY <2>2
  <2> HIDE DEF h
  <2>4. ASSUME NEW m \in 1..(k + 1) PROVE f[m] <= h
    <3>1. m \in 1..n
      OBVIOUS
    <3>1a. f[m] \in Nat
      BY <1>2a, <3>1
    <3>2. m = k + 1 \/ m \in 1..k
      OBVIOUS
    <3> QED
      BY <2>1, <2>3, <3>1a, <3>2
  <2> QED
    BY <2>3, <2>4
<1>5. n \in B
  <2> HIDE DEF B
  <2> QED
    BY <1>3, <1>4, SetInduction
<1>6. PICK b \in Nat : \A m \in 1..n : f[m] <= b
  BY <1>5
<1> DEFINE U == {u \in Nat : \A k \in S : k <= u}
<1>7. U \in SUBSET Nat /\ b \in U
  BY <1>2, <1>6
<1>8. PICK u \in U : \A y \in U : u <= y
  <2> HIDE DEF U
  <2> QED
    BY <1>7, LeastNatural
<1>9. u \in S
  <2> SUFFICES ASSUME u \notin S PROVE FALSE
    OBVIOUS
  <2>1. \A k \in S : k \in Nat /\ k <= u /\ k # u
    BY <1>8, CoresAssumption
  <2>2. PICK k \in S : TRUE
    OBVIOUS
  <2>3. u \in Nat /\ u - 1 \in Nat
    BY <1>8, <2>1, <2>2
  <2>4. u - 1 \in U
    BY <2>1, <2>3
  <2>5. u <= u - 1
    BY <1>8, <2>4
  <2> QED
    BY <2>3, <2>5
<1> QED
  BY <1>8, <1>9

\* The masks of the arbiter name cores.
Masks(x) == x.ac_valid \cup x.cr_ready \cup x.cd_ready

\* The arbiter keeps its masks within the cores.
LEMMA DstMasks ==
    ASSUME NEW x, NEW A, NEW t, NEW done, DstShape(x), Masks(x) \subseteq Cores
    PROVE  Masks(DS!ForgetDst(DS!DstNext(x, A, t, TRUE, done))) \subseteq Cores
<1> DEFINE w == DS!DstNext(x, A, t, TRUE, done)
<1>0. DstRegs \subseteq DOMAIN x
  BY DEF DstShape
<1>1. Masks(w) \subseteq Cores
  <2>1. CASE x.state = "Idle" /\ DS!SrcAw(A) # {}
    <3> DEFINE c == DS!Src(A)
               v == [x EXCEPT !.srcid = c, !.req_addr = A[c].req_addr,
                              !.req_wdata = A[c].req_wdata]
    <3>1. w = IF A[c].req_snoop = "WriteLineUnique"
              THEN [v EXCEPT !.req_type = {"WRITE", "UNIQUE"}, !.state = "snoop_ac",
                             !.ac_valid = Cores \ {c}, !.cr_ready = {}, !.cd_ready = {}]
              ELSE [v EXCEPT !.req_type = {"WRITE"}, !.state = "CacheWriteReq"]
      BY <2>1 DEF DS!DstNext, DS!GrantWrite
    <3>2. DOMAIN v = DOMAIN x /\ Masks(v) = Masks(x)
      BY <1>0 DEF DstRegs, Masks
    <3> HIDE DEF w, v, c
    <3> QED
      BY <1>0, <3>1, <3>2 DEF DstRegs, Masks
  <2>2. CASE x.state = "Idle" /\ DS!SrcAw(A) = {} /\ DS!SrcAr(A) # {}
    <3> DEFINE c == DS!Src(A)
               r == IF A[c].req_snoop = "ReadMakeUnique" THEN {"UNIQUE"} ELSE {}
    <3>1. w = [x EXCEPT !.srcid = c, !.req_addr = A[c].req_addr,
                        !.req_wdata = A[c].req_wdata, !.state = "snoop_ac", !.req_type = r,
                        !.ac_valid = Cores \ {c}, !.cr_ready = {}, !.cd_ready = {}]
      BY <2>2 DEF DS!DstNext, DS!GrantRead
    <3> HIDE DEF w, c, r
    <3> QED
      BY <1>0, <3>1 DEF DstRegs, Masks
  <2>3. ASSUME NEW s, w = [x EXCEPT !.state = s] \/ w = x PROVE Masks(w) \subseteq Cores
    <3> HIDE DEF w
    <3> QED
      BY <1>0, <2>3 DEF DstRegs, Masks
  <2>4. CASE \/ x.state = "Idle" /\ DS!SrcAw(A) = {} /\ DS!SrcAr(A) = {}
             \/ x.state \in {"CacheReadReq", "CacheWriteReq", "ReadMem", "WriteMem"}
    <3>1. \E s : w = [x EXCEPT !.state = s] \/ w = x
      BY <2>4 DEF DS!DstNext
    <3> QED
      BY <2>3, <3>1
  <2>5. CASE x.state = "snoop_ac"
    <3> DEFINE left == x.ac_valid \ t.ac_ready
               cr == x.cr_ready \cup (x.ac_valid \cap t.ac_ready)
               s == IF left = {} THEN "snoop_cr" ELSE x.state
    <3>1. w = [x EXCEPT !.ac_valid = left, !.cr_ready = cr, !.state = s]
      BY <2>5 DEF DS!DstNext, DS!SnoopAc
    <3>2. left \cup cr \subseteq Masks(x)
      BY DEF Masks
    <3> HIDE DEF w, left, cr, s
    <3> QED
      BY <1>0, <3>1, <3>2 DEF DstRegs, Masks
  <2>6. CASE x.state = "snoop_cr"
    <3> DEFINE left == x.cr_ready \ t.cr_valid
               cd == x.cd_ready \cup (x.cr_ready \cap t.cr_valid \cap t.cr_data)
               s == IF left # {} THEN x.state
                    ELSE IF cd # {} THEN "snoop_cd" ELSE DS!CacheReq(x)
    <3>1. w = [x EXCEPT !.cr_ready = left, !.cd_ready = cd, !.state = s]
      BY <2>6 DEF DS!DstNext, DS!SnoopCr
    <3>2. left \cup cd \subseteq Masks(x)
      BY DEF Masks
    <3> HIDE DEF w, left, cd, s
    <3> QED
      BY <1>0, <3>1, <3>2 DEF DstRegs, Masks
  <2>7. CASE x.state = "snoop_cd"
    <3>1. DstView(x, A, t, done, w)
      BY DstNextIs
    <3> HIDE DEF w
    <3>2. w.cd_ready \subseteq x.cd_ready /\ w.ac_valid = x.ac_valid /\ w.cr_ready = x.cr_ready
      BY <2>7, <3>1 DEF DstView
    <3> QED
      BY <3>2 DEF Masks
  <2> QED
    BY <2>1, <2>2, <2>4, <2>5, <2>6, <2>7 DEF DstShape, DS!DstStates
<1>2. Masks(DS!DstReset) = {}
  BY DEF Masks, DS!DstReset
<1> HIDE DEF w
<1> QED
  BY <1>1, <1>2 DEF DS!ForgetDst, w

\* The arbiter has an address and the data it needs.
DstTyped ==
    /\ q.req_type \subseteq DS!ReqTypes
    /\ Masks(q) \subseteq Cores
    /\ q.state # "Idle" => q.req_addr \in Lines
    /\ "WRITE" \in q.req_type \/ "SNOOP" \in q.req_type => q.req_wdata \in Data

\* The L2 cache, the memory and the newest contents are lines.
MemTyped ==
    /\ l2.valid => l2.tag \in Lines /\ l2.data \in Data
    /\ mem \in [Lines -> Data] /\ newest \in [Lines -> Data]

\* The registers of the cluster are in their ranges.
TypedInv ==
    /\ \A c \in Cores : /\ CacheTyped(d[c]) /\ AdapterTyped(a[c])
                        /\ asked[c] \in Lines \cup {"nothing", "flush"}
    /\ DstTyped /\ MemTyped

\* The ranges after reset.
LEMMA TypedInit == Init => TypedInv
<1> SUFFICES ASSUME Init PROVE TypedInv
  OBVIOUS
<1>1. ZeroLine \in Data
  BY DEF ZeroLine, Data
<1>2. ASSUME NEW c \in Cores
      PROVE  CacheTyped(d[c]) /\ AdapterTyped(a[c]) /\ asked[c] = "nothing"
  <2>1. d[c] = DC!CacheReset /\ a[c] = AD!AdapterReset /\ asked[c] = "nothing"
    BY DEF Init
  <2>2. /\ d[c].lines = [P \in DC!Places |-> [tag |-> NoLine, flags |-> {}, data |-> ZeroLine]]
        /\ d[c].state = "Idle" /\ d[c].cache_line_i = ZeroLine
        /\ d[c].req_mem_type = "ReadShared" /\ d[c].req_snoop_type = "FLAGS"
    BY <2>1 DEF DC!CacheReset
  <2>3. LinesTyped(d[c].lines)
    BY <1>1, <2>2 DEF LinesTyped, LineTyped
  <2>4. CacheTyped(d[c])
    BY <1>1, <2>2, <2>3 DEF CacheTyped, Busy, InSnoop, DC!MemTypes, DC!SnoopTypes
  <2>5. AdapterTyped(a[c])
    BY <2>1 DEF AdapterTyped, AD!AdapterReset
  <2> QED
    BY <2>1, <2>4, <2>5
<1>3. DstTyped
  BY DEF Init, DstTyped, DS!DstReset, Masks
<1>4. MemTyped
  BY <1>1 DEF Init, MemTyped, DS!L2Reset
<1> QED
  BY <1>2, <1>3, <1>4 DEF TypedInv

\* The data that a snooped cache gives is the one of its line.
LEMMA GivenData ==
    ASSUME HandInv, TypedInv, NEW u, NEW done, NEW c \in Cores, c \in Answered(u, done).cd_valid
    PROVE  Answered(u, done).cd_data[c] \in Data
<1> DEFINE j == AdapterWires(u, done)[c]
<1>1. AD!CdValid(a[c], j) /\ Answered(u, done).cd_data[c] = AD!CdData(a[c], j)
  BY AnswerFacts
<1>2. j.resp_data = DC!Line(d[c]).data
  BY WireFacts
<1>3. /\ a[c].snoop_state # "snoop_cd_wait_accept" /\ CacheTyped(d[c]) /\ CacheShape(d[c])
      /\ a[c].snoop_state = "snoop_cd" => InSnoop(d[c])
  BY DEF HandInv, HandCore, LocalHand, LocalShape, TypedInv
<1> HIDE DEF j
<1>4. a[c].snoop_state = "snoop_cd"
  BY <1>1, <1>3 DEF AD!CdValid
<1>5. d[c].req_addr \in Lines /\ d[c].state # "FlushCheck"
  BY <1>3, <1>4 DEF CacheTyped, InSnoop
<1>6. DC!Place(d[c]) \in DC!Places
  BY <1>3, <1>5, PlaceThere
<1>7. DC!Line(d[c]).data \in Data
  BY <1>3, <1>6, LineRead DEF CacheTyped, LineTyped
<1> QED
  BY <1>1, <1>2, <1>3, <1>7 DEF AD!CdValid, AD!CdData

\* A cycle keeps the arbiter in its ranges.
LEMMA DstTypedNext ==
    ASSUME HandInv, TypedInv, NEW u, NEW done, Edge(u, done) PROVE DstTyped'
<1> DEFINE t == Answered(u, done)
<1>1. DstShape(q) /\ DstShape(q') /\ DstView(q, a, t, done, q') /\ HandDst
  BY HandArbiter DEF HandInv, HandDst
<1>2. q' = DS!ForgetDst(DS!DstNext(q, a, t, TRUE, done))
  BY EdgeIs
<1>3. DstTyped /\ \A c \in Cores : AdapterTyped(a[c])
  BY DEF TypedInv
<1>4. Masks(q') \subseteq Cores
  BY <1>1, <1>2, <1>3, DstMasks DEF DstTyped
<1>5. q'.state = "Idle" => q'.req_type = {}
  BY <1>2 DEF DS!ForgetDst, DS!DstReset
<1>6. t.ac_ready = Cores /\ (q.state # "snoop_ac" => t.cr_valid = Cores)
  BY AnswerFacts
<1>7. \A c \in Cores : c \in t.cd_valid => t.cd_data[c] \in Data
  BY GivenData
<1> HIDE DEF t
<1> SUFFICES ASSUME q'.state # "Idle"
             PROVE  /\ q'.req_type \subseteq DS!ReqTypes
                    /\ q'.req_addr \in Lines
                    /\ "WRITE" \in q'.req_type \/ "SNOOP" \in q'.req_type => q'.req_wdata \in Data
  BY <1>4, <1>5 DEF DstTyped
<1>8. CASE q.state = "Idle" /\ DS!SrcAw(a) # {}
  <2> DEFINE s == DS!Src(a)
  <2>1. s \in Cores /\ a[s].state = "aw"
    BY <1>8, SrcAsks DEF DS!SrcAw
  <2>2. \E r \in {{"WRITE"}, {"WRITE", "UNIQUE"}} : \E g : Granted(q', a, s, r, g)
    BY <1>1, <1>8 DEF DstView
  <2> HIDE DEF s
  <2>3. a[s].req_addr \in Lines /\ a[s].req_wdata \in Data
    BY <1>3, <2>1 DEF AdapterTyped
  <2>4. q'.req_addr = a[s].req_addr /\ q'.req_wdata = a[s].req_wdata
        /\ q'.req_type \in {{"WRITE"}, {"WRITE", "UNIQUE"}}
    BY <2>2 DEF Granted
  <2> QED
    BY <2>3, <2>4 DEF DS!ReqTypes
<1>9. CASE q.state = "Idle" /\ DS!SrcAw(a) = {} /\ DS!SrcAr(a) # {}
  <2> DEFINE s == DS!Src(a)
  <2>1. s \in Cores /\ a[s].state = "ar"
    BY <1>9, SrcAsks DEF DS!SrcAr
  <2>2. \E r \in {{}, {"UNIQUE"}} : Granted(q', a, s, r, "snoop_ac")
    BY <1>1, <1>9 DEF DstView
  <2> HIDE DEF s
  <2>3. a[s].req_addr \in Lines
    BY <1>3, <2>1 DEF AdapterTyped
  <2>4. q'.req_addr = a[s].req_addr /\ q'.req_type \in {{}, {"UNIQUE"}}
    BY <2>2 DEF Granted
  <2> QED
    BY <2>3, <2>4 DEF DS!ReqTypes
<1>10. CASE q.state = "Idle" /\ DS!SrcAw(a) = {} /\ DS!SrcAr(a) = {}
  BY <1>1, <1>10 DEF DstView
<1>11. ASSUME q.state # "Idle", q'.req_addr = q.req_addr, q'.req_type = q.req_type,
              q'.req_wdata = q.req_wdata
       PROVE  /\ q'.req_type \subseteq DS!ReqTypes
              /\ q'.req_addr \in Lines
              /\ "WRITE" \in q'.req_type \/ "SNOOP" \in q'.req_type => q'.req_wdata \in Data
  BY <1>3, <1>11 DEF DstTyped
<1>12. CASE q.state \in {"CacheReadReq", "CacheWriteReq", "ReadMem", "WriteMem"}
  BY <1>1, <1>11, <1>12 DEF DstView, DstGoes
<1>13. CASE q.state = "snoop_ac"
  BY <1>1, <1>6, <1>11, <1>13 DEF DstView, DstGoes, HandDst
<1>14. CASE q.state = "snoop_cr"
  <2>1. q.cr_ready \subseteq t.cr_valid
    BY <1>1, <1>6, <1>14 DEF HandDst
  <2> QED
    BY <1>1, <1>11, <1>14, <2>1 DEF DstView, DstGoes
<1>15. CASE q.state = "snoop_cd"
  <2> DEFINE took == q.cd_ready \cap t.cd_valid
             h == CHOOSE c \in took : \A k \in took : k <= c
  <2>1. /\ q'.cd_ready = q.cd_ready \ t.cd_valid /\ q'.req_addr = q.req_addr
        /\ q'.req_type = IF q'.cd_ready # {} THEN q.req_type
                         ELSE q.req_type \cup {"WRITE", "SNOOP"}
        /\ q'.req_wdata = IF took = {} THEN q.req_wdata ELSE t.cd_data[h]
    BY <1>1, <1>15 DEF DstView
  <2>2. took # {} => t.cd_data[h] \in Data
    <3> SUFFICES ASSUME took # {} PROVE t.cd_data[h] \in Data
      OBVIOUS
    <3>1. took \in SUBSET Cores
      BY <1>1, <1>15 DEF HandDst
    <3>2. \E c \in took : \A k \in took : k <= c
      BY <3>1, HighestSlot
    <3>3. h \in took
      BY <3>2
    <3> QED
      BY <1>7, <3>1, <3>3
  <2>3. q.cd_ready # {}
    BY <1>1, <1>15 DEF HandDst
  <2>4. q'.cd_ready = {} => took # {}
    BY <2>1, <2>3
  <2> HIDE DEF took, h
  <2>5. q'.req_type \subseteq DS!ReqTypes /\ q'.req_addr \in Lines
    BY <1>3, <1>15, <2>1 DEF DstTyped, DS!ReqTypes
  <2>6. CASE q'.cd_ready = {}
    BY <2>1, <2>2, <2>4, <2>5, <2>6
  <2>7. CASE q'.cd_ready # {}
    BY <1>3, <2>1, <2>2, <2>5, <2>7 DEF DstTyped
  <2> QED
    BY <2>6, <2>7
<1> QED
  BY <1>1, <1>8, <1>9, <1>10, <1>12, <1>13, <1>14, <1>15 DEF DstShape, DS!DstStates

\* A request of a core is for a line, into its own word.
LEMMA ChoiceTyped ==
    ASSUME MemTyped, NEW c \in Cores, NEW u \in CoreChoices(c), u.req.valid
    PROVE  u.req.addr \in Lines /\ u.req.word \in Cores /\ u.req.wdata \in {0, 1}
<1>1. PICK y \in Accesses[c] : u.req = Request(c, y)
  BY DEF CoreChoices, Quiet, NoRequest
<1>2. y.addr \in Lines
  BY AccessAssumption
<1>3. newest[y.addr][c] \in {0, 1}
  BY <1>2 DEF MemTyped, Data, Words
<1>4. u.req.addr = y.addr /\ u.req.word = c /\ u.req.wdata = 1 - newest[y.addr][c]
  BY <1>1 DEF Request
<1> QED
  BY <1>2, <1>3, <1>4

\* A cycle keeps the L2 cache, the memory and the history of stores in their
\* ranges.
LEMMA MemTypedNext ==
    ASSUME TypedInv, NEW u, NEW done \in Done, Edge(u, done) PROVE MemTyped'
<1>1. /\ l2' = IF done THEN DS!L2Next(l2, mem, q) ELSE l2
      /\ mem' = IF done THEN DS!MemNext(l2, mem, q) ELSE mem
      /\ newest' = NewestNext
  BY DEF Edge
<1>2. done => q.state \in {"ReadMem", "WriteMem"}
  BY DEF Done
<1>3. MemTyped /\ DstTyped
  BY DEF TypedInv
<1>4. l2'.valid => l2'.tag \in Lines /\ l2'.data \in Data
  <2>1. CASE ~done
    BY <1>1, <1>3, <2>1 DEF MemTyped
  <2>2. CASE done
    <3>1. q.req_addr \in Lines /\ ("WRITE" \in q.req_type => q.req_wdata \in Data)
          /\ mem[q.req_addr] \in Data
      BY <1>2, <1>3, <2>2 DEF DstTyped, MemTyped
    <3>2. l2' \in {DS!L2Reset, l2,
                   [tag |-> q.req_addr, valid |-> TRUE, dirty |-> FALSE,
                    data |-> mem[q.req_addr]]}
          \/ /\ "WRITE" \in q.req_type
             /\ l2' = [tag |-> q.req_addr, valid |-> TRUE, dirty |-> TRUE,
                       data |-> q.req_wdata]
      BY <1>1, <2>2 DEF DS!L2Next
    <3> QED
      BY <1>3, <3>1, <3>2 DEF MemTyped, DS!L2Reset
  <2> QED
    BY <2>1, <2>2
<1>5. mem' \in [Lines -> Data]
  BY <1>1, <1>3 DEF MemTyped, DS!MemNext
<1>6. newest' \in [Lines -> Data]
  <2>1. ASSUME NEW l \in Lines, NEW w \in Words
        PROVE  (IF Stores(w) /\ d[w].req_addr = l THEN d[w].req_wdata ELSE newest[l][w])
                  \in {0, 1}
    <3>1. newest[l][w] \in {0, 1} /\ w \in Cores
      BY <1>3 DEF MemTyped, Data, Words
    <3>2. Stores(w) => Busy(d[w])
      BY DEF Stores, DC!StoreHits, DC!Hits, Busy
    <3>3. Busy(d[w]) => d[w].req_wdata \in {0, 1}
      BY <3>1 DEF TypedInv, CacheTyped
    <3> QED
      BY <3>1, <3>2, <3>3
  <2> QED
    BY <1>1, <2>1 DEF NewestNext, Data
<1> QED
  BY <1>4, <1>5, <1>6 DEF MemTyped

\* A cycle keeps a core, its cache and its adapter in their ranges.
LEMMA CoreTypedNext ==
    ASSUME AnswerInv, HandInv, BusInv, TypedInv, NEW u \in Choices, NEW done \in Done,
           Edge(u, done), NEW c \in Cores
    PROVE  /\ CacheTyped(d'[c]) /\ AdapterTyped(a'[c])
           /\ asked'[c] \in Lines \cup {"nothing", "flush"}
<1> DEFINE i == CacheWires(u, done)[c]
           j == AdapterWires(u, done)[c]
           x == d[c]
           y == a[c]
<1>1. /\ LocalShape(x, y) /\ LocalHand(x, y) /\ LocalBus(x, y)
      /\ CacheShape(x) /\ Control(x) /\ FillHits(x) /\ FillKnown(x) /\ ShareHits(x)
      /\ Busy(x) => AccessAddr(x) \in Lines
      /\ CacheTyped(x) /\ AdapterTyped(y) /\ asked[c] \in Lines \cup {"nothing", "flush"}
      /\ DstTyped /\ MemTyped
  BY DEF HandInv, HandCore, LocalShape, BusInv, BusCore, AnswerInv, TypedInv
<1>2. /\ d'[c] = DC!ForgetCache(DC!CacheNext(x, i))
      /\ a'[c] = AD!ForgetAdapter(AD!AdapterNext(y, j))
  BY EdgeIs
<1>3. asked'[c] = AskedNext(c, u[c], i)
  BY DEF Edge, CacheWires
<1>4. u[c] \in CoreChoices(c)
  BY DEF Choices
<1>5. /\ i.snoop = AD!SnoopReq(y, j.ac)
      /\ i.req = u[c].req
      /\ i.mem_data = IF "SNOOP" \in q.req_type THEN q.req_wdata ELSE RData
      /\ j.ac.valid => q.state = "snoop_ac"
      /\ j.ac.addr = q.req_addr
      /\ j.req_mem_valid = x.req_mem_valid
      /\ j.req_mem_type = x.req_mem_type
      /\ j.req_mem_addr = x.mem_addr
      /\ j.req_mem_data = x.cache_line_o
  BY WireFacts DEF Wired
<1>6. i.mem_valid => \/ y.state = "r" /\ q.state = "ReadMem"
                     \/ y.state = "b"
  BY BusCores
<1>7. u[c].req.valid => /\ u[c].req.addr \in Lines /\ u[c].req.word \in Cores
                        /\ u[c].req.wdata \in {0, 1}
  BY <1>1, <1>4, ChoiceTyped
<1> HIDE DEF i, j
<1>8. InputTyped(x, i)
  <2>1. i.snoop.type \in DC!SnoopTypes /\ (DC!DataSnoop(i) => i.snoop.addr \in Lines)
    BY <1>1, <1>5 DEF AD!SnoopReq, AD!TakesSnoop, AdapterTyped, DC!SnoopTypes, DC!DataSnoop
  <2>2. ASSUME i.mem_valid, x.state = "WaitResp" PROVE i.mem_data \in Data
    <3>1. q.state = "ReadMem"
      BY <1>1, <1>6, <2>2 DEF LocalBus, Waits, InSnoop
    <3>2. RData = DS!L2Data(l2, mem, q) /\ q.req_addr \in Lines
      BY <1>1, <3>1 DEF RData, DstTyped
    <3>3. DS!L2Data(l2, mem, q) \in Data
      BY <1>1, <3>2 DEF DS!L2Data, DS!L2Hit, MemTyped
    <3> QED
      BY <1>1, <1>5, <3>2, <3>3 DEF DstTyped
  <2> QED
    BY <1>5, <1>7, <2>1, <2>2 DEF InputTyped
<1>9. CacheTyped(d'[c])
  BY <1>1, <1>2, <1>8, CacheTypedEdge
<1>10. AdapterTyped(a'[c])
  <2>1. BusView(y, j, a'[c]) /\ AckView(y, j, a'[c])
    BY <1>1, <1>2, AdapterEdge DEF LocalShape, LocalHand
  <2>2. j.req_mem_valid => /\ j.req_mem_addr \in Lines
                           /\ AD!IsWrite(j.req_mem_type) => j.req_mem_data \in Data
    BY <1>1, <1>5 DEF LocalBus, CacheTyped
  <2>3. j.ac.valid => j.ac.addr \in Lines
    BY <1>1, <1>5 DEF DstTyped
  <2> QED
    BY <1>1, <2>1, <2>2, <2>3, AdapterTypedEdge DEF LocalShape, LocalHand
<1>11. asked'[c] \in Lines \cup {"nothing", "flush"}
  BY <1>1, <1>3, <1>7 DEF AskedNext
<1> QED
  BY <1>9, <1>10, <1>11

\* A cycle keeps all registers in their ranges.
LEMMA TypedNext ==
    ASSUME AnswerInv, HandInv, BusInv, TypedInv, [Next]_vars PROVE TypedInv'
<1>1. CASE UNCHANGED vars
  BY <1>1 DEF vars, TypedInv, DstTyped, MemTyped
<1>2. CASE Next
  <2>1. PICK u \in Choices, done \in Done : Edge(u, done)
    BY <1>2 DEF Next
  <2>2. DstTyped' /\ MemTyped'
    BY <2>1, DstTypedNext, MemTypedNext
  <2>3. ASSUME NEW c \in Cores
        PROVE  /\ CacheTyped(d'[c]) /\ AdapterTyped(a'[c])
               /\ asked'[c] \in Lines \cup {"nothing", "flush"}
    BY <2>1, CoreTypedNext
  <2> QED
    BY <2>2, <2>3 DEF TypedInv
<1> QED
  BY <1>1, <1>2

\* The registers of the caches, the adapters, the arbiter, the L2 cache and the
\* memory stay in their ranges for every number of cores and lines, also after a
\* race: every address that is served is one a core has asked for, and a snooped
\* or refilled line is never one that nobody has written.
THEOREM RegistersTyped == Spec => []TypeOK
<1> DEFINE I == AnswerInv /\ HandInv /\ BusInv /\ TypedInv
<1>1. Init => I
  BY AnswerInit, HandInit, BusInit, TypedInit
<1>2. I /\ [Next]_vars => I'
  <2> SUFFICES ASSUME I, [Next]_vars PROVE I'
    OBVIOUS
  <2>1. AnswerInv' /\ HandInv'
    BY AnswerNext, HandNext
  <2>2. BusInv'
    BY BusKept
  <2>3. TypedInv'
    BY TypedNext
  <2> QED
    BY <2>1, <2>2, <2>3
<1>3. I => TypeOK
  <2> SUFFICES ASSUME I PROVE TypeOK
    OBVIOUS
  <2>1. ASSUME NEW c \in Cores
        PROVE  /\ d[c].state \in DC!CacheStates
               /\ \A P \in DC!Places : /\ d[c].lines[P].flags \subseteq DC!Flags
                                       /\ d[c].lines[P].data \in Data
               /\ d[c].lru \in [DC!Sets -> [DC!Ways -> DC!Ways]]
               /\ d[c].flush_cnt \in 0..DC!FLUSH_ALL_VALUE
               /\ d[c].snoop_restore \in {"none", "WaitResp", "WriteBus"}
               /\ a[c].state \in AD!BusStates
               /\ a[c].snoop_state \in AD!SnoopStates
    <3>1. LocalShape(d[c], a[c]) /\ LocalHand(d[c], a[c]) /\ LinesTyped(d[c].lines)
      BY DEF HandInv, HandCore, TypedInv, CacheTyped
    <3> QED
      BY <3>1 DEF LocalShape, LocalHand, Control, CacheShape, LinesTyped, LineTyped
  <2>2. q.state \in DS!DstStates
    BY DEF HandInv, HandDst, DstShape
  <2> QED
    BY <2>1, <2>2 DEF TypedInv, CacheTyped, DstTyped, MemTyped, Masks, TypeOK
<1> QED
  BY <1>1, <1>2, <1>3, PTL DEF Spec
=============================================================================
