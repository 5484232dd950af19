------------------------------- MODULE Plic -------------------------------
(***************************************************************************)
(* The platform-level interrupt controller behind its axi_slv              *)
(* (src/sc/rtl/internal/misclib/plic.h), one step per clock cycle, with a  *)
(* bus master that makes one access of four bytes at a time.               *)
(*                                                                         *)
(* The selection of the interrupt shown to a context is a pipeline of      *)
(* three registers that keeps moving while the harts claim:                *)
(*   pending -> ip_prio -> sel_prio -> irq_idx and ip.                     *)
(* prio_mask is loaded together with ip_prio from the same wires, and is   *)
(* therefore the set of priorities in it (PrioMask).  irq_prio, which      *)
(* nothing reads, is left out.                                             *)
(*                                                                         *)
(* An address counts units of 8 bytes; a beat is a pair of words, and a    *)
(* word that is not strobed is NoWord.  A word of the pending and enable   *)
(* arrays is the set of the interrupts whose bits are up; the interrupts   *)
(* of the instance lie in one word of each.                                *)
(***************************************************************************)
EXTENDS Integers, FiniteSets, TLC

CONSTANTS Irqs,      \* interrupt numbers, 0 is none
          Contexts,  \* context numbers: 0, 1, ...
          Writes,    \* the register writes software may make
          NoWord,    \* a word that is not strobed
          ErrWord    \* a word of an error answer; the controller gives none

AX == INSTANCE AxiSlave

VARIABLES r,     \* registers of the controller
          slv,   \* registers of its axi_slv
          mst,   \* the bus master and its access
          owed,  \* history: interrupts latched and not yet handed out
          calm,  \* history: cycles since an input of the pipeline changed
          waited \* history: cycles an eligible interrupt has waited for ip

vars == <<r, slv, mst, owed, calm, waited>>

Prios == 0 .. 15

WaitBound == 4  \* cycles from eligible to ip: the pipeline and one more
WaitCap == WaitBound + 1

\* the registers of one context after reset
CtxReset == [priority_th |-> 0, ie |-> {}, ip_prio |-> [i \in Irqs |-> 0],
             sel_prio |-> 0, irq_idx |-> 0]

PlicReset == [src_priority |-> [i \in Irqs |-> 0], pending |-> {}, ip |-> {},
              ctx |-> [n \in Contexts |-> CtxReset], rdata |-> 0,
              resp_valid |-> FALSE]

----------------------------------------------------------------------------
(* The address map *)

PrioAddr(k) == k
PendingAddr == 512
IeAddr(n) == 1024 + 16 * n
CtxAddr(n) == 262144 + 512 * n

\* the context whose claim register is addressed, or none
AtClaim(a) == {n \in Contexts : a = CtxAddr(n)}

\* the interrupts whose priority the low and the high word of address k set
LowPrio(k) == {2 * k} \ {0}
HighPrio(k) == {2 * k + 8}

ASSUME IrqAssumption == Irqs \subseteq 1 .. 31
ASSUME ContextAssumption == Contexts # {} /\ Contexts \subseteq 0 .. 31
ASSUME WriteAssumption ==
  \A x \in Writes :
    \/ x.addr \in 0 .. 31 /\ \A k \in {1, 2} : x.data[k] \in Prios \cup {NoWord}
    \/ x.addr \in {PendingAddr} \cup {IeAddr(n) : n \in Contexts}
         /\ x.data[1] \subseteq Irqs /\ x.data[2] = NoWord
    \/ x.addr \in {CtxAddr(n) : n \in Contexts}
         /\ \A k \in {1, 2} : x.data[k] \in Prios \cup {NoWord}

----------------------------------------------------------------------------
(* The pipeline *)

\* interrupt i is pending, enabled and above the threshold of context n
Eligible(n, i) == /\ i \in r.pending
                  /\ i \in r.ctx[n].ie
                  /\ r.src_priority[i] > r.ctx[n].priority_th

\* the first stage: the priorities of the eligible interrupts
IpPrio(n) == [i \in Irqs |-> IF Eligible(n, i) THEN r.src_priority[i] ELSE 0]

PrioMask(c) == {c.ip_prio[i] : i \in Irqs} \ {0}

Highest(S) == IF S = {} THEN 0 ELSE CHOOSE x \in S : \A y \in S : y <= x

\* Mutant: the scan of the priorities keeps the first one it finds.
SelPrioLowest(c) ==
  IF PrioMask(c) = {} THEN 0
  ELSE CHOOSE x \in PrioMask(c) : \A y \in PrioMask(c) : x <= y

\* the second stage
SelPrio(c) == Highest(PrioMask(c))

\* Mutant: nothing is shown while two interrupts compete.
IrqIdxSingle(c) ==
  LET S == {i \in Irqs : c.ip_prio[i] >= c.sel_prio}
  IN  IF c.sel_prio = 0 \/ Cardinality(S) # 1 THEN 0 ELSE CHOOSE i \in S : TRUE

\* the third stage: of the interrupts that have the selected priority the one
\* with the highest number
IrqIdx(c) == IF c.sel_prio = 0 THEN 0
             ELSE Highest({i \in Irqs : c.ip_prio[i] = c.sel_prio})

----------------------------------------------------------------------------
(* The registers *)

Word(w, old) == IF w = NoWord THEN old ELSE w

\* a write reaches the registers in this cycle
WriteTo(a) == slv.req_valid /\ slv.req_write /\ slv.req_addr = a

\* Mutant: a priority wider than its four bits.
PrioNextWide(i) ==
  IF slv.req_valid /\ slv.req_write /\ i \in HighPrio(slv.req_addr)
  THEN 16 ELSE r.src_priority[i]

PrioNext(i) ==
  LET k == slv.req_addr
      on == slv.req_valid /\ slv.req_write /\ k < 512
  IN  IF on /\ i \in HighPrio(k) /\ slv.req_wdata[2] # NoWord
      THEN slv.req_wdata[2]
      ELSE IF on /\ i \in LowPrio(k) THEN Word(slv.req_wdata[1], r.src_priority[i])
      ELSE r.src_priority[i]

\* interrupts raised in this cycle
Latched(irqs) == {i \in irqs : r.src_priority[i] > 0}

\* Mutant: a claim clears nothing.
ClaimClearedNever == {}

\* interrupts whose pending bit goes because the claim register of a context
\* is addressed
ClaimCleared == {r.ctx[n].irq_idx : n \in AtClaim(slv.req_addr) \cap r.ip}

PendingNext(irqs) ==
  IF WriteTo(PendingAddr) THEN Word(slv.req_wdata[1], r.pending \cup Latched(irqs))
  ELSE (r.pending \cup Latched(irqs)) \ ClaimCleared

CtxNext(n) ==
  LET c == r.ctx[n]
      completes == WriteTo(CtxAddr(n)) /\ slv.req_wdata[2] # NoWord
  IN  [priority_th |-> IF WriteTo(CtxAddr(n))
                       THEN Word(slv.req_wdata[1], c.priority_th)
                       ELSE c.priority_th,
       ie |-> IF WriteTo(IeAddr(n)) THEN Word(slv.req_wdata[1], c.ie) ELSE c.ie,
       ip_prio |-> IpPrio(n),
       sel_prio |-> SelPrio(c),
       irq_idx |-> IF completes THEN 0 ELSE IrqIdx(c)]

\* what a read of the claim register shows; reads of the other registers
\* change nothing, and what they show is left out
RData == LET at == AtClaim(slv.req_addr)
         IN  IF at = {} THEN 0 ELSE r.ctx[CHOOSE n \in at : TRUE].irq_idx

\* plic::comb and plic::registers
PlicNext(irqs) ==
  [src_priority |-> [i \in Irqs |-> PrioNext(i)],
   pending |-> PendingNext(irqs),
   ip |-> {n \in Contexts : IrqIdx(r.ctx[n]) # 0},
   ctx |-> [n \in Contexts |-> CtxNext(n)],
   rdata |-> RData,
   resp_valid |-> slv.req_valid]

----------------------------------------------------------------------------
(* The bus: a master with one access at a time, as L2Amba *)

Idle == [st |-> "idle"]
ReadOf(n) == [st |-> "ar", addr |-> CtxAddr(n)]
Accesses == {Idle} \cup {ReadOf(n) : n \in Contexts}
            \cup {[st |-> "aw", addr |-> x.addr, data |-> x.data] : x \in Writes}

SlvIn == [ar_valid |-> mst.st = "ar",
          ar_addr |-> IF mst.st = "ar" THEN mst.addr ELSE 0,
          ar_len |-> 0, ar_bytes |-> 4, ar_id |-> 0,
          aw_valid |-> mst.st = "aw",
          aw_addr |-> IF mst.st = "aw" THEN mst.addr ELSE 0,
          aw_bytes |-> 4, aw_id |-> 0,
          w_valid |-> mst.st = "w", w_last |-> mst.st = "w",
          w_data |-> IF mst.st = "w" THEN mst.data ELSE AX!NoBeat,
          r_ready |-> TRUE, b_ready |-> TRUE,
          req_ready |-> TRUE, resp_valid |-> r.resp_valid,
          resp_data |-> <<r.rdata, r.rdata>>]

MstNext(a) ==
  CASE mst.st = "idle" -> a
    [] mst.st = "ar" -> IF slv.ar_ready THEN [mst EXCEPT !.st = "r"] ELSE mst
    [] mst.st = "r"  -> IF slv.r_valid THEN Idle ELSE mst
    [] mst.st = "aw" -> IF slv.aw_ready THEN [mst EXCEPT !.st = "w"] ELSE mst
    [] mst.st = "w"  -> IF slv.w_ready THEN [mst EXCEPT !.st = "b"] ELSE mst
    [] mst.st = "b"  -> IF slv.b_valid THEN Idle ELSE mst

----------------------------------------------------------------------------
\* a claim is read in this cycle, and the interrupt it hands out
ClaimRead == {n \in AtClaim(slv.req_addr) : slv.req_valid /\ ~slv.req_write}
HandedOut == {r.ctx[n].irq_idx : n \in ClaimRead} \ {0}

Init == /\ r = PlicReset
        /\ slv = AX!SlvReset
        /\ mst = Idle
        /\ owed = {}
        /\ calm = 0
        /\ waited = [n \in Contexts |-> [i \in Irqs |-> 0]]

\* One cycle: the sources raise irqs, and an idle master starts access a.
Cycle(irqs, a) ==
  /\ r' = PlicNext(irqs)
  /\ slv' = AX!Comb(slv, SlvIn)
  /\ mst' = MstNext(a)
  /\ owed' = (owed \ HandedOut) \cup (r'.pending \ r.pending)
  /\ calm' = IF /\ r'.pending = r.pending
                /\ r'.src_priority = r.src_priority
                /\ \A n \in Contexts :
                     /\ r'.ctx[n].ie = r.ctx[n].ie
                     /\ r'.ctx[n].priority_th = r.ctx[n].priority_th
                     /\ ~WriteTo(CtxAddr(n))
             THEN (IF calm = 3 THEN 3 ELSE calm + 1) ELSE 0
  /\ waited' = [n \in Contexts |-> [i \in Irqs |->
                  IF Eligible(n, i) /\ n \notin r.ip
                  THEN (IF waited[n][i] = WaitCap THEN WaitCap
                        ELSE waited[n][i] + 1)
                  ELSE 0]]

Next == \E irqs \in SUBSET Irqs,
           a \in (IF mst.st = "idle" THEN Accesses ELSE {Idle}) : Cycle(irqs, a)

Spec == Init /\ [][Next]_vars /\ WF_vars(Next)

----------------------------------------------------------------------------
(* Properties *)

\* Registers keep their ranges; the slave port never asks beyond an access.
TypeOK ==
  /\ r.src_priority \in [Irqs -> Prios]
  /\ r.pending \subseteq Irqs
  /\ r.ip \subseteq Contexts
  /\ \A n \in Contexts :
       /\ r.ctx[n].priority_th \in Prios
       /\ r.ctx[n].ie \subseteq Irqs
       /\ r.ctx[n].ip_prio \in [Irqs -> Prios]
       /\ r.ctx[n].sel_prio \in Prios
       /\ r.ctx[n].irq_idx \in {0} \cup Irqs
  /\ slv.rstate \in {"r_idle", "r_addr", "r_resp_last", "r_wait_accept"}
  /\ slv.wstate \in {"w_idle", "w_req", "w_pipe", "w_resp", "b"}

\* An interrupt is handed out once: a claim never shows an interrupt that
\* another claim has already taken and no source has raised since, although
\* the contexts still show it for some cycles after its pending bit has gone
\* (plic.h: vb_ctx_irq_idx, the claim register).
HandedOutOnce == HandedOut \subseteq owed

\* the interrupt context n should be shown: the highest number among the
\* eligible ones of the highest priority
Best(n) ==
  LET E == {i \in Irqs : Eligible(n, i)}
      top == Highest({r.src_priority[i] : i \in E})
  IN  Highest({i \in E : r.src_priority[i] = top})

\* When nothing has changed for three cycles the pipeline shows every context
\* the eligible interrupt of the highest priority, and ip is up exactly if
\* there is one.
SettlesOnBest ==
  calm = 3 => \A n \in Contexts : /\ r.ctx[n].irq_idx = Best(n)
                                  /\ n \in r.ip <=> Best(n) # 0

\* An interrupt that stays eligible raises ip within a bounded number of
\* cycles, however the other interrupts and the registers move meanwhile: the
\* last stage compares priorities of two different cycles, so that one that
\* goes away may spoil the comparison, and it must not do so twice.
AnsweredInTime == \A n \in Contexts, i \in Irqs : waited[n][i] <= WaitBound
=============================================================================
