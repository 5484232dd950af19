------------------------------ MODULE CdcAfifo ------------------------------
(***************************************************************************)
(* The asynchronous FIFO that carries words between two clock domains:     *)
(* cdc_afifo with its two cdc_afifo_gray pointer counters and the dual-    *)
(* port memory cdc_dp_mem.                                                 *)
(*                                                                         *)
(* One action is one edge: of the write clock, of the read clock, of both  *)
(* at the same instant (every register then samples the values the others *)
(* had before the edge), or of the reset.  The clocks are unrelated, so    *)
(* the edges come in any order.                                            *)
(*                                                                         *)
(* A pointer is abits+1 bits wide.  The synchroniser of a pointer is       *)
(* clocked by the pointer's own clock, and because q1_wgray and q1_rgray   *)
(* are plain variables assigned before they are read, its two stages       *)
(* together delay the pointer by a single edge.                            *)
(***************************************************************************)
EXTENDS BitWords, FiniteSets

CONSTANTS abits,    \* log2 of the depth
          Data      \* the words

\* cdc_afifo_gray selects the bits abits-2 down to 0.
ASSUME AbitsAssumption == abits \in Nat /\ abits >= 2
ASSUME DataAssumption == Data # {}

Depth == Pow2[abits]
Ptrs == UInt(abits + 1)
Addrs == 0 .. (Depth - 1)

VARIABLES
    wbin, wgray, full,      \* wgray0: the write counter, its Gray code, o_full
    rbin, rgray, empty,     \* rgray0: the read counter, its Gray code, o_empty
    q2_wgray, q2_rgray,     \* the synchronised pointers
    mem,                    \* mem0
    rdata                   \* the word the reader sampled with its last read

wvars == <<wbin, wgray, full, q2_wgray, mem>>
rvars == <<rbin, rgray, empty, q2_rgray, rdata>>
vars == <<wbin, wgray, full, q2_wgray, mem, rbin, rgray, empty, q2_rgray, rdata>>

-----------------------------------------------------------------------------
(* cdc_afifo_gray: pointer arithmetic.                                     *)

\* A word of abits+1 bits is the function from bit numbers to bits.
GrayWords == [0 .. abits -> {0, 1}]

\* Mutant: the pointer crosses in binary.
MutBinaryPointer(n) == [i \in 0 .. abits |-> Bit(n, i)]

\* wb_gray_next = (wb_bin_next >> 1) ^ wb_bin_next
Gray(n) == [i \in 0 .. abits |-> (Bit(n, i) + Bit(n, i + 1)) % 2]

\* Mutant: the counter wraps one value late.
MutWrapLate(bin, ena) == IF ena THEN (bin + 1) % (2 * Depth + 1) ELSE bin

\* wb_bin_next = bin + i_ena, in abits+1 bits
BinNext(bin, ena) == IF ena THEN (bin + 1) % (2 * Depth) ELSE bin

GrayEmpty(g, q2) == g = q2

\* Mutant: the test for binary pointers, only the top bit differs.
MutFullBinary(g, q2) == /\ g[abits] # q2[abits]
                        /\ \A i \in 0 .. (abits - 1) : g[i] = q2[i]

\* The top two bits differ and the others agree.
GrayFull(g, q2) == /\ g[abits] # q2[abits]
                   /\ g[abits - 1] # q2[abits - 1]
                   /\ \A i \in 0 .. (abits - 2) : g[i] = q2[i]

\* o_addr
Addr(bin) == bin % Depth

-----------------------------------------------------------------------------
(* cdc_afifo                                                               *)

\* Mutant: a write does not wait for room.
MutWriteAlways(wr) == wr

\* Mutant: a read does not wait for a word.
MutReadAlways(rd) == rd

w_wr_ena(wr) == wr /\ ~full
w_rd_ena(rd) == rd /\ ~empty

\* cdc_dp_mem::rproc, combinational
o_rdata == mem[Addr(rbin)]

Init == /\ wbin = 0 /\ wgray = Gray(0) /\ full = FALSE
        /\ rbin = 0 /\ rgray = Gray(0) /\ empty = TRUE
        /\ q2_wgray = Gray(0) /\ q2_rgray = Gray(0)
        /\ mem \in [Addrs -> Data]
        /\ rdata \in Data

\* Mutant: the write pointer is synchronised only by the edges that write.
MutSyncOnWrite(wr, d) ==
    /\ wbin' = BinNext(wbin, w_wr_ena(wr))
    /\ wgray' = Gray(wbin')
    /\ full' = GrayFull(wgray', q2_rgray)
    /\ mem' = IF w_wr_ena(wr) THEN [mem EXCEPT ![Addr(wbin)] = d] ELSE mem
    /\ q2_wgray' = IF w_wr_ena(wr) THEN wgray ELSE q2_wgray

\* i_wr and i_wdata at a rising edge of i_wclk: wgray0.proc_ff, mem0.wproc and
\* proc_wff.
WriteSide(wr, d) ==
    /\ wbin' = BinNext(wbin, w_wr_ena(wr))
    /\ wgray' = Gray(wbin')
    /\ full' = GrayFull(wgray', q2_rgray)
    /\ mem' = IF w_wr_ena(wr) THEN [mem EXCEPT ![Addr(wbin)] = d] ELSE mem
    /\ q2_wgray' = wgray

\* Mutant: the read pointer is synchronised only by the edges that read.
MutSyncOnRead(rd) ==
    /\ rbin' = BinNext(rbin, w_rd_ena(rd))
    /\ rgray' = Gray(rbin')
    /\ empty' = GrayEmpty(rgray', q2_wgray)
    /\ rdata' = IF w_rd_ena(rd) THEN o_rdata ELSE rdata
    /\ q2_rgray' = IF w_rd_ena(rd) THEN rgray ELSE q2_rgray

\* i_rd at a rising edge of i_rclk: rgray0.proc_ff and proc_rff; the reader
\* samples o_rdata with the same edge.
ReadSide(rd) ==
    /\ rbin' = BinNext(rbin, w_rd_ena(rd))
    /\ rgray' = Gray(rbin')
    /\ empty' = GrayEmpty(rgray', q2_wgray)
    /\ rdata' = IF w_rd_ena(rd) THEN o_rdata ELSE rdata
    /\ q2_rgray' = rgray

WriteClk(wr, d) == WriteSide(wr, d) /\ UNCHANGED rvars

ReadClk(rd) == ReadSide(rd) /\ UNCHANGED wvars

BothClk(wr, d, rd) == WriteSide(wr, d) /\ ReadSide(rd)

\* i_nrst = 0 clears the counters, the flags and the synchronisers of both
\* domains; the memory is not reset.  The clients are in reset too.
Reset ==
    /\ wbin' = 0 /\ wgray' = Gray(0) /\ full' = FALSE
    /\ rbin' = 0 /\ rgray' = Gray(0) /\ empty' = TRUE
    /\ q2_wgray' = Gray(0) /\ q2_rgray' = Gray(0)
    /\ UNCHANGED <<mem, rdata>>

WEdge == \E wr \in BOOLEAN, d \in Data : WriteClk(wr, d)
REdge == \E rd \in BOOLEAN : ReadClk(rd)
BothEdges == \E wr, rd \in BOOLEAN, d \in Data : BothClk(wr, d, rd)

Next == WEdge \/ REdge \/ BothEdges \/ Reset

Spec == Init /\ [][Next]_vars

\* Both clocks keep running, and what an edge does is the client's choice: an
\* edge that would move registers even without a transfer is not put off for
\* ever.  No transfer is ever forced.
IdleWEdge == \E d \in Data : WriteClk(FALSE, d)
IdleREdge == ReadClk(FALSE)

Fairness == /\ []<>(~ENABLED <<IdleWEdge>>_vars) \/ []<><<WEdge \/ BothEdges>>_vars
            /\ []<>(~ENABLED <<IdleREdge>>_vars) \/ []<><<REdge \/ BothEdges>>_vars

FairSpec == Spec /\ Fairness

-----------------------------------------------------------------------------
(* Properties.                                                             *)

\* How far pointer a is ahead of pointer b, in abits+1 bits.
Ahead(a, b) == IF a >= b THEN a - b ELSE a - b + 2 * Depth

\* The pointer a Gray word stands for.
UnGray(g) == CHOOSE p \in Ptrs : Gray(p) = g

\* The words in flight.
Occupancy == Ahead(wbin, rbin)

\* The registers hold values of their width: counters and addresses never
\* leave the abits+1 bits of sc_uint<abits+1>.
TypeOK == /\ wbin \in Ptrs /\ rbin \in Ptrs
          /\ wgray \in GrayWords /\ rgray \in GrayWords
          /\ q2_wgray \in GrayWords /\ q2_rgray \in GrayWords
          /\ full \in BOOLEAN /\ empty \in BOOLEAN
          /\ mem \in [Addrs -> Data]
          /\ rdata \in Data

\* Walking up from t one meets r, s and w, all within Depth.
InOrder(t, r, s, w) == /\ Ahead(r, t) <= Ahead(s, t)
                       /\ Ahead(s, t) <= Ahead(w, t)
                       /\ Ahead(w, t) <= Depth

\* From the read pointer the writer sees, up to the read pointer, the write
\* pointer the reader sees and the write pointer it is at most Depth: cdc_afifo
\* never overruns and never reads ahead, whatever the order of the edges.
PointersInOrder == InOrder(UnGray(q2_rgray), rbin, UnGray(q2_wgray), wbin)

\* The inductive invariant: the Gray registers hold the codes of the counters
\* or of earlier values of them, in order, and a flag that is down was computed
\* from a pointer no further than the one seen now.
IndInv ==
    /\ TypeOK
    /\ wgray = Gray(wbin)
    /\ rgray = Gray(rbin)
    /\ \E p \in Ptrs : q2_wgray = Gray(p)
    /\ \E p \in Ptrs : q2_rgray = Gray(p)
    /\ PointersInOrder
    /\ ~full => Ahead(wbin, UnGray(q2_rgray)) < Depth
    /\ ~empty => UnGray(q2_wgray) # rbin

\* o_wready is raised only when a slot is really free and o_rvalid only when a
\* word is really there, although both flags are registered and computed from
\* a stale copy of the other pointer.
FlagsConservative ==
    /\ ~full => Occupancy < Depth
    /\ ~empty => Occupancy > 0

\* What another clock domain samples changes in at most one bit per edge, so a
\* sample taken during the change is the old or the new pointer
\* (cdc_afifo_gray's reason to be).
OneBitPerEdge ==
    [][ \/ Reset
        \/ /\ Cardinality({i \in 0 .. abits : q2_wgray'[i] # q2_wgray[i]}) <= 1
           /\ Cardinality({i \in 0 .. abits : q2_rgray'[i] # q2_rgray[i]}) <= 1 ]_vars

\* The FIFO is a bounded queue of at most Depth words: nothing is lost,
\* duplicated, reordered or read before it is written.
Contents == [i \in 1 .. Occupancy |-> mem[Addr(rbin + i - 1)]]

Fifo == INSTANCE BoundedFifo WITH q <- Contents, out <- rdata

RefinesFifo == Fifo!Spec

\* A word written becomes visible to the reader (o_rvalid rises) unless a reset
\* discards it: the synchroniser keeps running when the writer is idle.
WordBecomesVisible == (Occupancy > 0) ~> (~empty \/ Occupancy = 0)

\* A slot freed by the reader becomes visible to the writer: o_wready does not
\* stay low for ever while there is room.
RoomBecomesVisible == (Occupancy < Depth) ~> (~full \/ Occupancy = Depth)
=============================================================================
