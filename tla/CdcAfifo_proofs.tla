-------------------------- MODULE CdcAfifo_proofs --------------------------
(***************************************************************************)
(* The asynchronous FIFO is safe for every address width, every set of     *)
(* words and every order of the clock edges.                               *)
(***************************************************************************)
EXTENDS CdcAfifo, BitWords_proofs, SequenceTheorems, FiniteSetTheorems

\* The depth is a positive natural and the pointers are the numbers below twice it.
LEMMA DepthNat ==
    /\ abits \in Nat /\ abits + 1 \in Nat /\ abits - 1 \in Nat /\ abits - 2 \in Nat
    /\ Depth \in Nat \ {0}
    /\ Pow2[abits + 1] = 2 * Depth
    /\ Ptrs = 0 .. (2 * Depth - 1)
<1>1. abits \in Nat /\ abits + 1 \in Nat /\ abits - 1 \in Nat /\ abits - 2 \in Nat
  BY AbitsAssumption
<1>2. Depth \in Nat \ {0} /\ Pow2[abits + 1] = 2 * Depth
  BY <1>1, Pow2Facts DEF Depth
<1> QED
  BY <1>1, <1>2 DEF Ptrs, UInt

\* The bits of a pointer, and the one above them, which is zero.
LEMMA PtrBits ==
    ASSUME NEW n \in Ptrs
    PROVE  /\ n \in Nat
           /\ \A i \in 0 .. abits + 1 : Bit(n, i) \in {0, 1}
           /\ Bit(n, abits + 1) = 0
           /\ Shr(n, abits + 1) = 0
<1>1. n \in Nat /\ Bit(n, abits + 1) = 0 /\ Shr(n, abits + 1) = 0
  BY DepthNat, ShrUInt DEF Ptrs
<1>2. \A i \in Nat : Bit(n, i) \in {0, 1}
  BY <1>1, ShrStep
<1> QED
  BY <1>1, <1>2, DepthNat

\* The Gray code of a pointer is a word of abits+1 bits.
LEMMA GrayType ==
    ASSUME NEW n \in Ptrs
    PROVE  Gray(n) \in GrayWords
<1>1. \A i \in 0 .. abits : Bit(n, i) \in {0, 1} /\ Bit(n, i + 1) \in {0, 1}
  BY PtrBits, DepthNat
<1>2. \A x, y \in {0, 1} : (x + y) % 2 \in {0, 1}
  OBVIOUS
<1> QED
  BY <1>1, <1>2 DEF Gray, GrayWords

(***************************************************************************)
(* Two pointers with the same Gray code are the same pointer: from the top *)
(* bit down, equal Gray bits below equal shifts make equal shifts.         *)
(***************************************************************************)
LEMMA GrayInjective ==
    ASSUME NEW a \in Ptrs, NEW b \in Ptrs, Gray(a) = Gray(b)
    PROVE  a = b
<1> DEFINE N == abits + 1
           S == {j \in Nat : j <= N => Shr(a, N - j) = Shr(b, N - j)}
<1>0. a \in Nat /\ b \in Nat /\ N \in Nat
  BY PtrBits, DepthNat
<1>1. 0 \in S
  BY PtrBits, <1>0
<1>2. ASSUME NEW j \in Nat, j \in S
      PROVE  j + 1 \in S
  <2>1. CASE j + 1 <= N
    <3> DEFINE i == N - (j + 1)
    <3>1. /\ i \in Nat /\ i \in 0 .. abits
          /\ i \in 0 .. abits + 1 /\ i + 1 \in 0 .. abits + 1
          /\ N - j = i + 1 /\ j <= N
      BY <2>1, <1>0, DepthNat
    <3> HIDE DEF i
    <3>2. Shr(a, i + 1) = Shr(b, i + 1)
      <4>1. Shr(a, N - j) = Shr(b, N - j)
        BY <1>2, <3>1
      <4> QED
        BY <4>1, <3>1
    <3>3. Bit(a, i + 1) = Bit(b, i + 1)
      BY <3>2 DEF Bit
    <3>4. (Bit(a, i) + Bit(a, i + 1)) % 2 = (Bit(b, i) + Bit(b, i + 1)) % 2
      <4>1. Gray(a)[i] = Gray(b)[i]
        OBVIOUS
      <4> QED
        BY <4>1, <3>1 DEF Gray
    <3>5. /\ Bit(a, i) \in {0, 1} /\ Bit(b, i) \in {0, 1}
          /\ Bit(a, i + 1) \in {0, 1} /\ Bit(b, i + 1) \in {0, 1}
      BY PtrBits, <3>1
    <3>6. \A x, y, z \in {0, 1} : (x + z) % 2 = (y + z) % 2 => x = y
      OBVIOUS
    <3>7. Bit(a, i) = Bit(b, i)
      BY <3>3, <3>4, <3>5, <3>6
    <3>8. /\ Shr(a, i) = 2 * Shr(a, i + 1) + Bit(a, i)
          /\ Shr(b, i) = 2 * Shr(b, i + 1) + Bit(b, i)
      BY <1>0, <3>1, ShrStep
    <3>9. Shr(a, i) = Shr(b, i)
      BY <3>2, <3>7, <3>8
    <3> QED
      BY <3>9 DEF i
  <2>2. CASE ~(j + 1 <= N)
    BY <2>2
  <2> QED
    BY <2>1, <2>2
<1> HIDE DEF S
<1>3. \A j \in Nat : j \in S
  BY <1>1, <1>2, SetInduction
<1>4. N \in S
  BY <1>0, <1>3
<1>5. Shr(a, 0) = Shr(b, 0)
  BY <1>4, <1>0 DEF S
<1> QED
  BY <1>5, <1>0, ShrStep

\* A pointer can be read back from its Gray code.
LEMMA UnGrayGray ==
    ASSUME NEW p \in Ptrs
    PROVE  UnGray(Gray(p)) = p
BY GrayInjective DEF UnGray

(***************************************************************************)
(* Half a turn of the pointer flips the two top bits of its Gray code and  *)
(* leaves the others alone.                                                *)
(***************************************************************************)
LEMMA HalfTurn ==
    ASSUME NEW x \in Ptrs, x < Depth
    PROVE  /\ x + Depth \in Ptrs
           /\ GrayFull(Gray(x + Depth), Gray(x))
           /\ GrayFull(Gray(x), Gray(x + Depth))
<1> DEFINE y == x + Depth
<1>1. x \in Nat /\ y \in Ptrs
  BY DepthNat
<1>2. /\ \A i \in Nat : i < abits => Bit(y, i) = Bit(x, i)
      /\ Bit(y, abits) # Bit(x, abits)
  BY <1>1, DepthNat, BitAddPow2 DEF Depth
<1>3. /\ \A i \in 0 .. abits + 1 : Bit(x, i) \in {0, 1}
      /\ Bit(x, abits + 1) = 0
  BY PtrBits
<1>4. /\ \A i \in 0 .. abits + 1 : Bit(y, i) \in {0, 1}
      /\ Bit(y, abits + 1) = 0
  BY <1>1, PtrBits
<1> HIDE DEF y
<1>5. \A u, v, z \in {0, 1} : u # v => /\ (u + z) % 2 # (v + z) % 2
                                      /\ (z + u) % 2 # (z + v) % 2
  OBVIOUS
<1>6. abits \in 0 .. abits + 1 /\ abits + 1 \in 0 .. abits + 1 /\ abits - 1 \in 0 .. abits + 1
  BY DepthNat
<1>7. Gray(y)[abits] # Gray(x)[abits]
  <2>1. /\ Gray(y)[abits] = (Bit(y, abits) + Bit(y, abits + 1)) % 2
        /\ Gray(x)[abits] = (Bit(x, abits) + Bit(x, abits + 1)) % 2
    BY DepthNat DEF Gray
  <2> QED
    BY <2>1, <1>2, <1>3, <1>4, <1>5, <1>6
<1>8. Gray(y)[abits - 1] # Gray(x)[abits - 1]
  <2>1. abits - 1 \in 0 .. abits /\ (abits - 1) + 1 = abits
    BY DepthNat
  <2>2. /\ Gray(y)[abits - 1] = (Bit(y, abits - 1) + Bit(y, abits)) % 2
        /\ Gray(x)[abits - 1] = (Bit(x, abits - 1) + Bit(x, abits)) % 2
    BY <2>1 DEF Gray
  <2>3. Bit(y, abits - 1) = Bit(x, abits - 1)
    BY <1>2, DepthNat
  <2> QED
    BY <2>2, <2>3, <1>2, <1>3, <1>4, <1>5, <1>6
<1>9. \A i \in 0 .. (abits - 2) : Gray(y)[i] = Gray(x)[i]
  <2> TAKE i \in 0 .. (abits - 2)
  <2>1. /\ i \in Nat /\ i + 1 \in Nat /\ i \in 0 .. abits
        /\ i < abits /\ i + 1 < abits
    BY DepthNat
  <2>2. Bit(y, i) = Bit(x, i) /\ Bit(y, i + 1) = Bit(x, i + 1)
    BY <2>1, <1>2
  <2> QED
    BY <2>1, <2>2 DEF Gray
<1>10. GrayFull(Gray(y), Gray(x)) /\ GrayFull(Gray(x), Gray(y))
  BY <1>7, <1>8, <1>9 DEF GrayFull
<1> QED
  BY <1>1, <1>10 DEF y

(***************************************************************************)
(* Two words that pass the full test against the same word are equal.      *)
(***************************************************************************)
LEMMA FullUnique ==
    ASSUME NEW g \in GrayWords, NEW h \in GrayWords, NEW q \in GrayWords,
           GrayFull(g, q), GrayFull(h, q)
    PROVE  g = h
<1>1. ASSUME NEW i \in 0 .. abits
      PROVE  g[i] = h[i]
  <2>1. g[i] \in {0, 1} /\ h[i] \in {0, 1} /\ q[i] \in {0, 1}
    BY DEF GrayWords
  <2>2. CASE i = abits
    BY <2>1, <2>2 DEF GrayFull
  <2>3. CASE i = abits - 1
    BY <2>1, <2>3 DEF GrayFull
  <2>4. CASE i \in 0 .. (abits - 2)
    BY <2>4 DEF GrayFull
  <2> QED
    BY <2>2, <2>3, <2>4, DepthNat
<1>2. g = [i \in 0 .. abits |-> g[i]] /\ h = [i \in 0 .. abits |-> h[i]]
  BY DEF GrayWords
<1> QED
  BY <1>1, <1>2

(***************************************************************************)
(* The full test of cdc_afifo_gray says that the pointer is Depth ahead.   *)
(***************************************************************************)
THEOREM GrayFullIff ==
    ASSUME NEW a \in Ptrs, NEW b \in Ptrs
    PROVE  GrayFull(Gray(a), Gray(b)) <=> Ahead(a, b) = Depth
<1> DEFINE c == IF b < Depth THEN b + Depth ELSE b - Depth
<1>1. c \in Ptrs /\ GrayFull(Gray(c), Gray(b))
  <2>1. CASE b < Depth
    BY <2>1, HalfTurn
  <2>2. CASE ~(b < Depth)
    <3>1. b - Depth \in Ptrs /\ b - Depth < Depth /\ (b - Depth) + Depth = b
      BY <2>2, DepthNat
    <3>2. GrayFull(Gray(b - Depth), Gray((b - Depth) + Depth))
      BY <3>1, HalfTurn
    <3> QED
      BY <2>2, <3>1, <3>2
  <2> QED
    BY <2>1, <2>2
<1>2. Ahead(a, b) = Depth <=> a = c
  BY DepthNat DEF Ahead
<1> HIDE DEF c
<1>3. GrayFull(Gray(a), Gray(b)) => a = c
  BY <1>1, GrayType, FullUnique, GrayInjective
<1> QED
  BY <1>1, <1>2, <1>3

\* The empty test of cdc_afifo_gray on Gray codes is equality of the pointers.
THEOREM GrayEmptyIff ==
    ASSUME NEW a \in Ptrs, NEW b \in Ptrs
    PROVE  GrayEmpty(Gray(a), Gray(b)) <=> a = b
BY GrayInjective DEF GrayEmpty

-----------------------------------------------------------------------------
(* The counters.                                                           *)

\* The successor of a pointer.
Succ(b) == IF b + 1 = 2 * Depth THEN 0 ELSE b + 1

\* The successor of a pointer is a pointer.
LEMMA SuccType ==
    ASSUME NEW b \in Ptrs
    PROVE  Succ(b) \in Ptrs
BY DepthNat DEF Succ

\* The counter of cdc_afifo_gray stays or moves to its successor.
LEMMA BinNextFacts ==
    ASSUME NEW b \in Ptrs, NEW e
    PROVE  /\ ~e => BinNext(b, e) = b
           /\ e => BinNext(b, e) = Succ(b)
           /\ BinNext(b, e) \in Ptrs
<1>1. \A D \in Nat \ {0} : \A n \in 0 .. (2 * D - 1) :
          (n + 1) % (2 * D) = IF n + 1 = 2 * D THEN 0 ELSE n + 1
  OBVIOUS
<1>2. (b + 1) % (2 * Depth) = Succ(b)
  BY <1>1, DepthNat DEF Succ
<1> QED
  BY <1>2, SuccType, Zenon DEF BinNext

\* The memory address of a pointer is an address.
LEMMA AddrType ==
    ASSUME NEW n \in Nat
    PROVE  Addr(n) \in Addrs
<1>1. \A D \in Nat \ {0} : \A k \in Nat : k % D \in 0 .. (D - 1)
  OBVIOUS
<1> QED
  BY <1>1, DepthNat DEF Addr, Addrs

\* The reset value is a pointer.
LEMMA ZeroPtr == 0 \in Ptrs
BY DepthNat

-----------------------------------------------------------------------------
(* How an edge moves the four pointers.                                    *)

\* The distance between two pointers is a natural.
LEMMA AheadNat ==
    ASSUME NEW a \in Ptrs, NEW b \in Ptrs
    PROVE  Ahead(a, b) \in Nat
BY DepthNat DEF Ahead

\* Pointers a positive distance apart are different.
LEMMA AheadPositive ==
    ASSUME NEW a \in Ptrs, NEW b \in Ptrs, Ahead(a, b) > 0
    PROVE  a # b
BY DepthNat DEF Ahead

\* An edge of the write clock keeps the four pointers in order.
LEMMA OrderWrite ==
    ASSUME NEW t \in Ptrs, NEW r \in Ptrs, NEW s \in Ptrs, NEW w \in Ptrs,
           InOrder(t, r, s, w)
    PROVE  /\ InOrder(t, r, w, w)
           /\ Ahead(w, t) < Depth => InOrder(t, r, w, Succ(w))
<1>1. InOrder(t, r, w, w)
  BY DepthNat DEF InOrder, Ahead
<1>2. ASSUME Ahead(w, t) < Depth
      PROVE  InOrder(t, r, w, Succ(w))
  <2>1. Ahead(Succ(w), t) = Ahead(w, t) + 1
    BY <1>2, DepthNat DEF Ahead, Succ
  <2>2. Ahead(w, t) \in Nat /\ Ahead(r, t) \in Nat
    BY DepthNat DEF Ahead
  <2> QED
    BY <1>1, <1>2, <2>1, <2>2, DepthNat DEF InOrder
<1> QED
  BY <1>1, <1>2

\* An edge of the read clock keeps the four pointers in order.
LEMMA OrderRead ==
    ASSUME NEW t \in Ptrs, NEW r \in Ptrs, NEW s \in Ptrs, NEW w \in Ptrs,
           InOrder(t, r, s, w)
    PROVE  /\ InOrder(r, r, s, w)
           /\ s # r => InOrder(r, Succ(r), s, w)
           /\ Ahead(w, r) <= Ahead(w, t)
<1>1. Ahead(w, r) <= Ahead(w, t) /\ InOrder(r, r, s, w)
  BY DepthNat DEF InOrder, Ahead
<1>2. ASSUME s # r
      PROVE  InOrder(r, Succ(r), s, w)
  <2>1. Ahead(Succ(r), r) = 1
    BY DepthNat DEF Ahead, Succ
  <2>2. Ahead(s, r) >= 1 /\ Ahead(s, r) \in Nat /\ Ahead(w, r) \in Nat
    BY <1>2, DepthNat DEF Ahead
  <2> QED
    BY <1>1, <2>1, <2>2, DepthNat DEF InOrder
<1> QED
  BY <1>1, <1>2

\* What the order of the pointers says about the words in flight.
LEMMA OccupancyFacts ==
    ASSUME NEW t \in Ptrs, NEW r \in Ptrs, NEW s \in Ptrs, NEW w \in Ptrs,
           InOrder(t, r, s, w)
    PROVE  /\ Ahead(w, r) \in 0 .. Depth
           /\ Ahead(w, t) < Depth => Ahead(w, r) < Depth
           /\ s # r => Ahead(w, r) > 0
BY DepthNat DEF InOrder, Ahead

-----------------------------------------------------------------------------
(* The invariant.                                                          *)

\* IndInv with the pointers the synchronised words stand for.
Snapshot(t, s) ==
    /\ t \in Ptrs /\ s \in Ptrs
    /\ q2_rgray = Gray(t) /\ q2_wgray = Gray(s)
    /\ wgray = Gray(wbin) /\ rgray = Gray(rbin)
    /\ InOrder(t, rbin, s, wbin)
    /\ ~full => Ahead(wbin, t) < Depth
    /\ ~empty => s # rbin

\* The invariant names the pointers behind the two synchronised registers.
LEMMA IndInvSnapshot == IndInv => \E t, s : TypeOK /\ Snapshot(t, s)
<1> SUFFICES ASSUME IndInv
             PROVE  \E t, s : TypeOK /\ Snapshot(t, s)
  OBVIOUS
<1>1. PICK s \in Ptrs : q2_wgray = Gray(s)
  BY DEF IndInv
<1>2. PICK t \in Ptrs : q2_rgray = Gray(t)
  BY DEF IndInv
<1>3. UnGray(q2_wgray) = s /\ UnGray(q2_rgray) = t
  BY <1>1, <1>2, UnGrayGray
<1>4. TypeOK /\ Snapshot(t, s)
  BY <1>1, <1>2, <1>3 DEF IndInv, PointersInOrder, Snapshot
<1> QED
  BY <1>4

\* A snapshot of the pointers gives the invariant back,
LEMMA SnapshotIndInv ==
    ASSUME NEW t, NEW s, TypeOK, Snapshot(t, s)
    PROVE  IndInv
<1>1. UnGray(q2_wgray) = s /\ UnGray(q2_rgray) = t
  BY UnGrayGray DEF Snapshot
<1> QED
  BY <1>1 DEF IndInv, PointersInOrder, Snapshot

\* and so it does in the next state.
LEMMA SnapshotIndInvNext ==
    ASSUME NEW t, NEW s, TypeOK', Snapshot(t, s)'
    PROVE  IndInv'
<1>1. UnGray(q2_wgray') = s /\ UnGray(q2_rgray') = t
  BY UnGrayGray DEF Snapshot
<1> QED
  BY <1>1 DEF IndInv, PointersInOrder, Snapshot

\* After a reset all four pointers are zero.
LEMMA ResetSnapshot ==
    ASSUME wbin = 0, wgray = Gray(0), full = FALSE, rbin = 0, rgray = Gray(0),
           empty = TRUE, q2_wgray = Gray(0), q2_rgray = Gray(0)
    PROVE  Snapshot(0, 0)
<1>1. Ahead(0, 0) = 0 /\ 0 < Depth
  BY DepthNat DEF Ahead
<1> QED
  BY <1>1, ZeroPtr, DepthNat DEF Snapshot, InOrder

\* The reset state satisfies the invariant.
LEMMA InitInv == Init => IndInv
<1> SUFFICES ASSUME Init
             PROVE  IndInv
  OBVIOUS
<1>1. TypeOK
  BY ZeroPtr, GrayType DEF Init, TypeOK
<1>2. Snapshot(0, 0)
  BY ResetSnapshot DEF Init
<1> QED
  BY <1>1, <1>2, SnapshotIndInv

\* What an edge of the write clock does to the write side of a snapshot.
LEMMA WriteSideStep ==
    ASSUME TypeOK, NEW t, NEW s, Snapshot(t, s),
           NEW wr \in BOOLEAN, NEW d \in Data, WriteSide(wr, d)
    PROVE  /\ wbin' \in Ptrs /\ wgray' \in GrayWords /\ q2_wgray' \in GrayWords
           /\ full' \in BOOLEAN /\ mem' \in [Addrs -> Data]
           /\ wgray' = Gray(wbin') /\ q2_wgray' = Gray(wbin)
           /\ wbin' = wbin \/ (Ahead(wbin, t) < Depth /\ wbin' = Succ(wbin))
           /\ full' <=> Ahead(wbin', t) = Depth
<1>1. wbin \in Ptrs /\ wbin' = BinNext(wbin, w_wr_ena(wr))
  BY DEF TypeOK, WriteSide
<1>2. wbin' \in Ptrs
  BY <1>1, BinNextFacts
<1>3. wbin' = wbin \/ (Ahead(wbin, t) < Depth /\ wbin' = Succ(wbin))
  <2>1. CASE w_wr_ena(wr)
    BY <2>1, <1>1, BinNextFacts, Zenon DEF w_wr_ena, Snapshot
  <2>2. CASE ~w_wr_ena(wr)
    BY <2>2, <1>1, BinNextFacts, Zenon
  <2> QED
    BY <2>1, <2>2
<1>4. wgray' = Gray(wbin') /\ wgray' \in GrayWords
  BY <1>2, GrayType DEF WriteSide
<1>5. q2_wgray' = Gray(wbin) /\ q2_wgray' \in GrayWords
  BY <1>1, GrayType DEF WriteSide, Snapshot
<1>6. full' = GrayFull(Gray(wbin'), Gray(t))
  BY <1>4 DEF WriteSide, Snapshot
<1>7. full' \in BOOLEAN
  BY <1>6 DEF GrayFull
<1>8. full' <=> Ahead(wbin', t) = Depth
  BY <1>2, <1>6, GrayFullIff DEF Snapshot
<1>9. mem' \in [Addrs -> Data]
  <2>1. mem \in [Addrs -> Data]
    BY DEF TypeOK
  <2>2. CASE w_wr_ena(wr)
    BY <2>1, <2>2 DEF WriteSide
  <2>3. CASE ~w_wr_ena(wr)
    BY <2>1, <2>3 DEF WriteSide
  <2> QED
    BY <2>2, <2>3
<1> QED
  BY <1>2, <1>3, <1>4, <1>5, <1>7, <1>8, <1>9

\* What an edge of the read clock does to the read side of a snapshot.
LEMMA ReadSideStep ==
    ASSUME TypeOK, NEW t, NEW s, Snapshot(t, s),
           NEW rd \in BOOLEAN, ReadSide(rd)
    PROVE  /\ rbin' \in Ptrs /\ rgray' \in GrayWords /\ q2_rgray' \in GrayWords
           /\ empty' \in BOOLEAN /\ rdata' \in Data
           /\ rgray' = Gray(rbin') /\ q2_rgray' = Gray(rbin)
           /\ rbin' = rbin \/ (s # rbin /\ rbin' = Succ(rbin))
           /\ empty' <=> rbin' = s
<1>1. rbin \in Ptrs /\ rbin' = BinNext(rbin, w_rd_ena(rd))
  BY DEF TypeOK, ReadSide
<1>2. rbin' \in Ptrs
  BY <1>1, BinNextFacts
<1>3. rbin' = rbin \/ (s # rbin /\ rbin' = Succ(rbin))
  <2>1. CASE w_rd_ena(rd)
    BY <2>1, <1>1, BinNextFacts, Zenon DEF w_rd_ena, Snapshot
  <2>2. CASE ~w_rd_ena(rd)
    BY <2>2, <1>1, BinNextFacts, Zenon
  <2> QED
    BY <2>1, <2>2
<1>4. rgray' = Gray(rbin') /\ rgray' \in GrayWords
  BY <1>2, GrayType DEF ReadSide
<1>5. q2_rgray' = Gray(rbin) /\ q2_rgray' \in GrayWords
  BY <1>1, GrayType DEF ReadSide, Snapshot
<1>6. empty' = GrayEmpty(Gray(rbin'), Gray(s))
  BY <1>4 DEF ReadSide, Snapshot
<1>7. empty' \in BOOLEAN
  BY <1>6 DEF GrayEmpty
<1>8. empty' <=> rbin' = s
  BY <1>2, <1>6, GrayEmptyIff DEF Snapshot
<1>9. rdata' \in Data
  <2>1. mem \in [Addrs -> Data] /\ rdata \in Data /\ rbin \in Nat
    BY DepthNat DEF TypeOK
  <2>2. o_rdata \in Data
    BY <2>1, AddrType DEF o_rdata
  <2> QED
    BY <2>1, <2>2 DEF ReadSide
<1> QED
  BY <1>2, <1>3, <1>4, <1>5, <1>7, <1>8, <1>9

\* An edge of the write clock preserves the invariant.
LEMMA WEdgeInv == IndInv /\ WEdge => IndInv'
<1> SUFFICES ASSUME IndInv, NEW wr \in BOOLEAN, NEW d \in Data, WriteClk(wr, d)
             PROVE  IndInv'
  BY DEF WEdge
<1>1. PICK t, s : TypeOK /\ Snapshot(t, s)
  BY IndInvSnapshot
<1>2. WriteSide(wr, d) /\ UNCHANGED <<rbin, rgray, empty, q2_rgray, rdata>>
  BY DEF WriteClk, rvars
<1>3. TypeOK'
  BY <1>1, <1>2, WriteSideStep DEF TypeOK
<1>4. t \in Ptrs /\ s \in Ptrs /\ rbin \in Ptrs /\ wbin \in Ptrs /\ wbin' \in Ptrs
  BY <1>1, <1>3 DEF Snapshot, TypeOK
<1>5. wbin' = wbin \/ (Ahead(wbin, t) < Depth /\ wbin' = Succ(wbin))
  BY <1>1, <1>2, WriteSideStep
<1>6. InOrder(t, rbin, wbin, wbin')
  BY <1>1, <1>4, <1>5, OrderWrite DEF Snapshot
<1>7. ~full' => Ahead(wbin', t) < Depth
  <2>1. full' <=> Ahead(wbin', t) = Depth
    BY <1>1, <1>2, WriteSideStep
  <2>2. Ahead(wbin', t) <= Depth
    BY <1>6 DEF InOrder
  <2>3. Ahead(wbin', t) \in Nat
    BY <1>4, AheadNat
  <2> QED
    BY <2>1, <2>2, <2>3, DepthNat
<1>8. ~empty' => wbin # rbin'
  <2>1. ~empty' => s # rbin
    BY <1>1, <1>2 DEF Snapshot
  <2>2. s # rbin => Ahead(wbin, rbin) > 0
    BY <1>1, <1>4, OccupancyFacts DEF Snapshot
  <2>3. Ahead(wbin, rbin) > 0 => wbin # rbin
    BY <1>4, AheadPositive
  <2> QED
    BY <1>2, <2>1, <2>2, <2>3
<1>9. PICK w0 : w0 = wbin
  OBVIOUS
<1>10. Snapshot(t, w0)'
  <2>1. wgray' = Gray(wbin') /\ q2_wgray' = Gray(wbin)
    BY <1>1, <1>2, WriteSideStep
  <2> QED
    BY <1>1, <1>2, <1>4, <1>6, <1>7, <1>8, <1>9, <2>1 DEF Snapshot
<1> QED
  BY <1>3, <1>10, SnapshotIndInvNext

\* An edge of the read clock preserves the invariant,
LEMMA REdgeInv == IndInv /\ REdge => IndInv'
<1> SUFFICES ASSUME IndInv, NEW rd \in BOOLEAN, ReadClk(rd)
             PROVE  IndInv'
  BY DEF REdge
<1>1. PICK t, s : TypeOK /\ Snapshot(t, s)
  BY IndInvSnapshot
<1>2. ReadSide(rd) /\ UNCHANGED <<wbin, wgray, full, q2_wgray, mem>>
  BY DEF ReadClk, wvars
<1>3. TypeOK'
  BY <1>1, <1>2, ReadSideStep DEF TypeOK
<1>4. t \in Ptrs /\ s \in Ptrs /\ rbin \in Ptrs /\ wbin \in Ptrs /\ rbin' \in Ptrs
  BY <1>1, <1>3 DEF Snapshot, TypeOK
<1>5. rbin' = rbin \/ (s # rbin /\ rbin' = Succ(rbin))
  BY <1>1, <1>2, ReadSideStep
<1>6. InOrder(rbin, rbin', s, wbin) /\ Ahead(wbin, rbin) <= Ahead(wbin, t)
  BY <1>1, <1>4, <1>5, OrderRead DEF Snapshot
<1>7. ~full' => Ahead(wbin', rbin) < Depth
  <2>1. ~full' => Ahead(wbin, t) < Depth
    BY <1>1, <1>2 DEF Snapshot
  <2>2. Ahead(wbin, t) \in Nat /\ Ahead(wbin, rbin) \in Nat
    BY <1>4, AheadNat
  <2> QED
    BY <1>2, <1>6, <2>1, <2>2, DepthNat
<1>8. ~empty' => s # rbin'
  BY <1>1, <1>2, ReadSideStep
<1>9. PICK r0 : r0 = rbin
  OBVIOUS
<1>10. Snapshot(r0, s)'
  <2>1. rgray' = Gray(rbin') /\ q2_rgray' = Gray(rbin)
    BY <1>1, <1>2, ReadSideStep
  <2> QED
    BY <1>1, <1>2, <1>4, <1>6, <1>7, <1>8, <1>9, <2>1 DEF Snapshot
<1> QED
  BY <1>3, <1>10, SnapshotIndInvNext

\* so do simultaneous edges of both clocks,
LEMMA BothEdgesInv == IndInv /\ BothEdges => IndInv'
<1> SUFFICES ASSUME IndInv, NEW wr \in BOOLEAN, NEW rd \in BOOLEAN, NEW d \in Data,
                    BothClk(wr, d, rd)
             PROVE  IndInv'
  BY DEF BothEdges
<1>1. PICK t, s : TypeOK /\ Snapshot(t, s)
  BY IndInvSnapshot
<1>2. WriteSide(wr, d) /\ ReadSide(rd)
  BY DEF BothClk
<1>3. TypeOK'
  BY <1>1, <1>2, WriteSideStep, ReadSideStep DEF TypeOK
<1>4. /\ t \in Ptrs /\ s \in Ptrs /\ rbin \in Ptrs /\ wbin \in Ptrs
      /\ rbin' \in Ptrs /\ wbin' \in Ptrs
  BY <1>1, <1>3 DEF Snapshot, TypeOK
<1>5. /\ wbin' = wbin \/ (Ahead(wbin, t) < Depth /\ wbin' = Succ(wbin))
      /\ rbin' = rbin \/ (s # rbin /\ rbin' = Succ(rbin))
  BY <1>1, <1>2, WriteSideStep, ReadSideStep
<1>6. InOrder(t, rbin, s, wbin)
  BY <1>1 DEF Snapshot
<1>7. InOrder(rbin, rbin', s, wbin) /\ Ahead(wbin, rbin) <= Ahead(wbin, t)
  BY <1>4, <1>5, <1>6, OrderRead
<1>8. Ahead(wbin, t) \in Nat /\ Ahead(wbin, rbin) \in Nat /\ Ahead(wbin', t) \in Nat
  BY <1>4, AheadNat
<1>9. wbin' = wbin \/ (Ahead(wbin, rbin) < Depth /\ wbin' = Succ(wbin))
  BY <1>5, <1>7, <1>8, DepthNat
<1>10. InOrder(rbin, rbin', wbin, wbin')
  BY <1>4, <1>7, <1>9, OrderWrite
<1>11. InOrder(t, rbin, wbin, wbin')
  BY <1>4, <1>5, <1>6, OrderWrite
<1>12. ~full' => Ahead(wbin', rbin) < Depth
  <2>1. full' <=> Ahead(wbin', t) = Depth
    BY <1>1, <1>2, WriteSideStep
  <2>2. Ahead(wbin', t) <= Depth
    BY <1>11 DEF InOrder
  <2>3. ~full' => Ahead(wbin', t) < Depth
    BY <2>1, <2>2, <1>8, DepthNat
  <2>4. Ahead(wbin', t) < Depth => Ahead(wbin', rbin) < Depth
    BY <1>4, <1>11, OccupancyFacts
  <2> QED
    BY <2>3, <2>4
<1>13. ~empty' => wbin # rbin'
  <2>1. ~empty' => s # rbin'
    BY <1>1, <1>2, ReadSideStep
  <2>2. s # rbin' => Ahead(wbin, rbin') > 0
    BY <1>4, <1>7, OccupancyFacts
  <2>3. Ahead(wbin, rbin') > 0 => wbin # rbin'
    BY <1>4, AheadPositive
  <2> QED
    BY <2>1, <2>2, <2>3
<1>14. PICK r0, w0 : r0 = rbin /\ w0 = wbin
  OBVIOUS
<1>15. Snapshot(r0, w0)'
  <2>1. /\ wgray' = Gray(wbin') /\ q2_wgray' = Gray(wbin)
        /\ rgray' = Gray(rbin') /\ q2_rgray' = Gray(rbin)
    BY <1>1, <1>2, WriteSideStep, ReadSideStep
  <2> QED
    BY <1>4, <1>10, <1>12, <1>13, <1>14, <2>1 DEF Snapshot
<1> QED
  BY <1>3, <1>15, SnapshotIndInvNext

\* and so does a reset.
LEMMA ResetInv == IndInv /\ Reset => IndInv'
<1> SUFFICES ASSUME IndInv, Reset
             PROVE  IndInv'
  OBVIOUS
<1>1. TypeOK'
  BY ZeroPtr, GrayType DEF Reset, IndInv, TypeOK
<1>2. Ahead(0, 0) = 0 /\ 0 < Depth
  BY DepthNat DEF Ahead
<1>3. Snapshot(0, 0)'
  BY <1>2, ZeroPtr, DepthNat DEF Snapshot, InOrder, Reset
<1> QED
  BY <1>1, <1>3, SnapshotIndInvNext

(***************************************************************************)
(* IndInv is an inductive invariant of the FIFO.                           *)
(***************************************************************************)
THEOREM Inductive == Spec => []IndInv
<1>1. IndInv /\ [Next]_vars => IndInv'
  <2> SUFFICES ASSUME IndInv, [Next]_vars
               PROVE  IndInv'
    OBVIOUS
  <2>1. CASE WEdge
    BY <2>1, WEdgeInv
  <2>2. CASE REdge
    BY <2>2, REdgeInv
  <2>3. CASE BothEdges
    BY <2>3, BothEdgesInv
  <2>4. CASE Reset
    BY <2>4, ResetInv
  <2>5. CASE UNCHANGED vars
    BY <2>5 DEF vars, IndInv, TypeOK, PointersInOrder
  <2> QED
    BY <2>1, <2>2, <2>3, <2>4, <2>5 DEF Next
<1> QED
  BY <1>1, InitInv, PTL DEF Spec

(***************************************************************************)
(* The registers of cdc_afifo keep their width, for every address width    *)
(* and word set.                                                           *)
(***************************************************************************)
THEOREM TypeCorrect == Spec => []TypeOK
<1>1. IndInv => TypeOK
  BY DEF IndInv
<1> QED
  BY <1>1, Inductive, PTL

(***************************************************************************)
(* The four pointers of cdc_afifo stay in order within Depth.              *)
(***************************************************************************)
THEOREM Ordered == Spec => []PointersInOrder
<1>1. IndInv => PointersInOrder
  BY DEF IndInv
<1> QED
  BY <1>1, Inductive, PTL

(***************************************************************************)
(* o_wready and o_rvalid never promise a slot or a word that is not there. *)
(***************************************************************************)
THEOREM Conservative == Spec => []FlagsConservative
<1>1. IndInv => FlagsConservative
  <2> SUFFICES ASSUME IndInv
               PROVE  FlagsConservative
    OBVIOUS
  <2>1. PICK t, s : TypeOK /\ Snapshot(t, s)
    BY IndInvSnapshot
  <2>2. /\ Ahead(wbin, t) < Depth => Ahead(wbin, rbin) < Depth
        /\ s # rbin => Ahead(wbin, rbin) > 0
    BY <2>1, OccupancyFacts DEF Snapshot, TypeOK
  <2> QED
    BY <2>1, <2>2 DEF Snapshot, FlagsConservative, Occupancy
<1> QED
  BY <1>1, Inductive, PTL

-----------------------------------------------------------------------------
(* The FIFO implements a bounded queue.                                    *)

\* The remainder of a number below three times the divisor.
LEMMA Modulo ==
    ASSUME NEW D \in Nat \ {0}, NEW x \in 0 .. (3 * D - 1)
    PROVE  x % D = IF x < D THEN x ELSE IF x < 2 * D THEN x - D ELSE x - 2 * D
OBVIOUS

\* The slot to be written holds none of the words in flight.
LEMMA SlotFacts ==
    ASSUME NEW r \in Ptrs, NEW w \in Ptrs, Ahead(w, r) <= Depth
    PROVE  /\ Addr(r + Ahead(w, r)) = Addr(w)
           /\ \A k \in Nat : k < Ahead(w, r) /\ Ahead(w, r) < Depth => Addr(r + k) # Addr(w)
           /\ \A k \in 0 .. (Depth - 1) : Addr(Succ(r) + k) = Addr(r + k + 1)
<1>1. \A x \in 0 .. (3 * Depth - 1) :
         Addr(x) = IF x < Depth THEN x ELSE IF x < 2 * Depth THEN x - Depth ELSE x - 2 * Depth
  BY DepthNat, Modulo DEF Addr
<1>2. Addr(r + Ahead(w, r)) = Addr(w)
  BY <1>1, DepthNat DEF Ahead
<1>3. ASSUME NEW k \in Nat, k < Ahead(w, r), Ahead(w, r) < Depth
      PROVE  Addr(r + k) # Addr(w)
  BY <1>1, <1>3, DepthNat DEF Ahead
<1>4. ASSUME NEW k \in 0 .. (Depth - 1)
      PROVE  Addr(Succ(r) + k) = Addr(r + k + 1)
  BY <1>1, <1>4, DepthNat DEF Succ
<1> QED
  BY <1>2, <1>3, <1>4

\* The words between two pointers in a memory.
Words(r, w, m) == [i \in 1 .. Ahead(w, r) |-> m[Addr(r + i - 1)]]

\* The words in flight are a sequence of data words.
LEMMA WordsSeq ==
    ASSUME NEW r \in Ptrs, NEW w \in Ptrs, NEW m \in [Addrs -> Data]
    PROVE  Words(r, w, m) \in Seq(Data) /\ Len(Words(r, w, m)) = Ahead(w, r)
<1>1. Ahead(w, r) \in Nat
  BY AheadNat
<1>2. \A i \in 1 .. Ahead(w, r) : m[Addr(r + i - 1)] \in Data
  <2> TAKE i \in 1 .. Ahead(w, r)
  <2>1. r + i - 1 \in Nat
    BY <1>1, DepthNat
  <2> QED
    BY <2>1, AddrType
<1> QED
  BY <1>1, <1>2 DEF Words

\* A write appends its word to the words in flight.
LEMMA WordsPut ==
    ASSUME NEW r \in Ptrs, NEW w \in Ptrs, NEW m \in [Addrs -> Data], NEW d \in Data,
           Ahead(w, r) < Depth
    PROVE  Words(r, Succ(w), [m EXCEPT ![Addr(w)] = d]) = Append(Words(r, w, m), d)
<1> DEFINE n == Ahead(w, r)
           m2 == [m EXCEPT ![Addr(w)] = d]
<1>1. n \in Nat /\ Ahead(Succ(w), r) = n + 1 /\ n <= Depth
  BY DepthNat DEF Ahead, Succ
<1>2. Words(r, Succ(w), m2) = [i \in 1 .. n + 1 |-> m2[Addr(r + i - 1)]]
  BY <1>1 DEF Words
<1>3. /\ Words(r, w, m) \in Seq(Data) /\ Len(Words(r, w, m)) = n
      /\ \A i \in 1 .. n : Words(r, w, m)[i] = m[Addr(r + i - 1)]
  BY WordsSeq DEF Words
<1>4. ASSUME NEW i \in 1 .. n + 1
      PROVE  m2[Addr(r + i - 1)] = Append(Words(r, w, m), d)[i]
  <2>1. CASE i <= n
    <3>1. i - 1 \in Nat /\ i - 1 < n /\ r + (i - 1) = r + i - 1 /\ r + i - 1 \in Nat
      BY <2>1, <1>1, DepthNat
    <3>2. Addr(r + i - 1) # Addr(w)
      BY <3>1, <1>1, SlotFacts
    <3>3. m2[Addr(r + i - 1)] = m[Addr(r + i - 1)]
      BY <3>1, <3>2, AddrType
    <3>4. Append(Words(r, w, m), d)[i] = Words(r, w, m)[i]
      BY <2>1, <1>1, <1>3
    <3> QED
      BY <2>1, <3>3, <3>4, <1>1, <1>3
  <2>2. CASE i = n + 1
    <3>1. r + i - 1 = r + n /\ w \in Nat
      BY <2>2, <1>1, DepthNat
    <3>2. Addr(r + n) = Addr(w)
      BY <1>1, SlotFacts
    <3>3. m2[Addr(w)] = d
      BY <3>1, AddrType
    <3>4. Append(Words(r, w, m), d)[n + 1] = d
      BY <1>1, <1>3
    <3> QED
      BY <2>2, <3>1, <3>2, <3>3, <3>4
  <2>3. i <= n \/ i = n + 1
    BY <1>1
  <2> QED
    BY <2>1, <2>2, <2>3
<1>5. /\ Append(Words(r, w, m), d) \in Seq(Data)
      /\ Len(Append(Words(r, w, m), d)) = n + 1
  BY <1>1, <1>3
<1>6. m2 \in [Addrs -> Data] /\ Succ(w) \in Ptrs
  BY SuccType
<1>7. /\ Words(r, Succ(w), m2) \in Seq(Data)
      /\ Len(Words(r, Succ(w), m2)) = n + 1
      /\ \A i \in 1 .. n + 1 : Words(r, Succ(w), m2)[i] = m2[Addr(r + i - 1)]
  <2>1. Words(r, Succ(w), m2) \in Seq(Data) /\ Len(Words(r, Succ(w), m2)) = Ahead(Succ(w), r)
    BY <1>6, WordsSeq
  <2> QED
    BY <2>1, <1>1, <1>2
<1> HIDE DEF n, m2
<1>8. Words(r, Succ(w), m2) = Append(Words(r, w, m), d)
  BY <1>4, <1>5, <1>7, SeqEqual
<1> QED
  BY <1>8 DEF m2

\* A read takes the first of the words in flight.
LEMMA WordsGet ==
    ASSUME NEW r \in Ptrs, NEW w \in Ptrs, NEW m \in [Addrs -> Data],
           Ahead(w, r) > 0, Ahead(w, r) <= Depth
    PROVE  /\ Words(r, w, m) # << >>
           /\ Words(Succ(r), w, m) = Tail(Words(r, w, m))
           /\ Head(Words(r, w, m)) = m[Addr(r)]
           /\ Ahead(w, Succ(r)) = Ahead(w, r) - 1
<1> DEFINE n == Ahead(w, r)
<1>1. n \in Nat /\ Ahead(w, Succ(r)) = n - 1 /\ n >= 1
  BY DepthNat DEF Ahead, Succ
<1>2. Words(Succ(r), w, m) = [i \in 1 .. n - 1 |-> m[Addr(Succ(r) + i - 1)]]
  BY <1>1 DEF Words
<1>3. /\ Words(r, w, m) \in Seq(Data) /\ Len(Words(r, w, m)) = n
      /\ \A i \in 1 .. n : Words(r, w, m)[i] = m[Addr(r + i - 1)]
  BY WordsSeq DEF Words
<1>4. Words(r, w, m) # << >>
  BY <1>1, <1>3
<1>5. Head(Words(r, w, m)) = m[Addr(r)]
  <2>1. r + 1 - 1 = r /\ 1 \in 1 .. n
    BY <1>1, DepthNat
  <2> QED
    BY <2>1, <1>3, <1>4
<1>6. /\ Tail(Words(r, w, m)) \in Seq(Data)
      /\ Len(Tail(Words(r, w, m))) = n - 1
      /\ \A i \in 1 .. n - 1 : Tail(Words(r, w, m))[i] = Words(r, w, m)[i + 1]
  BY <1>3, <1>4, HeadTailProperties
<1>7. ASSUME NEW i \in 1 .. n - 1
      PROVE  m[Addr(Succ(r) + i - 1)] = Words(r, w, m)[i + 1]
  <2>0. Succ(r) \in Nat /\ r \in Nat
    BY SuccType, DepthNat
  <2>1. /\ i - 1 \in 0 .. (Depth - 1) /\ Succ(r) + (i - 1) = Succ(r) + i - 1
        /\ r + (i - 1) + 1 = r + (i + 1) - 1 /\ i + 1 \in 1 .. n
    BY <2>0, <1>1, DepthNat
  <2>2. Addr(Succ(r) + (i - 1)) = Addr(r + (i - 1) + 1)
    BY <2>1, SlotFacts
  <2> QED
    BY <2>1, <2>2, <1>3
<1>8. /\ Words(Succ(r), w, m) \in Seq(Data)
      /\ Len(Words(Succ(r), w, m)) = n - 1
  BY <1>1, SuccType, WordsSeq
<1> HIDE DEF n
<1>9. Words(Succ(r), w, m) = Tail(Words(r, w, m))
  BY <1>2, <1>6, <1>7, <1>8, SeqEqual, ZenonT(60)
<1> QED
  BY <1>1, <1>4, <1>5, <1>9 DEF n

\* The write side appends to what lies between any read pointer and the write
\* pointer, or leaves it alone.
LEMMA WriteSideWords ==
    ASSUME IndInv, NEW wr \in BOOLEAN, NEW d \in Data, WriteSide(wr, d)
    PROVE  \/ wbin' = wbin /\ mem' = mem
           \/ /\ Ahead(wbin, rbin) < Depth
              /\ wbin' = Succ(wbin)
              /\ mem' = [mem EXCEPT ![Addr(wbin)] = d]
<1>1. PICK t, s : TypeOK /\ Snapshot(t, s)
  BY IndInvSnapshot
<1>2. wbin \in Ptrs /\ wbin' = BinNext(wbin, w_wr_ena(wr))
  BY <1>1 DEF TypeOK, WriteSide
<1>3. CASE w_wr_ena(wr)
  <2>1. Ahead(wbin, t) < Depth
    BY <1>1, <1>3 DEF w_wr_ena, Snapshot
  <2>2. Ahead(wbin, rbin) < Depth
    BY <1>1, <2>1, OccupancyFacts DEF Snapshot, TypeOK
  <2>3. wbin' = Succ(wbin)
    BY <1>2, <1>3, BinNextFacts, Zenon
  <2> QED
    BY <1>3, <2>2, <2>3 DEF WriteSide
<1>4. CASE ~w_wr_ena(wr)
  <2>1. wbin' = wbin
    BY <1>2, <1>4, BinNextFacts, Zenon
  <2> QED
    BY <1>4, <2>1 DEF WriteSide
<1> QED
  BY <1>3, <1>4

\* An edge of the read clock takes no word or the first one.
LEMMA ReadSideWords ==
    ASSUME IndInv, NEW rd \in BOOLEAN, ReadSide(rd)
    PROVE  \/ rbin' = rbin /\ rdata' = rdata
           \/ /\ Ahead(wbin, rbin) > 0
              /\ rbin' = Succ(rbin)
              /\ rdata' = mem[Addr(rbin)]
<1>1. PICK t, s : TypeOK /\ Snapshot(t, s)
  BY IndInvSnapshot
<1>2. rbin \in Ptrs /\ rbin' = BinNext(rbin, w_rd_ena(rd))
  BY <1>1 DEF TypeOK, ReadSide
<1>3. CASE w_rd_ena(rd)
  <2>1. s # rbin
    BY <1>1, <1>3 DEF w_rd_ena, Snapshot
  <2>2. Ahead(wbin, rbin) > 0
    BY <1>1, <2>1, OccupancyFacts DEF Snapshot, TypeOK
  <2>3. rbin' = Succ(rbin)
    BY <1>2, <1>3, BinNextFacts, Zenon
  <2> QED
    BY <1>3, <2>2, <2>3 DEF ReadSide, o_rdata
<1>4. CASE ~w_rd_ena(rd)
  <2>1. rbin' = rbin
    BY <1>2, <1>4, BinNextFacts, Zenon
  <2> QED
    BY <1>4, <2>1 DEF ReadSide
<1> QED
  BY <1>3, <1>4

\* The invariant bounds the words in flight.
LEMMA InvWords ==
    ASSUME IndInv
    PROVE  /\ wbin \in Ptrs /\ rbin \in Ptrs /\ mem \in [Addrs -> Data]
           /\ Ahead(wbin, rbin) \in Nat /\ Ahead(wbin, rbin) <= Depth
           /\ Contents = Words(rbin, wbin, mem)
           /\ Contents \in Seq(Data) /\ Len(Contents) = Ahead(wbin, rbin)
<1>1. PICK t, s : TypeOK /\ Snapshot(t, s)
  BY IndInvSnapshot
<1>2. wbin \in Ptrs /\ rbin \in Ptrs /\ mem \in [Addrs -> Data]
  BY <1>1 DEF TypeOK
<1>3. Ahead(wbin, rbin) \in 0 .. Depth
  BY <1>1, <1>2, OccupancyFacts DEF Snapshot
<1>4. Contents = Words(rbin, wbin, mem)
  BY DEF Contents, Words, Occupancy
<1> QED
  BY <1>2, <1>3, <1>4, WordsSeq, DepthNat

\* Every edge is a step of the bounded FIFO or leaves it alone.
LEMMA EdgeRefines ==
    ASSUME IndInv, wbin' \in Ptrs, rbin' \in Ptrs,
           NEW d \in Data,
           \/ wbin' = wbin /\ mem' = mem
           \/ /\ Ahead(wbin, rbin) < Depth
              /\ wbin' = Succ(wbin)
              /\ mem' = [mem EXCEPT ![Addr(wbin)] = d],
           \/ rbin' = rbin /\ rdata' = rdata
           \/ /\ Ahead(wbin, rbin) > 0
              /\ rbin' = Succ(rbin)
              /\ rdata' = mem[Addr(rbin)]
    PROVE  [Fifo!Next]_(Fifo!fifoVars)
<1>0. /\ wbin \in Ptrs /\ rbin \in Ptrs /\ mem \in [Addrs -> Data]
      /\ Ahead(wbin, rbin) \in Nat /\ Ahead(wbin, rbin) <= Depth
      /\ Contents = Words(rbin, wbin, mem)
      /\ Len(Contents) = Ahead(wbin, rbin)
  BY InvWords
<1>1. Contents' = Words(rbin', wbin', mem')
  BY DEF Contents, Words, Occupancy
<1>2. CASE wbin' = wbin /\ mem' = mem /\ rbin' = rbin /\ rdata' = rdata
  BY <1>0, <1>1, <1>2 DEF Fifo!fifoVars
<1>3. CASE /\ Ahead(wbin, rbin) < Depth /\ wbin' = Succ(wbin)
           /\ mem' = [mem EXCEPT ![Addr(wbin)] = d]
           /\ rbin' = rbin /\ rdata' = rdata
  <2>1. Contents' = Append(Contents, d)
    BY <1>0, <1>1, <1>3, WordsPut
  <2>2. Fifo!Put(d)
    BY <1>0, <1>3, <2>1 DEF Fifo!Put
  <2> QED
    BY <2>2 DEF Fifo!Next
<1>4. CASE /\ wbin' = wbin /\ mem' = mem
           /\ Ahead(wbin, rbin) > 0 /\ rbin' = Succ(rbin) /\ rdata' = mem[Addr(rbin)]
  <2>1. Contents # << >> /\ Contents' = Tail(Contents) /\ rdata' = Head(Contents)
    BY <1>0, <1>1, <1>4, WordsGet
  <2> QED
    BY <2>1 DEF Fifo!Next, Fifo!Get
<1>5. CASE /\ Ahead(wbin, rbin) < Depth /\ wbin' = Succ(wbin)
           /\ mem' = [mem EXCEPT ![Addr(wbin)] = d]
           /\ Ahead(wbin, rbin) > 0 /\ rbin' = Succ(rbin) /\ rdata' = mem[Addr(rbin)]
  <2>1. /\ Contents # << >> /\ Words(Succ(rbin), wbin, mem) = Tail(Contents)
        /\ rdata' = Head(Contents) /\ Ahead(wbin, Succ(rbin)) = Ahead(wbin, rbin) - 1
    BY <1>0, <1>5, WordsGet
  <2>2. Ahead(wbin, Succ(rbin)) < Depth
    BY <1>0, <1>5, <2>1, DepthNat
  <2>3. Contents' = Append(Words(Succ(rbin), wbin, mem), d)
    BY <1>0, <1>1, <1>5, <2>2, WordsPut, ZenonT(60)
  <2>4. Fifo!PutGet(d)
    BY <1>0, <1>5, <2>1, <2>3 DEF Fifo!PutGet
  <2> QED
    BY <2>4 DEF Fifo!Next
<1> QED
  BY <1>2, <1>3, <1>4, <1>5

(***************************************************************************)
(* cdc_afifo implements a bounded queue, for every depth 2^abits, every    *)
(* set of words and every order of the two clocks' edges.                  *)
(***************************************************************************)
THEOREM Refinement == Spec => RefinesFifo
<1>1. Init => Fifo!Init
  <2> SUFFICES ASSUME Init
               PROVE  Fifo!Init
    OBVIOUS
  <2>1. Ahead(0, 0) = 0
    BY DEF Ahead
  <2>2. Contents = << >>
    BY <2>1 DEF Init, Contents, Occupancy
  <2> QED
    BY <2>2 DEF Init, Fifo!Init
<1>2. IndInv /\ [Next]_vars => [Fifo!Next]_(Fifo!fifoVars)
  <2> SUFFICES ASSUME IndInv, [Next]_vars
               PROVE  [Fifo!Next]_(Fifo!fifoVars)
    OBVIOUS
  <2>0. TypeOK'
    <3>1. IndInv'
      <4>1. CASE UNCHANGED vars
        BY <4>1 DEF vars, IndInv, TypeOK, PointersInOrder
      <4> QED
        BY <4>1, WEdgeInv, REdgeInv, BothEdgesInv, ResetInv DEF Next
    <3> QED
      BY <3>1 DEF IndInv
  <2>1. CASE WEdge
    <3>1. PICK wr \in BOOLEAN, d \in Data : WriteClk(wr, d)
      BY <2>1 DEF WEdge
    <3>2. WriteSide(wr, d) /\ rbin' = rbin /\ rdata' = rdata
      BY <3>1 DEF WriteClk, rvars
    <3> QED
      BY <2>0, <3>2, WriteSideWords, EdgeRefines DEF TypeOK
  <2>2. CASE REdge
    <3>1. PICK rd \in BOOLEAN : ReadClk(rd)
      BY <2>2 DEF REdge
    <3>2. ReadSide(rd) /\ wbin' = wbin /\ mem' = mem
      BY <3>1 DEF ReadClk, wvars
    <3>3. PICK d : d \in Data
      BY DataAssumption
    <3> QED
      BY <2>0, <3>2, <3>3, ReadSideWords, EdgeRefines DEF TypeOK
  <2>3. CASE BothEdges
    <3>1. PICK wr \in BOOLEAN, rd \in BOOLEAN, d \in Data : BothClk(wr, d, rd)
      BY <2>3 DEF BothEdges
    <3>2. WriteSide(wr, d) /\ ReadSide(rd)
      BY <3>1 DEF BothClk
    <3> QED
      BY <2>0, <3>2, WriteSideWords, ReadSideWords, EdgeRefines DEF TypeOK
  <2>4. CASE Reset
    <3>1. Ahead(0, 0) = 0
      BY DEF Ahead
    <3>2. Contents' = << >> /\ rdata' = rdata
      BY <2>4, <3>1 DEF Reset, Contents, Occupancy
    <3> QED
      BY <3>2 DEF Fifo!Next, Fifo!Reset
  <2>5. CASE UNCHANGED vars
    BY <2>5 DEF vars, Fifo!fifoVars, Contents, Occupancy
  <2> QED
    BY <2>1, <2>2, <2>3, <2>4, <2>5 DEF Next
<1> QED
  BY <1>1, <1>2, Inductive, PTL DEF Spec, RefinesFifo, Fifo!Spec
-----------------------------------------------------------------------------
(* One bit of a pointer changes per edge.                                  *)

(***************************************************************************)
(* Adding one carries through the ones at the bottom of a number: above    *)
(* bit i the numbers b and b + 1 are equal or one apart, and the carry     *)
(* goes on exactly through a one.                                          *)
(***************************************************************************)
LEMMA CarryStep ==
    ASSUME NEW b \in Nat, NEW i \in Nat
    PROVE  /\ Bit(b, i) \in {0, 1} /\ Bit(b + 1, i) \in {0, 1}
           /\ Shr(b + 1, i) = Shr(b, i) =>
                 /\ Bit(b + 1, i) = Bit(b, i)
                 /\ Shr(b + 1, i + 1) = Shr(b, i + 1)
           /\ Shr(b + 1, i) = Shr(b, i) + 1 =>
                 \/ /\ Bit(b, i) = 0 /\ Bit(b + 1, i) = 1
                    /\ Shr(b + 1, i + 1) = Shr(b, i + 1)
                 \/ /\ Bit(b, i) = 1 /\ Bit(b + 1, i) = 0
                    /\ Shr(b + 1, i + 1) = Shr(b, i + 1) + 1
<1>1. /\ Shr(b, i) \in Nat /\ Shr(b, i + 1) \in Nat /\ Bit(b, i) \in {0, 1}
      /\ Shr(b, i) = 2 * Shr(b, i + 1) + Bit(b, i)
  BY ShrStep
<1>2. b + 1 \in Nat
  OBVIOUS
<1>3. /\ Shr(b + 1, i) \in Nat /\ Shr(b + 1, i + 1) \in Nat /\ Bit(b + 1, i) \in {0, 1}
      /\ Shr(b + 1, i) = 2 * Shr(b + 1, i + 1) + Bit(b + 1, i)
  BY <1>2, ShrStep
<1> QED
  BY <1>1, <1>3

\* At every bit the two numbers are equal or one apart from there up.
LEMMA CarryOrNot ==
    ASSUME NEW b \in Nat
    PROVE  \A i \in Nat : Shr(b + 1, i) = Shr(b, i) \/ Shr(b + 1, i) = Shr(b, i) + 1
<1> DEFINE S == {i \in Nat : Shr(b + 1, i) = Shr(b, i) \/ Shr(b + 1, i) = Shr(b, i) + 1}
<1>1. 0 \in S
  <2>1. b + 1 \in Nat
    OBVIOUS
  <2>2. Shr(b, 0) = b /\ Shr(b + 1, 0) = b + 1
    BY <2>1, ShrStep
  <2> QED
    BY <2>2
<1>2. ASSUME NEW i \in Nat, i \in S
      PROVE  i + 1 \in S
  BY <1>2, CarryStep
<1> HIDE DEF S
<1>3. \A i \in Nat : i \in S
  BY <1>1, <1>2, SetInduction
<1> QED
  BY <1>3 DEF S

\* A carry that has stopped does not start again.
LEMMA CarryStopped ==
    ASSUME NEW b \in Nat, NEW i \in Nat, Shr(b + 1, i) = Shr(b, i)
    PROVE  \A j \in Nat : j >= i => Shr(b + 1, j) = Shr(b, j)
<1> DEFINE S == {j \in Nat : Shr(b + 1, i + j) = Shr(b, i + j)}
<1>1. 0 \in S
  <2>1. i + 0 = i
    OBVIOUS
  <2> QED
    BY <2>1
<1>2. ASSUME NEW j \in Nat, j \in S
      PROVE  j + 1 \in S
  <2>1. i + j \in Nat /\ i + (j + 1) = (i + j) + 1
    OBVIOUS
  <2>2. Shr(b + 1, (i + j) + 1) = Shr(b, (i + j) + 1)
    BY <1>2, <2>1, CarryStep
  <2> QED
    BY <2>1, <2>2
<1> HIDE DEF S
<1>3. \A j \in Nat : j \in S
  BY <1>1, <1>2, SetInduction
<1>4. ASSUME NEW j \in Nat, j >= i
      PROVE  Shr(b + 1, j) = Shr(b, j)
  <2>1. j - i \in S /\ i + (j - i) = j
    BY <1>3, <1>4
  <2>2. Shr(b + 1, i + (j - i)) = Shr(b, i + (j - i))
    BY <2>1 DEF S
  <2> QED
    BY <2>1, <2>2
<1> QED
  BY <1>4

\* Two words of abits+1 bits differ in one bit at most.
OneBitApart(g, h) ==
    \A i, j \in 0 .. abits : g[i] # h[i] /\ g[j] # h[j] => i = j

\* A bit of the Gray code changes only where the carry stops.
LEMMA GrayAtCarry ==
    ASSUME NEW b \in Nat, NEW i \in 0 .. abits, Gray(b + 1)[i] # Gray(b)[i]
    PROVE  /\ Shr(b + 1, i) = Shr(b, i) + 1
           /\ Shr(b + 1, i + 1) = Shr(b, i + 1)
<1>1. i \in Nat /\ i + 1 \in Nat
  BY DepthNat
<1>2. /\ Gray(b + 1)[i] = (Bit(b + 1, i) + Bit(b + 1, i + 1)) % 2
      /\ Gray(b)[i] = (Bit(b, i) + Bit(b, i + 1)) % 2
  BY DEF Gray
<1>3. \A x, y \in {0, 1} : (x + y) % 2 = ((1 - x) + (1 - y)) % 2
  OBVIOUS
<1>4. Shr(b + 1, i) # Shr(b, i)
  <2> SUFFICES ASSUME Shr(b + 1, i) = Shr(b, i)
               PROVE  FALSE
    OBVIOUS
  <2>1. Bit(b + 1, i) = Bit(b, i) /\ Shr(b + 1, i + 1) = Shr(b, i + 1)
    BY <1>1, CarryStep
  <2>2. Bit(b + 1, i + 1) = Bit(b, i + 1)
    BY <1>1, <2>1, CarryStep
  <2> QED
    BY <1>2, <2>1, <2>2
<1>5. Shr(b + 1, i) = Shr(b, i) + 1
  BY <1>1, <1>4, CarryOrNot
<1>6. ASSUME Shr(b + 1, i + 1) # Shr(b, i + 1)
      PROVE  FALSE
  <2>1. Shr(b + 1, i + 1) = Shr(b, i + 1) + 1
    BY <1>1, <1>6, CarryOrNot
  <2>2. /\ Bit(b, i) \in {0, 1} /\ Bit(b, i + 1) \in {0, 1}
        /\ Bit(b + 1, i) = 1 - Bit(b, i)
    BY <1>1, <1>5, CarryStep
  <2>3. Bit(b + 1, i + 1) = 1 - Bit(b, i + 1)
    BY <1>1, <2>1, CarryStep
  <2> QED
    BY <1>2, <1>3, <2>2, <2>3
<1> QED
  BY <1>5, <1>6

\* The bits of the last pointer are all ones.
LEMMA LastPtrBits ==
    ASSUME NEW b \in Ptrs, b + 1 = 2 * Depth
    PROVE  \A i \in 0 .. abits : Bit(b, i) = 1
<1>1. b \in Nat /\ Shr(b, abits + 1) = 0 /\ abits + 1 \in Nat
  BY PtrBits, DepthNat
<1>2. Shr(b + 1, abits + 1) # Shr(b, abits + 1)
  <2>1. \A D \in Nat \ {0} : D \div D = 1
    OBVIOUS
  <2>2. 2 * Depth \in Nat \ {0}
    BY DepthNat
  <2>3. Shr(b + 1, abits + 1) = 1
    BY <2>1, <2>2, DepthNat DEF Shr
  <2> QED
    BY <1>1, <2>3
<1>3. ASSUME NEW i \in 0 .. abits
      PROVE  Bit(b, i) = 1
  <2>1. i \in Nat /\ i + 1 \in Nat /\ abits + 1 >= i /\ abits + 1 >= i + 1
    BY DepthNat
  <2>2. Shr(b + 1, i) # Shr(b, i) /\ Shr(b + 1, i + 1) # Shr(b, i + 1)
    BY <1>1, <1>2, <2>1, CarryStopped
  <2>3. Shr(b + 1, i) = Shr(b, i) + 1
    BY <1>1, <2>1, <2>2, CarryOrNot
  <2> QED
    BY <1>1, <2>1, <2>2, <2>3, CarryStep
<1> QED
  BY <1>3

\* The Gray codes of a pointer and of its successor differ in one bit, at the
\* end of the count as well.
LEMMA GraySucc ==
    ASSUME NEW b \in Ptrs
    PROVE  OneBitApart(Gray(Succ(b)), Gray(b))
<1>1. b \in Nat
  BY PtrBits
<1>2. CASE b + 1 # 2 * Depth
  <2>1. Succ(b) = b + 1
    BY <1>2 DEF Succ
  <2>2. ASSUME NEW i \in 0 .. abits, NEW j \in 0 .. abits, i < j,
               Gray(b + 1)[i] # Gray(b)[i], Gray(b + 1)[j] # Gray(b)[j]
        PROVE  FALSE
    <3>1. Shr(b + 1, i + 1) = Shr(b, i + 1)
      BY <1>1, <2>2, GrayAtCarry
    <3>2. Shr(b + 1, j) = Shr(b, j) + 1
      BY <1>1, <2>2, GrayAtCarry
    <3>3. i + 1 \in Nat /\ j \in Nat /\ j >= i + 1
      BY <2>2, DepthNat
    <3>4. Shr(b + 1, j) = Shr(b, j)
      BY <1>1, <3>1, <3>3, CarryStopped
    <3>5. Shr(b, j) \in Nat
      BY <1>1, <3>3, ShrStep
    <3> QED
      BY <3>2, <3>4, <3>5
  <2>3. ASSUME NEW i \in 0 .. abits, NEW j \in 0 .. abits,
               Gray(b + 1)[i] # Gray(b)[i], Gray(b + 1)[j] # Gray(b)[j]
        PROVE  i = j
    <3>1. ~(i < j) /\ ~(j < i)
      BY <2>2, <2>3
    <3> QED
      BY <3>1, DepthNat
  <2> QED
    BY <2>1, <2>3 DEF OneBitApart
<1>3. CASE b + 1 = 2 * Depth
  <2>1. Succ(b) = 0
    BY <1>3 DEF Succ
  <2>2. \A i \in 0 .. abits + 1 : Bit(0, i) = 0
    <3>1. \A D \in Nat \ {0} : (0 \div D) % 2 = 0
      OBVIOUS
    <3>2. \A i \in Nat : Pow2[i] \in Nat \ {0}
      BY Pow2Facts
    <3>3. ASSUME NEW i \in 0 .. abits + 1
          PROVE  Bit(0, i) = 0
      <4>1. i \in Nat
        BY DepthNat
      <4>2. (0 \div Pow2[i]) % 2 = 0
        BY <4>1, <3>1, <3>2
      <4> QED
        BY <4>2 DEF Bit, Shr
    <3> QED
      BY <3>3
  <2>3. ASSUME NEW i \in 0 .. abits, i # abits
        PROVE  Gray(0)[i] = Gray(b)[i]
    <3>1. i + 1 \in 0 .. abits /\ i \in 0 .. abits + 1 /\ i + 1 \in 0 .. abits + 1
      BY <2>3, DepthNat
    <3>2. Bit(b, i) = 1 /\ Bit(b, i + 1) = 1 /\ Bit(0, i) = 0 /\ Bit(0, i + 1) = 0
      BY <1>3, <2>2, <3>1, LastPtrBits
    <3>3. (1 + 1) % 2 = (0 + 0) % 2
      OBVIOUS
    <3> QED
      BY <3>2, <3>3 DEF Gray
  <2> QED
    BY <2>1, <2>3 DEF OneBitApart
<1> QED
  BY <1>2, <1>3

\* The set of the bits in which two such words differ has one element at most.
LEMMA AtMostOne ==
    ASSUME NEW g, NEW h, OneBitApart(g, h)
    PROVE  Cardinality({i \in 0 .. abits : g[i] # h[i]}) <= 1
<1> DEFINE D == {i \in 0 .. abits : g[i] # h[i]}
<1>1. CASE D = {}
  <2>1. Cardinality(D) = 0
    BY <1>1, FS_EmptySet
  <2> QED
    BY <2>1
<1>2. CASE D # {}
  <2>1. PICK x : x \in D
    BY <1>2
  <2>2. D = {x}
    BY <2>1 DEF OneBitApart
  <2>3. Cardinality(D) = 1
    BY <2>2, FS_Singleton
  <2> QED
    BY <2>3
<1> QED
  BY <1>1, <1>2

\* A word differs from itself in no bit.
LEMMA SameWord == \A g : OneBitApart(g, g)
BY DEF OneBitApart

\* The synchronised pointers are one count behind the counters at most.
OneBehind ==
    /\ \E s \in Ptrs : q2_wgray = Gray(s) /\ wbin \in {s, Succ(s)}
    /\ \E t \in Ptrs : q2_rgray = Gray(t) /\ rbin \in {t, Succ(t)}

\* An edge of the write clock takes the synchronised pointer to the counter,
\* and the counter to its successor at most.
LEMMA WriteSideBehind ==
    ASSUME IndInv, OneBehind, NEW wr \in BOOLEAN, NEW d \in Data, WriteSide(wr, d)
    PROVE  /\ OneBitApart(q2_wgray', q2_wgray)
           /\ \E s \in Ptrs : q2_wgray' = Gray(s) /\ wbin' \in {s, Succ(s)}
<1>1. wbin \in Ptrs /\ q2_wgray' = Gray(wbin) /\ wbin' \in {wbin, Succ(wbin)}
  <2>1. PICK t, s : TypeOK /\ Snapshot(t, s)
    BY IndInvSnapshot
  <2>2. q2_wgray' = Gray(wbin) /\ (wbin' = wbin \/ wbin' = Succ(wbin))
    BY <2>1, WriteSideStep
  <2> QED
    BY <2>1, <2>2 DEF TypeOK
<1>2. PICK s \in Ptrs : q2_wgray = Gray(s) /\ wbin \in {s, Succ(s)}
  BY DEF OneBehind
<1> QED
  BY <1>1, <1>2, GraySucc, SameWord

\* An edge of the read clock does the same on the read side.
LEMMA ReadSideBehind ==
    ASSUME IndInv, OneBehind, NEW rd \in BOOLEAN, ReadSide(rd)
    PROVE  /\ OneBitApart(q2_rgray', q2_rgray)
           /\ \E t \in Ptrs : q2_rgray' = Gray(t) /\ rbin' \in {t, Succ(t)}
<1>1. rbin \in Ptrs /\ q2_rgray' = Gray(rbin) /\ rbin' \in {rbin, Succ(rbin)}
  <2>1. PICK t, s : TypeOK /\ Snapshot(t, s)
    BY IndInvSnapshot
  <2>2. q2_rgray' = Gray(rbin) /\ (rbin' = rbin \/ rbin' = Succ(rbin))
    BY <2>1, ReadSideStep
  <2> QED
    BY <2>1, <2>2 DEF TypeOK
<1>2. PICK t \in Ptrs : q2_rgray = Gray(t) /\ rbin \in {t, Succ(t)}
  BY DEF OneBehind
<1> QED
  BY <1>1, <1>2, GraySucc, SameWord

\* No step but a reset moves a synchronised pointer by more than one bit, and
\* the pointers stay one count behind.
LEMMA BehindStep ==
    ASSUME IndInv, OneBehind, [Next]_vars
    PROVE  /\ OneBehind'
           /\ \/ Reset
              \/ OneBitApart(q2_wgray', q2_wgray) /\ OneBitApart(q2_rgray', q2_rgray)
<1>1. CASE WEdge
  <2>1. PICK wr \in BOOLEAN, d \in Data : WriteClk(wr, d)
    BY <1>1 DEF WEdge
  <2>2. WriteSide(wr, d) /\ rbin' = rbin /\ q2_rgray' = q2_rgray
    BY <2>1 DEF WriteClk, rvars
  <2> QED
    BY <2>2, WriteSideBehind, SameWord DEF OneBehind
<1>2. CASE REdge
  <2>1. PICK rd \in BOOLEAN : ReadClk(rd)
    BY <1>2 DEF REdge
  <2>2. ReadSide(rd) /\ wbin' = wbin /\ q2_wgray' = q2_wgray
    BY <2>1 DEF ReadClk, wvars
  <2> QED
    BY <2>2, ReadSideBehind, SameWord DEF OneBehind
<1>3. CASE BothEdges
  <2>1. PICK wr \in BOOLEAN, rd \in BOOLEAN, d \in Data : BothClk(wr, d, rd)
    BY <1>3 DEF BothEdges
  <2>2. WriteSide(wr, d) /\ ReadSide(rd)
    BY <2>1 DEF BothClk
  <2> QED
    BY <2>2, WriteSideBehind, ReadSideBehind DEF OneBehind
<1>4. CASE Reset
  BY <1>4, ZeroPtr DEF Reset, OneBehind
<1>5. CASE UNCHANGED vars
  <2>1. /\ wbin' = wbin /\ q2_wgray' = q2_wgray
        /\ rbin' = rbin /\ q2_rgray' = q2_rgray
    BY <1>5 DEF vars
  <2> QED
    BY <2>1, SameWord DEF OneBehind
<1> QED
  BY <1>1, <1>2, <1>3, <1>4, <1>5 DEF Next

(***************************************************************************)
(* For every width of the pointers and every order of the edges, what the  *)
(* other clock domain samples of q2_wgray and q2_rgray changes in at most  *)
(* one bit per edge, the wrap of the counter included; only a reset may    *)
(* change more.                                                            *)
(***************************************************************************)
THEOREM SingleBitCrosses == Spec => OneBitPerEdge
<1>1. Init => OneBehind
  BY ZeroPtr DEF Init, OneBehind
<1>2. IndInv /\ OneBehind /\ [Next]_vars => OneBehind'
  BY BehindStep
<1>3. IndInv /\ OneBehind /\ [Next]_vars =>
      [ \/ Reset
        \/ /\ Cardinality({i \in 0 .. abits : q2_wgray'[i] # q2_wgray[i]}) <= 1
           /\ Cardinality({i \in 0 .. abits : q2_rgray'[i] # q2_rgray[i]}) <= 1 ]_vars
  <2> SUFFICES ASSUME IndInv, OneBehind, [Next]_vars, ~Reset
               PROVE  /\ Cardinality({i \in 0 .. abits : q2_wgray'[i] # q2_wgray[i]}) <= 1
                      /\ Cardinality({i \in 0 .. abits : q2_rgray'[i] # q2_rgray[i]}) <= 1
    OBVIOUS
  <2>1. OneBitApart(q2_wgray', q2_wgray) /\ OneBitApart(q2_rgray', q2_rgray)
    BY BehindStep
  <2> QED
    BY <2>1, AtMostOne
<1> QED
  BY <1>1, <1>2, <1>3, Inductive, PTL DEF Spec, OneBitPerEdge
=============================================================================
