------------------------------ MODULE BitWords ------------------------------
(***************************************************************************)
(* Powers of two and the bits of a natural number, for the registers of    *)
(* fixed width (sc_uint<w>) the hardware modules keep.  Pow2 is a          *)
(* recursive function, so that its equations can be proved.                *)
(***************************************************************************)
EXTENDS Integers

Pow2[n \in Nat] == IF n = 0 THEN 1 ELSE 2 * Pow2[n - 1]

\* n >> i
Shr(n, i) == n \div Pow2[i]

\* bit i of n
Bit(n, i) == Shr(n, i) % 2

\* the values of sc_uint<w>
UInt(w) == 0 .. (Pow2[w] - 1)
=============================================================================
