-------------------------- MODULE BitWords_proofs --------------------------
(***************************************************************************)
(* Facts about Pow2, Shr and Bit for every natural number.  Induction over *)
(* the naturals is done with sets: a property that fails somewhere fails   *)
(* at a least number.                                                      *)
(***************************************************************************)
EXTENDS BitWords, TLAPS, WellFoundedInduction

(***************************************************************************)
(* A non-empty set of naturals has a least element.                        *)
(***************************************************************************)
THEOREM LeastNatural ==
    ASSUME NEW T \in SUBSET Nat, T # {}
    PROVE  \E x \in T : \A y \in T : x <= y
<1> DEFINE LT == {ss \in Nat \X Nat : ss[1] < ss[2]}
<1>1. IsWellFoundedOn(LT, Nat)
  BY NatLessThanWellFounded, Zenon DEF OpToRel
<1>2. PICK x \in T : \A y \in T : ~(<<y, x>> \in LT)
  BY <1>1, WFMin
<1>3. ASSUME NEW y \in T
      PROVE  x <= y
  <2>1. x \in Nat /\ y \in Nat
    OBVIOUS
  <2>2. ~(<<y, x>> \in LT)
    BY <1>2
  <2>3. ~(y < x)
    BY <2>1, <2>2
  <2> QED
    BY <2>1, <2>3
<1> QED
  BY <1>3

(***************************************************************************)
(* Induction: a set of naturals that holds 0 and every successor of its    *)
(* members is the set of all naturals.                                     *)
(***************************************************************************)
THEOREM SetInduction ==
    ASSUME NEW S, 0 \in S, \A n \in Nat : n \in S => n + 1 \in S
    PROVE  \A n \in Nat : n \in S
<1> SUFFICES ASSUME Nat \ S # {}
             PROVE  FALSE
  OBVIOUS
<1>1. PICK x \in Nat \ S : \A y \in Nat \ S : x <= y
  <2>1. Nat \ S \in SUBSET Nat
    OBVIOUS
  <2> QED
    BY <2>1, LeastNatural
<1>2. x # 0
  BY <1>1
<1>3. x - 1 \in Nat
  BY <1>2
<1>4. x - 1 \in S
  BY <1>1, <1>3
<1>5. (x - 1) + 1 \in S
  BY <1>3, <1>4
<1> QED
  BY <1>1, <1>5

-----------------------------------------------------------------------------
(* Pow2 exists: finite tables of it exist, agree where both are defined,   *)
(* and their diagonal is a solution of its equation.                       *)

Table(f, n) == /\ f \in [0 .. n -> Nat \ {0}]
               /\ f[0] = 1
               /\ \A i \in 1 .. n : f[i] = 2 * f[i - 1]

\* For every n there is a table of the powers of two up to n.
LEMMA TableExists == \A n \in Nat : \E f : Table(f, n)
<1> DEFINE S == {n \in Nat : \E f : Table(f, n)}
<1>1. 0 \in S
  <2>1. Table([i \in 0 .. 0 |-> 1], 0)
    BY DEF Table
  <2> QED
    BY <2>1
<1>2. ASSUME NEW n \in Nat, n \in S
      PROVE  n + 1 \in S
  <2>1. PICK f : Table(f, n)
    BY <1>2
  <2> DEFINE g == [i \in 0 .. n + 1 |-> IF i <= n THEN f[i] ELSE 2 * f[n]]
  <2>2. g \in [0 .. n + 1 -> Nat \ {0}]
    BY <2>1 DEF Table
  <2>3. g[0] = 1
    BY <2>1 DEF Table
  <2>4. ASSUME NEW i \in 1 .. n + 1
        PROVE  g[i] = 2 * g[i - 1]
    <3>1. CASE i <= n
      BY <3>1, <2>1 DEF Table
    <3>2. CASE i = n + 1
      BY <3>2, <2>1 DEF Table
    <3> QED
      BY <3>1, <3>2
  <2>5. Table(g, n + 1)
    BY <2>2, <2>3, <2>4 DEF Table
  <2> QED
    BY <2>5
<1> HIDE DEF S
<1>3. \A n \in Nat : n \in S
  BY <1>1, <1>2, SetInduction
<1> QED
  BY <1>3 DEF S

\* Two tables agree wherever both are defined.
LEMMA TableUnique ==
    ASSUME NEW m \in Nat, NEW n \in Nat, NEW f, NEW g, Table(f, m), Table(g, n)
    PROVE  \A i \in Nat : i <= m /\ i <= n => f[i] = g[i]
<1> DEFINE S == {i \in Nat : i <= m /\ i <= n => f[i] = g[i]}
<1>1. 0 \in S
  BY DEF Table
<1>2. ASSUME NEW i \in Nat, i \in S
      PROVE  i + 1 \in S
  <2>1. CASE i + 1 <= m /\ i + 1 <= n
    <3>1. i + 1 \in 1 .. m /\ i + 1 \in 1 .. n /\ (i + 1) - 1 = i
      BY <2>1
    <3>2. f[i + 1] = 2 * f[i] /\ g[i + 1] = 2 * g[i]
      BY <3>1 DEF Table
    <3> QED
      BY <1>2, <2>1, <3>2
  <2>2. CASE ~(i + 1 <= m /\ i + 1 <= n)
    BY <2>2
  <2> QED
    BY <2>1, <2>2
<1> HIDE DEF S
<1>3. \A i \in Nat : i \in S
  BY <1>1, <1>2, SetInduction
<1> QED
  BY <1>3 DEF S

\* The recursive definition of Pow2 has a solution, so Pow2 satisfies it.
LEMMA Pow2Equation == Pow2 = [n \in Nat |-> IF n = 0 THEN 1 ELSE 2 * Pow2[n - 1]]
<1> DEFINE tab(n) == CHOOSE f : Table(f, n)
           h == [n \in Nat |-> tab(n)[n]]
<1>1. \A n \in Nat : Table(tab(n), n)
  BY TableExists
<1> HIDE DEF tab
<1>2. h[0] = 1
  BY <1>1 DEF Table
<1>3. ASSUME NEW n \in Nat, n # 0
      PROVE  h[n] = 2 * h[n - 1]
  <2>1. n - 1 \in Nat /\ n \in 1 .. n
    BY <1>3
  <2>2. tab(n)[n] = 2 * tab(n)[n - 1]
    BY <1>1, <2>1 DEF Table
  <2>3. Table(tab(n), n) /\ Table(tab(n - 1), n - 1)
    BY <1>1, <2>1
  <2>4. tab(n)[n - 1] = tab(n - 1)[n - 1]
    BY <2>1, <2>3, TableUnique
  <2> QED
    BY <2>1, <2>2, <2>4
<1>4. h = [n \in Nat |-> IF n = 0 THEN 1 ELSE 2 * h[n - 1]]
  BY <1>2, <1>3
<1>5. \E f : f = [n \in Nat |-> IF n = 0 THEN 1 ELSE 2 * f[n - 1]]
  BY <1>4
<1> QED
  BY <1>5 DEF Pow2

(***************************************************************************)
(* The defining equations of Pow2, and that its values are positive.       *)
(***************************************************************************)
THEOREM Pow2Facts ==
    /\ Pow2[0] = 1
    /\ \A n \in Nat : Pow2[n + 1] = 2 * Pow2[n]
    /\ \A n \in Nat : Pow2[n] \in Nat \ {0}
<1>1. Pow2[0] = 1
  BY Pow2Equation
<1>2. ASSUME NEW n \in Nat
      PROVE  Pow2[n + 1] = 2 * Pow2[n]
  <2>1. n + 1 \in Nat /\ n + 1 # 0 /\ (n + 1) - 1 = n
    OBVIOUS
  <2> QED
    BY <2>1, Pow2Equation
<1> DEFINE S == {n \in Nat : Pow2[n] \in Nat \ {0}}
<1>3. 0 \in S
  BY <1>1
<1>4. ASSUME NEW n \in Nat, n \in S
      PROVE  n + 1 \in S
  BY <1>2, <1>4
<1> HIDE DEF S
<1>5. \A n \in Nat : n \in S
  BY <1>3, <1>4, SetInduction
<1> QED
  BY <1>1, <1>2, <1>5 DEF S

-----------------------------------------------------------------------------
(* Shifts and bits.                                                        *)

\* Dividing by twice as much halves the quotient.
LEMMA HalveQuotient ==
    ASSUME NEW k \in Nat \ {0}, NEW n \in Nat
    PROVE  n \div (2 * k) = (n \div k) \div 2
OBVIOUS

\* The quotient of two naturals is a natural.
LEMMA QuotientNat ==
    ASSUME NEW k \in Nat \ {0}, NEW n \in Nat
    PROVE  n \div k \in Nat
OBVIOUS

(***************************************************************************)
(* Shifting once more halves, and the bit shifted out is the remainder.    *)
(***************************************************************************)
THEOREM ShrStep ==
    ASSUME NEW n \in Nat, NEW i \in Nat
    PROVE  /\ Shr(n, 0) = n
           /\ Shr(n, i) \in Nat
           /\ Shr(n, i + 1) = Shr(n, i) \div 2
           /\ Bit(n, i) \in {0, 1}
           /\ Shr(n, i) = 2 * Shr(n, i + 1) + Bit(n, i)
<1>1. Pow2[0] = 1 /\ Pow2[i] \in Nat \ {0} /\ Pow2[i + 1] = 2 * Pow2[i]
  BY Pow2Facts
<1>2. n \div 1 = n
  OBVIOUS
<1>3. Shr(n, i) \in Nat
  BY <1>1, QuotientNat DEF Shr
<1>4. Shr(n, i + 1) = Shr(n, i) \div 2
  BY <1>1, HalveQuotient DEF Shr
<1>5. \A s \in Nat : (s % 2) \in {0, 1} /\ s = 2 * (s \div 2) + (s % 2)
  OBVIOUS
<1> QED
  BY <1>1, <1>2, <1>3, <1>4, <1>5 DEF Shr, Bit

(***************************************************************************)
(* Adding 2^w adds 2^(w-i) to the number shifted right by i.               *)
(***************************************************************************)
THEOREM ShrAddPow2 ==
    ASSUME NEW n \in Nat, NEW w \in Nat
    PROVE  \A i \in Nat : i <= w => Shr(n + Pow2[w], i) = Shr(n, i) + Pow2[w - i]
<1> DEFINE m == n + Pow2[w]
           S == {i \in Nat : i <= w => Shr(m, i) = Shr(n, i) + Pow2[w - i]}
<1>0. m \in Nat
  BY Pow2Facts
<1>1. 0 \in S
  <2>1. Shr(m, 0) = m /\ Shr(n, 0) = n /\ w - 0 = w
    BY <1>0, ShrStep
  <2> QED
    BY <2>1
<1>2. ASSUME NEW i \in Nat, i \in S
      PROVE  i + 1 \in S
  <2>1. CASE i + 1 <= w
    <3>1. Shr(m, i) = Shr(n, i) + Pow2[w - i]
      BY <1>2, <2>1
    <3>2. w - (i + 1) \in Nat /\ w - i = (w - (i + 1)) + 1
      BY <2>1
    <3>3. Pow2[w - i] = 2 * Pow2[w - (i + 1)] /\ Pow2[w - (i + 1)] \in Nat
      BY <3>2, Pow2Facts
    <3>4. /\ Shr(m, i + 1) = Shr(m, i) \div 2
          /\ Shr(n, i + 1) = Shr(n, i) \div 2
          /\ Shr(n, i) \in Nat
      BY <1>0, ShrStep
    <3>5. \A a, b \in Nat : (a + 2 * b) \div 2 = a \div 2 + b
      OBVIOUS
    <3>6. Shr(m, i + 1) = Shr(n, i + 1) + Pow2[w - (i + 1)]
      BY <3>1, <3>3, <3>4, <3>5
    <3> QED
      BY <3>6
  <2>2. CASE ~(i + 1 <= w)
    BY <2>2
  <2> QED
    BY <2>1, <2>2
<1> HIDE DEF S
<1>3. \A i \in Nat : i \in S
  BY <1>1, <1>2, SetInduction
<1> QED
  BY <1>3 DEF S

(***************************************************************************)
(* Adding 2^w flips bit w and leaves the bits below it alone.              *)
(***************************************************************************)
THEOREM BitAddPow2 ==
    ASSUME NEW n \in Nat, NEW w \in Nat
    PROVE  /\ \A i \in Nat : i < w => Bit(n + Pow2[w], i) = Bit(n, i)
           /\ Bit(n + Pow2[w], w) # Bit(n, w)
<1> DEFINE m == n + Pow2[w]
<1>0. m \in Nat
  BY Pow2Facts
<1>1. ASSUME NEW i \in Nat, i < w
      PROVE  Bit(m, i) = Bit(n, i)
  <2>1. Shr(m, i) = Shr(n, i) + Pow2[w - i]
    BY <1>1, ShrAddPow2
  <2>2. (w - i) - 1 \in Nat /\ w - i = ((w - i) - 1) + 1
    BY <1>1
  <2>3. PICK k \in Nat : Pow2[w - i] = 2 * k
    BY <2>2, Pow2Facts
  <2>4. Shr(n, i) \in Nat
    BY ShrStep
  <2>5. \A a, b \in Nat : (a + 2 * b) % 2 = a % 2
    OBVIOUS
  <2> HIDE DEF m
  <2> QED
    BY <2>1, <2>3, <2>4, <2>5 DEF Bit
<1>2. Bit(m, w) # Bit(n, w)
  <2>1. Shr(m, w) = Shr(n, w) + 1
    BY ShrAddPow2, Pow2Facts
  <2>2. Shr(n, w) \in Nat
    BY ShrStep
  <2>3. \A a \in Nat : (a + 1) % 2 # a % 2
    OBVIOUS
  <2> HIDE DEF m
  <2> QED
    BY <2>1, <2>2, <2>3 DEF Bit
<1> QED
  BY <1>1, <1>2

(***************************************************************************)
(* A number of w bits has no bit at w or above; shifted by w it is 0.      *)
(***************************************************************************)
THEOREM ShrUInt ==
    ASSUME NEW w \in Nat, NEW n \in UInt(w)
    PROVE  n \in Nat /\ Shr(n, w) = 0 /\ Bit(n, w) = 0
<1>1. Pow2[w] \in Nat \ {0} /\ n \in 0 .. (Pow2[w] - 1)
  BY Pow2Facts DEF UInt
<1>2. \A d \in Nat \ {0} : \A a \in 0 .. (d - 1) : a \div d = 0
  OBVIOUS
<1>3. Shr(n, w) = 0
  BY <1>1, <1>2 DEF Shr
<1> QED
  BY <1>1, <1>3 DEF Bit
=============================================================================
