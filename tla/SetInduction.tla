---------------------------- MODULE SetInduction ----------------------------
(***************************************************************************)
(* Induction and recursion over the natural numbers with a set or a        *)
(* function where the library's theorems have an operator: in this form    *)
(* the facts can be used for a given definition.                           *)
(***************************************************************************)
EXTENDS Integers, WellFoundedInduction, TLAPS

LEMMA NatSetInduction ==
  ASSUME NEW S, S \subseteq Nat, 0 \in S, \A n \in S : n + 1 \in S
  PROVE  S = Nat
<1>1. SUFFICES ASSUME Nat \ S # {}
               PROVE  FALSE
  OBVIOUS
<1>2. PICK x \in Nat \ S : \A y \in Nat \ S : <<y, x>> \notin OpToRel(<, Nat)
  BY <1>1, NatLessThanWellFounded, WFMin
<1>3. \A y \in Nat \ S : ~(y < x)
  BY <1>2 DEF OpToRel
<1>4. x # 0 /\ x - 1 \in Nat /\ x - 1 < x /\ x = (x - 1) + 1
  OBVIOUS
<1>5. x - 1 \in S
  BY <1>3, <1>4
<1>6. QED
  BY <1>4, <1>5

LEMMA Least ==
  ASSUME NEW S, S \subseteq Nat, S # {}
  PROVE  \E m \in S : \A k \in S : m <= k
<1>1. PICK m \in S : \A y \in S : <<y, m>> \notin OpToRel(<, Nat)
  BY NatLessThanWellFounded, WFMin
<1>2. \A y \in S : ~(y < m)
  BY <1>1 DEF OpToRel
<1>3. QED
  BY <1>2

\* f is what step makes of a, over and over.
Steppers(V) == [Nat -> [V -> V]]
Repeats(f, a, step) == f[0] = a /\ \A n \in Nat : f[n + 1] = step[n][f[n]]

LEMMA NatRecursion ==
  ASSUME NEW V, NEW a \in V, NEW step \in Steppers(V)
  PROVE  \E f \in [Nat -> V] : Repeats(f, a, step)
<1> USE DEF Steppers
<1> DEFINE Upto(n, g) == /\ g \in [0 .. n -> V]
                         /\ g[0] = a
                         /\ \A i \in 0 .. n - 1 : g[i + 1] = step[i][g[i]]
           R == {n \in Nat : \E g : Upto(n, g)}
           U == {i \in Nat : \A m, n \in Nat : \A g, h :
                   i <= m /\ i <= n /\ Upto(m, g) /\ Upto(n, h) => g[i] = h[i]}
<1> HIDE DEF Upto
<1>1. ASSUME NEW n \in Nat
      PROVE  \E g : Upto(n, g)
  <2>1. 0 \in R
    <3>1. Upto(0, [i \in 0 .. 0 |-> a])
      BY DEF Upto
    <3>2. QED
      BY <3>1
  <2>2. ASSUME NEW k \in R
        PROVE  k + 1 \in R
    <3>1. PICK g : Upto(k, g)
      OBVIOUS
    <3> DEFINE h == [i \in 0 .. k + 1 |-> IF i = k + 1 THEN step[k][g[k]] ELSE g[i]]
    <3>2. g[k] \in V /\ step[k][g[k]] \in V
      BY <3>1 DEF Upto
    <3>3. h \in [0 .. k + 1 -> V] /\ h[0] = a
      BY <3>1, <3>2 DEF Upto
    <3>4. ASSUME NEW i \in 0 .. (k + 1) - 1
          PROVE  h[i + 1] = step[i][h[i]]
      <4>1. CASE i = k
        BY <3>1, <4>1 DEF Upto
      <4>2. CASE i # k
        <5>1. i \in 0 .. k - 1 /\ i + 1 # k + 1 /\ i # k + 1
          BY <4>2
        <5>2. QED
          BY <3>1, <5>1 DEF Upto
      <4>3. QED
        BY <4>1, <4>2
    <3> HIDE DEF h
    <3>5. Upto(k + 1, h)
      BY <3>3, <3>4 DEF Upto
    <3>6. QED
      BY <3>5
  <2> HIDE DEF R
  <2>3. R \subseteq Nat
    BY DEF R
  <2>4. R = Nat
    BY <2>1, <2>2, <2>3, NatSetInduction
  <2>5. QED
    BY <2>4 DEF R
<1>2. U = Nat
  <2>1. 0 \in U
    BY DEF Upto
  <2>2. ASSUME NEW i \in U
        PROVE  i + 1 \in U
    <3>1. ASSUME NEW m \in Nat, NEW n \in Nat, NEW g, NEW h,
                 i + 1 <= m, i + 1 <= n, Upto(m, g), Upto(n, h)
          PROVE  g[i + 1] = h[i + 1]
      <4>1. i \in Nat /\ i <= m /\ i <= n /\ i \in 0 .. m - 1 /\ i \in 0 .. n - 1
        BY <3>1
      <4>2. g[i] = h[i]
        BY <3>1, <4>1
      <4>3. g[i + 1] = step[i][g[i]] /\ h[i + 1] = step[i][h[i]]
        BY <3>1, <4>1 DEF Upto
      <4>4. QED
        BY <4>2, <4>3
    <3>2. i + 1 \in Nat
      OBVIOUS
    <3>3. QED
      BY <3>1, <3>2
  <2> HIDE DEF U
  <2>3. U \subseteq Nat
    BY DEF U
  <2>4. QED
    BY <2>1, <2>2, <2>3, NatSetInduction
<1>3. ASSUME NEW i \in Nat, NEW m \in Nat, NEW n \in Nat, NEW g, NEW h,
             i <= m, i <= n, Upto(m, g), Upto(n, h)
      PROVE  g[i] = h[i]
  <2>1. i \in U
    BY <1>2
  <2>2. QED
    BY <1>3, <2>1
<1> HIDE DEF U
<1> DEFINE G(n) == CHOOSE g : Upto(n, g)
           f == [n \in Nat |-> G(n)[n]]
<1>4. ASSUME NEW n \in Nat
      PROVE  Upto(n, G(n))
  BY <1>1
<1> HIDE DEF G
<1>5. f \in [Nat -> V] /\ f[0] = a
  BY <1>4 DEF Upto
<1>6. ASSUME NEW n \in Nat
      PROVE  f[n + 1] = step[n][f[n]]
  <2>1. Upto(n, G(n)) /\ Upto(n + 1, G(n + 1)) /\ n + 1 \in Nat
    BY <1>4
  <2>2. ASSUME NEW g, NEW h, Upto(n, g), Upto(n + 1, h)
        PROVE  h[n] = g[n]
    <3>1. n <= n /\ n <= n + 1
      OBVIOUS
    <3>2. QED
      BY <1>3, <2>1, <2>2, <3>1
  <2>3. G(n + 1)[n] = G(n)[n]
    BY <2>1, <2>2
  <2>4. n \in 0 .. (n + 1) - 1
    OBVIOUS
  <2>5. G(n + 1)[n + 1] = step[n][G(n + 1)[n]]
    BY <2>1, <2>4 DEF Upto
  <2>6. QED
    BY <2>1, <2>3, <2>5
<1>7. QED
  BY <1>5, <1>6 DEF Repeats
=============================================================================
