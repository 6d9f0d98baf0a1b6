------------------------------ MODULE Recursion ------------------------------
(***************************************************************************)
(* Induction and recursion on the natural numbers, for the functions that  *)
(* the modules define by recursion, and bounds of sets of numbers.         *)
(* Induction is stated for a set of numbers and recursion for a function   *)
(* of the number and of the value before it.                               *)
(***************************************************************************)
EXTENDS Integers, WellFoundedInduction, FiniteSetTheorems, TLAPS

(* Every non-empty set of natural numbers has a least element.             *)
LEMMA LeastElement ==
    ASSUME NEW T, T \subseteq Nat, T # {}
    PROVE  \E x \in T : \A y \in T : x <= y
<1> DEFINE R == {ss \in Nat \X Nat : ss[1] < ss[2]}
<1>1. IsWellFoundedOn(R, Nat)
  BY NatLessThanWellFounded DEF OpToRel
<1>2. PICK x \in T : \A y \in T : ~ (<<y, x>> \in R)
  <2> HIDE DEF R
  <2> QED BY <1>1, WFMin
<1>3. \A y \in T : <<y, x>> \in R <=> y < x
  OBVIOUS
<1>4. \A y \in T : y \in Nat /\ x \in Nat /\ ~ (y < x)
  BY <1>2, <1>3
<1>5. \A y \in T : x <= y
  BY <1>4
<1> QED BY <1>5

(* A set that has 0 and with a number the next one has all numbers.        *)
LEMMA SetInduction ==
    ASSUME NEW T, 0 \in T, \A n \in Nat : n \in T => n + 1 \in T
    PROVE  \A n \in Nat : n \in T
<1> SUFFICES ASSUME Nat \ T # {} PROVE FALSE
  OBVIOUS
<1>1. PICK x \in Nat \ T : \A y \in Nat \ T : x <= y
  BY LeastElement
<1>2. x - 1 \in Nat /\ x - 1 \notin T
  BY <1>1
<1> QED BY <1>1, <1>2

(* A bounded non-empty set of natural numbers has a greatest element.      *)
LEMMA GreatestElement ==
    ASSUME NEW T, NEW b \in Nat, T \subseteq 0 .. b, T # {}
    PROVE  \E x \in T : \A y \in T : y <= x
<1> DEFINE U == {n \in Nat : \A y \in T : y <= n}
<1>1. PICK u \in U : \A n \in U : u <= n
  <2>1. b \in U /\ U \subseteq Nat
    OBVIOUS
  <2> HIDE DEF U
  <2> QED BY <2>1, LeastElement
<1>2. u \in T
  <2> SUFFICES ASSUME u \notin T PROVE FALSE
    OBVIOUS
  <2>1. \A y \in T : y <= u - 1
    BY <1>1
  <2>2. u - 1 \in U
    <3>1. PICK y \in T : y \in 0 .. b
      OBVIOUS
    <3>2. u - 1 \in Nat
      BY <2>1, <3>1
    <3> QED BY <2>1, <3>2
  <2> QED BY <2>2, <1>1
<1> QED BY <1>1, <1>2

(* The function f has the value a at 0, and F tells the value at n from n  *)
(* and the value at n - 1.                                                 *)
RecursiveOn(f, S, a, F) ==
    /\ f \in [Nat -> S]
    /\ f[0] = a
    /\ \A n \in Nat \ {0} : f[n] = F[<<n, f[n - 1]>>]

(* Recursion on the natural numbers with values in S.                      *)
LEMMA RecursiveFunction ==
    ASSUME NEW S, NEW a \in S, NEW F \in [Nat \X S -> S]
    PROVE  \E f : RecursiveOn(f, S, a, F)
<1> DEFINE Upto(g, n) == /\ g \in [0 .. n -> S]
                         /\ g[0] = a
                         /\ \A i \in 1 .. n : g[i] = F[<<i, g[i - 1]>>]
<1>1. \A n \in Nat : \E g : Upto(g, n)
  <2> DEFINE T == {n \in Nat : \E g : Upto(g, n)}
  <2>1. 0 \in T
    <3>1. Upto([i \in 0 .. 0 |-> a], 0)
      OBVIOUS
    <3> QED BY <3>1
  <2>2. ASSUME NEW n \in Nat, n \in T PROVE n + 1 \in T
    <3>1. PICK g : Upto(g, n)
      BY <2>2
    <3> DEFINE h == [i \in 0 .. n + 1 |-> IF i = n + 1 THEN F[<<n + 1, g[n]>>] ELSE g[i]]
    <3>2. F[<<n + 1, g[n]>>] \in S
      BY <3>1
    <3>3. h \in [0 .. n + 1 -> S]
      BY <3>1, <3>2
    <3>4. h[0] = a
      BY <3>1
    <3>5. ASSUME NEW i \in 1 .. n + 1 PROVE h[i] = F[<<i, h[i - 1]>>]
      <4>1. CASE i = n + 1
        <5>1. i - 1 = n /\ n \in 0 .. n + 1 /\ n # n + 1 /\ i \in 0 .. n + 1
          BY <4>1
        <5>2. h[n] = g[n]
          BY <5>1
        <5> QED BY <4>1, <5>1, <5>2
      <4>2. CASE i # n + 1
        <5>1. /\ i \in 1 .. n /\ i \in 0 .. n + 1
              /\ i - 1 \in 0 .. n + 1 /\ i - 1 # n + 1
          BY <4>2
        <5>2. h[i] = g[i] /\ h[i - 1] = g[i - 1]
          BY <4>2, <5>1
        <5> QED BY <3>1, <5>1, <5>2
      <4> QED BY <4>1, <4>2
    <3> HIDE DEF h
    <3> QED BY <3>3, <3>4, <3>5
  <2> HIDE DEF T
  <2>3. \A n \in Nat : n \in T
    BY <2>1, <2>2, SetInduction
  <2> QED BY <2>3 DEF T
<1>2. ASSUME NEW n \in Nat, NEW g, NEW m \in Nat, NEW h, Upto(g, n), Upto(h, m)
      PROVE  \A i \in Nat : i <= n /\ i <= m => g[i] = h[i]
  <2> DEFINE T == {i \in Nat : i <= n /\ i <= m => g[i] = h[i]}
  <2>1. 0 \in T
    BY <1>2
  <2>2. ASSUME NEW i \in Nat, i \in T PROVE i + 1 \in T
    <3> SUFFICES ASSUME i + 1 <= n, i + 1 <= m PROVE g[i + 1] = h[i + 1]
      OBVIOUS
    <3>1. g[i] = h[i]
      BY <2>2
    <3>2. g[i + 1] = F[<<i + 1, g[i]>>] /\ h[i + 1] = F[<<i + 1, h[i]>>]
      <4>1. i + 1 \in 1 .. n /\ i + 1 \in 1 .. m /\ (i + 1) - 1 = i
        OBVIOUS
      <4> QED BY <4>1, <1>2
    <3> QED BY <3>1, <3>2
  <2> HIDE DEF T
  <2>3. \A i \in Nat : i \in T
    BY <2>1, <2>2, SetInduction
  <2> QED BY <2>3 DEF T
<1> DEFINE G(n) == CHOOSE g : Upto(g, n)
           f == [n \in Nat |-> G(n)[n]]
<1>3. \A n \in Nat : Upto(G(n), n)
  BY <1>1
<1> HIDE DEF G
<1>4. f \in [Nat -> S]
  BY <1>3
<1>5. f[0] = a
  BY <1>3
<1>6. ASSUME NEW n \in Nat \ {0} PROVE f[n] = F[<<n, f[n - 1]>>]
  <2>1. n - 1 \in Nat /\ n - 1 <= n /\ n \in 1 .. n
    OBVIOUS
  <2>2. G(n)[n] = F[<<n, G(n)[n - 1]>>]
    BY <2>1, <1>3
  <2>3. G(n)[n - 1] = G(n - 1)[n - 1]
    <3> HIDE DEF Upto
    <3> QED BY <2>1, <1>2, <1>3
  <2> QED BY <2>1, <2>2, <2>3
<1> HIDE DEF f
<1> QED BY <1>4, <1>5, <1>6 DEF RecursiveOn

(* The same for the numbers up to n.                                       *)
RecursiveUpto(f, S, a, n, F) ==
    /\ f \in [0 .. n -> S]
    /\ f[0] = a
    /\ \A k \in 1 .. n : f[k] = F[<<k, f[k - 1]>>]

(* Recursion up to n.                                                      *)
LEMMA BoundedRecursion ==
    ASSUME NEW S, NEW a \in S, NEW n \in Nat, NEW F \in [(1 .. n) \X S -> S]
    PROVE  \E f : RecursiveUpto(f, S, a, n, F)
<1> DEFINE G == [x \in Nat \X S |-> IF x[1] \in 1 .. n THEN F[x] ELSE x[2]]
<1>1. G \in [Nat \X S -> S]
  <2>1. \A x \in Nat \X S : x[1] \in 1 .. n => x \in (1 .. n) \X S
    OBVIOUS
  <2>2. \A x \in Nat \X S : (IF x[1] \in 1 .. n THEN F[x] ELSE x[2]) \in S
    BY <2>1
  <2> QED BY <2>2
<1>2. \E g : RecursiveOn(g, S, a, G)
  <2> HIDE DEF G
  <2> QED BY <1>1, RecursiveFunction
<1> PICK g : RecursiveOn(g, S, a, G)
  BY <1>2
<1>3. g \in [Nat -> S] /\ g[0] = a /\ \A k \in Nat \ {0} : g[k] = G[<<k, g[k - 1]>>]
  BY DEF RecursiveOn
<1> DEFINE f == [k \in 0 .. n |-> g[k]]
<1>4. f \in [0 .. n -> S]
  BY <1>3
<1>5. f[0] = a
  BY <1>3
<1>6. ASSUME NEW k \in 1 .. n PROVE f[k] = F[<<k, f[k - 1]>>]
  <2>1. k \in Nat \ {0} /\ k \in 0 .. n /\ k - 1 \in 0 .. n /\ k - 1 \in Nat
    OBVIOUS
  <2>2. f[k] = g[k] /\ f[k - 1] = g[k - 1]
    BY <2>1
  <2>3. g[k - 1] \in S
    BY <1>3, <2>1
  <2>4. <<k, g[k - 1]>> \in Nat \X S /\ <<k, g[k - 1]>>[1] = k
    BY <2>1, <2>3
  <2>5. G[<<k, g[k - 1]>>] = F[<<k, g[k - 1]>>]
    BY <2>1, <2>4
  <2> HIDE DEF f, G
  <2> QED BY <1>3, <2>1, <2>2, <2>5
<1> HIDE DEF f
<1> QED BY <1>4, <1>5, <1>6 DEF RecursiveUpto

(* A sequence of natural numbers is bounded.                               *)
LEMMA SequenceBounded ==
    ASSUME NEW n \in Nat, NEW f \in [1 .. n -> Nat]
    PROVE  \E b \in Nat : \A i \in 1 .. n : f[i] <= b
<1> DEFINE T == {k \in Nat : k <= n => \E b \in Nat : \A i \in 1 .. k : f[i] <= b}
<1>1. 0 \in T
  <2>1. \A i \in 1 .. 0 : f[i] <= 0
    OBVIOUS
  <2> QED BY <2>1
<1>2. ASSUME NEW k \in Nat, k \in T PROVE k + 1 \in T
  <2> SUFFICES ASSUME k + 1 <= n PROVE \E b \in Nat : \A i \in 1 .. k + 1 : f[i] <= b
    OBVIOUS
  <2>1. PICK b \in Nat : \A i \in 1 .. k : f[i] <= b
    BY <1>2
  <2>2. f[k + 1] \in Nat /\ \A i \in 1 .. k : f[i] \in Nat
    OBVIOUS
  <2>3. \A i \in 1 .. k + 1 : i \in 1 .. k \/ i = k + 1
    OBVIOUS
  <2>4. b + f[k + 1] \in Nat /\ \A i \in 1 .. k + 1 : f[i] <= b + f[k + 1]
    BY <2>1, <2>2, <2>3
  <2> QED BY <2>4
<1> HIDE DEF T
<1>3. n \in T
  BY <1>1, <1>2, SetInduction
<1> QED BY <1>3 DEF T

(* A finite set of natural numbers that is not empty has a greatest        *)
(* element.                                                                *)
LEMMA FiniteMaximum ==
    ASSUME NEW T, T \subseteq Nat, IsFiniteSet(T), T # {}
    PROVE  \E x \in T : \A y \in T : y <= x
<1>1. PICK n \in Nat : ExistsSurjection(1 .. n, T)
  BY FS_NatSurjection
<1>2. PICK f \in [1 .. n -> T] : \A t \in T : \E i \in 1 .. n : f[i] = t
  BY <1>1 DEF ExistsSurjection, Surjection
<1>3. PICK b \in Nat : \A i \in 1 .. n : f[i] <= b
  <2>1. f \in [1 .. n -> Nat]
    OBVIOUS
  <2> QED BY <2>1, SequenceBounded
<1>4. T \subseteq 0 .. b
  BY <1>2, <1>3
<1> QED BY <1>4, GreatestElement
=============================================================================
