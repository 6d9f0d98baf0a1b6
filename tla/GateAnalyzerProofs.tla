------------------------- MODULE GateAnalyzerProofs -------------------------
(***************************************************************************)
(* Proofs about the gate analysis of cnftools, for all formulas, with and  *)
(* without semantic checks and time limits.  First what reading a formula, *)
(* OccurrenceList::remove and GateAnalyzer::getInputLiterals compute, then *)
(* that every action preserves the inductive invariant AnalysisInv, at     *)
(* last what GatesRight says: a pattern's clauses leave one value for its  *)
(* output, together they do so for all outputs, inputs are the literals    *)
(* used under the roots, and every gate is reached, on its level.          *)
(***************************************************************************)
EXTENDS GateAnalyzer, Recursion, FunctionTheorems, SequenceTheorems

-----------------------------------------------------------------------------
(* Sequences in ascending order.                                           *)

Increasing(s) == \A i, j \in DOMAIN s : i < j => s[i] < s[j]

(* What the function that defines Ascending is at each number.             *)
LEMMA AscendingSteps ==
    ASSUME NEW S, NEW n \in Nat
    PROVE  \E f : /\ Ascending(S, n) = f[n] /\ f[0] = <<>>
                  /\ \A k \in 1 .. n : f[k] = IF k \in S THEN Append(f[k - 1], k) ELSE f[k - 1]
<1> DEFINE upto[k \in 0 .. n] ==
             IF k = 0 THEN <<>> ELSE IF k \in S THEN Append(upto[k - 1], k) ELSE upto[k - 1]
           Q == Seq(Nat)
           F == [x \in (1 .. n) \X Q |-> IF x[1] \in S THEN Append(x[2], x[1]) ELSE x[2]]
<1>1. Ascending(S, n) = upto[n]
  BY DEF Ascending
<1>2. <<>> \in Q /\ F \in [(1 .. n) \X Q -> Q]
  <2>1. \A x \in (1 .. n) \X Q : x[1] \in Nat /\ x[2] \in Q
    OBVIOUS
  <2> QED BY <2>1
<1>8. \E f : RecursiveUpto(f, Q, <<>>, n, F)
  <2> HIDE DEF Q, F
  <2> QED BY <1>2, BoundedRecursion
<1> PICK f : RecursiveUpto(f, Q, <<>>, n, F)
  BY <1>8
<1>3. f \in [0 .. n -> Q] /\ f[0] = <<>> /\ \A k \in 1 .. n : f[k] = F[<<k, f[k - 1]>>]
  BY DEF RecursiveUpto
<1>4. \A k \in 1 .. n : F[<<k, f[k - 1]>>] = IF k \in S THEN Append(f[k - 1], k) ELSE f[k - 1]
  <2>1. \A k \in 1 .. n : k - 1 \in 0 .. n
    OBVIOUS
  <2>2. \A k \in 1 .. n : f[k - 1] \in Q
    BY <1>3, <2>1
  <2> HIDE DEF Q
  <2> QED BY <2>2
<1>5. f = [k \in 0 .. n |-> IF k = 0 THEN <<>>
                            ELSE IF k \in S THEN Append(f[k - 1], k) ELSE f[k - 1]]
  <2>1. \A k \in 0 .. n : f[k] = IF k = 0 THEN <<>>
                                ELSE IF k \in S THEN Append(f[k - 1], k) ELSE f[k - 1]
    <3>1. \A k \in 0 .. n : k = 0 \/ (k # 0 /\ k \in 1 .. n)
      OBVIOUS
    <3> HIDE DEF F, Q
    <3> QED BY <1>3, <1>4, <3>1
  <2> HIDE DEF F, Q
  <2> QED BY <1>3, <2>1
<1>6. upto = [k \in 0 .. n |-> IF k = 0 THEN <<>>
                               ELSE IF k \in S THEN Append(upto[k - 1], k) ELSE upto[k - 1]]
  BY <1>5
<1> HIDE DEF upto
<1>7. upto[0] = <<>> /\ \A k \in 1 .. n : upto[k] = IF k \in S THEN Append(upto[k - 1], k) ELSE upto[k - 1]
  <2>1. 0 \in 0 .. n /\ \A k \in 1 .. n : k \in 0 .. n /\ k # 0
    OBVIOUS
  <2> QED BY <1>6, <2>1
<1> QED BY <1>1, <1>7

(* An element is appended to a sequence.                                   *)
LEMMA AppendRange ==
    ASSUME NEW S, NEW s \in Seq(S), NEW e \in S
    PROVE  /\ Append(s, e) \in Seq(S) /\ Len(Append(s, e)) = Len(s) + 1
           /\ Range(Append(s, e)) = Range(s) \cup {e}
           /\ \A i \in 1 .. Len(s) : Append(s, e)[i] = s[i]
           /\ Append(s, e)[Len(s) + 1] = e
<1> DEFINE t == Append(s, e)
<1>1. /\ t \in Seq(S) /\ Len(t) = Len(s) + 1 /\ Len(s) \in Nat
      /\ \A i \in 1 .. Len(s) : t[i] = s[i]
      /\ t[Len(s) + 1] = e
  BY AppendProperties, LenProperties
<1> HIDE DEF t
<1>2. Range(t) = {t[i] : i \in 1 .. Len(t)} /\ Range(s) = {s[i] : i \in 1 .. Len(s)}
  BY <1>1, RangeEquality
<1>3. Range(t) \subseteq Range(s) \cup {e}
  BY <1>1, <1>2
<1>4. Range(s) \subseteq Range(t) /\ e \in Range(t)
  BY <1>1, <1>2
<1> QED BY <1>1, <1>3, <1>4 DEF t

(* Ascending lists the numbers of S up to n, in ascending order.           *)
LEMMA AscendingIs ==
    ASSUME NEW S, NEW n \in Nat
    PROVE  /\ Ascending(S, n) \in Seq(Nat)
           /\ Range(Ascending(S, n)) = S \cap (1 .. n)
           /\ Increasing(Ascending(S, n))
<1> DEFINE Good(s, k) == s \in Seq(Nat) /\ Range(s) = S \cap (1 .. k) /\ Increasing(s)
<1>1. PICK f : /\ Ascending(S, n) = f[n] /\ f[0] = <<>>
               /\ \A k \in 1 .. n : f[k] = IF k \in S THEN Append(f[k - 1], k) ELSE f[k - 1]
  BY AscendingSteps
<1> DEFINE T == {k \in Nat : k <= n => Good(f[k], k)}
<1>2. 0 \in T
  <2>1. f[0] \in Seq(Nat) /\ Range(f[0]) = {} /\ DOMAIN f[0] = {} /\ 1 .. 0 = {}
    BY <1>1 DEF Range
  <2>2. Good(f[0], 0)
    BY <2>1 DEF Increasing
  <2> HIDE DEF Good
  <2> QED BY <2>2
<1>3. ASSUME NEW k \in Nat, k \in T PROVE k + 1 \in T
  <2> SUFFICES ASSUME k + 1 <= n PROVE Good(f[k + 1], k + 1)
    OBVIOUS
  <2>1. Good(f[k], k)
    BY <1>3
  <2>2. f[k + 1] = IF k + 1 \in S THEN Append(f[k], k + 1) ELSE f[k]
    <3>1. k + 1 \in 1 .. n /\ (k + 1) - 1 = k
      OBVIOUS
    <3> QED BY <1>1, <3>1
  <2>3. 1 .. k + 1 = (1 .. k) \cup {k + 1}
    OBVIOUS
  <2>4. CASE k + 1 \notin S
    BY <2>1, <2>2, <2>3, <2>4
  <2>5. CASE k + 1 \in S
    <3> DEFINE s == f[k]
               t == Append(s, k + 1)
    <3>1. k + 1 \in Nat /\ s \in Seq(Nat)
      BY <2>1
    <3>2. /\ t \in Seq(Nat) /\ Len(t) = Len(s) + 1 /\ Range(t) = Range(s) \cup {k + 1}
          /\ \A i \in 1 .. Len(s) : t[i] = s[i]
          /\ t[Len(s) + 1] = k + 1
      BY <3>1, AppendRange
    <3>3. Len(s) \in Nat /\ DOMAIN s = 1 .. Len(s) /\ DOMAIN t = 1 .. Len(t)
      BY <3>1, <3>2, LenProperties
    <3>4. \A i \in 1 .. Len(s) : s[i] <= k /\ s[i] \in Nat
      <4>1. \A i \in 1 .. Len(s) : s[i] \in Range(s)
        BY <3>3 DEF Range
      <4> QED BY <2>1, <4>1
    <3> HIDE DEF s, t
    <3>5. Increasing(t)
      <4> SUFFICES ASSUME NEW i \in 1 .. Len(s) + 1, NEW j \in 1 .. Len(s) + 1, i < j
                   PROVE  t[i] < t[j]
        BY <3>2, <3>3 DEF Increasing
      <4>1. i \in 1 .. Len(s) /\ (j \in 1 .. Len(s) \/ j = Len(s) + 1)
        BY <3>3
      <4>2. t[i] = s[i] /\ s[i] <= k /\ s[i] \in Nat
        BY <3>2, <3>4, <4>1
      <4>3. CASE j \in 1 .. Len(s)
        <5>1. s[i] < s[j]
          BY <2>1, <3>3, <4>1, <4>3 DEF Increasing, s
        <5> QED BY <3>2, <4>2, <4>3, <5>1
      <4>4. CASE j = Len(s) + 1
        BY <3>2, <4>2, <4>4
      <4> QED BY <4>1, <4>3, <4>4
    <3> QED BY <2>1, <2>2, <2>3, <2>5, <3>2, <3>5 DEF s, t
  <2> QED BY <2>4, <2>5
<1> HIDE DEF T
<1>4. n \in T
  BY <1>2, <1>3, SetInduction
<1> QED BY <1>1, <1>4 DEF T

-----------------------------------------------------------------------------
(* Reading a formula.                                                      *)

(* The variable of a literal.                                              *)
LEMMA VarOf ==
    ASSUME NEW l \in Nat
    PROVE  Var(l) \in Nat /\ 2 * Var(l) <= l /\ l <= 2 * Var(l) + 1
BY DEF Var

(* What Max chooses.                                                       *)
LEMMA MaxIs ==
    ASSUME NEW T, T \subseteq Nat, NEW m \in T, \A y \in T : y <= m
    PROVE  Max(T) \in T /\ \A y \in T : y <= Max(T)
<1>1. \E x \in T : \A y \in T : x >= y
  OBVIOUS
<1>2. Max(T) \in T /\ \A y \in T : Max(T) >= y
  BY <1>1 DEF Max
<1> QED BY <1>2

(* A clause is sorted without losing a literal.                            *)
LEMMA SortedIs ==
    ASSUME NEW C, C # {}, IsFiniteSet(C), C \subseteq Nat \ {0, 1}
    PROVE  Sorted(C) \in Seq(Nat) /\ Range(Sorted(C)) = C /\ Increasing(Sorted(C))
<1>1. PICK m \in C : \A y \in C : y <= m
  <2>1. C \subseteq Nat
    OBVIOUS
  <2> QED BY <2>1, FiniteMaximum
<1>2. Max(C) \in C /\ \A y \in C : y <= Max(C)
  BY <1>1, MaxIs
<1>3. Max(C) \in Nat /\ C \cap (1 .. Max(C)) = C
  <2>1. Max(C) \in Nat
    BY <1>2
  <2>2. \A y \in C : y \in Nat /\ y # 0 /\ y <= Max(C)
    BY <1>2
  <2>3. \A y \in C : y \in 1 .. Max(C)
    BY <2>1, <2>2
  <2> QED BY <2>1, <2>3
<1> QED BY <1>3, AscendingIs DEF Sorted

(* Every clause that is kept is a clause of the input, sorted.             *)
LEMMA ReadIs ==
    ASSUME NEW F \in Inputs
    PROVE  /\ ReadClauses(F) \in Seq(Seq(Nat))
           /\ \A c \in DOMAIN ReadClauses(F) :
                \E i \in DOMAIN F : ReadClauses(F)[c] = Sorted(F[i]) /\ ~Tautology(F[i])
<1> DEFINE K == {i \in DOMAIN F : ~Tautology(F[i])}
           kept == Ascending(K, Len(F))
<1>1. /\ F \in Seq({F[i] : i \in DOMAIN F})
      /\ \A i \in DOMAIN F : F[i] # {} /\ IsFiniteSet(F[i]) /\ F[i] \subseteq Nat \ {0, 1}
  BY InputsAssumption
<1>2. Len(F) \in Nat /\ DOMAIN F = 1 .. Len(F)
  BY <1>1, LenProperties
<1>3. kept \in Seq(Nat) /\ Range(kept) = K
  <2>1. K \cap (1 .. Len(F)) = K
    BY <1>2
  <2> HIDE DEF K
  <2> QED BY <1>2, <2>1, AscendingIs
<1>4. ReadClauses(F) = [c \in DOMAIN kept |-> Sorted(F[kept[c]])]
  BY DEF ReadClauses
<1> HIDE DEF kept
<1>5. DOMAIN kept = 1 .. Len(kept) /\ Len(kept) \in Nat
  BY <1>3, LenProperties
<1>6. \A c \in DOMAIN kept : kept[c] \in K
  BY <1>3 DEF Range
<1>7. \A c \in DOMAIN kept : Sorted(F[kept[c]]) \in Seq(Nat)
  BY <1>1, <1>6, SortedIs
<1>8. ReadClauses(F) \in Seq(Seq(Nat))
  <2>1. ReadClauses(F) \in [1 .. Len(kept) -> Seq(Nat)]
    BY <1>4, <1>5, <1>7
  <2> QED BY <1>5, <2>1, SeqDef
<1> QED BY <1>4, <1>6, <1>8

(* The number of variables covers all literals.                            *)
LEMMA NVarsIs ==
    ASSUME NEW G \in Seq(Seq(Nat)), \A c \in DOMAIN G : Increasing(G[c]) /\ Range(G[c]) # {}
    PROVE  /\ NVars(G) \in Nat
           /\ \A c \in DOMAIN G : \A l \in Range(G[c]) : l <= 2 * NVars(G) + 1
<1> DEFINE last == [c \in 1 .. Len(G) |-> Var(Last(G[c]))]
           T == {0} \cup {Var(Last(G[i])) : i \in DOMAIN G}
<1>1. Len(G) \in Nat /\ DOMAIN G = 1 .. Len(G) /\ \A c \in DOMAIN G : G[c] \in Seq(Nat)
  BY LenProperties, ElementOfSeq
<1>2. ASSUME NEW c \in DOMAIN G
      PROVE  /\ Last(G[c]) \in Nat /\ Var(Last(G[c])) \in Nat
             /\ \A l \in Range(G[c]) : l <= 2 * Var(Last(G[c])) + 1
  <2> DEFINE s == G[c]
             n == Len(s)
  <2>1. n \in Nat /\ DOMAIN s = 1 .. n /\ s \in [1 .. n -> Nat]
    BY <1>1, LenProperties
  <2>2. n # 0 /\ Last(s) = s[n]
    BY <2>1 DEF Range, Last
  <2>3. \A i \in 1 .. n : i = n \/ (i < n /\ n \in 1 .. n)
    <3>1. n \in Nat
      BY <2>1
    <3> HIDE DEF n
    <3> QED BY <3>1
  <2>4. Last(s) \in Nat
    BY <2>1, <2>2
  <2>5. Var(Last(s)) \in Nat /\ Last(s) <= 2 * Var(Last(s)) + 1
    BY <2>4, VarOf
  <2>6. ASSUME NEW l \in Range(s) PROVE l <= Last(s) /\ l \in Nat
    <3>1. PICK i \in 1 .. n : l = s[i]
      BY <2>1 DEF Range
    <3>2. CASE i = n
      BY <2>2, <2>4, <3>1, <3>2
    <3>3. CASE i # n
      <4>1. i < n /\ n \in 1 .. n
        BY <2>3, <3>3
      <4>2. s[i] < s[n] /\ s[i] \in Nat /\ s[n] \in Nat
        BY <2>1, <4>1 DEF Increasing
      <4> QED BY <2>2, <3>1, <4>2
    <3> QED BY <3>2, <3>3
  <2>7. \A l \in Range(s) : l <= 2 * Var(Last(s)) + 1
    BY <2>4, <2>5, <2>6
  <2> QED BY <2>4, <2>5, <2>7
<1>3. PICK b \in Nat : \A c \in 1 .. Len(G) : last[c] <= b
  <2>1. last \in [1 .. Len(G) -> Nat]
    BY <1>1, <1>2
  <2> QED BY <1>1, <2>1, SequenceBounded
<1>4. T \subseteq 0 .. b /\ T # {} /\ T \subseteq Nat
  BY <1>1, <1>2, <1>3
<1>5. PICK m \in T : \A y \in T : y <= m
  <2> HIDE DEF T
  <2> QED BY <1>4, GreatestElement
<1>6. Max(T) \in T /\ \A y \in T : y <= Max(T)
  BY <1>4, <1>5, MaxIs
<1>7. NVars(G) = Max(T)
  BY DEF NVars
<1>8. NVars(G) \in Nat
  BY <1>4, <1>6, <1>7
<1>9. ASSUME NEW c \in DOMAIN G, NEW l \in Range(G[c]) PROVE l <= 2 * NVars(G) + 1
  <2>1. Var(Last(G[c])) <= NVars(G)
    BY <1>6, <1>7
  <2>2. l \in Nat
    BY <1>1, RangeOfSeq
  <2> QED BY <1>2, <1>8, <2>1, <2>2
<1> QED BY <1>8, <1>9

(* The formula as it is read.                                              *)
LEMMA FormulaAsRead ==
    ASSUME NEW F \in Inputs, formula = ReadClauses(F)
    PROVE  FormulaRight
<1>1. /\ formula \in Seq(Seq(Nat))
      /\ \A c \in DOMAIN formula :
           \E i \in DOMAIN F : formula[c] = Sorted(F[i]) /\ ~Tautology(F[i])
  BY ReadIs
<1>2. \A i \in DOMAIN F : F[i] # {} /\ IsFiniteSet(F[i]) /\ F[i] \subseteq Nat \ {0, 1}
  BY InputsAssumption
<1>3. ASSUME NEW c \in DOMAIN formula
      PROVE  /\ Range(formula[c]) # {} /\ Range(formula[c]) \subseteq Nat \ {0, 1}
             /\ ~Tautology(Range(formula[c])) /\ Increasing(formula[c])
  <2>1. PICK i \in DOMAIN F : formula[c] = Sorted(F[i]) /\ ~Tautology(F[i])
    BY <1>1
  <2>2. Range(Sorted(F[i])) = F[i] /\ Increasing(Sorted(F[i]))
    BY <1>2, SortedIs
  <2> QED BY <1>2, <2>1, <2>2
<1>4. /\ NVars(formula) \in Nat
      /\ \A c \in DOMAIN formula : \A l \in Range(formula[c]) : l <= 2 * NVars(formula) + 1
  BY <1>1, <1>3, NVarsIs
<1>5. \A c \in DOMAIN formula : Range(formula[c]) \subseteq Used
  <2> SUFFICES ASSUME NEW c \in DOMAIN formula, NEW l \in Range(formula[c]) PROVE l \in Used
    OBVIOUS
  <2>1. l \in Nat \ {0, 1} /\ l <= 2 * NVars(formula) + 1
    BY <1>3, <1>4
  <2> QED BY <1>4, <2>1 DEF Used
<1> QED BY <1>1, <1>3, <1>4, <1>5 DEF FormulaRight, Clauses, Lit, Increasing

-----------------------------------------------------------------------------
(* OccurrenceList::remove.                                                 *)

(* One element is taken out of a sequence.                                 *)
LEMMA RemoveAtIs ==
    ASSUME NEW S, NEW s \in Seq(S), NEW i \in 1 .. Len(s)
    PROVE  /\ RemoveAt(s, i) \in Seq(S) /\ Len(RemoveAt(s, i)) = Len(s) - 1
           /\ \A j \in 1 .. Len(s) - 1 : RemoveAt(s, i)[j] = IF j < i THEN s[j] ELSE s[j + 1]
<1> DEFINE a == SubSeq(s, 1, i - 1)
           b == SubSeq(s, i + 1, Len(s))
<1>1. Len(s) \in Nat /\ i \in Nat /\ 1 <= i /\ i <= Len(s) /\ \A j \in 1 .. Len(s) : s[j] \in S
  BY LenProperties, ElementOfSeq
<1>2. /\ a \in Seq(S) /\ Len(a) = i - 1
      /\ \A j \in 1 .. i - 1 : a[j] = s[j]
  <2>1. /\ 1 \in Int /\ i - 1 \in Int /\ (i - 1) - 1 + 1 = i - 1
        /\ \A j \in 1 .. i - 1 : s[j] \in S /\ 1 + j - 1 = j
    BY <1>1
  <2>2. /\ a \in Seq(S) /\ Len(a) = IF 1 <= i - 1 THEN (i - 1) - 1 + 1 ELSE 0
        /\ \A j \in 1 .. (i - 1) - 1 + 1 : a[j] = s[1 + j - 1]
    BY <2>1, SubSeqProperties
  <2> HIDE DEF a
  <2>3. Len(a) = i - 1
    BY <1>1, <2>2
  <2>4. \A j \in 1 .. i - 1 : a[j] = s[j]
    BY <2>1, <2>2
  <2> QED BY <2>2, <2>3, <2>4
<1>3. /\ b \in Seq(S) /\ Len(b) = Len(s) - i
      /\ \A j \in 1 .. Len(s) - i : b[j] = s[i + j]
  <2>1. /\ i + 1 \in Int /\ Len(s) \in Int /\ Len(s) - (i + 1) + 1 = Len(s) - i
        /\ \A j \in i + 1 .. Len(s) : s[j] \in S
    BY <1>1
  <2>2. /\ b \in Seq(S) /\ Len(b) = IF i + 1 <= Len(s) THEN Len(s) - (i + 1) + 1 ELSE 0
        /\ \A j \in 1 .. Len(s) - (i + 1) + 1 : b[j] = s[i + 1 + j - 1]
    BY <2>1, SubSeqProperties
  <2> HIDE DEF b
  <2>3. Len(b) = Len(s) - i
    BY <1>1, <2>2
  <2>4. \A j \in 1 .. Len(s) - i : b[j] = s[i + j]
    <3>1. \A j \in 1 .. Len(s) - i : i + 1 + j - 1 = i + j
      BY <1>1
    <3> QED BY <2>1, <2>2, <3>1
  <2> QED BY <2>2, <2>3, <2>4
<1> HIDE DEF a, b
<1>4. /\ a \o b \in Seq(S) /\ Len(a \o b) = Len(a) + Len(b)
      /\ \A j \in 1 .. Len(a) + Len(b) : (a \o b)[j] = IF j <= Len(a) THEN a[j] ELSE b[j - Len(a)]
  BY <1>2, <1>3, ConcatProperties
<1>5. Len(a) + Len(b) = Len(s) - 1
  BY <1>1, <1>2, <1>3
<1>6. ASSUME NEW j \in 1 .. Len(s) - 1
      PROVE  (a \o b)[j] = IF j < i THEN s[j] ELSE s[j + 1]
  <2>1. CASE j < i
    <3>1. j <= Len(a) /\ j \in 1 .. i - 1
      BY <1>1, <1>2, <2>1
    <3> QED BY <1>2, <1>4, <1>5, <2>1, <3>1
  <2>2. CASE ~(j < i)
    <3>1. /\ ~(j <= Len(a)) /\ j - Len(a) \in 1 .. Len(s) - i
          /\ i + (j - Len(a)) = j + 1
      BY <1>1, <1>2, <2>2
    <3> QED BY <1>3, <1>4, <1>5, <2>2, <3>1
  <2> QED BY <2>1, <2>2
<1> QED BY <1>4, <1>5, <1>6 DEF RemoveAt, a, b

(* RemoveFirst takes out an element that is there.                         *)
LEMMA RemoveFirstIs ==
    ASSUME NEW S, NEW s \in Seq(S), NEW c \in Range(s)
    PROVE  \E i \in 1 .. Len(s) : s[i] = c /\ RemoveFirst(s, c) = RemoveAt(s, i)
<1> DEFINE I == {i \in 1 .. Len(s) : s[i] = c}
<1>1. Len(s) \in Nat /\ DOMAIN s = 1 .. Len(s)
  BY LenProperties
<1>2. I # {} /\ I \subseteq Nat
  BY <1>1 DEF Range
<1>3. Min(I) \in I
  <2>1. \E x \in I : \A y \in I : x <= y
    <3> HIDE DEF I
    <3> QED BY <1>2, LeastElement
  <2> HIDE DEF I
  <2> QED BY <2>1 DEF Min
<1>4. SelectInSeq(s, LAMBDA v : v = c) = Min(I)
  BY <1>2 DEF SelectInSeq
<1>5. RemoveFirst(s, c) = RemoveAt(s, Min(I))
  <2>1. \E i \in 1 .. Len(s) : s[i] = c
    BY <1>2
  <2> QED BY <1>4, <2>1 DEF RemoveFirst
<1> QED BY <1>3, <1>5

(* A list without a clause is a list.                                      *)
LEMMA WithoutType ==
    ASSUME NEW S, NEW s \in Seq(S), NEW c
    PROVE  Without(s, c) \in Seq(S)
<1>1. CASE s = <<>>
  BY <1>1 DEF Without
<1>2. CASE s # <<>> /\ c \in Range(s)
  <2>1. PICK i \in 1 .. Len(s) : RemoveFirst(s, c) = RemoveAt(s, i)
    BY <1>2, RemoveFirstIs
  <2>2. RemoveAt(s, i) \in Seq(S)
    BY RemoveAtIs
  <2> QED BY <1>2, <2>1, <2>2 DEF Without
<1>3. CASE s # <<>> /\ c \notin Range(s)
  <2>1. Len(s) \in Nat /\ \A j \in 1 .. Len(s) : s[j] \in S
    BY LenProperties, ElementOfSeq
  <2>2. Len(s) - 1 \in Int /\ 1 \in Int /\ \A j \in 1 .. Len(s) - 1 : s[j] \in S
    BY <2>1
  <2>3. SubSeq(s, 1, Len(s) - 1) \in Seq(S)
    BY <2>2, SubSeqProperties
  <2> QED BY <1>3, <2>3 DEF Without, Front
<1> QED BY <1>1, <1>2, <1>3

(* A clause that a list has once is no longer there after its removal.     *)
LEMMA WithoutIs ==
    ASSUME NEW S, NEW s \in Seq(S), IsInjective(s), NEW c \in Range(s)
    PROVE  IsInjective(Without(s, c)) /\ Range(Without(s, c)) = Range(s) \ {c}
<1>1. Len(s) \in Nat /\ DOMAIN s = 1 .. Len(s) /\ s # <<>>
  BY LenProperties DEF Range
<1>2. PICK i \in 1 .. Len(s) : s[i] = c /\ RemoveFirst(s, c) = RemoveAt(s, i)
  BY RemoveFirstIs
<1> DEFINE t == RemoveAt(s, i)
<1>3. Without(s, c) = t
  BY <1>1, <1>2 DEF Without
<1>4. /\ t \in Seq(S) /\ Len(t) = Len(s) - 1
      /\ \A j \in 1 .. Len(s) - 1 : t[j] = IF j < i THEN s[j] ELSE s[j + 1]
  BY RemoveAtIs
<1> HIDE DEF t
<1>5. DOMAIN t = 1 .. Len(s) - 1
  BY <1>4, LenProperties
<1>6. \A j, k \in 1 .. Len(s) : s[j] = s[k] => j = k
  BY <1>1 DEF IsInjective
<1>7. \A j \in 1 .. Len(s) - 1 : \E k \in 1 .. Len(s) :
         t[j] = s[k] /\ k # i /\ k = (IF j < i THEN j ELSE j + 1)
  <2> TAKE j \in 1 .. Len(s) - 1
  <2>1. CASE j < i
    <3>1. j \in 1 .. Len(s) /\ j # i
      BY <1>1, <2>1
    <3> QED BY <1>4, <2>1, <3>1
  <2>2. CASE ~(j < i)
    <3>1. j + 1 \in 1 .. Len(s) /\ j + 1 # i
      BY <1>1, <2>2
    <3> QED BY <1>4, <2>2, <3>1
  <2> QED BY <2>1, <2>2
<1>8. IsInjective(t)
  <2> SUFFICES ASSUME NEW j \in 1 .. Len(s) - 1, NEW k \in 1 .. Len(s) - 1, t[j] = t[k] PROVE j = k
    BY <1>5 DEF IsInjective
  <2>1. PICK p \in 1 .. Len(s) : t[j] = s[p] /\ p = (IF j < i THEN j ELSE j + 1)
    BY <1>7
  <2>2. PICK q \in 1 .. Len(s) : t[k] = s[q] /\ q = (IF k < i THEN k ELSE k + 1)
    BY <1>7
  <2>3. p = q
    BY <1>6, <2>1, <2>2
  <2> QED BY <1>1, <2>1, <2>2, <2>3
<1>9. Range(t) \subseteq Range(s) \ {c}
  <2> SUFFICES ASSUME NEW j \in 1 .. Len(s) - 1 PROVE t[j] \in Range(s) \ {c}
    BY <1>5 DEF Range
  <2>1. PICK k \in 1 .. Len(s) : t[j] = s[k] /\ k # i
    BY <1>7
  <2> QED BY <1>1, <1>2, <1>6, <2>1 DEF Range
<1>10. Range(s) \ {c} \subseteq Range(t)
  <2> SUFFICES ASSUME NEW k \in 1 .. Len(s), s[k] # c PROVE s[k] \in Range(t)
    BY <1>1 DEF Range
  <2>1. k # i
    BY <1>2
  <2>2. CASE k < i
    <3>1. k \in 1 .. Len(s) - 1
      BY <1>1, <2>2
    <3>2. t[k] = s[k]
      BY <1>4, <2>2, <3>1
    <3> QED BY <1>5, <3>1, <3>2 DEF Range
  <2>3. CASE k > i
    <3>1. k - 1 \in 1 .. Len(s) - 1 /\ ~(k - 1 < i) /\ (k - 1) + 1 = k
      BY <1>1, <2>3
    <3>2. t[k - 1] = s[k]
      BY <1>4, <3>1
    <3> QED BY <1>5, <3>1, <3>2 DEF Range
  <2> QED BY <1>1, <2>1, <2>2, <2>3
<1> QED BY <1>3, <1>8, <1>9, <1>10

(* Removing one clause from the lists of its literals.                     *)
LEMMA RemoveOneIs ==
    ASSUME NEW ix, NEW R, NEW K, IndexHolds(ix, R, K), NEW c \in R
    PROVE  IndexHolds(RemoveOne(ix, c), R \ {c}, K)
<1> DEFINE new == RemoveOne(ix, c)
<1>1. /\ ix \in [Lits -> Seq(Clauses)]
      /\ \A l \in Lits : /\ IsInjective(ix[l])
                         /\ Range(ix[l]) = IF l \in K THEN {d \in R : l \in Lit(d)} ELSE {}
  BY DEF IndexHolds
<1>2. new = [l \in Lits |-> IF l \in Lit(c) THEN Without(ix[l], c) ELSE ix[l]]
  BY <1>1 DEF RemoveOne
<1> HIDE DEF new
<1>3. ASSUME NEW l \in Lits
      PROVE  /\ new[l] \in Seq(Clauses) /\ IsInjective(new[l])
             /\ Range(new[l]) = IF l \in K THEN {d \in R \ {c} : l \in Lit(d)} ELSE {}
  <2> DEFINE s == ix[l]
  <2>1. /\ s \in Seq(Clauses) /\ IsInjective(s)
        /\ Range(s) = IF l \in K THEN {d \in R : l \in Lit(d)} ELSE {}
    BY <1>1
  <2>2. CASE l \notin Lit(c)
    <3>1. new[l] = s
      BY <1>2, <2>2
    <3>2. {d \in R : l \in Lit(d)} = {d \in R \ {c} : l \in Lit(d)}
      BY <2>2
    <3> QED BY <2>1, <3>1, <3>2
  <2>3. CASE l \in Lit(c) /\ l \in K
    <3>1. new[l] = Without(s, c) /\ c \in Range(s)
      BY <1>2, <2>1, <2>3
    <3>2. IsInjective(Without(s, c)) /\ Range(Without(s, c)) = Range(s) \ {c}
      BY <2>1, <3>1, WithoutIs
    <3>3. Without(s, c) \in Seq(Clauses)
      BY <2>1, WithoutType
    <3> QED BY <2>1, <2>3, <3>1, <3>2, <3>3
  <2>4. CASE l \in Lit(c) /\ l \notin K
    <3>1. new[l] = Without(s, c) /\ Range(s) = {}
      BY <1>2, <2>1, <2>4
    <3>2. s = <<>>
      <4>1. Len(s) \in Nat /\ DOMAIN s = 1 .. Len(s)
        BY <2>1, LenProperties
      <4>2. ~ (1 \in DOMAIN s)
        BY <3>1 DEF Range
      <4>3. Len(s) = 0
        BY <4>1, <4>2
      <4> QED BY <2>1, <4>3, EmptySeq
    <3>3. Without(s, c) = s
      BY <3>2 DEF Without
    <3> QED BY <2>1, <2>4, <3>1, <3>3
  <2> QED BY <2>2, <2>3, <2>4
<1>4. new \in [Lits -> Seq(Clauses)]
  BY <1>2, <1>3
<1> QED BY <1>3, <1>4 DEF IndexHolds, new

(* What the function that defines RemoveAll is at each number.             *)
LEMMA RemoveSteps ==
    ASSUME NEW ix \in [Lits -> Seq(Clauses)], NEW cs \in Seq(Clauses)
    PROVE  \E f : /\ RemoveAll(ix, cs) = f[Len(cs)] /\ f[0] = ix
                  /\ \A k \in 1 .. Len(cs) : f[k] = RemoveOne(f[k - 1], cs[k])
<1> DEFINE n == Len(cs)
           Q == [Lits -> Seq(Clauses)]
           after[k \in 0 .. n] == IF k = 0 THEN ix ELSE RemoveOne(after[k - 1], cs[k])
           F == [x \in (1 .. n) \X Q |-> RemoveOne(x[2], cs[x[1]])]
<1>1. RemoveAll(ix, cs) = after[n]
  BY DEF RemoveAll
<1>2. n \in Nat
  BY LenProperties
<1>3. ASSUME NEW jx \in Q, NEW c PROVE RemoveOne(jx, c) \in Q
  <2>1. \A l \in Lits : jx[l] \in Seq(Clauses)
    OBVIOUS
  <2>2. \A l \in Lits : Without(jx[l], c) \in Seq(Clauses)
    BY <2>1, WithoutType
  <2> QED BY <2>1, <2>2 DEF RemoveOne
<1>4. F \in [(1 .. n) \X Q -> Q]
  <2>1. \A x \in (1 .. n) \X Q : x[2] \in Q
    OBVIOUS
  <2> HIDE DEF Q
  <2> QED BY <1>3, <2>1
<1>5. \E f : RecursiveUpto(f, Q, ix, n, F)
  <2>1. ix \in Q
    OBVIOUS
  <2> HIDE DEF Q, F, n, after
  <2> QED BY <1>2, <1>4, <2>1, BoundedRecursion
<1> PICK f : RecursiveUpto(f, Q, ix, n, F)
  BY <1>5
<1> HIDE DEF n
<1>6. f \in [0 .. n -> Q] /\ f[0] = ix /\ \A k \in 1 .. n : f[k] = F[<<k, f[k - 1]>>]
  BY DEF RecursiveUpto
<1>7. \A k \in 1 .. n : F[<<k, f[k - 1]>>] = RemoveOne(f[k - 1], cs[k])
  <2>1. \A k \in 1 .. n : k - 1 \in 0 .. n
    BY <1>2
  <2>2. \A k \in 1 .. n : f[k - 1] \in Q
    BY <1>6, <2>1
  <2> HIDE DEF Q
  <2> QED BY <2>2
<1>8. f = [k \in 0 .. n |-> IF k = 0 THEN ix ELSE RemoveOne(f[k - 1], cs[k])]
  <2>1. \A k \in 0 .. n : f[k] = IF k = 0 THEN ix ELSE RemoveOne(f[k - 1], cs[k])
    <3>1. \A k \in 0 .. n : k = 0 \/ (k # 0 /\ k \in 1 .. n)
      BY <1>2
    <3> HIDE DEF F, Q
    <3> QED BY <1>6, <1>7, <3>1
  <2> HIDE DEF F, Q
  <2> QED BY <1>6, <2>1
<1>9. after = [k \in 0 .. n |-> IF k = 0 THEN ix ELSE RemoveOne(after[k - 1], cs[k])]
  BY <1>8
<1> HIDE DEF after
<1>10. after[0] = ix /\ \A k \in 1 .. n : after[k] = RemoveOne(after[k - 1], cs[k])
  <2>1. 0 \in 0 .. n /\ \A k \in 1 .. n : k \in 0 .. n /\ k # 0
    BY <1>2
  <2> QED BY <1>9, <2>1
<1> QED BY <1>1, <1>10 DEF n

(* remove takes its clauses, each there once, out of all lists.            *)
LEMMA RemoveAllIs ==
    ASSUME NEW ix, NEW R, NEW K, IndexHolds(ix, R, K),
           NEW cs \in Seq(Clauses), IsInjective(cs), Range(cs) \subseteq R
    PROVE  IndexHolds(RemoveAll(ix, cs), R \ Range(cs), K)
<1> DEFINE gone(k) == {cs[i] : i \in 1 .. k}
<1>1. Len(cs) \in Nat /\ DOMAIN cs = 1 .. Len(cs)
  BY LenProperties
<1>2. PICK f : /\ RemoveAll(ix, cs) = f[Len(cs)] /\ f[0] = ix
               /\ \A k \in 1 .. Len(cs) : f[k] = RemoveOne(f[k - 1], cs[k])
  <2>1. ix \in [Lits -> Seq(Clauses)]
    BY DEF IndexHolds
  <2> QED BY <2>1, RemoveSteps
<1> DEFINE T == {k \in Nat : k <= Len(cs) => IndexHolds(f[k], R \ gone(k), K)}
<1>3. 0 \in T
  <2>1. R \ gone(0) = R
    OBVIOUS
  <2> HIDE DEF gone
  <2> QED BY <1>2, <2>1
<1>4. ASSUME NEW k \in Nat, k \in T PROVE k + 1 \in T
  <2> SUFFICES ASSUME k + 1 <= Len(cs) PROVE IndexHolds(f[k + 1], R \ gone(k + 1), K)
    OBVIOUS
  <2>1. IndexHolds(f[k], R \ gone(k), K)
    <3> HIDE DEF gone
    <3> QED BY <1>1, <1>4
  <2>2. k + 1 \in 1 .. Len(cs) /\ (k + 1) - 1 = k
    BY <1>1
  <2>3. f[k + 1] = RemoveOne(f[k], cs[k + 1])
    BY <1>2, <2>2
  <2>4. cs[k + 1] \in R \ gone(k)
    <3>1. cs[k + 1] \in R
      BY <1>1, <2>2 DEF Range
    <3>2. \A i \in 1 .. k : i \in 1 .. Len(cs) /\ i # k + 1
      BY <1>1
    <3>3. \A i \in 1 .. k : cs[i] # cs[k + 1]
      BY <1>1, <2>2, <3>2 DEF IsInjective
    <3> QED BY <3>1, <3>3
  <2>5. (R \ gone(k)) \ {cs[k + 1]} = R \ gone(k + 1)
    <3>1. 1 .. k + 1 = (1 .. k) \cup {k + 1}
      OBVIOUS
    <3>2. gone(k + 1) = gone(k) \cup {cs[k + 1]}
      BY <3>1
    <3> HIDE DEF gone
    <3> QED BY <3>2
  <2> HIDE DEF gone
  <2> QED BY <2>1, <2>3, <2>4, <2>5, RemoveOneIs
<1> HIDE DEF T
<1>5. Len(cs) \in T
  BY <1>1, <1>3, <1>4, SetInduction
<1>6. gone(Len(cs)) = Range(cs)
  BY <1>1 DEF Range
<1> HIDE DEF gone
<1> QED BY <1>1, <1>2, <1>5, <1>6 DEF T

(* What all lists have together.                                           *)
LEMMA RemainderIs ==
    ASSUME NEW ix, NEW R, IndexHolds(ix, R, Lits), FormulaRight, R \subseteq Clauses
    PROVE  UNION {Range(ix[l]) : l \in Lits} = R
<1>1. \A l \in Lits : Range(ix[l]) = {d \in R : l \in Lit(d)}
  BY DEF IndexHolds
<1>2. ASSUME NEW c \in R PROVE \E l \in Lits : l \in Lit(c)
  <2>1. PICK l : l \in Lit(c) /\ l \in Used
    BY DEF FormulaRight
  <2>2. l \in Lits
    BY <2>1 DEF Used, Lits, FormulaRight
  <2> QED BY <2>1, <2>2
<1> QED BY <1>1, <1>2

-----------------------------------------------------------------------------
(* The candidates and the inputs of a gate are literals of the formula.    *)

(* What holds of the first value and passes on to the next holds of all.   *)
LEMMA StaysWithin ==
    ASSUME NEW Q, NEW n \in Nat, NEW f, f[0] \in Q, \A k \in 1 .. n : f[k - 1] \in Q => f[k] \in Q
    PROVE  \A k \in 0 .. n : f[k] \in Q
<1> DEFINE T == {k \in Nat : k <= n => f[k] \in Q}
<1>1. 0 \in T
  OBVIOUS
<1>2. ASSUME NEW k \in Nat, k \in T PROVE k + 1 \in T
  <2> SUFFICES ASSUME k + 1 <= n PROVE f[k + 1] \in Q
    OBVIOUS
  <2>1. f[k] \in Q
    BY <1>2
  <2>2. k + 1 \in 1 .. n /\ (k + 1) - 1 = k
    OBVIOUS
  <2> QED BY <2>1, <2>2
<1>3. \A k \in Nat : k \in T
  <2> HIDE DEF T
  <2> QED BY <1>1, <1>2, SetInduction
<1> QED BY <1>3

(* A clause has the literals of variables only.                            *)
LEMMA ClauseUsed ==
    ASSUME FormulaRight, NEW c \in Clauses
    PROVE  formula[c] \in Seq(Used)
<1>1. formula[c] \in Seq(Nat) /\ Range(formula[c]) \subseteq Used
  <2>1. DOMAIN formula = 1 .. Len(formula)
    BY LenProperties DEF FormulaRight
  <2>2. formula[c] \in Seq(Nat)
    BY <2>1, ElementOfSeq DEF FormulaRight, Clauses
  <2> QED BY <2>2 DEF FormulaRight, Lit
<1> QED BY <1>1, SeqOfRange, SeqMonotonic

(* The candidates of the first round.                                      *)
LEMMA JoinedUsed ==
    ASSUME NEW cs \in Seq(Clauses), NEW U, \A c \in Range(cs) : formula[c] \in Seq(U)
    PROVE  Joined(cs) \in Seq(U)
<1> DEFINE n == Len(cs)
           Q == Seq(U)
           upto[k \in 0 .. n] == IF k = 0 THEN <<>> ELSE upto[k - 1] \o formula[cs[k]]
           F == [x \in (1 .. n) \X Q |-> x[2] \o formula[cs[x[1]]]]
<1>1. Joined(cs) = upto[n]
  BY DEF Joined
<1>2. n \in Nat /\ <<>> \in Q /\ \A k \in 1 .. n : formula[cs[k]] \in Q
  <2>1. n \in Nat /\ DOMAIN cs = 1 .. n
    BY LenProperties
  <2>2. \A k \in 1 .. n : cs[k] \in Range(cs)
    BY <2>1 DEF Range
  <2> QED BY <2>1, <2>2
<1>3. F \in [(1 .. n) \X Q -> Q]
  <2>1. \A x \in (1 .. n) \X Q : x[2] \in Q /\ formula[cs[x[1]]] \in Q
    BY <1>2
  <2>2. \A x \in (1 .. n) \X Q : x[2] \o formula[cs[x[1]]] \in Q
    BY <2>1, ConcatProperties
  <2> HIDE DEF Q
  <2> QED BY <2>2
<1>4. \E f : RecursiveUpto(f, Q, <<>>, n, F)
  <2> HIDE DEF Q, F, n, upto
  <2> QED BY <1>2, <1>3, BoundedRecursion
<1> PICK f : RecursiveUpto(f, Q, <<>>, n, F)
  BY <1>4
<1> HIDE DEF n
<1>5. f \in [0 .. n -> Q] /\ f[0] = <<>> /\ \A k \in 1 .. n : f[k] = F[<<k, f[k - 1]>>]
  BY DEF RecursiveUpto
<1>6. \A k \in 1 .. n : F[<<k, f[k - 1]>>] = f[k - 1] \o formula[cs[k]]
  <2>1. \A k \in 1 .. n : k - 1 \in 0 .. n
    BY <1>2
  <2>2. \A k \in 1 .. n : f[k - 1] \in Q
    BY <1>5, <2>1
  <2> HIDE DEF Q
  <2> QED BY <2>2
<1>7. f = [k \in 0 .. n |-> IF k = 0 THEN <<>> ELSE f[k - 1] \o formula[cs[k]]]
  <2>1. \A k \in 0 .. n : f[k] = IF k = 0 THEN <<>> ELSE f[k - 1] \o formula[cs[k]]
    <3>1. \A k \in 0 .. n : k = 0 \/ (k # 0 /\ k \in 1 .. n)
      BY <1>2
    <3> HIDE DEF F, Q
    <3> QED BY <1>5, <1>6, <3>1
  <2> HIDE DEF F, Q
  <2> QED BY <1>5, <2>1
<1>8. upto = [k \in 0 .. n |-> IF k = 0 THEN <<>> ELSE upto[k - 1] \o formula[cs[k]]]
  BY <1>7
<1> HIDE DEF upto
<1>9. upto[0] = <<>> /\ \A k \in 1 .. n : upto[k] = upto[k - 1] \o formula[cs[k]]
  <2>1. 0 \in 0 .. n /\ \A k \in 1 .. n : k \in 0 .. n /\ k # 0
    BY <1>2
  <2> QED BY <1>8, <2>1
<1>10. \A k \in 1 .. n : upto[k - 1] \in Q => upto[k] \in Q
  BY <1>2, <1>9, ConcatProperties
<1>11. upto[n] \in Q
  <2>1. upto[0] \in Q /\ n \in 0 .. n
    BY <1>2, <1>9
  <2> HIDE DEF Q
  <2> QED BY <1>2, <1>10, <2>1, StaysWithin
<1> QED BY <1>1, <1>11

(* A list of numbers in ascending order has each of them once.             *)
LEMMA AscendingOnce ==
    ASSUME NEW s \in Seq(Nat), Increasing(s)
    PROVE  IsInjective(s)
<1>1. \A i \in DOMAIN s : i \in Nat /\ s[i] \in Nat
  BY LenProperties
<1>2. \A i, j \in DOMAIN s : i # j => i < j \/ j < i
  BY <1>1
<1> QED BY <1>1, <1>2 DEF IsInjective, Increasing

(* A clause without duplicate and complementary literals.                  *)
LEMMA ClauseIs ==
    ASSUME FormulaRight, NEW c \in Clauses
    PROVE  /\ Lit(c) \subseteq Used /\ \A l \in Lit(c) : Neg(l) \notin Lit(c)
           /\ formula[c] \in Seq(Used) /\ IsInjective(formula[c]) /\ Lit(c) = Range(formula[c])
<1>1. Lit(c) \subseteq Used /\ ~Tautology(Lit(c)) /\ Increasing(formula[c])
  BY DEF FormulaRight, Increasing
<1>2. formula[c] \in Seq(Used)
  BY ClauseUsed
<1>3. formula[c] \in Seq(Nat)
  <2>1. Used \subseteq Nat
    BY DEF Used, FormulaRight
  <2> QED BY <1>2, <2>1, SeqMonotonic
<1>4. IsInjective(formula[c])
  BY <1>1, <1>3, AscendingOnce
<1> QED BY <1>1, <1>2, <1>4 DEF Tautology, Lit

\* The states of the merge in getInputLiterals.
Merges(U) == [inp : Seq(U), pos : Nat \ {0}, done : BOOLEAN]

(* Inserting one literal of a clause that has the output: never the output *)
(* itself.                                                                 *)
LEMMA InsertInputUsed ==
    ASSUME NEW U, NEW st \in Merges(U), NEW S, NEW clause \in Seq(S), IsInjective(clause),
           NEW output \in Range(clause), Range(clause) \ {output} \subseteq U,
           NEW k \in 1 .. Len(clause)
    PROVE  InsertInput(st, clause, output, k) \in Merges(U)
<1> DEFINE n == Len(clause)
           l == clause[k]
           at == CHOOSE p \in DOMAIN clause : clause[p] = output
           skipped == IF k < at THEN at ELSE k
           larger == {p \in st.pos .. Len(st.inp) : st.inp[p] >= l}
           rest == [inp |-> st.inp \o SubSeq(clause, k, skipped - 1) \o SubSeq(clause, skipped + 1, n),
                    pos |-> st.pos, done |-> TRUE]
           put == [inp |-> IF st.inp[Min(larger)] > l THEN InsertAt(st.inp, Min(larger), l) ELSE st.inp,
                   pos |-> Min(larger) + 1, done |-> FALSE]
<1>1. n \in Nat /\ DOMAIN clause = 1 .. n
  BY LenProperties
<1>2. st.inp \in Seq(U) /\ st.pos \in Nat \ {0} /\ st.done \in BOOLEAN
  BY DEF Merges
<1>3. at \in 1 .. n /\ \A i \in 1 .. n : i # at => clause[i] \in U
  <2>1. \E p \in DOMAIN clause : clause[p] = output
    BY DEF Range
  <2>2. at \in DOMAIN clause /\ clause[at] = output
    BY <2>1
  <2> HIDE DEF at
  <2>3. \A i \in 1 .. n : i # at => clause[i] \in Range(clause) \ {output}
    BY <1>1, <2>2 DEF Range, IsInjective
  <2> QED BY <1>1, <2>2, <2>3
<1>4. InsertInput(st, clause, output, k) = IF st.done \/ k = at THEN st ELSE IF larger = {} THEN rest ELSE put
  BY DEF InsertInput
<1>5. rest \in Merges(U)
  <2> HIDE DEF at
  <2>1. /\ skipped \in 1 .. n /\ k \in 1 .. n
        /\ \A i \in k .. skipped - 1 : i # at
        /\ \A i \in skipped + 1 .. n : i # at
    BY <1>1, <1>3
  <2> HIDE DEF skipped
  <2>2. /\ k \in Int /\ skipped - 1 \in Int /\ skipped + 1 \in Int /\ n \in Int
        /\ \A i \in k .. skipped - 1 : clause[i] \in U
        /\ \A i \in skipped + 1 .. n : clause[i] \in U
    BY <1>1, <1>3, <2>1
  <2> HIDE DEF n
  <2>3. SubSeq(clause, k, skipped - 1) \in Seq(U)
    BY <2>2, SubSeqProperties
  <2>4. SubSeq(clause, skipped + 1, n) \in Seq(U)
    BY <2>2, SubSeqProperties
  <2>5. st.inp \o SubSeq(clause, k, skipped - 1) \in Seq(U)
    BY <1>2, <2>3, ConcatProperties
  <2>6. st.inp \o SubSeq(clause, k, skipped - 1) \o SubSeq(clause, skipped + 1, n) \in Seq(U)
    BY <2>4, <2>5, ConcatProperties
  <2> QED BY <1>2, <2>6 DEF Merges
<1>6. ASSUME larger # {}, k # at PROVE put \in Merges(U)
  <2>1. Min(larger) \in larger
    <3>1. larger \subseteq Nat
      BY <1>2
    <3>2. \E x \in larger : \A y \in larger : x <= y
      <4> HIDE DEF larger
      <4> QED BY <1>6, <3>1, LeastElement
    <3> HIDE DEF larger
    <3> QED BY <3>2 DEF Min
  <2> DEFINE p == Min(larger)
  <2>2. p \in Nat \ {0} /\ p \in st.pos .. Len(st.inp)
    BY <1>2, <2>1
  <2> HIDE DEF p
  <2>3. InsertAt(st.inp, p, l) \in Seq(U)
    <3> DEFINE s == st.inp
    <3>1. Len(s) \in Nat /\ \A i \in 1 .. Len(s) : s[i] \in U
      BY <1>2, LenProperties, ElementOfSeq
    <3>2. /\ 1 \in Int /\ p - 1 \in Int /\ p \in Int /\ Len(s) \in Int
          /\ \A i \in 1 .. p - 1 : s[i] \in U
          /\ \A i \in p .. Len(s) : s[i] \in U
      BY <1>2, <2>2, <3>1
    <3>3. SubSeq(s, 1, p - 1) \in Seq(U)
      BY <3>2, SubSeqProperties
    <3>4. SubSeq(s, p, Len(s)) \in Seq(U)
      BY <3>2, SubSeqProperties
    <3>5. <<l>> \in Seq(U)
      BY <1>3, <1>6
    <3>6. SubSeq(s, 1, p - 1) \o <<l>> \in Seq(U)
      BY <3>3, <3>5, ConcatProperties
    <3>7. SubSeq(s, 1, p - 1) \o <<l>> \o SubSeq(s, p, Len(s)) \in Seq(U)
      BY <3>4, <3>6, ConcatProperties
    <3> QED BY <3>7 DEF InsertAt
  <2>4. put = [inp |-> IF st.inp[p] > l THEN InsertAt(st.inp, p, l) ELSE st.inp,
               pos |-> p + 1, done |-> FALSE]
    BY DEF p
  <2>5. p + 1 \in Nat \ {0}
    BY <2>2
  <2> HIDE DEF put, l
  <2> QED BY <1>2, <2>3, <2>4, <2>5 DEF Merges
<1> HIDE DEF at, larger, rest, put
<1> QED BY <1>4, <1>5, <1>6

(* Inserting the literals of a clause that has the output.                 *)
LEMMA InsertInputsUsed ==
    ASSUME NEW U, NEW inp \in Seq(U), NEW S, NEW clause \in Seq(S), IsInjective(clause),
           NEW output \in Range(clause), Range(clause) \ {output} \subseteq U
    PROVE  InsertInputs(inp, output, clause) \in Seq(U)
<1> DEFINE n == Len(clause)
           Q == Merges(U)
           first == [inp |-> inp, pos |-> 1, done |-> FALSE]
           after[k \in 0 .. n] ==
             IF k = 0 THEN first ELSE InsertInput(after[k - 1], clause, output, k)
           F == [x \in (1 .. n) \X Q |-> InsertInput(x[2], clause, output, x[1])]
<1>1. InsertInputs(inp, output, clause) = after[n].inp
  BY DEF InsertInputs
<1>2. n \in Nat /\ first \in Q
  BY LenProperties DEF Merges
<1>3. \A st \in Q, k \in 1 .. n : InsertInput(st, clause, output, k) \in Q
  BY InsertInputUsed
<1>4. F \in [(1 .. n) \X Q -> Q]
  <2>1. \A x \in (1 .. n) \X Q : x[2] \in Q /\ x[1] \in 1 .. n
    OBVIOUS
  <2> HIDE DEF Q, n
  <2> QED BY <1>3, <2>1
<1> HIDE DEF first
<1>5. \E f : RecursiveUpto(f, Q, first, n, F)
  <2> HIDE DEF Q, F, n, after
  <2> QED BY <1>2, <1>4, BoundedRecursion
<1> PICK f : RecursiveUpto(f, Q, first, n, F)
  BY <1>5
<1> HIDE DEF n
<1>6. f \in [0 .. n -> Q] /\ f[0] = first /\ \A k \in 1 .. n : f[k] = F[<<k, f[k - 1]>>]
  BY DEF RecursiveUpto
<1>7. \A k \in 1 .. n : F[<<k, f[k - 1]>>] = InsertInput(f[k - 1], clause, output, k)
  <2>1. \A k \in 1 .. n : k - 1 \in 0 .. n
    BY <1>2
  <2>2. \A k \in 1 .. n : f[k - 1] \in Q
    BY <1>6, <2>1
  <2> HIDE DEF Q
  <2> QED BY <2>2
<1>8. f = [k \in 0 .. n |-> IF k = 0 THEN first ELSE InsertInput(f[k - 1], clause, output, k)]
  <2>1. \A k \in 0 .. n : f[k] = IF k = 0 THEN first ELSE InsertInput(f[k - 1], clause, output, k)
    <3>1. \A k \in 0 .. n : k = 0 \/ (k # 0 /\ k \in 1 .. n)
      BY <1>2
    <3> HIDE DEF F, Q
    <3> QED BY <1>6, <1>7, <3>1
  <2> HIDE DEF F, Q
  <2> QED BY <1>6, <2>1
<1>9. after = [k \in 0 .. n |-> IF k = 0 THEN first ELSE InsertInput(after[k - 1], clause, output, k)]
  BY <1>8
<1> HIDE DEF after
<1>10. after[0] = first /\ \A k \in 1 .. n : after[k] = InsertInput(after[k - 1], clause, output, k)
  <2>1. 0 \in 0 .. n /\ \A k \in 1 .. n : k \in 0 .. n /\ k # 0
    BY <1>2
  <2> QED BY <1>9, <2>1
<1>11. \A k \in 1 .. n : after[k - 1] \in Q => after[k] \in Q
  <2> HIDE DEF Q
  <2> QED BY <1>3, <1>10
<1>12. after[n] \in Q
  <2>1. after[0] \in Q /\ n \in 0 .. n
    BY <1>2, <1>10
  <2> HIDE DEF Q
  <2> QED BY <1>2, <1>11, <2>1, StaysWithin
<1> QED BY <1>1, <1>12 DEF Merges

(* The inputs of a gate, of which every clause has the output.             *)
LEMMA InputsUsed ==
    ASSUME FormulaRight, NEW cs \in Seq(Clauses), NEW output, NEW U,
           \A c \in Range(cs) : output \in Lit(c) /\ Lit(c) \ {output} \subseteq U
    PROVE  GetInputLiterals(output, cs) \in Seq(U)
<1> DEFINE n == Len(cs)
           Q == Seq(U)
           after[k \in 0 .. n] ==
             IF k = 0 THEN <<>> ELSE InsertInputs(after[k - 1], output, formula[cs[k]])
           F == [x \in (1 .. n) \X Q |-> InsertInputs(x[2], output, formula[cs[x[1]]])]
<1>1. GetInputLiterals(output, cs) = after[n]
  BY DEF GetInputLiterals
<1>2. n \in Nat /\ <<>> \in Q
  BY LenProperties
<1>3. \A inp \in Q, k \in 1 .. n : InsertInputs(inp, output, formula[cs[k]]) \in Q
  <2> TAKE inp \in Q, k \in 1 .. n
  <2>1. cs[k] \in Clauses /\ cs[k] \in Range(cs)
    BY LenProperties, ElementOfSeq DEF Range
  <2>2. /\ formula[cs[k]] \in Seq(Used) /\ IsInjective(formula[cs[k]])
        /\ output \in Range(formula[cs[k]]) /\ Range(formula[cs[k]]) \ {output} \subseteq U
    BY <2>1, ClauseIs DEF Lit
  <2> HIDE DEF Q
  <2>3. InsertInputs(inp, output, formula[cs[k]]) \in Seq(U)
    BY <2>2, InsertInputsUsed DEF Q
  <2> QED BY <2>3 DEF Q
<1>4. F \in [(1 .. n) \X Q -> Q]
  <2>1. \A x \in (1 .. n) \X Q : x[2] \in Q /\ x[1] \in 1 .. n
    OBVIOUS
  <2> HIDE DEF Q, n
  <2> QED BY <1>3, <2>1
<1>5. \E f : RecursiveUpto(f, Q, <<>>, n, F)
  <2> HIDE DEF Q, F, n, after
  <2> QED BY <1>2, <1>4, BoundedRecursion
<1> PICK f : RecursiveUpto(f, Q, <<>>, n, F)
  BY <1>5
<1> HIDE DEF n
<1>6. f \in [0 .. n -> Q] /\ f[0] = <<>> /\ \A k \in 1 .. n : f[k] = F[<<k, f[k - 1]>>]
  BY DEF RecursiveUpto
<1>7. \A k \in 1 .. n : F[<<k, f[k - 1]>>] = InsertInputs(f[k - 1], output, formula[cs[k]])
  <2>1. \A k \in 1 .. n : k - 1 \in 0 .. n
    BY <1>2
  <2>2. \A k \in 1 .. n : f[k - 1] \in Q
    BY <1>6, <2>1
  <2> HIDE DEF Q
  <2> QED BY <2>2
<1>8. f = [k \in 0 .. n |-> IF k = 0 THEN <<>> ELSE InsertInputs(f[k - 1], output, formula[cs[k]])]
  <2>1. \A k \in 0 .. n : f[k] = IF k = 0 THEN <<>> ELSE InsertInputs(f[k - 1], output, formula[cs[k]])
    <3>1. \A k \in 0 .. n : k = 0 \/ (k # 0 /\ k \in 1 .. n)
      BY <1>2
    <3> HIDE DEF F, Q
    <3> QED BY <1>6, <1>7, <3>1
  <2> HIDE DEF F, Q
  <2> QED BY <1>6, <2>1
<1>9. after = [k \in 0 .. n |-> IF k = 0 THEN <<>> ELSE InsertInputs(after[k - 1], output, formula[cs[k]])]
  BY <1>8
<1> HIDE DEF after
<1>10. after[0] = <<>> /\ \A k \in 1 .. n : after[k] = InsertInputs(after[k - 1], output, formula[cs[k]])
  <2>1. 0 \in 0 .. n /\ \A k \in 1 .. n : k \in 0 .. n /\ k # 0
    BY <1>2
  <2> QED BY <1>9, <2>1
<1>11. \A k \in 1 .. n : after[k - 1] \in Q => after[k] \in Q
  <2> HIDE DEF Q
  <2> QED BY <1>3, <1>10
<1>12. after[n] \in Q
  <2>1. after[0] \in Q /\ n \in 0 .. n
    BY <1>2, <1>10
  <2> HIDE DEF Q
  <2> QED BY <1>2, <1>11, <2>1, StaysWithin
<1> QED BY <1>1, <1>12

(* A literal of a variable and its negation.                               *)
LEMMA LiteralIs ==
    ASSUME NVars(formula) \in Nat, NEW l \in Used
    PROVE  /\ l \in Nat /\ l \in Lits /\ Neg(l) \in Used /\ Neg(l) \in Lits /\ Neg(Neg(l)) = l
           /\ Var(l) \in Vars /\ {2 * Var(l), 2 * Var(l) + 1} = {l, Neg(l)}
<1>1. l \in Nat /\ 2 <= l /\ l <= 2 * NVars(formula) + 1
  BY DEF Used
<1>2. Var(l) \in Nat /\ (l = 2 * Var(l) \/ l = 2 * Var(l) + 1)
  BY <1>1 DEF Var
<1>3. CASE l = 2 * Var(l)
  <2>1. l % 2 = 0 /\ (l + 1) % 2 = 1
    BY <1>2, <1>3
  <2>2. Neg(l) = l + 1 /\ Neg(l + 1) = l
    BY <1>1, <2>1 DEF Neg
  <2> QED BY <1>1, <1>2, <1>3, <2>2 DEF Used, Lits, Vars
<1>4. CASE l = 2 * Var(l) + 1
  <2>1. l % 2 = 1 /\ (l - 1) % 2 = 0
    BY <1>2, <1>4
  <2>2. Neg(l) = l - 1 /\ Neg(l - 1) = l
    BY <1>1, <2>1 DEF Neg
  <2> QED BY <1>1, <1>2, <1>4, <2>2 DEF Used, Lits, Vars
<1> QED BY <1>2, <1>3, <1>4

-----------------------------------------------------------------------------
(* The initial states.                                                     *)

(* A sequence of some of the clauses, in ascending order.                  *)
LEMMA AscendingClauses ==
    ASSUME FormulaRight, NEW S, S \subseteq Clauses
    PROVE  /\ Ascending(S, Len(formula)) \in Seq(Clauses)
           /\ Range(Ascending(S, Len(formula))) = S
           /\ IsInjective(Ascending(S, Len(formula)))
<1> DEFINE s == Ascending(S, Len(formula))
<1>1. Len(formula) \in Nat /\ Clauses = 1 .. Len(formula)
  BY LenProperties DEF FormulaRight, Clauses
<1>2. s \in Seq(Nat) /\ Range(s) = S /\ Increasing(s)
  <2>1. S \cap (1 .. Len(formula)) = S
    BY <1>1
  <2> QED BY <1>1, <2>1, AscendingIs
<1> HIDE DEF s
<1>3. s \in Seq(Clauses)
  BY <1>2, SeqOfRange, SeqMonotonic
<1> QED BY <1>2, <1>3, AscendingOnce DEF s

(* AnalysisInv holds at the start.                                         *)
LEMMA InitInv == Init => AnalysisInv
<1> SUFFICES ASSUME Init PROVE AnalysisInv
  OBVIOUS
<1> DEFINE U == {c \in DOMAIN formula : Len(formula[c]) = 1}
           L == {c \in DOMAIN formula : Len(formula[c]) # 1}
<1>1. FormulaRight
  BY FormulaAsRead DEF Init
<1>2. unitc \in Seq(Clauses) /\ Range(unitc) = U
  <2>1. U \subseteq Clauses /\ unitc = Ascending(U, Len(formula))
    BY DEF Init, Clauses
  <2> HIDE DEF U
  <2> QED BY <1>1, <2>1, AscendingClauses
<1>3. IndexHolds(index, L, Lits)
  <2>1. \A l \in Lits : /\ index[l] \in Seq(Clauses) /\ IsInjective(index[l])
                        /\ Range(index[l]) = {c \in L : l \in Lit(c)}
    <3> TAKE l \in Lits
    <3> DEFINE S == {c \in DOMAIN formula : Len(formula[c]) # 1 /\ l \in Lit(c)}
    <3>1. S \subseteq Clauses /\ S = {c \in L : l \in Lit(c)}
      BY DEF Clauses
    <3>2. index[l] = Ascending(S, Len(formula))
      BY DEF Init
    <3> HIDE DEF S, L
    <3> QED BY <1>1, <3>1, <3>2, AscendingClauses
  <2>2. index = [l \in Lits |-> index[l]]
    BY DEF Init
  <2> HIDE DEF L
  <2>3. index \in [Lits -> Seq(Clauses)]
    BY <2>1, <2>2
  <2> QED BY <2>1, <2>3 DEF IndexHolds
<1>4. Remainder = L
  <2>1. L \subseteq Clauses
    BY DEF Clauses
  <2> HIDE DEF L
  <2> QED BY <1>1, <1>3, <2>1, RemainderIs DEF Remainder
<1>5. GateVars = {} /\ Range(roots) = {} /\ Range(root_clauses) = {}
  BY DEF Init, GateVars, IsDefined, Range
<1>6. AnalysisTypeOK
  <2>1. /\ root_clauses = <<>> /\ roots = <<>> /\ timeout = FALSE
        /\ max_literal = 2 * NVars(formula) + 1 /\ NVars(formula) \in Nat
        /\ candidates = <<>> /\ pool = {} /\ frontier = {} /\ DOMAIN gates = Vars
    BY <1>1 DEF Init, FormulaRight
  <2>2. max_literal \in 0 .. 2 * NVars(formula) + 1
    BY <2>1
  <2> QED BY <1>2, <1>5, <2>1, <2>2, EmptySeq DEF AnalysisTypeOK
<1>7. Apart
  <2>1. Range(unitc) \cap Remainder = {}
    BY <1>2, <1>4
  <2> QED BY <1>5, <2>1 DEF Apart
<1>8. Covered
  <2>1. Clauses = Range(unitc) \cup Remainder
    BY <1>2, <1>4 DEF Clauses
  <2> QED BY <1>5, <2>1 DEF Covered
<1>9. OutputsGone /\ GatesAcyclic
  BY <1>5 DEF OutputsGone, GatesAcyclic
<1>10. root_clauses = <<>>
  BY DEF Init
<1> QED BY <1>1, <1>3, <1>4, <1>6, <1>7, <1>8, <1>9, <1>10 DEF AnalysisInv

-----------------------------------------------------------------------------
(* The actions.                                                            *)

(* The formula stays what it is.                                           *)
LEMMA SameFormula ==
    ASSUME FormulaRight, formula' = formula
    PROVE  /\ FormulaRight' /\ Clauses' = Clauses /\ Vars' = Vars /\ Lits' = Lits /\ Used' = Used
           /\ NVars(formula)' = NVars(formula)
           /\ \A c : Lit(c)' = Lit(c)
BY DEF FormulaRight, Clauses, Vars, Lits, Used, Lit

(* The index and its remainder stay what they are.                         *)
LEMMA SameIndex ==
    ASSUME IndexHolds(index, Remainder, Lits), UNCHANGED <<formula, index>>
    PROVE  IndexHolds(index, Remainder, Lits)' /\ Remainder' = Remainder
BY DEF IndexHolds, Remainder, Lits, Clauses, Lit

(* So do the gates.                                                        *)
LEMMA SameGates ==
    ASSUME FormulaRight, UNCHANGED <<formula, gates>>
    PROVE  /\ GateVars' = GateVars /\ \A v : Defining(v)' = Defining(v)
           /\ GatesAcyclic => GatesAcyclic'
<1>1. /\ Clauses' = Clauses /\ Vars' = Vars /\ \A c : Lit(c)' = Lit(c)
  BY SameFormula
<1>2. GateVars' = GateVars /\ \A v : Defining(v)' = Defining(v)
  BY <1>1 DEF GateVars, IsDefined, Defining
<1>3. ASSUME GatesAcyclic PROVE GatesAcyclic'
  BY <1>1, <1>2, <1>3 DEF GatesAcyclic
<1> QED BY <1>2, <1>3

(* What is said of the types when only the places of clauses change.       *)
LEMMA SameTypes ==
    ASSUME FormulaRight, AnalysisTypeOK, UNCHANGED <<formula, gates>>,
           {root_clauses', roots', unitc'} \subseteq Seq(Clauses), timeout' \in BOOLEAN,
           max_literal' \in 0 .. 2 * NVars(formula) + 1,
           candidates' \in Seq(Used), pool' \subseteq Used, frontier' \subseteq Used
    PROVE  AnalysisTypeOK'
<1>1. /\ Clauses' = Clauses /\ Vars' = Vars /\ Used' = Used /\ NVars(formula)' = NVars(formula)
  BY SameFormula
<1>2. GateVars' = GateVars
  BY SameGates
<1>3. DOMAIN gates' = Vars' /\ timeout' \in BOOLEAN
  BY <1>1 DEF AnalysisTypeOK
<1>4. \A v \in GateVars' : /\ gates'[v].out \in Used' /\ Var(gates'[v].out) = v
                           /\ {gates'[v].fwd, gates'[v].bwd} \subseteq Seq(Clauses')
                           /\ gates'[v].inp \in Seq(Used')
  BY <1>1, <1>2 DEF AnalysisTypeOK
<1> QED BY <1>1, <1>3, <1>4 DEF AnalysisTypeOK, Var

(* Steps that move no clause.                                              *)
LEMMA NothingMoves ==
    ASSUME AnalysisInv,
           UNCHANGED <<formula, index, unitc, max_literal, root_clauses, timeout, roots, gates>>,
           candidates' \in Seq(Used), pool' \subseteq Used, frontier' \subseteq Used,
           pc' \in {"estimate", "recognize"} => root_clauses = <<>>
    PROVE  AnalysisInv'
<1>1. /\ FormulaRight /\ AnalysisTypeOK /\ IndexHolds(index, Remainder, Lits)
      /\ Apart /\ Covered /\ OutputsGone /\ GatesAcyclic
  BY DEF AnalysisInv
<1>2. /\ FormulaRight' /\ Clauses' = Clauses /\ \A c : Lit(c)' = Lit(c)
  BY <1>1, SameFormula
<1>3. IndexHolds(index, Remainder, Lits)' /\ Remainder' = Remainder
  BY <1>1, SameIndex
<1>4. GateVars' = GateVars /\ (\A v : Defining(v)' = Defining(v)) /\ GatesAcyclic'
  BY <1>1, SameGates
<1>5. AnalysisTypeOK'
  BY <1>1, SameTypes DEF AnalysisTypeOK
<1>6. Apart'
  BY <1>1, <1>3, <1>4 DEF Apart
<1>7. Covered'
  BY <1>1, <1>2, <1>3, <1>4 DEF Covered
<1>8. OutputsGone'
  BY <1>1, <1>2, <1>3, <1>4 DEF OutputsGone
<1>9. pc' \in {"estimate", "recognize"} => root_clauses' = <<>>
  OBVIOUS
<1> QED BY <1>2, <1>3, <1>4, <1>5, <1>6, <1>7, <1>8, <1>9 DEF AnalysisInv

(* The root clauses become roots.                                          *)
LEMMA AddRootsInv == AnalysisInv /\ AddRoots => AnalysisInv'
<1> SUFFICES ASSUME AnalysisInv, AddRoots PROVE AnalysisInv'
  OBVIOUS
<1>1. /\ FormulaRight /\ AnalysisTypeOK /\ IndexHolds(index, Remainder, Lits)
      /\ Apart /\ Covered /\ OutputsGone /\ GatesAcyclic
  BY DEF AnalysisInv
<1>2. /\ UNCHANGED <<formula, index, unitc, max_literal, timeout, gates, pool, frontier>>
      /\ roots' = roots \o root_clauses /\ root_clauses' = <<>> /\ candidates' = Joined(root_clauses)
  BY DEF AddRoots, indexVars
<1>3. /\ FormulaRight' /\ Clauses' = Clauses /\ \A c : Lit(c)' = Lit(c)
  BY <1>1, <1>2, SameFormula
<1>4. IndexHolds(index, Remainder, Lits)' /\ Remainder' = Remainder
  BY <1>1, <1>2, SameIndex
<1>5. GateVars' = GateVars /\ (\A v : Defining(v)' = Defining(v)) /\ GatesAcyclic'
  BY <1>1, <1>2, SameGates
<1>6. /\ roots' \in Seq(Clauses) /\ root_clauses' \in Seq(Clauses) /\ Range(root_clauses') = {}
      /\ Range(roots') = Range(roots) \cup Range(root_clauses)
  <2>1. roots \in Seq(Clauses) /\ root_clauses \in Seq(Clauses)
    BY <1>1 DEF AnalysisTypeOK
  <2>2. roots' \in Seq(Clauses) /\ Range(roots') = Range(roots) \cup Range(root_clauses)
    BY <1>2, <2>1, ConcatProperties, RangeConcatenation
  <2>3. root_clauses' \in Seq(Clauses) /\ Range(root_clauses') = {}
    BY <1>2 DEF Range
  <2> QED BY <2>2, <2>3
<1>7. AnalysisTypeOK'
  <2>1. root_clauses \in Seq(Clauses) /\ Range(root_clauses) \subseteq Clauses
    BY <1>1, RangeOfSeq DEF AnalysisTypeOK
  <2>2. \A c \in Range(root_clauses) : formula[c] \in Seq(Used)
    BY <1>1, <2>1, ClauseUsed
  <2>3. candidates' \in Seq(Used)
    BY <1>2, <2>1, <2>2, JoinedUsed
  <2> QED BY <1>1, <1>2, <1>6, <2>3, SameTypes DEF AnalysisTypeOK
<1>8. Apart'
  BY <1>1, <1>2, <1>4, <1>5, <1>6 DEF Apart
<1>9. Covered'
  BY <1>1, <1>2, <1>3, <1>4, <1>5, <1>6 DEF Covered
<1>10. OutputsGone'
  BY <1>1, <1>3, <1>4, <1>5 DEF OutputsGone
<1> QED BY <1>2, <1>3, <1>4, <1>5, <1>7, <1>8, <1>9, <1>10 DEF AnalysisInv

(* The time is over: the root clauses taken last are dropped.              *)
LEMMA TimeOutInv == AnalysisInv /\ TimeOut => AnalysisInv'
<1> SUFFICES ASSUME AnalysisInv, TimeOut PROVE AnalysisInv'
  OBVIOUS
<1>1. /\ FormulaRight /\ AnalysisTypeOK /\ IndexHolds(index, Remainder, Lits)
      /\ Apart /\ Covered /\ OutputsGone /\ GatesAcyclic
  BY DEF AnalysisInv
<1>2. /\ UNCHANGED <<formula, index, unitc, max_literal, roots, gates, candidates, pool, frontier>>
      /\ root_clauses' = <<>> /\ timeout' = TRUE
  BY DEF TimeOut, indexVars, gateVars, searchVars
<1>3. /\ FormulaRight' /\ \A c : Lit(c)' = Lit(c)
  BY <1>1, <1>2, SameFormula
<1>4. IndexHolds(index, Remainder, Lits)' /\ Remainder' = Remainder
  BY <1>1, <1>2, SameIndex
<1>5. GateVars' = GateVars /\ (\A v : Defining(v)' = Defining(v)) /\ GatesAcyclic'
  BY <1>1, <1>2, SameGates
<1>6. root_clauses' \in Seq(Clauses) /\ Range(root_clauses') = {}
  BY <1>2 DEF Range
<1>7. AnalysisTypeOK'
  BY <1>1, <1>2, <1>6, SameTypes DEF AnalysisTypeOK
<1>8. Apart'
  BY <1>1, <1>2, <1>4, <1>5, <1>6 DEF Apart
<1>9. Covered'
  BY <1>2 DEF Covered
<1>10. OutputsGone'
  BY <1>1, <1>3, <1>4, <1>5 DEF OutputsGone
<1> QED BY <1>2, <1>3, <1>4, <1>5, <1>7, <1>8, <1>9, <1>10 DEF AnalysisInv

(* The literal that is chosen for root clauses.                            *)
LEMMA MaxLiteralIs ==
    ASSUME AnalysisTypeOK, NVars(formula) \in Nat
    PROVE  MaxLiteral \in 0 .. 2 * NVars(formula) + 1
<1> DEFINE T == {0} \cup {l \in 1 .. max_literal : index[l] # <<>>}
<1>1. max_literal \in 0 .. 2 * NVars(formula) + 1
  BY DEF AnalysisTypeOK
<1>2. T \subseteq 0 .. 2 * NVars(formula) + 1 /\ T # {} /\ T \subseteq Nat
  BY <1>1
<1>3. 2 * NVars(formula) + 1 \in Nat
  OBVIOUS
<1>4. PICK m \in T : \A y \in T : y <= m
  <2> HIDE DEF T
  <2> QED BY <1>2, <1>3, GreatestElement
<1>5. Max(T) \in T
  <2> HIDE DEF T
  <2> QED BY <1>2, <1>4, MaxIs
<1> QED BY <1>2, <1>5 DEF MaxLiteral

(* New root clauses are taken: all unit clauses, or all clauses of a       *)
(* literal out of the index.                                               *)
LEMMA EstimateRootsInv == AnalysisInv /\ EstimateRoots => AnalysisInv'
<1> SUFFICES ASSUME AnalysisInv, EstimateRoots PROVE AnalysisInv'
  OBVIOUS
<1> DEFINE m == MaxLiteral
<1>1. /\ FormulaRight /\ AnalysisTypeOK /\ IndexHolds(index, Remainder, Lits)
      /\ Apart /\ Covered /\ OutputsGone /\ GatesAcyclic
      /\ root_clauses = <<>> /\ Range(root_clauses) = {}
  BY DEF AnalysisInv, EstimateRoots, Range
<1>2. /\ UNCHANGED <<formula, timeout, roots, gates, candidates, pool, frontier>>
      /\ pc' = "loop"
  BY DEF EstimateRoots, gateVars, searchVars
<1>3. /\ FormulaRight' /\ Clauses' = Clauses /\ Lits' = Lits /\ \A c : Lit(c)' = Lit(c)
  BY <1>1, <1>2, SameFormula
<1>4. GateVars' = GateVars /\ (\A v : Defining(v)' = Defining(v)) /\ GatesAcyclic'
  BY <1>1, <1>2, SameGates
<1>5. CASE unitc # <<>>
  <2>1. root_clauses' = unitc /\ unitc' = <<>> /\ UNCHANGED <<index, max_literal>> /\ Range(unitc') = {}
    BY <1>5 DEF EstimateRoots, Range
  <2>2. IndexHolds(index, Remainder, Lits)' /\ Remainder' = Remainder
    BY <1>1, <1>2, <2>1, SameIndex
  <2>3. AnalysisTypeOK'
    <3>1. unitc' \in Seq(Clauses)
      BY <2>1
    <3> QED BY <1>1, <1>2, <2>1, <3>1, SameTypes DEF AnalysisTypeOK
  <2>4. Apart'
    BY <1>1, <1>2, <1>4, <2>1, <2>2 DEF Apart
  <2>5. Covered'
    BY <1>1, <1>2, <1>3, <1>4, <2>1, <2>2 DEF Covered
  <2>6. OutputsGone'
    BY <1>1, <1>3, <1>4, <2>2 DEF OutputsGone
  <2> QED BY <1>2, <1>3, <1>4, <2>2, <2>3, <2>4, <2>5, <2>6 DEF AnalysisInv
<1>6. CASE unitc = <<>> /\ ~(m > 0)
  <2>1. /\ root_clauses' = <<>> /\ UNCHANGED <<index, unitc>> /\ max_literal' = m
    BY <1>6 DEF EstimateRoots
  <2>2. IndexHolds(index, Remainder, Lits)' /\ Remainder' = Remainder
    BY <1>1, <1>2, <2>1, SameIndex
  <2>3. max_literal' \in 0 .. 2 * NVars(formula) + 1
    BY <1>1, <2>1, MaxLiteralIs DEF FormulaRight
  <2>4. AnalysisTypeOK'
    BY <1>1, <1>2, <2>1, <2>3, SameTypes DEF AnalysisTypeOK
  <2>5. root_clauses' = root_clauses
    BY <1>1, <2>1
  <2>6. Apart'
    BY <1>1, <1>2, <1>4, <2>1, <2>2, <2>5 DEF Apart
  <2>7. Covered'
    BY <1>1, <1>2, <1>3, <1>4, <2>1, <2>2, <2>5 DEF Covered
  <2>8. OutputsGone'
    BY <1>1, <1>3, <1>4, <2>2 DEF OutputsGone
  <2> QED BY <1>2, <1>3, <1>4, <2>2, <2>4, <2>6, <2>7, <2>8 DEF AnalysisInv
<1>7. CASE unitc = <<>> /\ m > 0
  <2> DEFINE cs == index[m]
             cleared == [index EXCEPT ![m] = <<>>]
             new == RemoveAll(cleared, cs)
             R == Remainder
  <2>1. /\ root_clauses' = cs /\ index' = new /\ unitc' = unitc /\ max_literal' = m
    BY <1>7 DEF EstimateRoots
  <2>2. m \in 0 .. 2 * NVars(formula) + 1 /\ m \in Lits
    BY <1>1, MaxLiteralIs DEF FormulaRight, Lits
  <2> HIDE DEF m
  <2>3. /\ cs \in Seq(Clauses) /\ IsInjective(cs) /\ Range(cs) = {c \in R : m \in Lit(c)}
    BY <1>1, <2>2 DEF IndexHolds
  <2>4. IndexHolds(cleared, R, Lits \ {m})
    <3>1. index \in [Lits -> Seq(Clauses)]
      BY <1>1 DEF IndexHolds
    <3>2. cleared \in [Lits -> Seq(Clauses)] /\ cleared[m] = <<>> /\ \A l \in Lits \ {m} : cleared[l] = index[l]
      BY <2>2, <3>1
    <3> HIDE DEF cleared
    <3>3. IsInjective(cleared[m]) /\ Range(cleared[m]) = {}
      BY <3>2 DEF IsInjective, Range
    <3>4. \A l \in Lits \ {m} : IsInjective(cleared[l]) /\ Range(cleared[l]) = {c \in R : l \in Lit(c)}
      BY <1>1, <3>2 DEF IndexHolds
    <3> QED BY <3>2, <3>3, <3>4 DEF IndexHolds
  <2> HIDE DEF cs, cleared
  <2>5. IndexHolds(new, R \ Range(cs), Lits \ {m})
    BY <2>3, <2>4, RemoveAllIs
  <2> HIDE DEF new
  <2>6. IndexHolds(new, R \ Range(cs), Lits)
    <3>1. {c \in R \ Range(cs) : m \in Lit(c)} = {}
      BY <2>3
    <3> QED BY <2>5, <3>1 DEF IndexHolds
  <2>7. Range(cs) \subseteq R /\ R \subseteq Clauses
    <3>1. \A l \in Lits : Range(index[l]) \subseteq Clauses
      BY <1>1, RangeOfSeq DEF IndexHolds
    <3> QED BY <2>3, <3>1 DEF Remainder
  <2>8. UNION {Range(new[l]) : l \in Lits} = R \ Range(cs)
    <3>1. R \ Range(cs) \subseteq Clauses
      BY <2>7
    <3> HIDE DEF R
    <3> QED BY <1>1, <2>6, <3>1, RemainderIs
  <2>9. Remainder' = R \ Range(cs)
    BY <1>3, <2>1, <2>8 DEF Remainder
  <2> HIDE DEF R
  <2>10. IndexHolds(index, Remainder, Lits)'
    <3>1. IndexHolds(index', Remainder', Lits)
      BY <2>1, <2>6, <2>9
    <3> QED BY <1>3, <3>1 DEF IndexHolds
  <2>11. AnalysisTypeOK'
    BY <1>1, <1>2, <2>1, <2>2, <2>3, SameTypes DEF AnalysisTypeOK
  <2>12. Apart'
    <3>1. Range(root_clauses') = Range(cs)
      BY <2>1
    <3> QED BY <1>1, <1>2, <1>4, <2>1, <2>7, <2>9, <3>1 DEF Apart, R
  <2>13. Covered'
    BY <1>1, <1>2, <1>3, <1>4, <2>1, <2>7, <2>9 DEF Covered, R
  <2>14. OutputsGone'
    BY <1>1, <1>3, <1>4, <2>9 DEF OutputsGone, R
  <2> QED BY <1>2, <1>3, <1>4, <2>10, <2>11, <2>12, <2>13, <2>14 DEF AnalysisInv
<1> QED BY <1>5, <1>6, <1>7

(* A gate is only recognised when clauses are left for its output, so that *)
(* its variable is not the output of a gate already.                       *)
LEMMA RecognizedIs ==
    ASSUME NEW out, Verdict(out).type # "NONE"
    PROVE  index[Neg(out)] # <<>>
<1> SUFFICES ASSUME index[Neg(out)] = <<>> PROVE FALSE
  OBVIOUS
<1>1. ~(Len(index[Neg(out)]) > 0)
  OBVIOUS
<1>2. Verdict(out) = [type |-> "NONE", solver |-> solver]
  BY <1>1 DEF Verdict
<1> QED BY <1>2

(* A gate is added: its clauses leave the index, all clauses that are left *)
(* with its variable, so that the gates found later do not constrain it.   *)
LEMMA CheckInv ==
    ASSUME AnalysisInv, NEW out \in Used, Check(out), pc = "recognize",
           candidates' \in Seq(Used), pool' \subseteq Used
    PROVE  AnalysisInv'
<1> DEFINE verdict == Verdict(out)
           fwd == index[Neg(out)]
           bwd == index[out]
           inp == GetInputLiterals(Neg(out), fwd)
           v == Var(out)
           R == Remainder
           D == Range(fwd) \cup Range(bwd)
<1>1. /\ FormulaRight /\ AnalysisTypeOK /\ IndexHolds(index, R, Lits)
      /\ Apart /\ Covered /\ OutputsGone /\ GatesAcyclic /\ root_clauses = <<>>
  BY DEF AnalysisInv
<1>2. UNCHANGED <<formula, unitc, max_literal, root_clauses, timeout, roots, pc>>
  BY DEF Check
<1>3. CASE verdict.type = "NONE"
  <2>1. UNCHANGED <<gates, index, frontier>>
    BY <1>3 DEF Check
  <2>2. frontier' \subseteq Used
    BY <1>1, <2>1 DEF AnalysisTypeOK
  <2> QED BY <1>1, <1>2, <2>1, <2>2, NothingMoves
<1>4. CASE verdict.type # "NONE"
  <2> DEFINE gate(b) == [type |-> verdict.type, out |-> out, fwd |-> fwd, bwd |-> bwd,
                         notMono |-> b, inp |-> inp]
             mid == RemoveAll(index, fwd)
             new == RemoveAll(mid, bwd)
  <2>1. PICK b : gates' = [gates EXCEPT ![v] = gate(b)]
    BY <1>4 DEF Check, AddGate
  <2>2. index' = new /\ frontier' = frontier \cup Range(inp)
    BY <1>4 DEF Check
  <2>3. /\ NVars(formula) \in Nat /\ out \in Lits /\ Neg(out) \in Lits /\ v \in Vars
        /\ {2 * v, 2 * v + 1} = {out, Neg(out)} /\ DOMAIN gates = Vars
    BY <1>1, LiteralIs DEF FormulaRight, AnalysisTypeOK
  <2>4. /\ fwd \in Seq(Clauses) /\ IsInjective(fwd) /\ Range(fwd) = {c \in R : Neg(out) \in Lit(c)}
        /\ bwd \in Seq(Clauses) /\ IsInjective(bwd) /\ Range(bwd) = {c \in R : out \in Lit(c)}
    BY <1>1, <2>3 DEF IndexHolds
  <2>5. fwd # <<>>
    BY <1>4, RecognizedIs
  <2>6. inp \in Seq(Used) /\ Range(inp) \subseteq Used
    <3>1. \A c \in Range(fwd) : Neg(out) \in Lit(c) /\ Lit(c) \subseteq Used
      <4>1. Range(fwd) \subseteq Clauses
        BY <2>4, RangeOfSeq
      <4> QED BY <1>1, <2>4, <4>1 DEF FormulaRight
    <3> HIDE DEF fwd
    <3>2. inp \in Seq(Used)
      BY <1>1, <2>4, <3>1, InputsUsed
    <3> HIDE DEF inp
    <3> QED BY <3>2, RangeOfSeq
  <2>7. R \subseteq Clauses /\ D \subseteq R
    <3>1. \A l \in Lits : Range(index[l]) \subseteq Clauses
      BY <1>1, RangeOfSeq DEF IndexHolds
    <3> QED BY <2>4, <3>1 DEF Remainder
  <2>8. \A c \in R \ D : Lit(c) \cap {out, Neg(out)} = {}
    BY <2>4
  <2>9. Range(fwd) \cap Range(bwd) = {}
    <3> SUFFICES ASSUME NEW c \in R, Neg(out) \in Lit(c), out \in Lit(c) PROVE FALSE
      BY <2>4
    <3>1. ~Tautology(Lit(c))
      BY <1>1, <2>7 DEF FormulaRight
    <3> QED BY <3>1 DEF Tautology
  <2> HIDE DEF verdict, inp
  <2>10. IndexHolds(new, R \ D, Lits)
    <3>1. IndexHolds(mid, R \ Range(fwd), Lits)
      <4>1. Range(fwd) \subseteq R
        BY <2>4
      <4> HIDE DEF fwd, R
      <4> QED BY <1>1, <2>4, <4>1, RemoveAllIs
    <3>2. Range(bwd) \subseteq R \ Range(fwd)
      BY <2>4, <2>9
    <3> HIDE DEF mid, fwd, bwd, R
    <3>3. IndexHolds(new, (R \ Range(fwd)) \ Range(bwd), Lits)
      BY <2>4, <3>1, <3>2, RemoveAllIs
    <3>4. (R \ Range(fwd)) \ Range(bwd) = R \ D
      OBVIOUS
    <3> HIDE DEF new, D
    <3> QED BY <3>3, <3>4
  <2>11. UNION {Range(new[l]) : l \in Lits} = R \ D
    <3>1. R \ D \subseteq Clauses
      BY <2>7
    <3> HIDE DEF new, R, D
    <3> QED BY <1>1, <2>10, <3>1, RemainderIs
  <2> HIDE DEF new, mid
  <2>12. /\ FormulaRight' /\ Clauses' = Clauses /\ Lits' = Lits /\ Vars' = Vars /\ Used' = Used
         /\ NVars(formula)' = NVars(formula) /\ \A c : Lit(c)' = Lit(c)
    BY <1>1, <1>2, SameFormula
  <2>13. Remainder' = R \ D
    BY <2>2, <2>11, <2>12 DEF Remainder
  <2>14. IndexHolds(index, Remainder, Lits)'
    <3>1. IndexHolds(index', Remainder', Lits)
      BY <2>2, <2>10, <2>13
    <3> QED BY <2>12, <3>1 DEF IndexHolds
  <2>15. v \notin GateVars
    <3> SUFFICES ASSUME v \in GateVars PROVE FALSE
      OBVIOUS
    <3>1. \A c \in R : Neg(out) \notin Lit(c)
      BY <1>1, <2>3 DEF OutputsGone
    <3>2. Range(fwd) = {}
      BY <2>4, <3>1
    <3>3. Len(fwd) \in Nat /\ DOMAIN fwd = 1 .. Len(fwd)
      BY <2>4, LenProperties
    <3>4. ~(1 \in DOMAIN fwd)
      BY <3>2 DEF Range
    <3>5. Len(fwd) = 0
      BY <3>3, <3>4
    <3> QED BY <2>4, <2>5, <3>5, EmptySeq
  <2>16. gates'[v] = gate(b) /\ \A w \in Vars \ {v} : gates'[w] = gates[w]
    BY <2>1, <2>3
  <2>17. GateVars' = GateVars \cup {v}
    <3>1. gate(b).type # NoGate.type
      BY <1>4 DEF NoGate, verdict
    <3>2. gate(b) # NoGate
      BY <3>1
    <3> HIDE DEF gate
    <3> QED BY <2>3, <2>12, <2>16, <3>2 DEF GateVars, IsDefined
  <2>18. Defining(v)' = D /\ \A w \in GateVars : Defining(w)' = Defining(w) /\ w # v
    <3>1. \A w \in GateVars : w \in Vars \ {v}
      BY <2>15 DEF GateVars
    <3> QED BY <2>16, <3>1 DEF Defining
  <2>19. AnalysisTypeOK'
    <3>1. /\ {root_clauses', roots', unitc'} \subseteq Seq(Clauses') /\ timeout' \in BOOLEAN
          /\ max_literal' \in 0 .. 2 * NVars(formula)' + 1
          /\ candidates' \in Seq(Used') /\ pool' \subseteq Used' /\ frontier' \subseteq Used'
      BY <1>1, <1>2, <2>2, <2>6, <2>12 DEF AnalysisTypeOK
    <3>2. DOMAIN gates' = Vars'
      BY <2>1, <2>3, <2>12
    <3>3. ASSUME NEW w \in GateVars'
          PROVE  /\ gates'[w].out \in Used' /\ Var(gates'[w].out) = w
                 /\ {gates'[w].fwd, gates'[w].bwd} \subseteq Seq(Clauses')
                 /\ gates'[w].inp \in Seq(Used')
      <4>1. CASE w = v
        BY <2>4, <2>6, <2>12, <2>16, <4>1
      <4>2. CASE w \in GateVars
        <5>1. gates'[w] = gates[w]
          BY <2>15, <2>16, <4>2 DEF GateVars
        <5> QED BY <1>1, <2>12, <4>2, <5>1 DEF AnalysisTypeOK
      <4> QED BY <2>17, <4>1, <4>2
    <3> QED BY <3>1, <3>2, <3>3 DEF AnalysisTypeOK, Var
  <2> HIDE DEF fwd, bwd, v
  <2>20. Apart'
    <3> DEFINE Out == Range(roots) \cup Range(root_clauses) \cup Range(unitc) \cup R
    <3>1. (Range(roots) \cup Range(root_clauses)) \cap (Range(unitc) \cup (R \ D)) = {}
      BY <1>1 DEF Apart
    <3>2. ASSUME NEW w \in GateVars'
          PROVE  /\ Defining(w)' \cap (Range(roots) \cup Range(root_clauses) \cup Range(unitc) \cup (R \ D)) = {}
                 /\ \A u \in GateVars' \ {w} : Defining(w)' \cap Defining(u)' = {}
      <4>1. \A u \in GateVars : Defining(u)' \cap D = {}
        <5>1. \A u \in GateVars : Defining(u) \cap R = {}
          BY <1>1 DEF Apart
        <5> QED BY <2>7, <2>18, <5>1
      <4>2. CASE w = v
        <5>1. D \cap (Range(roots) \cup Range(root_clauses) \cup Range(unitc)) = {}
          BY <1>1, <2>7 DEF Apart
        <5> HIDE DEF D
        <5>2. Defining(w)' = D
          BY <2>18, <4>2
        <5>3. \A u \in GateVars' \ {w} : u \in GateVars
          BY <2>17, <4>2
        <5> QED BY <4>1, <5>1, <5>2, <5>3
      <4>3. CASE w \in GateVars
        <5>1. Defining(w)' = Defining(w)
          BY <2>18, <4>3
        <5>2. Defining(w) \cap (Range(roots) \cup Range(root_clauses) \cup Range(unitc) \cup R) = {}
          BY <1>1, <4>3 DEF Apart
        <5>3. \A u \in GateVars \ {w} : Defining(w) \cap Defining(u) = {}
          BY <1>1, <4>3 DEF Apart
        <5> HIDE DEF D
        <5>4. \A u \in GateVars \ {w} : Defining(w)' \cap Defining(u)' = {}
          BY <2>18, <5>1, <5>3
        <5>5. Defining(w)' \cap Defining(v)' = {}
          BY <2>18, <4>1, <4>3
        <5>6. \A u \in GateVars' \ {w} : Defining(w)' \cap Defining(u)' = {}
          BY <2>17, <5>4, <5>5
        <5> QED BY <5>1, <5>2, <5>6
      <4> QED BY <2>17, <4>2, <4>3
    <3>3. Range(roots) \cap Range(root_clauses) = {} /\ Range(unitc) \cap (R \ D) = {}
      BY <1>1 DEF Apart
    <3> HIDE DEF D, R
    <3> QED BY <1>2, <2>13, <3>1, <3>2, <3>3 DEF Apart
  <2>21. Covered'
    <3>1. CASE timeout
      BY <1>2, <3>1 DEF Covered
    <3>2. CASE ~timeout
      <4> DEFINE Rest == Range(roots) \cup Range(root_clauses) \cup Range(unitc)
                 G == UNION {Defining(w) : w \in GateVars}
                 H == UNION {Defining(w)' : w \in GateVars'}
      <4>1. Clauses = Rest \cup R \cup G
        BY <1>1, <3>2 DEF Covered
      <4>2. H = G \cup D
        <5>1. \A w \in GateVars : Defining(w)' = Defining(w)
          BY <2>18
        <5>2. Defining(v)' = D
          BY <2>18
        <5> HIDE DEF D
        <5>3. H \subseteq G \cup D
          BY <2>17, <5>1, <5>2
        <5>4. G \subseteq H
          BY <2>17, <5>1
        <5>5. D \subseteq H
          BY <2>17, <5>2
        <5> QED BY <5>3, <5>4, <5>5
      <4> HIDE DEF G
      <4>3. Clauses = Rest \cup (R \ D) \cup H
        BY <2>7, <4>1, <4>2
      <4> HIDE DEF R, D
      <4> QED BY <1>2, <2>12, <2>13, <4>3 DEF Covered
    <3> QED BY <3>1, <3>2
  <2>22. OutputsGone'
    <3> SUFFICES ASSUME NEW w \in GateVars', NEW c \in R \ D PROVE Lit(c) \cap {2 * w, 2 * w + 1} = {}
      <4> HIDE DEF R, D
      <4> QED BY <2>12, <2>13 DEF OutputsGone
    <3>1. CASE w = v
      <4> HIDE DEF D
      <4> QED BY <2>3, <2>8, <3>1
    <3>2. CASE w \in GateVars
      BY <1>1, <3>2 DEF OutputsGone
    <3> QED BY <2>17, <3>1, <3>2
  <2>23. GatesAcyclic'
    <3> SUFFICES ASSUME NEW E \in (SUBSET GateVars') \ {{}}
                 PROVE  \E u \in E : \A w \in E \ {u} : \A c \in Defining(w)' : \A l \in Lit(c) : Var(l) # u
      BY <2>12 DEF GatesAcyclic, Var
    <3>1. CASE E \subseteq {v}
      <4>1. v \in E /\ E \ {v} = {}
        BY <3>1
      <4> QED BY <4>1
    <3>2. CASE ~(E \subseteq {v})
      <4>1. E \ {v} \in (SUBSET GateVars) \ {{}}
        BY <2>17, <3>2
      <4>2. PICK u \in E \ {v} :
               \A w \in (E \ {v}) \ {u} : \A c \in Defining(w) : \A l \in Lit(c) : Var(l) # u
        BY <1>1, <4>1 DEF GatesAcyclic
      <4>3. u \in GateVars /\ u \in Nat
        BY <4>1 DEF GateVars, Vars
      <4>4. ASSUME NEW w \in E \ {u}, NEW c \in Defining(w)', NEW l \in Lit(c) PROVE Var(l) # u
        <5>1. CASE w = v
          <6>1. c \in R
            BY <2>7, <2>18, <5>1
          <6>2. l \notin {2 * u, 2 * u + 1} /\ l \in Used
            BY <1>1, <2>7, <4>3, <6>1 DEF OutputsGone, FormulaRight
          <6>3. l \in {2 * Var(l), 2 * Var(l) + 1}
            BY <2>3, <6>2, LiteralIs
          <6> QED BY <6>2, <6>3
        <5>2. CASE w # v
          <6>1. w \in (E \ {v}) \ {u} /\ Defining(w)' = Defining(w)
            BY <2>17, <2>18, <5>2
          <6> QED BY <4>2, <6>1
        <5> QED BY <5>1, <5>2
      <4> QED BY <4>2, <4>4
    <3> QED BY <3>1, <3>2
  <2>24. pc' \in {"estimate", "recognize"} => root_clauses' = <<>>
    BY <1>1, <1>2
  <2> QED BY <2>12, <2>14, <2>19, <2>20, <2>21, <2>22, <2>23, <2>24 DEF AnalysisInv
<1> QED BY <1>3, <1>4

(* A candidate of the first round is tried.                                *)
LEMMA CheckCandidateInv == AnalysisInv /\ CheckCandidate => AnalysisInv'
<1> SUFFICES ASSUME AnalysisInv, CheckCandidate PROVE AnalysisInv'
  OBVIOUS
<1>1. candidates \in Seq(Used) /\ pool \subseteq Used
  BY DEF AnalysisInv, AnalysisTypeOK
<1>2. /\ candidates # <<>> /\ Check(Head(candidates)) /\ pc = "recognize"
      /\ candidates' = Tail(candidates) /\ pool' = pool
  BY DEF CheckCandidate
<1>3. Head(candidates) \in Used /\ candidates' \in Seq(Used) /\ pool' \subseteq Used
  BY <1>1, <1>2, HeadTailProperties
<1> QED BY <1>2, <1>3, CheckInv

(* An input of gates found in the round before is tried.                   *)
LEMMA CheckPoolInv == AnalysisInv /\ CheckPool => AnalysisInv'
<1> SUFFICES ASSUME AnalysisInv, CheckPool PROVE AnalysisInv'
  OBVIOUS
<1>1. candidates \in Seq(Used) /\ pool \subseteq Used
  BY DEF AnalysisInv, AnalysisTypeOK
<1>2. PICK out \in pool : Check(out) /\ pool' = pool \ {out}
  BY DEF CheckPool
<1>3. pc = "recognize" /\ candidates' = candidates
  BY DEF CheckPool
<1>4. out \in Used /\ candidates' \in Seq(Used) /\ pool' \subseteq Used
  BY <1>1, <1>2, <1>3
<1> QED BY <1>2, <1>3, <1>4, CheckInv

(* The frontier is tried next.                                             *)
LEMMA NextRoundInv == AnalysisInv /\ NextRound => AnalysisInv'
<1> SUFFICES ASSUME AnalysisInv, NextRound PROVE AnalysisInv'
  OBVIOUS
<1>1. candidates \in Seq(Used) /\ frontier \subseteq Used /\ root_clauses = <<>>
  BY DEF AnalysisInv, AnalysisTypeOK, NextRound
<1>2. /\ UNCHANGED <<formula, index, unitc, max_literal, root_clauses, timeout, roots, gates, candidates>>
      /\ pool' = frontier /\ frontier' = {}
  BY DEF NextRound, indexVars, gateVars
<1>3. candidates' \in Seq(Used) /\ pool' \subseteq Used /\ frontier' \subseteq Used
  BY <1>1, <1>2
<1> QED BY <1>1, <1>2, <1>3, NothingMoves

(* No step loses a clause or has a clause twice, and every gate stays free *)
(* of the gates found before it.                                           *)
LEMMA NextInv == AnalysisInv /\ [Next]_vars => AnalysisInv'
<1> SUFFICES ASSUME AnalysisInv, [Next]_vars PROVE AnalysisInv'
  OBVIOUS
<1>1. /\ candidates \in Seq(Used) /\ pool \subseteq Used /\ frontier \subseteq Used
      /\ pc \in {"estimate", "recognize"} => root_clauses = <<>>
  BY DEF AnalysisInv, AnalysisTypeOK
<1>2. ASSUME UNCHANGED <<formula, indexVars, root_clauses, timeout, gateVars, searchVars>>,
             pc' \in {"estimate", "recognize"} => pc = pc'
      PROVE  AnalysisInv'
  <2>1. /\ UNCHANGED <<formula, index, unitc, max_literal, root_clauses, timeout, roots, gates>>
        /\ UNCHANGED <<candidates, pool, frontier>>
    BY <1>2 DEF indexVars, gateVars, searchVars
  <2> QED BY <1>1, <1>2, <2>1, NothingMoves
<1>3. CASE EstimateRoots
  BY <1>3, EstimateRootsInv
<1>4. CASE AddRoots
  BY <1>4, AddRootsInv
<1>5. CASE TimeOut
  BY <1>5, TimeOutInv
<1>6. CASE Finish
  BY <1>2, <1>6 DEF Finish
<1>7. CASE CheckCandidate
  BY <1>7, CheckCandidateInv
<1>8. CASE CheckPool
  BY <1>8, CheckPoolInv
<1>9. CASE NextRound
  BY <1>9, NextRoundInv
<1>10. CASE StartLevels
  BY <1>2, <1>10 DEF StartLevels
<1>11. CASE NextLevel
  BY <1>2, <1>11 DEF NextLevel
<1>12. CASE EndLevels
  BY <1>2, <1>12 DEF EndLevels
<1>13. CASE UNCHANGED vars
  BY <1>2, <1>13 DEF vars
<1>14. CASE Done
  BY <1>13, <1>14 DEF Done
<1> QED BY <1>3, <1>4, <1>5, <1>6, <1>7, <1>8, <1>9, <1>10, <1>11, <1>12, <1>13, <1>14 DEF Next

(* As long as the time limit has not been reached, every clause is in one  *)
(* place.                                                                  *)
LEMMA OnePlace == AnalysisInv => PartitionInTime
<1> SUFFICES ASSUME AnalysisInv, ~timeout, NEW c \in Clauses PROVE Places(c) = 1
  BY DEF PartitionInTime
<1>1. Apart /\ Covered
  BY DEF AnalysisInv
<1> DEFINE G == {v \in GateVars : c \in Defining(v)}
           here(S) == IF c \in S THEN 1 ELSE 0
<1>2. Places(c) = here(Range(roots)) + here(Range(root_clauses)) + here(Range(unitc))
                    + here(Remainder) + Cardinality(G)
  BY DEF Places
<1>3. CASE G = {}
  <2>1. Cardinality(G) = 0
    BY <1>3, FS_EmptySet
  <2>2. c \in Range(roots) \cup Range(root_clauses) \cup Range(unitc) \cup Remainder
    BY <1>1, <1>3 DEF Covered
  <2>3. here(Range(roots)) + here(Range(root_clauses)) + here(Range(unitc)) + here(Remainder) = 1
    BY <1>1, <2>2 DEF Apart
  <2> HIDE DEF G, here
  <2> QED BY <1>2, <2>1, <2>3
<1>4. CASE G # {}
  <2>1. PICK v \in GateVars : c \in Defining(v)
    BY <1>4
  <2>2. G = {v}
    BY <1>1, <2>1 DEF Apart
  <2>3. Cardinality(G) = 1
    BY <2>2, FS_Singleton
  <2>4. c \notin Range(roots) \cup Range(root_clauses) \cup Range(unitc) \cup Remainder
    BY <1>1, <2>1 DEF Apart
  <2> HIDE DEF G
  <2> QED BY <1>2, <2>3, <2>4
<1> QED BY <1>3, <1>4

-----------------------------------------------------------------------------
(* Patterns determine their outputs.                                       *)

\* The literal is true.
Holds(s, l) == s[Var(l)] = (l % 2 = 0)

\* A clause is satisfied by a literal that is not the output.
RestHolds(s, c, o) == \E l \in Lit(c) \ {o} : Holds(s, l)

(* Two literals have one variable if they are the same or complementary,   *)
(* and one of them is true if they are complementary.                      *)
LEMMA LiteralPairs ==
    ASSUME NVars(formula) \in Nat, NEW l \in Used, NEW k \in Used, Var(l) = Var(k)
    PROVE  /\ k = l \/ k = Neg(l)
           /\ \A s \in [Vars -> BOOLEAN] : Holds(s, Neg(l)) <=> ~Holds(s, l)
           /\ (Neg(l) % 2 = 0) <=> ~(l % 2 = 0)
           /\ Var(Neg(l)) = Var(l)
<1>1. /\ l \in Nat /\ k \in Nat /\ Neg(l) \in Used /\ Neg(l) \in Nat /\ Var(l) \in Vars
      /\ {2 * Var(l), 2 * Var(l) + 1} = {l, Neg(l)} /\ {2 * Var(k), 2 * Var(k) + 1} = {k, Neg(k)}
  BY LiteralIs
<1>2. Neg(l) = IF l % 2 = 0 THEN l + 1 ELSE l - 1
  BY DEF Neg
<1>3. k = l \/ k = Neg(l)
  BY <1>1
<1>4. Var(Neg(l)) = Var(l) /\ ((Neg(l) % 2 = 0) <=> ~(l % 2 = 0))
  BY <1>1, <1>2 DEF Var
<1>5. \A s \in [Vars -> BOOLEAN] : Holds(s, Neg(l)) <=> ~Holds(s, l)
  <2> SUFFICES ASSUME NEW s \in [Vars -> BOOLEAN] PROVE Holds(s, Neg(l)) <=> ~Holds(s, l)
    OBVIOUS
  <2>1. s[Var(l)] \in BOOLEAN
    BY <1>1
  <2> QED BY <1>4, <2>1 DEF Holds
<1> QED BY <1>3, <1>4, <1>5

(* isBlocked finds a literal besides the output that the other clause has  *)
(* complemented.                                                           *)
LEMMA BlockedIs ==
    ASSUME FormulaRight, NEW o \in Used, NEW c \in Clauses, NEW d \in Clauses,
           IsBlocked(o, formula[c], formula[d])
    PROVE  \E l \in Lit(c) \ {o} : Neg(l) \in Lit(d) \ {Neg(o)}
<1>1. PICK p : /\ p[1] \in DOMAIN formula[c] /\ p[2] \in DOMAIN formula[d]
               /\ formula[c][p[1]] # o /\ formula[c][p[1]] = Neg(formula[d][p[2]])
  BY DEF IsBlocked
<1> DEFINE l == formula[c][p[1]]
           k == formula[d][p[2]]
<1>2. l \in Lit(c) /\ k \in Lit(d) /\ l \in Used /\ k \in Used /\ l = Neg(k) /\ l # o
  BY <1>1, ClauseIs DEF Lit, Range
<1>3. NVars(formula) \in Nat
  BY DEF FormulaRight
<1>4. Neg(l) = k /\ Neg(Neg(o)) = o
  BY <1>2, <1>3, LiteralIs
<1>5. k # Neg(o)
  BY <1>2, <1>4
<1> QED BY <1>2, <1>4, <1>5

(* What a clause with the output says when the output has a value.         *)
LEMMA SatisfiedIs ==
    ASSUME FormulaRight, NEW o \in Used, NEW c \in Clauses, o \in Lit(c),
           NEW s \in [Vars -> BOOLEAN], NEW b \in BOOLEAN
    PROVE  Satisfied(Lit(c), [s EXCEPT ![Var(o)] = b]) <=> (b = (o % 2 = 0) \/ RestHolds(s, c, o))
<1> DEFINE t == [s EXCEPT ![Var(o)] = b]
<1>1. NVars(formula) \in Nat /\ Var(o) \in Vars
  BY LiteralIs DEF FormulaRight
<1>2. t[Var(o)] = b
  BY <1>1
<1>3. ASSUME NEW l \in Lit(c) \ {o} PROVE t[Var(l)] = s[Var(l)]
  <2>1. l \in Used /\ l # Neg(o)
    BY ClauseIs
  <2>2. Var(l) # Var(o)
    BY <1>1, <2>1, LiteralPairs
  <2>3. Var(l) \in Vars
    BY <1>1, <2>1, LiteralIs
  <2> QED BY <2>2, <2>3
<1> HIDE DEF t
<1>4. Satisfied(Lit(c), t) <=> (b = (o % 2 = 0) \/ RestHolds(s, c, o))
  BY <1>2, <1>3 DEF Satisfied, RestHolds, Holds
<1> QED BY <1>4 DEF t

(* A gate pattern: its clauses have the output or its complement, no two   *)
(* of them with different polarity can both be unsatisfied without the     *)
(* output, and not all can be satisfied without it.                        *)
LEMMA DeterminedIs ==
    ASSUME FormulaRight, NEW o \in Used, NEW v, v = Var(o),
           NEW A, NEW B, A \subseteq Clauses, B \subseteq Clauses,
           \A c \in A : Neg(o) \in Lit(c), \A c \in B : o \in Lit(c),
           \A c \in B, d \in A : \E l \in Lit(c) \ {o} : Neg(l) \in Lit(d) \ {Neg(o)},
           \A s \in [Vars -> BOOLEAN] :
               \/ \E c \in A : ~RestHolds(s, c, Neg(o))
               \/ \E c \in B : ~RestHolds(s, c, o)
    PROVE  Determines(A \cup B, v)
<1> SUFFICES ASSUME NEW s \in [Vars -> BOOLEAN]
             PROVE  \E b \in BOOLEAN : \A a \in BOOLEAN :
                       (\A c \in A \cup B : Satisfied(Lit(c), [s EXCEPT ![v] = a])) <=> a = b
  BY DEF Determines
<1> DEFINE allA == \A c \in A : RestHolds(s, c, Neg(o))
           allB == \A c \in B : RestHolds(s, c, o)
           pos == (o % 2 = 0)
<1>1. NVars(formula) \in Nat /\ Neg(o) \in Used /\ Var(Neg(o)) = v /\ ((Neg(o) % 2 = 0) <=> ~pos)
  BY LiteralIs, LiteralPairs DEF FormulaRight
<1>2. \A a \in BOOLEAN, c \in A : Satisfied(Lit(c), [s EXCEPT ![v] = a]) <=> (a = ~pos \/ RestHolds(s, c, Neg(o)))
  BY <1>1, SatisfiedIs
<1>3. \A a \in BOOLEAN, c \in B : Satisfied(Lit(c), [s EXCEPT ![v] = a]) <=> (a = pos \/ RestHolds(s, c, o))
  BY <1>1, SatisfiedIs
<1>4. \A a \in BOOLEAN : (\A c \in A \cup B : Satisfied(Lit(c), [s EXCEPT ![v] = a]))
                            <=> (a = ~pos \/ allA) /\ (a = pos \/ allB)
  BY <1>2, <1>3
<1>5. ~(allA /\ allB)
  OBVIOUS
<1>6. allA \/ allB
  <2> SUFFICES ASSUME NEW d \in A, ~RestHolds(s, d, Neg(o)), NEW c \in B, ~RestHolds(s, c, o) PROVE FALSE
    OBVIOUS
  <2>1. PICK l \in Lit(c) \ {o} : Neg(l) \in Lit(d) \ {Neg(o)}
    OBVIOUS
  <2>2. l \in Used
    BY <2>1, ClauseIs
  <2>3. Holds(s, Neg(l)) <=> ~Holds(s, l)
    BY <1>1, <2>2, LiteralPairs
  <2> QED BY <2>1, <2>3 DEF RestHolds
<1> HIDE DEF allA, allB, pos
<1>7. CASE allA
  <2>1. pos \in BOOLEAN /\ ~allB
    BY <1>5, <1>7 DEF pos
  <2>2. \A a \in BOOLEAN : (\A c \in A \cup B : Satisfied(Lit(c), [s EXCEPT ![v] = a])) <=> a = pos
    BY <1>4, <1>7, <2>1
  <2> QED BY <2>1, <2>2
<1>8. CASE allB
  <2>1. (~pos) \in BOOLEAN /\ ~allA
    BY <1>5, <1>8 DEF pos
  <2>2. \A a \in BOOLEAN : (\A c \in A \cup B : Satisfied(Lit(c), [s EXCEPT ![v] = a])) <=> a = ~pos
    BY <1>4, <1>8, <2>1
  <2> QED BY <2>1, <2>2
<1> QED BY <1>6, <1>7, <1>8

(* A clause and binary clauses, TRIV, AND or OR: if all binary clauses are *)
(* satisfied without the output, every literal of the clause is false.     *)
LEMMA OneClauseIs ==
    ASSUME FormulaRight, NEW o \in Used, NEW e \in Clauses, NEW S, S \subseteq Clauses,
           \A c \in S : Neg(o) \in Lit(c) /\ Len(formula[c]) = 2,
           \A c \in S : \E l \in Lit(e) \ {o} : Neg(l) \in Lit(c) \ {Neg(o)},
           \A l \in Lit(e) \ {o} : \E c \in S : \E k \in Lit(c) \ {Neg(o)} : Var(k) = Var(l),
           NEW s \in [Vars -> BOOLEAN], RestHolds(s, e, o)
    PROVE  \E c \in S : ~RestHolds(s, c, Neg(o))
<1>1. NVars(formula) \in Nat
  BY DEF FormulaRight
<1>2. PICK l \in Lit(e) \ {o} : Holds(s, l)
  BY DEF RestHolds
<1>3. PICK c \in S : \E k \in Lit(c) \ {Neg(o)} : Var(k) = Var(l)
  OBVIOUS
<1>4. PICK k \in Lit(c) \ {Neg(o)} : Var(k) = Var(l)
  BY <1>3
<1>5. Lit(c) = {Neg(o), k}
  <2>1. formula[c] \in Seq(Used) /\ IsInjective(formula[c]) /\ Lit(c) = Range(formula[c]) /\ Len(formula[c]) = 2
    BY ClauseIs
  <2>2. Lit(c) = {formula[c][1], formula[c][2]}
    <3>1. Range(formula[c]) = {formula[c][i] : i \in 1 .. 2}
      BY <2>1, RangeEquality
    <3>2. 1 .. 2 = {1, 2}
      OBVIOUS
    <3> QED BY <2>1, <3>1, <3>2
  <2>3. Neg(o) \in Lit(c) /\ k \in Lit(c) /\ k # Neg(o)
    OBVIOUS
  <2> QED BY <2>2, <2>3
<1>6. PICK m \in Lit(e) \ {o} : Neg(m) \in Lit(c) \ {Neg(o)}
  OBVIOUS
<1>7. Neg(m) = k
  BY <1>5, <1>6
<1>8. l \in Used /\ m \in Used /\ k \in Used /\ Neg(l) \notin Lit(e)
  BY <1>2, <1>4, <1>6, ClauseIs
<1>9. Var(m) = Var(l)
  BY <1>1, <1>4, <1>7, <1>8, LiteralPairs
<1>10. m = l
  BY <1>1, <1>6, <1>8, <1>9, LiteralPairs
<1>11. ~Holds(s, k)
  BY <1>1, <1>2, <1>7, <1>8, <1>10, LiteralPairs
<1>12. ~RestHolds(s, c, Neg(o))
  BY <1>5, <1>11 DEF RestHolds
<1> QED BY <1>12

(* As many literals as variables: a clause has one of each variable.       *)
LEMMA RestIs ==
    ASSUME FormulaRight, NEW c \in Clauses, NEW p \in Lit(c), NEW I, IsFiniteSet(I),
           Len(formula[c]) = Cardinality(I) + 1, \A l \in Lit(c) \ {p} : Var(l) \in I
    PROVE  /\ \A x \in I : (2 * x \in Lit(c) <=> ~(2 * x + 1 \in Lit(c))) /\ 2 * x # p /\ 2 * x + 1 # p
           /\ \A l \in Lit(c) \ {p} : l = 2 * Var(l) \/ l = 2 * Var(l) + 1
<1> DEFINE n == Cardinality(I)
           R == Lit(c) \ {p}
           f == [l \in R |-> Var(l)]
<1>1. NVars(formula) \in Nat /\ n \in Nat
  BY FS_CardinalityType DEF FormulaRight
<1>2. /\ Lit(c) \subseteq Used /\ \A l \in Lit(c) : Neg(l) \notin Lit(c)
      /\ formula[c] \in Seq(Used) /\ IsInjective(formula[c]) /\ Lit(c) = Range(formula[c])
  BY ClauseIs
<1>3. IsFiniteSet(R) /\ Cardinality(R) = n
  <2>1. formula[c] \in Bijection(1 .. n + 1, Lit(c))
    <3>1. DOMAIN formula[c] = 1 .. n + 1 /\ formula[c] \in [1 .. n + 1 -> Used]
      BY <1>2, LenProperties
    <3>2. formula[c] \in [1 .. n + 1 -> Lit(c)]
      BY <1>2, <3>1 DEF Range
    <3>3. \A l \in Lit(c) : \E i \in 1 .. n + 1 : formula[c][i] = l
      BY <1>2, <3>1 DEF Range
    <3> QED BY <1>2, <3>2, <3>3 DEF Bijection, Injection, Surjection
  <2>2. ExistsBijection(1 .. n + 1, Lit(c)) /\ n + 1 \in Nat
    BY <1>1, <2>1 DEF ExistsBijection
  <2> HIDE DEF n
  <2>3. Cardinality(Lit(c)) = n + 1
    BY <2>2, FS_CountingElements
  <2>4. IsFiniteSet(Lit(c))
    BY <2>2, FS_NatBijection
  <2> QED BY <1>1, <2>3, <2>4, FS_RemoveElement
<1>4. \A l \in R : l \in Used /\ (l = 2 * Var(l) \/ l = 2 * Var(l) + 1)
  <2> TAKE l \in R
  <2>1. l \in Used
    BY <1>2
  <2> QED BY <1>1, <2>1, LiteralIs
<1>5. f \in Injection(R, I)
  <2>1. \A l, k \in R : Var(l) = Var(k) => l = k
    <3> SUFFICES ASSUME NEW l \in R, NEW k \in R, Var(l) = Var(k) PROVE l = k
      OBVIOUS
    <3>1. l \in Used /\ k \in Used /\ k # Neg(l)
      BY <1>2
    <3> QED BY <1>1, <3>1, LiteralPairs
  <2>2. f \in [R -> I]
    OBVIOUS
  <2> QED BY <2>1, <2>2 DEF Injection, IsInjective
<1>6. f \in Surjection(R, I)
  <2> HIDE DEF f, R
  <2> QED BY <1>3, <1>5, FS_Injection
<1>7. ASSUME NEW x \in I
      PROVE  (2 * x \in Lit(c) <=> ~(2 * x + 1 \in Lit(c))) /\ 2 * x # p /\ 2 * x + 1 # p
  <2>1. PICK l \in R : Var(l) = x
    BY <1>6 DEF Surjection
  <2>2. l \in Used /\ p \in Used /\ p # Neg(l) /\ p # l /\ Neg(l) \notin Lit(c) /\ l \in Lit(c)
    BY <1>2
  <2>3. {2 * x, 2 * x + 1} = {l, Neg(l)}
    BY <1>1, <2>1, <2>2, LiteralIs
  <2>4. 2 * x # 2 * x + 1
    BY <1>1, <2>1, <2>2, LiteralIs DEF Vars
  <2> QED BY <2>2, <2>3, <2>4
<1>8. \A l \in Lit(c) \ {p} : l = 2 * Var(l) \/ l = 2 * Var(l) + 1
  BY <1>4
<1> QED BY <1>7, <1>8

(* As many clauses as there are polarities of the inputs, FULL or EQIV:    *)
(* whatever the inputs are, one clause has all of them false.              *)
LEMMA FullIs ==
    ASSUME FormulaRight, NoDuplicates, NEW o \in Used,
           NEW a \in Seq(Clauses), IsInjective(a), NEW b \in Seq(Clauses), IsInjective(b),
           \A c \in Range(a) : Neg(o) \in Lit(c), \A c \in Range(b) : o \in Lit(c),
           \A c \in Range(b), d \in Range(a) : \E l \in Lit(c) \ {o} : Neg(l) \in Lit(d) \ {Neg(o)},
           NEW I, IsFiniteSet(I),
           \A c \in Range(a) : \A l \in Lit(c) \ {Neg(o)} : Var(l) \in I,
           \A c \in Range(b) : \A l \in Lit(c) \ {o} : Var(l) \in I,
           \A c \in Range(a) \cup Range(b) : Len(formula[c]) = Cardinality(I) + 1,
           Len(a) + Len(b) = 2 ^ Cardinality(I),
           NEW s \in [Vars -> BOOLEAN]
    PROVE  \/ \E c \in Range(a) : ~RestHolds(s, c, Neg(o))
           \/ \E c \in Range(b) : ~RestHolds(s, c, o)
<1> DEFINE A == Range(a)
           B == Range(b)
           P == A \cup B
           out(c) == IF c \in A THEN Neg(o) ELSE o
           f == [c \in P |-> {x \in I : 2 * x \in Lit(c)}]
<1>1. NVars(formula) \in Nat /\ Neg(o) \in Used /\ P \subseteq Clauses
  BY LiteralIs, RangeOfSeq DEF FormulaRight
<1>2. A \cap B = {}
  <2> SUFFICES ASSUME NEW c \in A, c \in B PROVE FALSE
    OBVIOUS
  <2>1. Neg(o) \in Lit(c) /\ o \in Lit(c) /\ c \in Clauses
    BY <1>1
  <2> QED BY <2>1, ClauseIs
<1>3. \A c \in P : out(c) \in Lit(c) /\ \A l \in Lit(c) \ {out(c)} : Var(l) \in I
  BY <1>2
<1>4. \A c \in P : /\ \A x \in I : (2 * x \in Lit(c) <=> ~(2 * x + 1 \in Lit(c))) /\ 2 * x # out(c) /\ 2 * x + 1 # out(c)
                   /\ \A l \in Lit(c) \ {out(c)} : l = 2 * Var(l) \/ l = 2 * Var(l) + 1
  <2> TAKE c \in P
  <2>1. c \in Clauses /\ out(c) \in Lit(c) /\ Len(formula[c]) = Cardinality(I) + 1
        /\ \A l \in Lit(c) \ {out(c)} : Var(l) \in I
    BY <1>1, <1>3
  <2> HIDE DEF out, P
  <2> QED BY <2>1, RestIs
<1>5. ASSUME NEW c \in P, NEW d \in P, f[c] = f[d], NEW l \in Lit(c) \ {out(c)}
      PROVE  l \in Lit(d) \ {out(d)}
  <2> DEFINE x == Var(l)
  <2>1. x \in I /\ (l = 2 * x \/ l = 2 * x + 1)
    BY <1>3, <1>4
  <2>2. 2 * x \in Lit(c) <=> 2 * x \in Lit(d)
    <3> HIDE DEF x
    <3>1. f[c] = {y \in I : 2 * y \in Lit(c)} /\ f[d] = {y \in I : 2 * y \in Lit(d)}
      OBVIOUS
    <3> QED BY <1>5, <2>1, <3>1
  <2>3. /\ (2 * x \in Lit(c) <=> ~(2 * x + 1 \in Lit(c)))
        /\ (2 * x \in Lit(d) <=> ~(2 * x + 1 \in Lit(d))) /\ 2 * x # out(d) /\ 2 * x + 1 # out(d)
    BY <1>4, <2>1
  <2> HIDE DEF x, out, f, P
  <2> QED BY <2>1, <2>2, <2>3
<1>6. ASSUME NEW c \in P, NEW d \in P, f[c] = f[d] PROVE c = d
  <2>1. Lit(c) \ {out(c)} = Lit(d) \ {out(d)}
    BY <1>5, <1>6
  <2>2. CASE out(c) = out(d)
    <3>1. out(c) \in Lit(c) /\ out(d) \in Lit(d)
      BY <1>3
    <3>2. c \in Clauses /\ d \in Clauses
      BY <1>1
    <3> HIDE DEF out, P, A, B
    <3>3. Lit(c) = (Lit(c) \ {out(c)}) \cup {out(c)} /\ Lit(d) = (Lit(d) \ {out(d)}) \cup {out(d)}
      BY <3>1
    <3>4. Lit(c) = Lit(d)
      BY <2>1, <2>2, <3>3
    <3> QED BY <3>2, <3>4 DEF NoDuplicates
  <2>3. ASSUME NEW g \in A, NEW h \in B, Lit(h) \ {o} \subseteq Lit(g) \ {Neg(o)} PROVE FALSE
    <3>1. PICK l \in Lit(h) \ {o} : Neg(l) \in Lit(g) \ {Neg(o)}
      OBVIOUS
    <3>2. l \in Lit(g) /\ Neg(l) \in Lit(g) /\ g \in Clauses
      BY <1>1, <2>3, <3>1
    <3> QED BY <3>2, ClauseIs
  <2>4. CASE c \in A /\ d \in B
    <3>1. out(c) = Neg(o) /\ out(d) = o
      BY <1>2, <2>4
    <3> QED BY <2>1, <2>3, <2>4, <3>1
  <2>5. CASE c \in B /\ d \in A
    <3>1. out(d) = Neg(o) /\ out(c) = o
      BY <1>2, <2>5
    <3> QED BY <2>1, <2>3, <2>5, <3>1
  <2>6. CASE (c \in A /\ d \in A) \/ (c \in B /\ d \in B)
    <3>1. out(c) = out(d)
      BY <1>2, <2>6
    <3> QED BY <2>2, <3>1
  <2> QED BY <2>4, <2>5, <2>6
<1>7. IsFiniteSet(P) /\ Cardinality(P) = Len(a) + Len(b)
  <2>1. ASSUME NEW r \in Seq(Clauses), IsInjective(r)
        PROVE  IsFiniteSet(Range(r)) /\ Cardinality(Range(r)) = Len(r) /\ Len(r) \in Nat
    <3>1. Len(r) \in Nat /\ DOMAIN r = 1 .. Len(r) /\ r \in [1 .. Len(r) -> Clauses]
      BY LenProperties
    <3>2. r \in Bijection(1 .. Len(r), Range(r))
      <4>1. r \in [1 .. Len(r) -> Range(r)] /\ \A x \in Range(r) : \E i \in 1 .. Len(r) : r[i] = x
        BY <3>1 DEF Range
      <4> QED BY <2>1, <4>1 DEF Bijection, Injection, Surjection
    <3>3. ExistsBijection(1 .. Len(r), Range(r))
      BY <3>2 DEF ExistsBijection
    <3> QED BY <3>1, <3>3, FS_CountingElements, FS_NatBijection
  <2>2. /\ IsFiniteSet(A) /\ Cardinality(A) = Len(a) /\ Len(a) \in Nat
        /\ IsFiniteSet(B) /\ Cardinality(B) = Len(b) /\ Len(b) \in Nat
    BY <2>1
  <2>3. Cardinality(A \cap B) = 0
    BY <1>2, FS_EmptySet
  <2>4. IsFiniteSet(A \cup B) /\ Cardinality(A \cup B) = Cardinality(A) + Cardinality(B) - Cardinality(A \cap B)
    BY <2>2, FS_Union
  <2>5. Cardinality(A \cup B) = Len(a) + Len(b)
    BY <2>2, <2>3, <2>4
  <2> QED BY <2>4, <2>5
<1>8. f \in Injection(P, SUBSET I)
  <2>1. f \in [P -> SUBSET I]
    OBVIOUS
  <2> HIDE DEF f, P
  <2> QED BY <1>6, <2>1 DEF Injection, IsInjective
<1>9. f \in Surjection(P, SUBSET I)
  <2>1. IsFiniteSet(SUBSET I) /\ Cardinality(SUBSET I) = 2 ^ Cardinality(I)
    BY FS_SUBSET
  <2> HIDE DEF f, P
  <2> QED BY <1>7, <1>8, <2>1, FS_Injection
<1>10. PICK c \in P : f[c] = {x \in I : ~s[x]}
  <2>1. {x \in I : ~s[x]} \in SUBSET I
    OBVIOUS
  <2> HIDE DEF f, P
  <2> QED BY <1>9, <2>1 DEF Surjection
<1>11. \A l \in Lit(c) \ {out(c)} : ~Holds(s, l)
  <2> TAKE l \in Lit(c) \ {out(c)}
  <2> DEFINE x == Var(l)
  <2>1. x \in I /\ (l = 2 * x \/ l = 2 * x + 1) /\ (2 * x \in Lit(c) <=> ~(2 * x + 1 \in Lit(c)))
    BY <1>3, <1>4
  <2>2. l \in Used /\ c \in Clauses
    BY <1>1, ClauseIs
  <2>3. x \in Vars /\ x \in Nat /\ s[x] \in BOOLEAN
    BY <1>1, <2>2, LiteralIs DEF Vars
  <2>4. 2 * x \in Lit(c) <=> ~s[x]
    <3> HIDE DEF x
    <3>1. f[c] = {y \in I : 2 * y \in Lit(c)}
      OBVIOUS
    <3> QED BY <1>10, <2>1, <3>1
  <2>5. (2 * x) % 2 = 0 /\ (2 * x + 1) % 2 = 1
    BY <2>3
  <2>6. CASE l = 2 * x
    BY <2>3, <2>4, <2>5, <2>6 DEF Holds
  <2>7. CASE l = 2 * x + 1
    <3>1. s[x] = TRUE
      BY <2>1, <2>3, <2>4, <2>7
    <3>2. ~(l % 2 = 0)
      BY <2>5, <2>7
    <3> QED BY <3>1, <3>2 DEF Holds
  <2> QED BY <2>1, <2>6, <2>7
<1>12. ~RestHolds(s, c, out(c))
  BY <1>11 DEF RestHolds
<1> QED BY <1>2, <1>12

(* A verdict that names a pattern: the clauses of the candidate are blocked *)
(* on it, both polarities have the same inputs and the sizes fit.          *)
LEMMA PatternIs ==
    ASSUME NEW out, Verdict(out).type \notin {"NONE", "GENERIC"},
           NEW fwd, fwd = index[Neg(out)], NEW bwd, bwd = index[out]
    PROVE  LET I == InputVars(out, bwd) IN
           /\ IsBlockedSet(out) /\ InputVars(Neg(out), fwd) = I
           /\ \/ Len(fwd) = 1 /\ FixedClauseSize(bwd, 2)
              \/ Len(bwd) = 1 /\ FixedClauseSize(fwd, 2)
              \/ /\ Len(fwd) + Len(bwd) = 2 ^ Cardinality(I)
                 /\ FixedClauseSize(fwd, Cardinality(I) + 1)
                 /\ FixedClauseSize(bwd, Cardinality(I) + 1)
<1> DEFINE n == ConstrainSameInputVariables(out, fwd, bwd)
           pattern == IF n > 0 THEN FPattern(fwd, bwd, n) ELSE "NONE"
           loaded == Load(out, fwd \o bwd)
           solved == [type |-> IF Solvable(loaded.clauses, Neg(Positive(out))) THEN "NONE" ELSE "GENERIC",
                      solver |-> [loaded EXCEPT !.open = {Positive(out)}]]
           found == [type |-> pattern, solver |-> solver]
<1>1. Verdict(out) = IF ~(Len(fwd) > 0 /\ IsBlockedSet(out)) THEN [type |-> "NONE", solver |-> solver]
                     ELSE IF pattern = "NONE" /\ Semantic /\ Len(fwd) > 1 /\ Len(bwd) > 1 THEN solved
                     ELSE found
  BY DEF Verdict
<1>2. solved.type \in {"NONE", "GENERIC"} /\ found.type = pattern
  OBVIOUS
<1> HIDE DEF solved, found, loaded
<1>3. IsBlockedSet(out) /\ pattern # "NONE"
  <2> HIDE DEF pattern
  <2> QED BY <1>1, <1>2
<1>4. n > 0 /\ FPattern(fwd, bwd, n) # "NONE"
  BY <1>3
<1>5. InputVars(Neg(out), fwd) = InputVars(out, bwd) /\ n = Cardinality(InputVars(out, bwd))
  BY <1>4 DEF ConstrainSameInputVariables
<1>6. \/ Len(fwd) = 1 /\ FixedClauseSize(bwd, 2)
      \/ Len(bwd) = 1 /\ FixedClauseSize(fwd, 2)
      \/ /\ Len(fwd) + Len(bwd) = 2 ^ n
         /\ FixedClauseSize(fwd, n + 1)
         /\ FixedClauseSize(bwd, n + 1)
  <2> HIDE DEF n
  <2> QED BY <1>4 DEF FPattern
<1> HIDE DEF n
<1> QED BY <1>3, <1>5, <1>6

(* The clauses of a gate that a pattern recognizes determine its output.   *)
LEMMA PatternDetermines ==
    ASSUME FormulaRight, NoDuplicates, IndexHolds(index, Remainder, Lits),
           NEW out \in Used, Verdict(out).type \notin {"NONE", "GENERIC"}
    PROVE  Determines(Range(index[Neg(out)]) \cup Range(index[out]), Var(out))
<1> DEFINE fwd == index[Neg(out)]
           bwd == index[out]
           A == Range(fwd)
           B == Range(bwd)
           I == InputVars(out, bwd)
           n == Cardinality(I)
<1>1. /\ NVars(formula) \in Nat /\ out \in Lits /\ Neg(out) \in Lits /\ Neg(out) \in Used
      /\ Neg(Neg(out)) = out
  BY LiteralIs DEF FormulaRight
<1>2. /\ fwd \in Seq(Clauses) /\ IsInjective(fwd) /\ \A c \in A : Neg(out) \in Lit(c)
      /\ bwd \in Seq(Clauses) /\ IsInjective(bwd) /\ \A c \in B : out \in Lit(c)
  BY <1>1 DEF IndexHolds
<1>3. A \subseteq Clauses /\ B \subseteq Clauses
  BY <1>2, RangeOfSeq
<1>4. /\ IsBlockedSet(out) /\ InputVars(Neg(out), fwd) = I
      /\ \/ Len(fwd) = 1 /\ FixedClauseSize(bwd, 2)
         \/ Len(bwd) = 1 /\ FixedClauseSize(fwd, 2)
         \/ Len(fwd) + Len(bwd) = 2 ^ n /\ FixedClauseSize(fwd, n + 1) /\ FixedClauseSize(bwd, n + 1)
  BY PatternIs
<1>5. \A c \in B, d \in A : \E l \in Lit(c) \ {out} : Neg(l) \in Lit(d) \ {Neg(out)}
  BY <1>3, <1>4, BlockedIs DEF IsBlockedSet
<1>6. \A d \in A, c \in B : \E l \in Lit(d) \ {Neg(out)} : Neg(l) \in Lit(c) \ {out}
  <2> TAKE d \in A, c \in B
  <2>1. PICK l \in Lit(c) \ {out} : Neg(l) \in Lit(d) \ {Neg(out)}
    BY <1>5
  <2>2. l \in Used
    BY <1>3, ClauseIs
  <2>3. Neg(Neg(l)) = l
    BY <1>1, <2>2, LiteralIs
  <2> QED BY <2>1, <2>3
<1>7. /\ \A c \in A : \A l \in Lit(c) \ {Neg(out)} : Var(l) \in I
      /\ \A c \in B : \A l \in Lit(c) \ {out} : Var(l) \in I
  BY <1>4 DEF InputVars
<1>8. \A x \in I : /\ \E c \in A : \E k \in Lit(c) \ {Neg(out)} : Var(k) = x
                   /\ \E c \in B : \E k \in Lit(c) \ {out} : Var(k) = x
  <2>1. \A x \in I : \E c \in A : \E k \in Lit(c) \ {Neg(out)} : Var(k) = x
    BY <1>4 DEF InputVars
  <2>2. \A x \in I : \E c \in B : \E k \in Lit(c) \ {out} : Var(k) = x
    BY DEF InputVars
  <2> QED BY <2>1, <2>2
<1>9. IsFiniteSet(I)
  <2>1. I \subseteq Vars
    <3> SUFFICES ASSUME NEW c \in B, NEW l \in Lit(c) PROVE Var(l) \in Vars
      BY DEF InputVars
    <3>1. l \in Used
      BY <1>3, ClauseIs
    <3> QED BY <1>1, <3>1, LiteralIs
  <2>2. IsFiniteSet(Vars)
    BY <1>1, FS_Interval DEF Vars
  <2> QED BY <2>1, <2>2, FS_Subset
<1>10. ASSUME NEW q \in Seq(Clauses), Len(q) = 1 PROVE \E e \in Clauses : Range(q) = {e}
  <2>1. DOMAIN q = 1 .. Len(q) /\ 1 \in 1 .. Len(q)
    BY <1>10, LenProperties
  <2>2. q[1] \in Clauses
    BY <2>1, ElementOfSeq
  <2>3. 1 .. 1 = {1}
    OBVIOUS
  <2> QED BY <1>10, <2>1, <2>2, <2>3 DEF Range
<1> HIDE DEF fwd, bwd, I
<1>11. ASSUME NEW s \in [Vars -> BOOLEAN]
       PROVE  (\E c \in A : ~RestHolds(s, c, Neg(out))) \/ (\E c \in B : ~RestHolds(s, c, out))
  <2>1. CASE Len(fwd) = 1 /\ FixedClauseSize(bwd, 2)
    <3>1. PICK e \in Clauses : A = {e}
      BY <1>2, <1>10, <2>1
    <3> DEFINE o == Neg(out)
    <3>2. Neg(o) = out
      BY <1>1
    <3>3. /\ \A c \in B : Neg(o) \in Lit(c) /\ Len(formula[c]) = 2
          /\ \A c \in B : \E l \in Lit(e) \ {o} : Neg(l) \in Lit(c) \ {Neg(o)}
      BY <1>2, <1>6, <2>1, <3>1, <3>2 DEF FixedClauseSize
    <3>4. \A l \in Lit(e) \ {o} : \E c \in B : \E k \in Lit(c) \ {Neg(o)} : Var(k) = Var(l)
      BY <1>7, <1>8, <3>1, <3>2
    <3>5. RestHolds(s, e, o) => \E c \in B : ~RestHolds(s, c, Neg(o))
      <4> HIDE DEF o, B
      <4> QED BY <1>1, <1>3, <3>3, <3>4, OneClauseIs DEF o
    <3> QED BY <3>1, <3>2, <3>5
  <2>2. CASE Len(bwd) = 1 /\ FixedClauseSize(fwd, 2)
    <3>1. PICK e \in Clauses : B = {e}
      BY <1>2, <1>10, <2>2
    <3>2. /\ \A c \in A : Neg(out) \in Lit(c) /\ Len(formula[c]) = 2
          /\ \A c \in A : \E l \in Lit(e) \ {out} : Neg(l) \in Lit(c) \ {Neg(out)}
      BY <1>2, <1>5, <2>2, <3>1 DEF FixedClauseSize
    <3>3. \A l \in Lit(e) \ {out} : \E c \in A : \E k \in Lit(c) \ {Neg(out)} : Var(k) = Var(l)
      BY <1>7, <1>8, <3>1
    <3>4. RestHolds(s, e, out) => \E c \in A : ~RestHolds(s, c, Neg(out))
      <4> HIDE DEF A
      <4> QED BY <1>1, <1>3, <3>2, <3>3, OneClauseIs
    <3> QED BY <3>1, <3>4
  <2>3. CASE Len(fwd) + Len(bwd) = 2 ^ n /\ FixedClauseSize(fwd, n + 1) /\ FixedClauseSize(bwd, n + 1)
    <3>1. \A c \in A \cup B : Len(formula[c]) = Cardinality(I) + 1
      BY <2>3 DEF FixedClauseSize
    <3> QED BY <1>2, <1>5, <1>7, <1>9, <2>3, <3>1, FullIs
  <2> QED BY <1>4, <2>1, <2>2, <2>3
<1> HIDE DEF A, B
<1>12. Determines(A \cup B, Var(out))
  BY <1>2, <1>3, <1>5, <1>11, DeterminedIs
<1> QED BY <1>12 DEF A, B, fwd, bwd

-----------------------------------------------------------------------------
(* The outputs of gates are determined together.                           *)

\* t has the values of s outside D and satisfies the clauses of the gates of D.
Extends(t, s, D) ==
  /\ t \in [Vars -> BOOLEAN]
  /\ \A w \in Vars \ D : t[w] = s[w]
  /\ \A v \in D : \A c \in Defining(v) : Satisfied(Lit(c), t)

(* A clause without literals of v does not see the value of v.             *)
LEMMA UnseenIs ==
    ASSUME FormulaRight, NEW c \in Clauses, NEW v, \A l \in Lit(c) : Var(l) # v,
           NEW s \in [Vars -> BOOLEAN], NEW b \in BOOLEAN
    PROVE  Satisfied(Lit(c), [s EXCEPT ![v] = b]) <=> Satisfied(Lit(c), s)
<1>1. ASSUME NEW l \in Lit(c) PROVE [s EXCEPT ![v] = b][Var(l)] = s[Var(l)]
  <2>1. l \in Used /\ NVars(formula) \in Nat
    BY ClauseIs DEF FormulaRight
  <2>2. Var(l) \in Vars /\ Var(l) # v
    BY <2>1, LiteralIs
  <2> QED BY <2>2
<1> QED BY <1>1 DEF Satisfied

(* One more gate, whose variable is not in the clauses of the others.      *)
LEMMA OneMore ==
    ASSUME FormulaRight, AnalysisTypeOK, NEW D \in SUBSET GateVars, NEW v \in D,
           \A w \in D \ {v} : \A c \in Defining(w) : \A l \in Lit(c) : Var(l) # v,
           Determines(Defining(v), v),
           \A s \in [Vars -> BOOLEAN] : \E t : Extends(t, s, D \ {v}) /\ \A u : Extends(u, s, D \ {v}) => u = t,
           NEW s \in [Vars -> BOOLEAN]
    PROVE  \E t : Extends(t, s, D) /\ \A u : Extends(u, s, D) => u = t
<1> DEFINE E == D \ {v}
<1>1. PICK t : Extends(t, s, E) /\ \A u : Extends(u, s, E) => u = t
  OBVIOUS
<1>2. v \in Vars /\ v \notin E /\ D = E \cup {v} /\ \A w \in E : w \in GateVars /\ w # v
  BY DEF GateVars
<1>3. ASSUME NEW w \in GateVars PROVE Defining(w) \subseteq Clauses
  <2>1. gates[w].fwd \in Seq(Clauses) /\ gates[w].bwd \in Seq(Clauses)
    BY DEF AnalysisTypeOK
  <2> QED BY <2>1, RangeOfSeq DEF Defining
<1>4. t \in [Vars -> BOOLEAN]
  BY <1>1 DEF Extends
<1>5. PICK b \in BOOLEAN : \A a \in BOOLEAN :
         (\A c \in Defining(v) : Satisfied(Lit(c), [t EXCEPT ![v] = a])) <=> a = b
  BY <1>4 DEF Determines
<1>6. \A r \in [Vars -> BOOLEAN], a \in BOOLEAN : \A w \in E : \A c \in Defining(w) :
         Satisfied(Lit(c), [r EXCEPT ![v] = a]) <=> Satisfied(Lit(c), r)
  BY <1>2, <1>3, UnseenIs
<1> DEFINE x == [t EXCEPT ![v] = b]
<1>7. x \in [Vars -> BOOLEAN] /\ \A w \in Vars \ {v} : x[w] = t[w]
  BY <1>2, <1>4
<1>8. Extends(x, s, D)
  <2>1. \A w \in Vars \ D : x[w] = s[w]
    BY <1>1, <1>2, <1>7 DEF Extends
  <2>2. \A c \in Defining(v) : Satisfied(Lit(c), x)
    BY <1>5
  <2>3. \A w \in E : \A c \in Defining(w) : Satisfied(Lit(c), x)
    BY <1>1, <1>4, <1>6 DEF Extends
  <2> HIDE DEF x
  <2> QED BY <1>2, <1>7, <2>1, <2>2, <2>3 DEF Extends
<1>9. ASSUME NEW u, Extends(u, s, D) PROVE u = x
  <2> DEFINE r == [u EXCEPT ![v] = s[v]]
  <2>1. u \in [Vars -> BOOLEAN] /\ s[v] \in BOOLEAN /\ u[v] \in BOOLEAN
    BY <1>2, <1>9 DEF Extends
  <2>2. r \in [Vars -> BOOLEAN] /\ r[v] = s[v] /\ \A w \in Vars \ {v} : r[w] = u[w]
    BY <1>2, <2>1
  <2>3. \A w \in Vars \ E : r[w] = s[w]
    BY <1>2, <1>9, <2>2 DEF Extends
  <2>4. \A w \in E : \A c \in Defining(w) : Satisfied(Lit(c), r)
    BY <1>2, <1>6, <1>9, <2>1 DEF Extends
  <2>5. r = t
    <3> HIDE DEF r, E
    <3>1. Extends(r, s, E)
      BY <2>2, <2>3, <2>4 DEF Extends
    <3> QED BY <1>1, <3>1
  <2>6. u = [t EXCEPT ![v] = u[v]]
    <3> HIDE DEF r
    <3>1. \A w \in Vars : u[w] = [t EXCEPT ![v] = u[v]][w]
      BY <1>4, <2>2, <2>5
    <3> QED BY <1>4, <2>1, <3>1
  <2>7. \A c \in Defining(v) : Satisfied(Lit(c), [t EXCEPT ![v] = u[v]])
    <3> DEFINE z == [t EXCEPT ![v] = u[v]]
    <3>1. u = z
      BY <2>6
    <3> HIDE DEF z
    <3>2. \A c \in Defining(v) : Satisfied(Lit(c), z)
      BY <1>9, <3>1 DEF Extends
    <3> QED BY <3>2 DEF z
  <2>8. u[v] = b
    BY <1>5, <2>1, <2>7
  <2> QED BY <2>6, <2>8
<1> QED BY <1>8, <1>9

(* Any number of gates.                                                    *)
LEMMA ManyGates ==
    ASSUME FormulaRight, AnalysisTypeOK, GatesAcyclic,
           NEW P \in SUBSET GateVars, \A v \in P : Determines(Defining(v), v)
    PROVE  \A s \in [Vars -> BOOLEAN] : \E t : Extends(t, s, P) /\ \A u : Extends(u, s, P) => u = t
<1> DEFINE Unique(D) == \A s \in [Vars -> BOOLEAN] : \E t : Extends(t, s, D) /\ \A u : Extends(u, s, D) => u = t
           T == {n \in Nat : \A D \in SUBSET P : IsFiniteSet(D) /\ Cardinality(D) = n => Unique(D)}
<1>1. 0 \in T
  <2> SUFFICES ASSUME NEW D \in SUBSET P, IsFiniteSet(D), Cardinality(D) = 0 PROVE Unique(D)
    OBVIOUS
  <2>1. D = {}
    BY FS_EmptySet
  <2>2. ASSUME NEW s \in [Vars -> BOOLEAN], NEW u, Extends(u, s, {}) PROVE u = s
    BY <2>2 DEF Extends
  <2>3. \A s \in [Vars -> BOOLEAN] : Extends(s, s, {})
    BY DEF Extends
  <2> QED BY <2>1, <2>2, <2>3
<1>2. ASSUME NEW n \in Nat, n \in T PROVE n + 1 \in T
  <2> SUFFICES ASSUME NEW D \in SUBSET P, IsFiniteSet(D), Cardinality(D) = n + 1 PROVE Unique(D)
    OBVIOUS
  <2>1. D \in (SUBSET GateVars) \ {{}}
    <3>1. D # {}
      BY FS_EmptySet
    <3> QED BY <3>1
  <2>2. PICK v \in D : \A w \in D \ {v} : \A c \in Defining(w) : \A l \in Lit(c) : Var(l) # v
    BY <2>1 DEF GatesAcyclic
  <2>3. IsFiniteSet(D \ {v}) /\ Cardinality(D \ {v}) = n
    <3>1. IsFiniteSet(D \ {v}) /\ Cardinality(D \ {v}) = Cardinality(D) - 1
      BY <2>2, FS_RemoveElement
    <3> QED BY <3>1
  <2>4. Unique(D \ {v})
    <3> HIDE DEF Unique
    <3> QED BY <1>2, <2>3
  <2>5. Determines(Defining(v), v) /\ D \in SUBSET GateVars
    BY <2>2
  <2> QED BY <2>2, <2>4, <2>5, OneMore
<1>3. \A n \in Nat : n \in T
  <2> HIDE DEF T
  <2> QED BY <1>1, <1>2, SetInduction
<1>4. IsFiniteSet(P) /\ Cardinality(P) \in Nat
  <2>1. P \subseteq Vars /\ NVars(formula) \in Nat
    BY DEF GateVars, FormulaRight
  <2>2. IsFiniteSet(Vars)
    BY <2>1, FS_Interval DEF Vars
  <2>3. IsFiniteSet(P)
    BY <2>1, <2>2, FS_Subset
  <2> QED BY <2>3, FS_CardinalityType
<1>5. Unique(P)
  <2> HIDE DEF Unique
  <2>1. Cardinality(P) \in T
    BY <1>3, <1>4
  <2> QED BY <1>4, <2>1
<1> QED BY <1>5

(* The gates that were recognized by patterns, in the words of             *)
(* PatternsDetermined.                                                     *)
LEMMA AllDetermined ==
    ASSUME FormulaRight, AnalysisTypeOK, GatesAcyclic,
           NoDuplicates => \A v \in PatternGates : Determines(Defining(v), v)
    PROVE  PatternsDetermined
<1> SUFFICES ASSUME NoDuplicates, NEW s \in [Vars \ PatternGates -> BOOLEAN]
             PROVE  Cardinality({t \in [PatternGates -> BOOLEAN] :
                      LET all == [v \in Vars |-> IF v \in PatternGates THEN t[v] ELSE s[v]]
                      IN \A v \in PatternGates : \A c \in Defining(v) : Satisfied(Lit(c), all)}) = 1
  BY DEF PatternsDetermined
<1> DEFINE P == PatternGates
           all(t) == [v \in Vars |-> IF v \in P THEN t[v] ELSE s[v]]
           S == {t \in [P -> BOOLEAN] : \A v \in P : \A c \in Defining(v) : Satisfied(Lit(c), all(t))}
           base == [v \in Vars |-> IF v \in P THEN FALSE ELSE s[v]]
<1>1. P \in SUBSET GateVars /\ P \subseteq Vars
  BY DEF PatternGates, GateVars
<1>2. \A v \in P : Determines(Defining(v), v)
  OBVIOUS
<1> HIDE DEF P
<1>3. s \in [Vars \ P -> BOOLEAN]
  BY DEF P
<1>4. base \in [Vars -> BOOLEAN] /\ \A w \in Vars \ P : base[w] = s[w]
  BY <1>3
<1>5. PICK x : Extends(x, base, P) /\ \A u : Extends(u, base, P) => u = x
  <2> HIDE DEF base
  <2> QED BY <1>1, <1>2, <1>4, ManyGates
<1>6. x \in [Vars -> BOOLEAN] /\ \A w \in Vars \ P : x[w] = s[w]
  <2> HIDE DEF base
  <2> QED BY <1>4, <1>5 DEF Extends
<1> DEFINE y == [v \in P |-> x[v]]
<1>7. y \in [P -> BOOLEAN] /\ \A v \in P : y[v] = x[v]
  BY <1>1, <1>6
<1>8. all(y) = x
  <2> HIDE DEF y
  <2>1. \A w \in Vars : all(y)[w] = x[w]
    BY <1>1, <1>6, <1>7
  <2>2. all(y) = [w \in Vars |-> all(y)[w]]
    OBVIOUS
  <2> HIDE DEF all
  <2> QED BY <1>6, <2>1, <2>2
<1>9. y \in S
  <2> HIDE DEF y, all, base
  <2>1. \A v \in P : \A c \in Defining(v) : Satisfied(Lit(c), all(y))
    BY <1>5, <1>8 DEF Extends
  <2> QED BY <1>7, <2>1
<1>10. ASSUME NEW t \in S PROVE t = y
  <2>1. t \in [P -> BOOLEAN] /\ \A v \in P : \A c \in Defining(v) : Satisfied(Lit(c), all(t))
    BY <1>10
  <2>2. /\ all(t) \in [Vars -> BOOLEAN] /\ \A w \in Vars \ P : all(t)[w] = base[w]
        /\ \A v \in P : all(t)[v] = t[v]
    BY <1>1, <1>3, <2>1
  <2> HIDE DEF all, base, y
  <2>3. all(t) = x
    BY <1>5, <2>1, <2>2 DEF Extends
  <2>4. \A v \in P : t[v] = y[v]
    BY <1>7, <2>2, <2>3
  <2> QED BY <1>7, <2>1, <2>4
<1>11. S = {y}
  <2> HIDE DEF S, y
  <2> QED BY <1>9, <1>10
<1>12. Cardinality(S) = 1
  <2> HIDE DEF S, y
  <2> QED BY <1>11, FS_Singleton
<1> QED BY <1>12 DEF P

-----------------------------------------------------------------------------
(* What is said of inputs and gates, step by step.                         *)

(* While the gates stay the same, their outputs stay determined.           *)
LEMMA SameDetermined ==
    ASSUME FormulaRight, PatternsDefine, UNCHANGED <<formula, gates>>
    PROVE  PatternsDefine'
<1>1. Clauses' = Clauses /\ Vars' = Vars /\ \A c : Lit(c)' = Lit(c)
  BY SameFormula
<1>2. GateVars' = GateVars /\ \A v : Defining(v)' = Defining(v)
  BY SameGates
<1>3. NoDuplicates' <=> NoDuplicates
  BY <1>1 DEF NoDuplicates
<1>4. PatternGates' = PatternGates
  BY <1>2 DEF PatternGates
<1>5. \A v : Determines(Defining(v), v)' <=> Determines(Defining(v), v)
  BY <1>1, <1>2 DEF Determines, Satisfied, Var
<1> QED BY <1>3, <1>4, <1>5 DEF PatternsDefine

(* Steps that add neither a root nor a gate.                               *)
LEMMA ReachStays ==
    ASSUME FormulaRight, PatternsDefine, InputsExact, AllReached,
           UNCHANGED <<formula, gates, roots, inputs>>,
           Range(candidates') \subseteq Range(candidates), pool' \cup frontier' \subseteq pool \cup frontier,
           unitc' \in {unitc, <<>>}, pc' # "estimate" => unitc' = <<>>,
           \A v \in GateVars, c \in Range(root_clauses') : Lit(c) \cap {2 * v, 2 * v + 1} = {}
    PROVE  PatternsDefine' /\ InputsExact' /\ AllReached'
<1>1. /\ Clauses' = Clauses /\ Vars' = Vars /\ Lits' = Lits /\ Used' = Used /\ \A c : Lit(c)' = Lit(c)
  BY SameFormula
<1>2. GateVars' = GateVars /\ \A v : Defining(v)' = Defining(v)
  BY SameGates
<1>3. PatternsDefine'
  BY SameDetermined
<1>4. \A U : Closed(U)' <=> Closed(U)
  BY <1>1, <1>2 DEF Closed, Neg
<1>5. InputsExact'
  <2>1. inputs' \subseteq Used' /\ Range(candidates') \cup pool' \cup frontier' \subseteq inputs'
    BY <1>1 DEF InputsExact
  <2>2. Closed(inputs)' /\ \A U \in SUBSET Lits' : Closed(U)' => inputs' \subseteq U
    <3>1. Closed(inputs)' <=> Closed(inputs)
      BY <1>1, <1>2 DEF Closed, Neg
    <3> QED BY <1>1, <1>4, <3>1 DEF InputsExact
  <2>3. \A v \in GateVars' : gates'[v].notMono <=> {2 * v, 2 * v + 1} \subseteq inputs'
    BY <1>2 DEF InputsExact
  <2>4. (pc' # "estimate" => unitc' = <<>>) /\ (unitc' # <<>> => GateVars' = {})
    BY <1>2 DEF InputsExact
  <2>5. \A v \in GateVars', c \in Range(root_clauses') : Lit(c)' \cap {2 * v, 2 * v + 1} = {}
    BY <1>1, <1>2
  <2> QED BY <2>1, <2>2, <2>3, <2>4, <2>5 DEF InputsExact
<1>6. AllReached'
  <2>1. RootLits' = RootLits /\ \A V : InputLits(V)' = InputLits(V)
    BY <1>1 DEF RootLits, InputLits
  <2>2. InputLits(GateVars)' = InputLits(GateVars)
    BY <1>2 DEF InputLits
  <2>3. \A X : GatesOf(RootLits \cup InputLits(X))' = GatesOf(RootLits \cup InputLits(X))
    BY <1>2, <2>1 DEF GatesOf, Var
  <2>4. Range(candidates') \subseteq RootLits' /\ pool' \cup frontier' \subseteq InputLits(GateVars)'
    BY <2>1, <2>2 DEF AllReached
  <2>5. ASSUME NEW X \in SUBSET GateVars', GatesOf(RootLits \cup InputLits(X))' \subseteq X
        PROVE  X = GateVars'
    <3>1. X \in SUBSET GateVars /\ GatesOf(RootLits \cup InputLits(X)) \subseteq X
      BY <1>2, <2>3, <2>5
    <3> QED BY <1>2, <3>1 DEF AllReached
  <2> QED BY <2>4, <2>5 DEF AllReached
<1> QED BY <1>3, <1>5, <1>6

(* New roots: no gate has its output in one of them.                       *)
LEMMA AddRootsReach ==
    ASSUME AnalysisInv, PatternsDefine, InputsExact, AllReached, AddRoots
    PROVE  PatternsDefine' /\ InputsExact' /\ AllReached'
<1> DEFINE new == UNION {Lit(c) : c \in Range(root_clauses)}
<1>1. FormulaRight /\ roots \in Seq(Clauses) /\ root_clauses \in Seq(Clauses) /\ pc = "loop"
  BY DEF AnalysisInv, AnalysisTypeOK, AddRoots
<1>2. /\ UNCHANGED <<formula, unitc, gates, pool, frontier>> /\ inputs' = inputs \cup new
      /\ roots' = roots \o root_clauses /\ root_clauses' = <<>> /\ candidates' = Joined(root_clauses)
  BY DEF AddRoots, indexVars
<1>3. pc' # "estimate"
  BY DEF AddRoots, RoundOrThrow
<1>4. /\ Clauses' = Clauses /\ Vars' = Vars /\ Lits' = Lits /\ Used' = Used /\ \A c : Lit(c)' = Lit(c)
  BY <1>1, <1>2, SameFormula
<1>5. GateVars' = GateVars /\ \A v : Defining(v)' = Defining(v)
  BY <1>1, <1>2, SameGates
<1>6. Range(roots') = Range(roots) \cup Range(root_clauses) /\ Range(root_clauses') = {}
  <2>1. Range(roots') = Range(roots) \cup Range(root_clauses)
    BY <1>1, <1>2, RangeConcatenation
  <2>2. Range(root_clauses') = {}
    BY <1>2 DEF Range
  <2> QED BY <2>1, <2>2
<1>7. Range(candidates') \subseteq new
  <2>1. Range(root_clauses) \subseteq Clauses
    BY <1>1, RangeOfSeq
  <2>2. \A c \in Range(root_clauses) : formula[c] \in Seq(new)
    <3> SUFFICES ASSUME NEW c \in Range(root_clauses) PROVE formula[c] \in Seq(new)
      OBVIOUS
    <3>1. formula[c] \in Seq(Used) /\ Range(formula[c]) \subseteq new
      BY <1>1, <2>1, ClauseUsed DEF Lit
    <3> HIDE DEF new
    <3> QED BY <3>1, SeqOfRange, SeqMonotonic
  <2> HIDE DEF new
  <2>3. candidates' \in Seq(new)
    BY <1>1, <1>2, <2>2, JoinedUsed
  <2> QED BY <2>3, RangeOfSeq
<1>8. new \subseteq Used /\ Used \subseteq Lits
  <2>1. new \subseteq Used
    <3>1. Range(root_clauses) \subseteq Clauses
      BY <1>1, RangeOfSeq
    <3> QED BY <1>1, <3>1 DEF FormulaRight
  <2>2. Used \subseteq Lits
    BY <1>1, LiteralIs DEF FormulaRight
  <2> QED BY <2>1, <2>2
<1>9. \A v \in GateVars : new \cap {2 * v, 2 * v + 1} = {}
  BY DEF InputsExact
<1>10. RootLits' = RootLits \cup new
  BY <1>4, <1>6 DEF RootLits
<1> HIDE DEF new
<1>11. PatternsDefine'
  BY <1>1, <1>2, SameDetermined
<1>12. \A U : Closed(U)' <=> Closed(U) /\ new \subseteq U
  BY <1>2, <1>4, <1>5, <1>6 DEF Closed, Neg, new
<1>13. InputsExact'
  <2>1. inputs' \subseteq Used' /\ Range(candidates') \cup pool' \cup frontier' \subseteq inputs'
    BY <1>2, <1>4, <1>7, <1>8 DEF InputsExact
  <2>2. \A v \in GateVars : ({2 * v, 2 * v + 1} \subseteq inputs' <=> {2 * v, 2 * v + 1} \subseteq inputs)
                            /\ (gates[v].out \in inputs' => gates[v].out \in inputs)
    <3> SUFFICES ASSUME NEW v \in GateVars
                 PROVE  ({2 * v, 2 * v + 1} \subseteq inputs' <=> {2 * v, 2 * v + 1} \subseteq inputs)
                        /\ (gates[v].out \in inputs' => gates[v].out \in inputs)
      OBVIOUS
    <3>1. gates[v].out \in Used /\ Var(gates[v].out) = v /\ NVars(formula) \in Nat
      BY <1>1 DEF AnalysisInv, AnalysisTypeOK, FormulaRight
    <3>2. gates[v].out \in {2 * v, 2 * v + 1}
      BY <3>1, LiteralIs
    <3> QED BY <1>2, <1>9, <3>2
  <2>3. Closed(inputs')
    BY <1>2, <1>8, <2>2 DEF InputsExact, Closed
  <2>4. Closed(inputs)'
    <3>1. Closed(inputs)' <=> Closed(inputs') /\ new \subseteq inputs'
      BY <1>2, <1>4, <1>5, <1>6 DEF Closed, Neg, new
    <3> QED BY <1>2, <2>3, <3>1
  <2>5. \A U \in SUBSET Lits' : Closed(U)' => inputs' \subseteq U
    BY <1>2, <1>4, <1>12 DEF InputsExact
  <2>6. \A v \in GateVars' : gates'[v].notMono <=> {2 * v, 2 * v + 1} \subseteq inputs'
    BY <1>2, <1>5, <2>2 DEF InputsExact
  <2>7. (pc' # "estimate" => unitc' = <<>>) /\ (unitc' # <<>> => GateVars' = {})
    BY <1>1, <1>2, <1>5 DEF InputsExact
  <2>8. \A v \in GateVars', c \in Range(root_clauses') : Lit(c)' \cap {2 * v, 2 * v + 1} = {}
    BY <1>6
  <2> QED BY <2>1, <2>4, <2>5, <2>6, <2>7, <2>8 DEF InputsExact
<1>14. AllReached'
  <2>1. \A V : InputLits(V)' = InputLits(V)
    BY <1>2 DEF InputLits
  <2>2. InputLits(GateVars)' = InputLits(GateVars)
    BY <1>2, <1>5 DEF InputLits
  <2>3. \A X : GatesOf(RootLits \cup InputLits(X)) \subseteq GatesOf(RootLits \cup InputLits(X))'
    BY <1>5, <1>10, <2>1 DEF GatesOf, Var
  <2>4. Range(candidates') \subseteq RootLits' /\ pool' \cup frontier' \subseteq InputLits(GateVars)'
    BY <1>2, <1>7, <1>10, <2>2 DEF AllReached
  <2>5. ASSUME NEW X \in SUBSET GateVars', GatesOf(RootLits \cup InputLits(X))' \subseteq X
        PROVE  X = GateVars'
    BY <1>5, <2>3, <2>5 DEF AllReached
  <2> QED BY <2>4, <2>5 DEF AllReached
<1> QED BY <1>11, <1>13, <1>14

(* A gate is added.                                                        *)
LEMMA GateAdded ==
    ASSUME AnalysisInv, NEW out \in Used, Check(out), Verdict(out).type # "NONE"
    PROVE  LET v == Var(out)
               inp == GetInputLiterals(Neg(out), index[Neg(out)])
           IN /\ v \in Vars /\ {2 * v, 2 * v + 1} = {out, Neg(out)}
              /\ v \notin GateVars /\ GateVars' = GateVars \cup {v}
              /\ \A w \in GateVars : gates'[w] = gates[w] /\ w # v
              /\ gates'[v] = [type |-> Verdict(out).type, out |-> out, fwd |-> index[Neg(out)], bwd |-> index[out],
                              notMono |-> ~IsNestedMonotonic(out), inp |-> inp]
              /\ inputs' = inputs \cup Range(inp)
                             \cup (IF IsNestedMonotonic(out) THEN {} ELSE {Neg(l) : l \in Range(inp)})
              /\ frontier' = frontier \cup Range(inp)
              /\ Range(inp) \subseteq Used
              /\ \A w \in GateVars \cup {v} : Range(inp) \cap {2 * w, 2 * w + 1} = {}
<1> DEFINE fwd == index[Neg(out)]
           inp == GetInputLiterals(Neg(out), fwd)
           v == Var(out)
           gate == [type |-> Verdict(out).type, out |-> out, fwd |-> fwd, bwd |-> index[out],
                    notMono |-> ~IsNestedMonotonic(out), inp |-> inp]
           left == (UNION {Lit(c) : c \in Range(fwd)}) \ {Neg(out)}
<1>1. FormulaRight /\ AnalysisTypeOK /\ IndexHolds(index, Remainder, Lits) /\ OutputsGone
  BY DEF AnalysisInv
<1>2. /\ NVars(formula) \in Nat /\ out \in Lits /\ Neg(out) \in Lits /\ v \in Vars
      /\ {2 * v, 2 * v + 1} = {out, Neg(out)} /\ DOMAIN gates = Vars
  BY <1>1, LiteralIs DEF FormulaRight, AnalysisTypeOK
<1>3. /\ fwd \in Seq(Clauses) /\ Range(fwd) = {c \in Remainder : Neg(out) \in Lit(c)}
  BY <1>1, <1>2 DEF IndexHolds
<1>4. UNCHANGED formula /\ frontier' = frontier \cup Range(inp) /\ gates' = [gates EXCEPT ![v] = gate]
  BY DEF Check, AddGate
<1>5. inputs' = inputs \cup Range(inp) \cup (IF IsNestedMonotonic(out) THEN {} ELSE {Neg(l) : l \in Range(inp)})
  BY DEF Check, AddGate
<1>6. v \notin GateVars
  <2> SUFFICES ASSUME v \in GateVars PROVE FALSE
    OBVIOUS
  <2>1. \A c \in Remainder : Neg(out) \notin Lit(c)
    BY <1>1, <1>2 DEF OutputsGone
  <2>2. Range(fwd) = {}
    BY <1>3, <2>1
  <2>3. Len(fwd) \in Nat /\ DOMAIN fwd = 1 .. Len(fwd)
    BY <1>3, LenProperties
  <2>4. ~(1 \in DOMAIN fwd)
    BY <2>2 DEF Range
  <2>5. Len(fwd) = 0
    BY <2>3, <2>4
  <2> QED BY <1>3, <2>5, RecognizedIs, EmptySeq
<1> HIDE DEF inp
<1>7. gates'[v] = gate /\ \A w \in Vars \ {v} : gates'[w] = gates[w]
  BY <1>2, <1>4
<1>8. GateVars' = GateVars \cup {v} /\ \A w \in GateVars : gates'[w] = gates[w] /\ w # v
  <2>1. gate.type # NoGate.type
    BY DEF NoGate
  <2>2. gate # NoGate
    BY <2>1
  <2>3. Vars' = Vars
    BY <1>1, <1>4, SameFormula
  <2> HIDE DEF gate, v
  <2> QED BY <1>2, <1>6, <1>7, <2>2, <2>3 DEF GateVars, IsDefined
<1>9. Range(inp) \subseteq left
  <2>1. \A c \in Range(fwd) : Neg(out) \in Lit(c) /\ Lit(c) \ {Neg(out)} \subseteq left
    BY <1>3
  <2> HIDE DEF fwd, left
  <2>2. inp \in Seq(left)
    BY <1>1, <1>3, <2>1, InputsUsed DEF inp
  <2> QED BY <2>2, RangeOfSeq
<1>10. ASSUME NEW l \in left
       PROVE  l \in Used /\ \A w \in GateVars \cup {v} : l \notin {2 * w, 2 * w + 1}
  <2>1. PICK c \in Range(fwd) : l \in Lit(c) /\ l # Neg(out)
    OBVIOUS
  <2>2. c \in Remainder /\ c \in Clauses /\ Neg(out) \in Lit(c)
    BY <1>3, RangeOfSeq
  <2>3. Lit(c) \subseteq Used /\ out \notin Lit(c)
    <3>1. Lit(c) \subseteq Used /\ Neg(Neg(out)) \notin Lit(c)
      BY <1>1, <2>2, ClauseIs
    <3> QED BY <1>2, <3>1, LiteralIs
  <2>4. \A w \in GateVars : l \notin {2 * w, 2 * w + 1}
    BY <1>1, <2>1, <2>2 DEF OutputsGone
  <2>5. l \notin {2 * v, 2 * v + 1}
    BY <1>2, <2>1, <2>3
  <2> HIDE DEF v
  <2> QED BY <2>1, <2>3, <2>4, <2>5
<1>11. Range(inp) \subseteq Used /\ \A w \in GateVars \cup {v} : Range(inp) \cap {2 * w, 2 * w + 1} = {}
  <2> HIDE DEF left, v
  <2> QED BY <1>9, <1>10
<1> QED BY <1>2, <1>4, <1>5, <1>6, <1>7, <1>8, <1>11 DEF inp

(* A gate is added: its output is one of the literals that are used, and   *)
(* its inputs belong to no gate found before.                              *)
LEMMA GateReach ==
    ASSUME AnalysisInv, PatternsDefine, InputsExact, AllReached,
           NEW out \in Used, Check(out), Verdict(out).type # "NONE", pc = "recognize",
           out \in Range(candidates) \cup pool,
           Range(candidates') \subseteq Range(candidates), pool' \subseteq pool
    PROVE  PatternsDefine' /\ InputsExact' /\ AllReached'
<1> DEFINE v == Var(out)
           inp == GetInputLiterals(Neg(out), index[Neg(out)])
           both == {Neg(l) : l \in Range(inp)}
           D == Range(index[Neg(out)]) \cup Range(index[out])
<1>1. /\ FormulaRight /\ AnalysisTypeOK /\ IndexHolds(index, Remainder, Lits) /\ root_clauses = <<>>
      /\ NVars(formula) \in Nat
  BY DEF AnalysisInv, FormulaRight
<1>2. UNCHANGED <<formula, unitc, root_clauses, roots, pc>>
  BY DEF Check
<1>3. /\ v \in Vars /\ {2 * v, 2 * v + 1} = {out, Neg(out)} /\ v \notin GateVars
      /\ GateVars' = GateVars \cup {v}
      /\ \A w \in GateVars : gates'[w] = gates[w] /\ w # v
      /\ gates'[v] = [type |-> Verdict(out).type, out |-> out, fwd |-> index[Neg(out)], bwd |-> index[out],
                      notMono |-> ~IsNestedMonotonic(out), inp |-> inp]
      /\ inputs' = inputs \cup Range(inp) \cup (IF IsNestedMonotonic(out) THEN {} ELSE both)
      /\ frontier' = frontier \cup Range(inp)
      /\ Range(inp) \subseteq Used /\ \A w \in GateVars \cup {v} : Range(inp) \cap {2 * w, 2 * w + 1} = {}
  BY GateAdded
<1>4. /\ gates'[v].out = out /\ gates'[v].inp = inp /\ gates'[v].type = Verdict(out).type
      /\ gates'[v].notMono <=> {2 * v, 2 * v + 1} \subseteq inputs
      /\ Defining(v)' = D
  <2> HIDE DEF v, inp
  <2>1. gates'[v].out = out /\ gates'[v].inp = inp /\ gates'[v].type = Verdict(out).type
    BY <1>3
  <2>2. gates'[v].fwd = index[Neg(out)] /\ gates'[v].bwd = index[out]
    BY <1>3
  <2>3. gates'[v].notMono = ~IsNestedMonotonic(out)
    BY <1>3
  <2>4. ~IsNestedMonotonic(out) <=> {2 * v, 2 * v + 1} \subseteq inputs
    BY <1>3 DEF IsNestedMonotonic
  <2> QED BY <2>1, <2>2, <2>3, <2>4 DEF Defining
<1>5. /\ Clauses' = Clauses /\ Vars' = Vars /\ Lits' = Lits /\ Used' = Used /\ \A c : Lit(c)' = Lit(c)
  BY <1>1, <1>2, SameFormula
<1>6. both \subseteq Used /\ \A w \in GateVars \cup {v} : both \cap {2 * w, 2 * w + 1} = {}
  <2> SUFFICES ASSUME NEW l \in Range(inp)
               PROVE  Neg(l) \in Used /\ \A w \in GateVars \cup {v} : Neg(l) \notin {2 * w, 2 * w + 1}
    OBVIOUS
  <2>1. l \in Used /\ Neg(l) \in Used /\ Neg(Neg(l)) = l
    BY <1>1, <1>3, LiteralIs
  <2>2. \A w \in GateVars \cup {v} : w = v \/ (gates[w].out \in Used /\ Var(gates[w].out) = w)
    BY <1>1 DEF AnalysisTypeOK
  <2>3. \A w \in GateVars \cup {v} : \E k \in Used : {2 * w, 2 * w + 1} = {k, Neg(k)} /\ Neg(Neg(k)) = k
    BY <1>1, <1>3, <2>2, LiteralIs
  <2>4. \A w \in GateVars \cup {v} : l \notin {2 * w, 2 * w + 1}
    BY <1>3
  <2> HIDE DEF v, inp
  <2> QED BY <2>1, <2>3, <2>4
<1> HIDE DEF v, inp, both
<1>7. out \in inputs
  BY DEF InputsExact
<1>8. PatternsDefine'
  <2> SUFFICES ASSUME NoDuplicates, NEW w \in PatternGates' PROVE Determines(Defining(w), w)'
    <3>1. NoDuplicates' <=> NoDuplicates
      BY <1>5 DEF NoDuplicates
    <3> QED BY <3>1 DEF PatternsDefine
  <2>1. CASE w = v
    <3>1. Verdict(out).type \notin {"NONE", "GENERIC"}
      BY <1>4, <2>1 DEF PatternGates
    <3>2. Determines(D, v)
      BY <1>1, <3>1, PatternDetermines DEF v
    <3> HIDE DEF D
    <3> QED BY <1>4, <1>5, <2>1, <3>2 DEF Determines, Satisfied, Var
  <2>2. CASE w # v
    <3>1. w \in GateVars /\ gates'[w] = gates[w] /\ w \in PatternGates
      BY <1>3, <2>2 DEF PatternGates
    <3>2. Determines(Defining(w), w) /\ Defining(w)' = Defining(w)
      BY <3>1 DEF PatternsDefine, Defining
    <3> QED BY <1>5, <3>2 DEF Determines, Satisfied, Var
  <2> QED BY <2>1, <2>2
<1>9. \A w \in GateVars \cup {v} : {2 * w, 2 * w + 1} \subseteq inputs' <=> {2 * w, 2 * w + 1} \subseteq inputs
  BY <1>3, <1>6
<1>10. \A w \in GateVars : gates[w].out \in inputs' => gates[w].out \in inputs
  <2> SUFFICES ASSUME NEW w \in GateVars, gates[w].out \in inputs' PROVE gates[w].out \in inputs
    OBVIOUS
  <2>1. gates[w].out \in Used /\ Var(gates[w].out) = w
    BY <1>1 DEF AnalysisTypeOK
  <2>2. gates[w].out \in {2 * w, 2 * w + 1}
    BY <1>1, <2>1, LiteralIs
  <2> QED BY <1>3, <1>6, <2>2
<1>11. \A U : Closed(U)' <=> /\ Closed(U) /\ (out \in U => Range(inp) \subseteq U)
                             /\ {2 * v, 2 * v + 1} \subseteq U => both \subseteq U
  <2> TAKE U
  <2>1. Closed(U)' <=> /\ \A c \in Range(roots) : Lit(c) \subseteq U
                       /\ \A w \in GateVars \cup {v} :
                            /\ gates'[w].out \in U => Range(gates'[w].inp) \subseteq U
                            /\ {2 * w, 2 * w + 1} \subseteq U => {Neg(l) : l \in Range(gates'[w].inp)} \subseteq U
    BY <1>2, <1>3, <1>5 DEF Closed, Neg
  <2>2. \A w \in GateVars : gates'[w] = gates[w]
    BY <1>3
  <2> QED BY <1>4, <2>1, <2>2 DEF Closed, both
<1>12. InputsExact'
  <2>1. inputs' \subseteq Used' /\ Range(candidates') \cup pool' \cup frontier' \subseteq inputs'
    BY <1>3, <1>5, <1>6 DEF InputsExact
  <2>2. Closed(inputs')
    BY <1>3, <1>9, <1>10 DEF InputsExact, Closed
  <2>3. Closed(inputs)'
    <3>1. {2 * v, 2 * v + 1} \subseteq inputs' => both \subseteq inputs'
      <4>1. {2 * v, 2 * v + 1} \subseteq inputs' => ~IsNestedMonotonic(out)
        BY <1>3, <1>9 DEF IsNestedMonotonic
      <4> QED BY <1>3, <4>1
    <3>2. Closed(inputs)' <=> /\ \A c \in Range(roots) : Lit(c) \subseteq inputs'
                              /\ \A w \in GateVars \cup {v} :
                                   /\ gates'[w].out \in inputs' => Range(gates'[w].inp) \subseteq inputs'
                                   /\ {2 * w, 2 * w + 1} \subseteq inputs'
                                        => {Neg(l) : l \in Range(gates'[w].inp)} \subseteq inputs'
      BY <1>2, <1>3, <1>5 DEF Closed, Neg
    <3>3. \A w \in GateVars : gates'[w] = gates[w]
      BY <1>3
    <3>4. Range(inp) \subseteq inputs'
      BY <1>3
    <3> QED BY <1>4, <2>2, <3>1, <3>2, <3>3, <3>4 DEF Closed, both
  <2>4. ASSUME NEW U \in SUBSET Lits', Closed(U)' PROVE inputs' \subseteq U
    <3>1. Closed(U) /\ inputs \subseteq U
      BY <1>5, <1>11, <2>4 DEF InputsExact
    <3>2. Range(inp) \subseteq U
      BY <1>7, <1>11, <2>4, <3>1
    <3>3. ~IsNestedMonotonic(out) => both \subseteq U
      BY <1>3, <1>11, <2>4, <3>1 DEF IsNestedMonotonic
    <3> QED BY <1>3, <3>1, <3>2, <3>3
  <2>5. \A w \in GateVars' : gates'[w].notMono <=> {2 * w, 2 * w + 1} \subseteq inputs'
    BY <1>3, <1>4, <1>9 DEF InputsExact
  <2>6. (pc' # "estimate" => unitc' = <<>>) /\ (unitc' # <<>> => GateVars' = {})
    BY <1>2 DEF InputsExact
  <2>7. \A w \in GateVars', c \in Range(root_clauses') : Lit(c)' \cap {2 * w, 2 * w + 1} = {}
    BY <1>1, <1>2 DEF Range
  <2> QED BY <2>1, <2>3, <2>4, <2>5, <2>6, <2>7 DEF InputsExact
<1>13. AllReached'
  <2>1. RootLits' = RootLits
    BY <1>2, <1>5 DEF RootLits
  <2>2. \A X \in SUBSET GateVars : InputLits(X)' = InputLits(X)
    BY <1>3 DEF InputLits
  <2>3. InputLits(GateVars)' = InputLits(GateVars) \cup Range(inp)
    BY <1>3, <1>4 DEF InputLits
  <2>4. Range(candidates') \subseteq RootLits' /\ pool' \cup frontier' \subseteq InputLits(GateVars)'
    BY <1>3, <2>1, <2>3 DEF AllReached
  <2>5. ASSUME NEW X \in SUBSET GateVars', GatesOf(RootLits \cup InputLits(X))' \subseteq X
        PROVE  X = GateVars'
    <3> DEFINE Y == X \ {v}
    <3>1. Y \in SUBSET GateVars /\ Y \subseteq X
      BY <1>3
    <3>2. InputLits(Y) \subseteq InputLits(X)'
      <4>1. InputLits(Y)' = InputLits(Y) /\ InputLits(Y)' \subseteq InputLits(X)'
        BY <2>2, <3>1 DEF InputLits
      <4> QED BY <4>1
    <3> HIDE DEF Y
    <3>3. GatesOf(RootLits \cup InputLits(Y)) \subseteq Y
      <4>1. \A w \in GatesOf(RootLits \cup InputLits(Y)) : w \in GateVars /\ w \in GatesOf(RootLits \cup InputLits(X))'
        BY <1>3, <2>1, <3>2 DEF GatesOf, Var
      <4> QED BY <1>3, <2>5, <4>1 DEF Y
    <3>4. Y = GateVars
      BY <3>1, <3>3 DEF AllReached
    <3>5. out \in RootLits \cup InputLits(Y)
      BY <3>4 DEF AllReached
    <3>6. v \in GatesOf(RootLits \cup InputLits(X))'
      BY <1>3, <2>1, <3>2, <3>5 DEF GatesOf, Var, v
    <3> QED BY <1>3, <2>5, <3>1, <3>4, <3>6
  <2> QED BY <2>4, <2>5 DEF AllReached
<1> QED BY <1>8, <1>12, <1>13

-----------------------------------------------------------------------------
(* The breadth-first search for levels.                                    *)

(* It starts with the literals of the roots.                               *)
LEMMA StartLevelsExact == AnalysisInv /\ StartLevels => LevelsExact'
<1> SUFFICES ASSUME AnalysisInv, StartLevels, beyond' = 0 PROVE LevelsExact'
  BY DEF LevelsExact
<1>1. FormulaRight /\ NVars(formula) \in Nat
  BY DEF AnalysisInv, FormulaRight
<1>2. PICK g \in Garbage : /\ beyond' = g
                           /\ levels' = [v \in Vars |-> IF v < NVars(formula) THEN 0 ELSE g]
  BY DEF StartLevels
<1>3. /\ level' = 0 /\ current' = RootLits /\ pc' = "level" /\ UNCHANGED <<formula, gates, roots>>
  BY DEF StartLevels, gateVars, RootLits
<1>4. Vars' = Vars /\ RootLits' = RootLits
  <2>1. \A c : Lit(c)' = Lit(c)
    BY <1>1, <1>3, SameFormula
  <2>2. Vars' = Vars
    BY <1>1, <1>3, SameFormula
  <2> QED BY <1>3, <2>1, <2>2 DEF RootLits
<1>5. levels' \in [Vars -> Nat] /\ \A v \in Vars : ~(levels'[v] > 0)
  BY <1>2
<1>6. {u \in Vars' : levels'[u] > 0} = {}
  BY <1>4, <1>5
<1>7. InputLits({u \in Vars : levels[u] > 0})' = {}
  BY <1>6 DEF InputLits
<1>8. \A v \in GatesOf(RootLits \cup InputLits({u \in Vars : levels[u] > 0}))' : \E l \in current' : Var(l) = v
  BY <1>3, <1>4, <1>7 DEF GatesOf, Var
<1>9. levels' \in [Vars' -> Nat] /\ level' \in Nat /\ (pc' = "done" => current' = {})
      /\ \A v \in Vars' : levels'[v] > 0 => v \in GateVars'
  BY <1>3, <1>4, <1>5
<1> QED BY <1>8, <1>9 DEF LevelsExact, Var

(* One more level.                                                         *)
LEMMA NextLevelExact == AnalysisInv /\ LevelsExact /\ NextLevel => LevelsExact'
<1> SUFFICES ASSUME AnalysisInv, LevelsExact, NextLevel, beyond' = 0 PROVE LevelsExact'
  BY DEF LevelsExact
<1> DEFINE reached == {v \in {Var(l) : l \in current} : IsDefined(v) /\ levels[v] = 0}
           old == {u \in Vars : levels[u] > 0}
           new == {u \in Vars : levels'[u] > 0}
<1>1. FormulaRight /\ AnalysisTypeOK
  BY DEF AnalysisInv
<1>2. /\ pc = "level" /\ pc' = "level" /\ beyond = 0 /\ level' = level + 1
      /\ levels' = [v \in Vars |-> IF v \in reached THEN level' ELSE levels[v]]
      /\ current' = UNION {Range(gates[v].inp) : v \in reached}
      /\ UNCHANGED <<formula, gates, roots>>
  BY DEF NextLevel, gateVars
<1>3. /\ levels \in [Vars -> Nat] /\ level \in Nat
      /\ \A v \in old : v \in GateVars
      /\ \A v \in GatesOf(RootLits \cup InputLits(old)) : levels[v] > 0 \/ \E l \in current : Var(l) = v
  BY <1>2 DEF LevelsExact
<1>4. Vars' = Vars /\ GateVars' = GateVars /\ RootLits' = RootLits
  <2>1. \A c : Lit(c)' = Lit(c)
    BY <1>1, <1>2, SameFormula
  <2>2. Vars' = Vars /\ GateVars' = GateVars
    BY <1>1, <1>2, SameFormula, SameGates
  <2> QED BY <1>2, <2>1, <2>2 DEF RootLits
<1>5. level' \in Nat /\ level' > 0
  BY <1>2, <1>3
<1>6. \A v \in Vars : levels'[v] = IF v \in reached THEN level' ELSE levels[v]
  BY <1>2
<1>7. levels' \in [Vars -> Nat]
  <2> HIDE DEF reached
  <2> QED BY <1>2, <1>3, <1>5
<1>8. new = old \cup (reached \cap Vars)
  <2> HIDE DEF reached
  <2> QED BY <1>5, <1>6
<1>9. \A v \in new : v \in GateVars
  BY <1>3, <1>8 DEF GateVars
<1>10. InputLits(new) \subseteq InputLits(old) \cup current'
  <2> HIDE DEF reached, old, new
  <2> QED BY <1>2, <1>8 DEF InputLits
<1>11. InputLits({u \in Vars : levels[u] > 0})' = InputLits(new)
  BY <1>2, <1>4 DEF InputLits
<1> HIDE DEF new, old
<1>12. ASSUME NEW v \in GatesOf(RootLits \cup InputLits({u \in Vars : levels[u] > 0}))'
       PROVE  levels'[v] > 0 \/ \E l \in current' : Var(l) = v
  <2>1. v \in GateVars /\ v \in Vars /\ \E l \in RootLits \cup InputLits(new) : Var(l) = v
    BY <1>4, <1>11 DEF GatesOf, Var, GateVars
  <2>2. PICK l \in RootLits \cup InputLits(new) : Var(l) = v
    BY <2>1
  <2>3. CASE l \in current'
    BY <2>2, <2>3
  <2>4. CASE l \in RootLits \cup InputLits(old)
    <3>1. v \in GatesOf(RootLits \cup InputLits(old))
      BY <2>1, <2>2, <2>4 DEF GatesOf
    <3>2. levels[v] > 0 \/ \E k \in current : Var(k) = v
      BY <1>3, <3>1
    <3>3. levels[v] \in Nat
      BY <1>3, <2>1
    <3>4. levels[v] > 0 \/ v \in reached
      BY <2>1, <3>2, <3>3 DEF GateVars
    <3> HIDE DEF reached
    <3> QED BY <1>5, <1>6, <2>1, <3>4
  <2> QED BY <1>10, <2>2, <2>3, <2>4
<1>13. levels' \in [Vars' -> Nat] /\ level' \in Nat /\ (pc' = "done" => current' = {})
       /\ \A v \in Vars' : levels'[v] > 0 => v \in GateVars'
  BY <1>2, <1>4, <1>5, <1>7, <1>9 DEF new
<1> QED BY <1>12, <1>13 DEF LevelsExact, Var

(* Steps after which the levels are what they were.                        *)
LEMMA SameLevels ==
    ASSUME AnalysisInv, LevelsExact, UNCHANGED <<formula, gates, roots, levels, beyond, level, current>>,
           pc' \in {"level", "done"} => pc \in {"level", "done"}, pc' = "done" => current = {}
    PROVE  LevelsExact'
<1> SUFFICES ASSUME pc' \in {"level", "done"}, beyond' = 0 PROVE LevelsExact'
  BY DEF LevelsExact
<1>1. FormulaRight
  BY DEF AnalysisInv
<1>2. Vars' = Vars /\ GateVars' = GateVars /\ \A c : Lit(c)' = Lit(c)
  BY <1>1, SameFormula, SameGates
<1>3. RootLits' = RootLits
  BY <1>2 DEF RootLits
<1>4. InputLits({u \in Vars : levels[u] > 0})' = InputLits({u \in Vars : levels[u] > 0})
  BY <1>2 DEF InputLits
<1>5. GatesOf(RootLits \cup InputLits({u \in Vars : levels[u] > 0}))'
        = GatesOf(RootLits \cup InputLits({u \in Vars : levels[u] > 0}))
  BY <1>2, <1>3, <1>4 DEF GatesOf, Var
<1>6. /\ levels \in [Vars -> Nat] /\ level \in Nat /\ \A v \in Vars : levels[v] > 0 => v \in GateVars
      /\ \A v \in GatesOf(RootLits \cup InputLits({u \in Vars : levels[u] > 0})) :
           levels[v] > 0 \/ \E l \in current : Var(l) = v
  BY DEF LevelsExact
<1> QED BY <1>2, <1>5, <1>6 DEF LevelsExact, Var

-----------------------------------------------------------------------------
(* The inductive invariant of the gates.                                   *)

(* Before the analysis there are no gates, roots and inputs.               *)
LEMMA InitGates == Init => GatesInv
<1> SUFFICES ASSUME Init PROVE GatesInv
  OBVIOUS
<1>1. AnalysisInv
  BY InitInv
<1>2. GateVars = {}
  BY DEF Init, GateVars, IsDefined
<1>3. /\ Range(roots) = {} /\ Range(candidates) = {} /\ Range(root_clauses) = {}
      /\ pool = {} /\ frontier = {} /\ inputs = {} /\ pc = "estimate"
  BY DEF Init, Range
<1>4. PatternsDefine
  BY <1>2 DEF PatternsDefine, PatternGates
<1>5. InputsExact
  BY <1>2, <1>3 DEF InputsExact, Closed
<1>6. AllReached
  BY <1>2, <1>3 DEF AllReached
<1>7. LevelsExact
  BY <1>3 DEF LevelsExact
<1> QED BY <1>1, <1>4, <1>5, <1>6, <1>7 DEF GatesInv

(* The candidate of a check, with what is left to try.                     *)
LEMMA CheckGates ==
    ASSUME GatesInv, NEW out \in Used, Check(out), pc = "recognize",
           out \in Range(candidates) \cup pool,
           Range(candidates') \subseteq Range(candidates), pool' \subseteq pool
    PROVE  PatternsDefine' /\ InputsExact' /\ AllReached' /\ LevelsExact'
<1>1. AnalysisInv /\ FormulaRight /\ PatternsDefine /\ InputsExact /\ AllReached
  BY DEF GatesInv, AnalysisInv
<1>2. UNCHANGED <<formula, unitc, root_clauses, roots, pc>>
  BY DEF Check
<1>3. LevelsExact'
  BY <1>2 DEF LevelsExact
<1>4. CASE Verdict(out).type # "NONE"
  BY <1>1, <1>3, <1>4, GateReach
<1>5. CASE Verdict(out).type = "NONE"
  <2>1. UNCHANGED <<gates, inputs, frontier>>
    BY <1>5 DEF Check
  <2>2. /\ unitc' \in {unitc, <<>>} /\ (pc' # "estimate" => unitc' = <<>>)
        /\ \A v \in GateVars, c \in Range(root_clauses') : Lit(c) \cap {2 * v, 2 * v + 1} = {}
    BY <1>1, <1>2 DEF InputsExact
  <2>3. pool' \cup frontier' \subseteq pool \cup frontier
    BY <2>1
  <2> QED BY <1>1, <1>2, <1>3, <2>1, <2>2, <2>3, ReachStays
<1> QED BY <1>4, <1>5

(* The new root clauses are unit clauses, before there are gates, or come  *)
(* out of the index, where no clause has the output of a gate.             *)
LEMMA EstimateRootsGates ==
    ASSUME AnalysisInv, InputsExact, EstimateRoots
    PROVE  /\ unitc' = <<>>
           /\ \A v \in GateVars, c \in Range(root_clauses') : Lit(c) \cap {2 * v, 2 * v + 1} = {}
<1>1. AnalysisTypeOK /\ OutputsGone /\ NVars(formula) \in Nat
  BY DEF AnalysisInv, FormulaRight
<1>2. CASE unitc # <<>>
  BY <1>2 DEF EstimateRoots, InputsExact
<1>3. CASE unitc = <<>> /\ MaxLiteral > 0
  <2>1. root_clauses' = index[MaxLiteral] /\ unitc' = <<>>
    BY <1>3 DEF EstimateRoots
  <2>2. MaxLiteral \in Lits
    BY <1>1, MaxLiteralIs DEF Lits
  <2>3. Range(root_clauses') \subseteq Remainder
    BY <2>1, <2>2 DEF Remainder
  <2> QED BY <1>1, <2>1, <2>3 DEF OutputsGone
<1>4. CASE unitc = <<>> /\ ~(MaxLiteral > 0)
  <2>1. root_clauses' = <<>> /\ unitc' = <<>>
    BY <1>4 DEF EstimateRoots
  <2>2. Range(root_clauses') = {}
    BY <2>1 DEF Range
  <2> QED BY <2>1, <2>2
<1> QED BY <1>2, <1>3, <1>4

(* Every step keeps what is said of the gates.                             *)
LEMMA NextGates == GatesInv /\ [Next]_vars => GatesInv'
<1> SUFFICES ASSUME GatesInv, [Next]_vars PROVE PatternsDefine' /\ InputsExact' /\ AllReached' /\ LevelsExact'
  BY NextInv DEF GatesInv
<1>1. /\ AnalysisInv /\ FormulaRight /\ PatternsDefine /\ InputsExact /\ AllReached /\ LevelsExact
      /\ candidates \in Seq(Used) /\ pool \subseteq Used
  BY DEF GatesInv, AnalysisInv, AnalysisTypeOK
<1> DEFINE free == \A v \in GateVars, c \in Range(root_clauses) : Lit(c) \cap {2 * v, 2 * v + 1} = {}
<1>2. free /\ (pc # "estimate" => unitc = <<>>)
  BY <1>1 DEF InputsExact
<1>3. ASSUME UNCHANGED <<formula, unitc, roots, gates, inputs, candidates, pool, frontier>>,
             root_clauses' \in {root_clauses, <<>>}, pc # "estimate"
      PROVE  PatternsDefine' /\ InputsExact' /\ AllReached'
  <2>1. Range(root_clauses') \subseteq Range(root_clauses)
    BY <1>3 DEF Range
  <2>2. \A v \in GateVars, c \in Range(root_clauses') : Lit(c) \cap {2 * v, 2 * v + 1} = {}
    BY <1>2, <2>1
  <2>3. unitc' \in {unitc, <<>>} /\ (pc' # "estimate" => unitc' = <<>>)
    BY <1>2, <1>3
  <2>4. Range(candidates') \subseteq Range(candidates) /\ pool' \cup frontier' \subseteq pool \cup frontier
    BY <1>3
  <2> QED BY <1>1, <1>3, <2>2, <2>3, <2>4, ReachStays
<1> HIDE DEF free
<1>4. CASE EstimateRoots
  <2>1. UNCHANGED <<formula, roots, gates, inputs, candidates, pool, frontier>> /\ pc' = "loop"
    BY <1>4 DEF EstimateRoots, gateVars, searchVars
  <2>2. Range(candidates') \subseteq Range(candidates) /\ pool' \cup frontier' \subseteq pool \cup frontier
    BY <2>1
  <2>3. LevelsExact'
    BY <2>1 DEF LevelsExact
  <2> QED BY <1>1, <1>4, <2>1, <2>2, <2>3, EstimateRootsGates, ReachStays
<1>5. CASE AddRoots
  <2>1. pc' \notin {"level", "done"}
    BY <1>5 DEF AddRoots, RoundOrThrow
  <2> QED BY <1>1, <1>5, <2>1, AddRootsReach DEF LevelsExact
<1>6. CASE TimeOut
  <2>1. /\ UNCHANGED <<formula, unitc, roots, gates, inputs, candidates, pool, frontier>>
        /\ root_clauses' = <<>> /\ pc = "loop" /\ pc' = "levels"
    BY <1>6 DEF TimeOut, indexVars, gateVars, searchVars
  <2> QED BY <1>3, <2>1 DEF LevelsExact
<1>7. CASE Finish
  <2>1. /\ UNCHANGED <<formula, unitc, roots, gates, inputs, candidates, pool, frontier>>
        /\ root_clauses' = root_clauses /\ pc = "loop" /\ pc' = "levels"
    BY <1>7 DEF Finish, indexVars, gateVars, searchVars
  <2> QED BY <1>3, <2>1 DEF LevelsExact
<1>8. CASE CheckCandidate
  <2>1. /\ candidates # <<>> /\ Check(Head(candidates)) /\ pc = "recognize"
        /\ candidates' = Tail(candidates) /\ pool' = pool
    BY <1>8 DEF CheckCandidate
  <2>2. Head(candidates) \in Used /\ Head(candidates) \in Range(candidates)
        /\ Range(candidates') \subseteq Range(candidates)
    <3>1. Len(candidates) \in Nat /\ Len(candidates) # 0 /\ DOMAIN candidates = 1 .. Len(candidates)
      BY <1>1, <2>1, LenProperties, EmptySeq
    <3>2. Head(candidates) = candidates[1] /\ 1 \in DOMAIN candidates
      BY <3>1
    <3>3. /\ candidates' \in Seq(Used) /\ Len(candidates') = Len(candidates) - 1
          /\ \A i \in 1 .. Len(candidates') : candidates'[i] = candidates[i + 1]
      BY <1>1, <2>1, HeadTailProperties
    <3>4. DOMAIN candidates' = 1 .. Len(candidates')
      BY <3>3, LenProperties
    <3>5. \A i \in 1 .. Len(candidates') : candidates'[i] \in Range(candidates)
      BY <3>1, <3>3 DEF Range
    <3>6. Range(candidates') \subseteq Range(candidates)
      BY <3>4, <3>5 DEF Range
    <3>7. candidates[1] \in Used /\ candidates[1] \in Range(candidates)
      BY <1>1, <3>1, <3>2, ElementOfSeq DEF Range
    <3> QED BY <3>2, <3>6, <3>7
  <2> QED BY <2>1, <2>2, CheckGates
<1>9. CASE CheckPool
  <2>1. PICK out \in pool : Check(out) /\ pool' = pool \ {out}
    BY <1>9 DEF CheckPool
  <2>2. pc = "recognize" /\ candidates' = candidates
    BY <1>9 DEF CheckPool
  <2>3. out \in Used /\ out \in Range(candidates) \cup pool
        /\ Range(candidates') \subseteq Range(candidates) /\ pool' \subseteq pool
    BY <1>1, <2>1, <2>2
  <2> QED BY <2>1, <2>2, <2>3, CheckGates
<1>10. CASE NextRound
  <2>1. /\ UNCHANGED <<formula, unitc, root_clauses, roots, gates, inputs, candidates>>
        /\ pool' = frontier /\ frontier' = {} /\ pc = "recognize"
    BY <1>10 DEF NextRound, indexVars, gateVars
  <2>2. pc' \notin {"level", "done"}
    BY <1>10 DEF NextRound, RoundOrThrow
  <2>3. Range(candidates') \subseteq Range(candidates) /\ pool' \cup frontier' \subseteq pool \cup frontier
    BY <2>1
  <2>4. unitc' \in {unitc, <<>>} /\ (pc' # "estimate" => unitc' = <<>>)
        /\ \A v \in GateVars, c \in Range(root_clauses') : Lit(c) \cap {2 * v, 2 * v + 1} = {}
    BY <1>2, <2>1 DEF free
  <2>5. LevelsExact'
    BY <2>2 DEF LevelsExact
  <2> QED BY <1>1, <2>1, <2>3, <2>4, <2>5, ReachStays
<1>11. CASE StartLevels
  <2>1. /\ UNCHANGED <<formula, unitc, roots, gates, inputs, candidates, pool, frontier>>
        /\ root_clauses' = root_clauses /\ pc = "levels"
    BY <1>11 DEF StartLevels, indexVars, gateVars, searchVars
  <2> QED BY <1>1, <1>3, <1>11, <2>1, StartLevelsExact
<1>12. CASE NextLevel
  <2>1. /\ UNCHANGED <<formula, unitc, roots, gates, inputs, candidates, pool, frontier>>
        /\ root_clauses' = root_clauses /\ pc = "level"
    BY <1>12 DEF NextLevel, indexVars, gateVars, searchVars
  <2> QED BY <1>1, <1>3, <1>12, <2>1, NextLevelExact
<1>13. CASE EndLevels
  <2>1. /\ UNCHANGED <<formula, unitc, roots, gates, inputs, candidates, pool, frontier>>
        /\ root_clauses' = root_clauses /\ pc = "level" /\ current = {}
        /\ UNCHANGED <<levels, beyond, level, current>>
    BY <1>13 DEF EndLevels, indexVars, gateVars, searchVars, levelVars
  <2> QED BY <1>1, <1>3, <2>1, SameLevels
<1>14. CASE UNCHANGED vars
  <2>1. /\ UNCHANGED <<formula, unitc, root_clauses, roots, gates, inputs, candidates, pool, frontier>>
        /\ UNCHANGED <<levels, beyond, level, current, pc>>
    BY <1>14 DEF vars, indexVars, gateVars, searchVars, levelVars
  <2>2. LevelsExact'
    <3>1. pc' = "done" /\ beyond' = 0 => current = {}
      BY <1>1, <2>1 DEF LevelsExact
    <3>2. CASE beyond = 0
      BY <1>1, <2>1, <3>1, <3>2, SameLevels
    <3>3. CASE beyond # 0
      BY <2>1, <3>3 DEF LevelsExact
    <3> QED BY <3>2, <3>3
  <2>3. /\ unitc' \in {unitc, <<>>} /\ (pc' # "estimate" => unitc' = <<>>)
        /\ \A v \in GateVars, c \in Range(root_clauses') : Lit(c) \cap {2 * v, 2 * v + 1} = {}
        /\ Range(candidates') \subseteq Range(candidates) /\ pool' \cup frontier' \subseteq pool \cup frontier
    BY <1>2, <2>1 DEF free
  <2> QED BY <1>1, <2>1, <2>2, <2>3, ReachStays
<1>15. CASE Done
  BY <1>14, <1>15 DEF Done
<1> QED BY <1>4, <1>5, <1>6, <1>7, <1>8, <1>9, <1>10, <1>11, <1>12, <1>13, <1>14, <1>15 DEF Next

(* The marked literals are the least closed set, so that the flags are     *)
(* what a computation over the finished gates gives.                       *)
LEMMA ExactFlags ==
    ASSUME FormulaRight, InputsExact
    PROVE  MonotonicityExact
<1> DEFINE Least(U) == Closed(U) /\ \A W \in SUBSET U : Closed(W) => W = U
           used == CHOOSE U \in SUBSET Lits : Least(U)
<1>1. inputs \in SUBSET Lits
  <2>1. Used \subseteq Lits
    BY LiteralIs DEF FormulaRight
  <2> QED BY <2>1 DEF InputsExact
<1>2. Closed(inputs) /\ \A U \in SUBSET Lits : Closed(U) => inputs \subseteq U
  BY DEF InputsExact
<1>3. Least(inputs)
  BY <1>1, <1>2
<1>4. ASSUME NEW U \in SUBSET Lits, Least(U) PROVE U = inputs
  BY <1>2, <1>4
<1>5. used = inputs
  <2> HIDE DEF Least
  <2> QED BY <1>1, <1>3, <1>4
<1>6. \A v \in GateVars : gates[v].notMono <=> {2 * v, 2 * v + 1} \subseteq used
  <2> HIDE DEF used
  <2> QED BY <1>5 DEF InputsExact
<1> QED BY <1>6 DEF MonotonicityExact

(* When the search for levels ends, the gates with a level are closed.     *)
LEMMA ExactLevels ==
    ASSUME AllReached, LevelsExact
    PROVE  LevelsAssigned
<1> SUFFICES ASSUME pc = "done", beyond = 0, NEW v \in Vars PROVE levels[v] > 0 <=> IsDefined(v)
  BY DEF LevelsAssigned
<1> DEFINE X == {u \in Vars : levels[u] > 0}
<1>1. /\ current = {} /\ \A u \in Vars : levels[u] > 0 => u \in GateVars
      /\ \A u \in GatesOf(RootLits \cup InputLits(X)) : levels[u] > 0 \/ \E l \in current : Var(l) = u
  BY DEF LevelsExact
<1>2. X \in SUBSET GateVars
  BY <1>1
<1>3. GatesOf(RootLits \cup InputLits(X)) \subseteq X
  <2>1. \A u \in GatesOf(RootLits \cup InputLits(X)) : u \in Vars
    BY DEF GatesOf, GateVars
  <2> QED BY <1>1, <2>1
<1>4. X = GateVars
  <2> HIDE DEF X
  <2> QED BY <1>2, <1>3 DEF AllReached
<1> QED BY <1>4 DEF GateVars

-----------------------------------------------------------------------------
(* The theorems.                                                           *)

(* The inductive invariant of the analysis: the index has every clause     *)
(* that is left, once in the list of each of its literals, what is taken   *)
(* out of it is one thing, and nothing that is left has the variable of a  *)
(* gate (OccurrenceList, GateAnalyzer::gate_recognition).                  *)
THEOREM AnalysisRight == Spec => []AnalysisInv
BY InitInv, NextInv, PTL DEF Spec

(* Roots, gates and remainder partition the formula, at every step of the  *)
(* analysis before a time limit is reached (GateFormula).                  *)
THEOREM PartitionRight == Spec => []PartitionInTime
BY AnalysisRight, OnePlace, PTL

(* Gates never depend on each other in a cycle (GateFormula::addGate).     *)
THEOREM AcyclicRight == Spec => []GatesAcyclic
<1>1. AnalysisInv => GatesAcyclic
  BY DEF AnalysisInv
<1> QED BY <1>1, AnalysisRight, PTL

(* The inductive invariant of what is said of the gates: the clauses of a  *)
(* pattern gate determine its output, the marked literals are the least    *)
(* set that is closed under the inputs of gates, and every gate is reached *)
(* from the roots (GateFormula::addGate, GateAnalyzer::checkAddGate,       *)
(* GateStats::analyze).                                                    *)
THEOREM GatesInvariant == Spec => []GatesInv
BY InitGates, NextGates, PTL DEF Spec

(* Pattern gates define their outputs, all together and for every          *)
(* assignment of the other variables, the flag notMono is exact, and every *)
(* gate gets a level (isFullGate and the other pattern checks,             *)
(* GateFormula::addGate, GateStats::analyze).                              *)
THEOREM GatesAreRight == Spec => []GatesRight
<1>1. GatesInv => GatesRight
  <2> SUFFICES ASSUME GatesInv PROVE GatesRight
    OBVIOUS
  <2>1. /\ FormulaRight /\ AnalysisTypeOK /\ GatesAcyclic
        /\ PatternsDefine /\ InputsExact /\ AllReached /\ LevelsExact
    BY DEF GatesInv, AnalysisInv
  <2>2. PatternsDetermined
    BY <2>1, AllDetermined DEF PatternsDefine
  <2>3. MonotonicityExact
    BY <2>1, ExactFlags
  <2>4. LevelsAssigned
    BY <2>1, ExactLevels
  <2> QED BY <2>2, <2>3, <2>4 DEF GatesRight
<1> QED BY <1>1, GatesInvariant, PTL
=============================================================================
