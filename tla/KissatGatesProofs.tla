-------------------------- MODULE KissatGatesProofs --------------------------
(***************************************************************************)
(* Proofs about the detector in Kissat and the scripts that select its     *)
(* gates, for all formulas without tautologies.  First that each extractor *)
(* returns clauses that leave one value for the output, then what unit     *)
(* propagation computes, and that every action preserves KissatInv; from   *)
(* it follow DetectorRight and InputsSuffice.                              *)
(***************************************************************************)
EXTENDS KissatGates, Recursion

-----------------------------------------------------------------------------
(* Literals and clauses.                                                   *)

(* Clauses have literals of at least two variables, all of them numbered   *)
(* from 1.                                                                 *)
LEMMA ClauseIs ==
    ASSUME formula \in Inputs, NEW C \in formula
    PROVE  /\ IsFiniteSet(C) /\ Cardinality(C) > 1
           /\ \A l \in C : l \in Int /\ l # 0 /\ -l \notin C /\ Var(l) \in Vars
           /\ \A l \in C : \A k \in C \ {l} : Var(k) # Var(l)
<1>1. /\ IsFiniteSet(C) /\ Cardinality(C) > 1
      /\ \A l \in C : l \in Int /\ l # 0 /\ -l \notin C
  BY KissatAssumption
<1>2. \A l \in C : Var(l) \in Vars
  BY DEF Vars
<1>3. \A l \in C : \A k \in C \ {l} : Var(k) # Var(l)
  BY <1>1 DEF Var
<1> QED BY <1>1, <1>2, <1>3

(* There are finitely many variables.                                      *)
LEMMA VarsFinite ==
    ASSUME formula \in Inputs
    PROVE  IsFiniteSet(Vars) /\ Vars \subseteq Nat \ {0} /\ Cardinality(Vars) \in Nat
<1>1. IsFiniteSet(formula) /\ \A C \in formula : IsFiniteSet(C)
  BY KissatAssumption
<1>2. IsFiniteSet(UNION formula)
  BY <1>1, FS_UNION
<1> DEFINE F == [l \in UNION formula |-> Var(l)]
<1>3. F \in Surjection(UNION formula, Vars)
  BY DEF Surjection, Vars
<1>4. IsFiniteSet(Vars)
  BY <1>2, <1>3, FS_Surjection DEF ExistsSurjection
<1>5. \A l \in UNION formula : Var(l) \in Nat \ {0}
  BY ClauseIs DEF Var
<1> QED BY <1>4, <1>5, FS_CardinalityType DEF Vars

(* The complement of a literal.                                            *)
LEMMA Complements ==
    ASSUME NEW l \in Int, l # 0
    PROVE  -l \in Int /\ -l # 0 /\ -(-l) = l /\ Var(-l) = Var(l) /\ -l # l /\ ((-l > 0) <=> ~(l > 0))
BY DEF Var

(* A binary clause has another literal.                                    *)
LEMMA PairIs ==
    ASSUME NEW C, IsFiniteSet(C), Cardinality(C) = 2, NEW l \in C
    PROVE  \E k : C = {l, k} /\ k # l
<1>1. IsFiniteSet(C \ {l}) /\ Cardinality(C \ {l}) = 1
  BY FS_RemoveElement
<1>2. PICK k : C \ {l} = {k}
  BY <1>1, FS_Singleton
<1> QED BY <1>2

(* A ternary clause with two literals has one more.                        *)
LEMMA TripleIs ==
    ASSUME NEW C, IsFiniteSet(C), Cardinality(C) = 3, NEW l \in C, NEW b \in C \ {l}
    PROVE  \E k : C = {l, b, k} /\ k # l /\ k # b
<1>1. IsFiniteSet(C \ {l}) /\ Cardinality(C \ {l}) = 2
  BY FS_RemoveElement
<1>2. PICK k : C \ {l} = {b, k} /\ k # b
  BY <1>1, PairIs
<1> QED BY <1>2

-----------------------------------------------------------------------------
(* The extractors.                                                         *)

\* The literal k is false, and so are all literals of C but l.
FalseAt(s, k) == s[Var(k)] # (k > 0)
FalseBut(s, C, l) == \A k \in C \ {l} : FalseAt(s, k)

\* The units among the variables of the clauses that are not the output hold.
UnitsHold(s, v, K) == \A u \in values : Var(u) \in VarsOf(K) \ {v} => s[Var(u)] = (u > 0)

\* Some clause leaves only one value for v.
Determined(s, v, K) == \E C \in K : \E l \in C : Var(l) = v /\ FalseBut(s, C, l)

(* Such a clause is falsified by one of the two values.                    *)
LEMMA OneValueFails ==
    ASSUME formula \in Inputs, NEW K, K \subseteq formula, NEW v \in Vars,
           NEW s \in [Vars -> BOOLEAN], Determined(s, v, K)
    PROVE  \E a \in BOOLEAN, C \in K : ~Satisfied(C, [s EXCEPT ![v] = a])
<1>1. PICK C \in K : \E l \in C : Var(l) = v /\ FalseBut(s, C, l)
  BY DEF Determined
<1>2. PICK l \in C : Var(l) = v /\ FalseBut(s, C, l)
  BY <1>1
<1> DEFINE a == ~(l > 0)
<1>3. ~Satisfied(C, [s EXCEPT ![v] = a])
  <2> SUFFICES ASSUME NEW k \in C PROVE [s EXCEPT ![v] = a][Var(k)] # (k > 0)
    BY DEF Satisfied
  <2>1. CASE k = l
    BY <1>2, <2>1
  <2>2. CASE k # l
    <3>1. Var(k) # v /\ Var(k) \in Vars
      BY <1>2, <2>2, ClauseIs
    <3> QED BY <1>2, <2>2, <3>1 DEF FalseBut, FalseAt
  <2> QED BY <2>1, <2>2
<1> QED BY <1>3

(* A literal that an extractor ignores is false where the units hold.      *)
LEMMA IgnoredFalse ==
    ASSUME formula \in Inputs, NEW K, K \subseteq formula, NEW C \in K, NEW k \in C,
           k \notin Unfalsified(C), NEW v, Var(k) # v, NEW s, UnitsHold(s, v, K)
    PROVE  FalseAt(s, k)
<1>1. -k \in values
  BY DEF Unfalsified
<1>2. C \in formula /\ k \in Int /\ k # 0
  BY ClauseIs
<1>3. Var(-k) = Var(k) /\ ((-k > 0) <=> ~(k > 0))
  BY <1>2, Complements
<1>4. Var(-k) \in VarsOf(K) \ {v}
  BY <1>3 DEF VarsOf
<1> QED BY <1>1, <1>3, <1>4 DEF UnitsHold, FalseAt

(* Occurrences are clauses of the formula with the literal.                *)
LEMMA OccurrenceIs ==
    ASSUME NEW l
    PROVE  /\ \A C \in Occurrences(l) : C \in formula /\ l \in C
           /\ Binaries(l) \subseteq Occurrences(l) /\ Live(l) \subseteq Occurrences(l)
           /\ \A C \in Binaries(l) : Cardinality(C) = 2
           /\ \A D : Matches(l, D) \subseteq Occurrences(l)
           /\ \A D : \A C \in Matches(l, D) : Unfalsified(C) \subseteq D
BY DEF Occurrences, Binaries, Live, Larges, Matches, Unfalsified

(* Of two complementary values one is false.                               *)
LEMMA OneIsFalse ==
    ASSUME NEW s \in [Vars -> BOOLEAN], NEW k \in Int, k # 0, Var(k) \in Vars
    PROVE  FalseAt(s, -k) <=> ~FalseAt(s, k)
<1>1. Var(-k) = Var(k) /\ ((-k > 0) <=> ~(k > 0)) /\ s[Var(k)] \in BOOLEAN
  BY Complements
<1> QED BY <1>1 DEF FalseAt

\* What an extractor returns for the output l.
Extracted(l, K) ==
  /\ K \subseteq formula /\ \A C \in K : l \in C \/ -l \in C
  /\ \A s \in [Vars -> BOOLEAN] : UnitsHold(s, Var(l), K) => Determined(s, Var(l), K)

(* Two binary clauses say that l is equivalent to another literal.         *)
LEMMA EquivalenceIs ==
    ASSUME formula \in Inputs, NEW l \in Int, NEW K \in Equivalences(l)
    PROVE  Extracted(l, K)
<1>1. PICK C \in Binaries(l), D \in Binaries(-l) :
         K = {C, D} /\ D \ {-l} = {-k : k \in C \ {l}}
  BY DEF Equivalences
<1>2. C \in formula /\ l \in C /\ Cardinality(C) = 2 /\ D \in formula /\ -l \in D
  BY <1>1, OccurrenceIs
<1>3. PICK k : C = {l, k} /\ k # l
  BY <1>2, ClauseIs, PairIs
<1>4. D \ {-l} = {-k}
  BY <1>1, <1>3
<1>5. l \in Int /\ l # 0 /\ k \in Int /\ k # 0 /\ Var(k) \in Vars /\ Var(-l) = Var(l)
  BY <1>2, <1>3, ClauseIs, Complements
<1>6. ASSUME NEW s \in [Vars -> BOOLEAN] PROVE Determined(s, Var(l), K)
  <2>1. CASE FalseAt(s, k)
    <3>1. FalseBut(s, C, l)
      BY <1>3, <2>1 DEF FalseBut
    <3> QED BY <1>1, <1>2, <3>1 DEF Determined
  <2>2. CASE ~FalseAt(s, k)
    <3>1. FalseAt(s, -k)
      BY <1>5, <2>2, OneIsFalse
    <3>2. FalseBut(s, D, -l)
      BY <1>4, <3>1 DEF FalseBut
    <3> QED BY <1>1, <1>2, <1>5, <3>2 DEF Determined
  <2> QED BY <2>1, <2>2
<1> QED BY <1>1, <1>2, <1>6 DEF Extracted

(* A base clause and for each literal that is not false in it a binary     *)
(* clause.                                                                 *)
LEMMA AndIs ==
    ASSUME formula \in Inputs, NEW l \in Int, NEW K \in Ands(l)
    PROVE  Extracted(l, K)
<1>1. PICK B \in Live(-l) :
         /\ \A k \in Unfalsified(B) \ {-l} : {l, -k} \in Binaries(l)
         /\ K = {B} \cup {{l, -k} : k \in Unfalsified(B) \ {-l}}
  <2>1. K \in {{B} \cup {{l, -k} : k \in Unfalsified(B) \ {-l}} :
                 B \in {B \in Live(-l) : \A k \in Unfalsified(B) \ {-l} : {l, -k} \in Binaries(l)}}
    BY DEF Ands
  <2> QED BY <2>1
<1>2. B \in formula /\ -l \in B /\ B \in K
  BY <1>1, OccurrenceIs
<1>3. K \subseteq formula /\ \A C \in K : l \in C \/ -l \in C
  BY <1>1, <1>2, OccurrenceIs
<1>4. -l \in Int /\ -l # 0
  BY <1>2, ClauseIs
<1>5. Var(-l) = Var(l)
  BY DEF Var
<1>6. ASSUME NEW s \in [Vars -> BOOLEAN], UnitsHold(s, Var(l), K)
      PROVE  Determined(s, Var(l), K)
  <2>1. CASE FalseBut(s, B, -l)
    BY <1>2, <1>5, <2>1 DEF Determined
  <2>2. CASE ~FalseBut(s, B, -l)
    <3>1. PICK k \in B \ {-l} : ~FalseAt(s, k)
      BY <2>2 DEF FalseBut
    <3>2. Var(k) # Var(l) /\ k \in Int /\ k # 0 /\ Var(k) \in Vars
      BY <1>2, <1>5, ClauseIs
    <3>3. k \in Unfalsified(B)
      BY <1>2, <1>3, <1>6, <3>1, <3>2, IgnoredFalse
    <3>4. {l, -k} \in K
      BY <1>1, <3>1, <3>3
    <3>5. FalseBut(s, {l, -k}, l)
      BY <3>1, <3>2, OneIsFalse DEF FalseBut
    <3> QED BY <3>4, <3>5 DEF Determined
  <2> QED BY <2>1, <2>2
<1> QED BY <1>3, <1>6 DEF Extracted

(* Whichever value the condition has, a base clause or its partner leaves  *)
(* one value: if the literal c is false the base clause, else a clause     *)
(* with no literals but the output's complement, -b and -c.                *)
LEMMA BranchIs ==
    ASSUME formula \in Inputs, NEW l \in Int, NEW K, K \subseteq formula,
           NEW C \in K, NEW M \in K, l \in C, -l \in M,
           NEW b \in Int, b # 0, NEW c \in C \ {l},
           Unfalsified(C) \subseteq {l, b, c}, Unfalsified(M) \subseteq {-l, b, -c},
           NEW s \in [Vars -> BOOLEAN], UnitsHold(s, Var(l), K), FalseAt(s, b)
    PROVE  Determined(s, Var(l), K)
<1>1. C \in formula /\ M \in formula /\ Var(-l) = Var(l) /\ c \in Int /\ c # 0 /\ Var(c) \in Vars
  BY ClauseIs DEF Var
<1>2. CASE FalseAt(s, c)
  <2>1. ASSUME NEW k \in C \ {l} PROVE FalseAt(s, k)
    <3>1. Var(k) # Var(l)
      BY <1>1, ClauseIs
    <3>2. CASE k \notin Unfalsified(C)
      BY <3>1, <3>2, IgnoredFalse
    <3>3. CASE k \in Unfalsified(C)
      BY <1>2, <3>3
    <3> QED BY <3>2, <3>3
  <2> QED BY <2>1 DEF Determined, FalseBut
<1>3. CASE ~FalseAt(s, c)
  <2>1. FalseAt(s, -c)
    BY <1>1, <1>3, OneIsFalse
  <2>2. ASSUME NEW k \in M \ {-l} PROVE FalseAt(s, k)
    <3>1. Var(k) # Var(l)
      BY <1>1, ClauseIs
    <3>2. CASE k \notin Unfalsified(M)
      BY <3>1, <3>2, IgnoredFalse
    <3>3. CASE k \in Unfalsified(M)
      BY <2>1, <3>3
    <3> QED BY <3>2, <3>3
  <2> QED BY <1>1, <2>2 DEF Determined, FalseBut
<1> QED BY <1>2, <1>3

(* The other literal of a ternary clause.                                  *)
LEMMA BranchPicks ==
    ASSUME NEW C, NEW l \in Unfalsified(C), NEW b \in Unfalsified(C) \ {l},
           IsFiniteSet(Unfalsified(C)), Cardinality(Unfalsified(C)) = 3
    PROVE  Branch(C, l, b) \in C \ {l} /\ Unfalsified(C) \subseteq {l, b, Branch(C, l, b)}
<1>1. PICK k : Unfalsified(C) = {l, b, k} /\ k # l /\ k # b
  BY TripleIs
<1>2. Branch(C, l, b) = k
  BY <1>1 DEF Branch
<1>3. k \in C
  BY <1>1 DEF Unfalsified
<1> QED BY <1>1, <1>2, <1>3

(* Four clauses of an if-then-else with the condition b.                   *)
LEMMA IfThenElseIs ==
    ASSUME formula \in Inputs, NEW l \in Int, -l \notin values, NEW K \in IfThenElses(l)
    PROVE  Extracted(l, K)
<1> DEFINE ternary == {C \in Live(l) : Cardinality(Unfalsified(C)) = 3}
<1>1. PICK C1 \in ternary, C2 \in ternary, b \in UNION ternary :
         /\ b # l /\ b \in Unfalsified(C1) /\ -b \in Unfalsified(C2)
         /\ \E M1 \in Matches(-l, {-l, b, -Branch(C1, l, b)}), M2 \in Matches(-l, {-l, -b, -Branch(C2, l, -b)}) :
               K = {C1, C2, M1, M2}
  <2> DEFINE found(A, B, d) ==
               {{A, B, M[1], M[2]} : M \in Matches(-l, {-l, d, -Branch(A, l, d)})
                                            \X Matches(-l, {-l, -d, -Branch(B, l, -d)})}
             P == {q \in ternary \X ternary \X UNION ternary :
                     /\ q[1] # q[2] /\ q[3] # l
                     /\ q[3] \in Unfalsified(q[1]) /\ -q[3] \in Unfalsified(q[2])
                     /\ Var(Branch(q[1], l, q[3])) # Var(Branch(q[2], l, -q[3]))}
  <2>1. K \in UNION {found(p[1], p[2], p[3]) : p \in P}
    BY DEF IfThenElses
  <2>2. PICK p \in P : K \in found(p[1], p[2], p[3])
    <3> HIDE DEF found, P
    <3> QED BY <2>1
  <2>3. /\ p[1] \in ternary /\ p[2] \in ternary /\ p[3] \in UNION ternary
        /\ p[3] # l /\ p[3] \in Unfalsified(p[1]) /\ -p[3] \in Unfalsified(p[2])
    <3> HIDE DEF ternary
    <3> QED OBVIOUS
  <2>4. PICK M \in Matches(-l, {-l, p[3], -Branch(p[1], l, p[3])})
                   \X Matches(-l, {-l, -p[3], -Branch(p[2], l, -p[3])}) : K = {p[1], p[2], M[1], M[2]}
    BY <2>2
  <2>5. \E M1 \in Matches(-l, {-l, p[3], -Branch(p[1], l, p[3])}),
           M2 \in Matches(-l, {-l, -p[3], -Branch(p[2], l, -p[3])}) : K = {p[1], p[2], M1, M2}
    BY <2>4
  <2> HIDE DEF ternary, P
  <2> QED BY <2>3, <2>5
<1>2. PICK M1 \in Matches(-l, {-l, b, -Branch(C1, l, b)}), M2 \in Matches(-l, {-l, -b, -Branch(C2, l, -b)}) :
               K = {C1, C2, M1, M2}
  BY <1>1
<1>3. /\ C1 \in formula /\ C2 \in formula /\ l \in C1 /\ l \in C2
      /\ M1 \in formula /\ M2 \in formula /\ -l \in M1 /\ -l \in M2
      /\ Unfalsified(M1) \subseteq {-l, b, -Branch(C1, l, b)}
      /\ Unfalsified(M2) \subseteq {-l, -b, -Branch(C2, l, -b)}
  BY OccurrenceIs
<1>4. b \in Int /\ b # 0 /\ -b \in Int /\ -b # 0 /\ Var(b) \in Vars /\ -b # l
  <2>1. b \in C1 /\ -b \in C2
    BY <1>1 DEF Unfalsified
  <2> QED BY <1>1, <1>3, <2>1, ClauseIs
<1>5. ASSUME NEW C \in ternary, NEW d \in Unfalsified(C), d # l
      PROVE  Branch(C, l, d) \in C \ {l} /\ Unfalsified(C) \subseteq {l, d, Branch(C, l, d)}
  <2>1. C \in formula /\ l \in C /\ Unfalsified(C) \subseteq C /\ l \in Unfalsified(C)
    BY OccurrenceIs DEF Unfalsified
  <2>2. IsFiniteSet(Unfalsified(C)) /\ Cardinality(Unfalsified(C)) = 3
    BY <2>1, ClauseIs, FS_Subset
  <2>3. d \in Unfalsified(C) \ {l}
    BY <1>5
  <2> QED BY <2>1, <2>2, <2>3, BranchPicks
<1>6. /\ Branch(C1, l, b) \in C1 \ {l} /\ Unfalsified(C1) \subseteq {l, b, Branch(C1, l, b)}
      /\ Branch(C2, l, -b) \in C2 \ {l} /\ Unfalsified(C2) \subseteq {l, -b, Branch(C2, l, -b)}
  BY <1>1, <1>4, <1>5
<1>7. ASSUME NEW s \in [Vars -> BOOLEAN], UnitsHold(s, Var(l), K)
      PROVE  Determined(s, Var(l), K)
  <2> HIDE DEF ternary
  <2>1. K \subseteq formula /\ C1 \in K /\ C2 \in K /\ M1 \in K /\ M2 \in K
    BY <1>2, <1>3
  <2>2. CASE FalseAt(s, b)
    BY <1>3, <1>4, <1>6, <1>7, <2>1, <2>2, BranchIs
  <2>3. CASE ~FalseAt(s, b)
    <3>1. FalseAt(s, -b)
      BY <1>4, <2>3, OneIsFalse
    <3> QED BY <1>3, <1>4, <1>6, <1>7, <2>1, <3>1, BranchIs
  <2> QED BY <2>2, <2>3
<1> HIDE DEF ternary
<1> QED BY <1>2, <1>3, <1>7 DEF Extracted

(* A clause whose literals that are not ignored are false but for the      *)
(* output.                                                                 *)
LEMMA OthersFalse ==
    ASSUME formula \in Inputs, NEW K, K \subseteq formula, NEW M \in K, NEW m \in M,
           NEW s, UnitsHold(s, Var(m), K), \A d \in Unfalsified(M) \ {m} : FalseAt(s, d)
    PROVE  Determined(s, Var(m), K)
<1>1. ASSUME NEW k \in M \ {m} PROVE FalseAt(s, k)
  <2>1. Var(k) # Var(m)
    BY ClauseIs
  <2>2. CASE k \notin Unfalsified(M)
    BY <2>1, <2>2, IgnoredFalse
  <2>3. CASE k \in Unfalsified(M)
    BY <2>3
  <2> QED BY <2>2, <2>3
<1> QED BY <1>1 DEF Determined, FalseBut

(* A clause for every even number of sign changes of the base clause.      *)
LEMMA XorIs ==
    ASSUME formula \in Inputs, NEW l \in Int, -l \notin values, NEW K \in Xors(l)
    PROVE  Extracted(l, K)
<1> DEFINE flip(C, S) == (C \ S) \cup {-k : k \in S}
           own(D) == IF l \in D THEN l ELSE -l
           even(C) == {S \in SUBSET Unfalsified(C) : S # {} /\ Cardinality(S) % 2 = 0}
           match(C, S) == Matches(own(flip(Unfalsified(C), S)), flip(Unfalsified(C), S))
           choices(C) == {f \in [even(C) -> formula] : \A S \in even(C) : f[S] \in match(C, S)}
<1>1. PICK C \in Live(l) : \E f \in choices(C) : K = {C} \cup Range(f)
  <2> DEFINE bases == {C \in Live(l) : /\ Cardinality(Unfalsified(C)) > 2
                                       /\ \A S \in even(C) : match(C, S) # {}}
  <2>1. K \in UNION {{{C} \cup Range(f) : f \in choices(C)} : C \in bases}
    BY DEF Xors
  <2>2. bases \subseteq Live(l)
    OBVIOUS
  <2> HIDE DEF bases, choices
  <2> QED BY <2>1, <2>2
<1>2. PICK f \in choices(C) : K = {C} \cup Range(f)
  BY <1>1
<1> DEFINE U == Unfalsified(C)
           E == even(C)
<1>3. /\ C \in formula /\ l \in C /\ l \in U /\ U \subseteq C /\ C \in K
      /\ IsFiniteSet(U)
  <2>1. C \in formula /\ l \in C /\ C \in K
    BY <1>2, OccurrenceIs
  <2>2. IsFiniteSet(C)
    BY <2>1, ClauseIs
  <2>3. U \subseteq C /\ l \in U
    BY <2>1 DEF Unfalsified
  <2> QED BY <2>1, <2>2, <2>3, FS_Subset
<1>4. ASSUME NEW S \in E
      PROVE  /\ f[S] \in K /\ f[S] \in formula /\ own(flip(U, S)) \in f[S]
             /\ Unfalsified(f[S]) \subseteq flip(U, S)
  <2> DEFINE D == flip(U, S)
             m == own(D)
  <2>1. f \in [E -> formula] /\ f[S] \in Matches(m, D)
    OBVIOUS
  <2>2. f[S] \in Range(f)
    <3> HIDE DEF E
    <3> QED BY <2>1 DEF Range
  <2> HIDE DEF E, D, m, choices
  <2>3. f[S] \in K
    BY <1>2, <2>2
  <2>4. m \in f[S] /\ f[S] \in formula /\ Unfalsified(f[S]) \subseteq D
    BY <2>1, OccurrenceIs
  <2> QED BY <2>3, <2>4 DEF D, m
<1>5. /\ K \subseteq formula
      /\ \A M \in K : M = C \/ \E S \in E : M = f[S]
  <2>1. f \in [E -> formula]
    OBVIOUS
  <2> HIDE DEF E, choices
  <2> QED BY <1>2, <1>3, <2>1 DEF Range
<1>6. \A M \in K : l \in M \/ -l \in M
  BY <1>3, <1>4, <1>5
<1>7. Var(-l) = Var(l)
  BY DEF Var
<1>8. ASSUME NEW s \in [Vars -> BOOLEAN], UnitsHold(s, Var(l), K)
      PROVE  Determined(s, Var(l), K)
  <2> DEFINE T == {k \in U \ {l} : ~FalseAt(s, k)}
  <2>1. IsFiniteSet(T) /\ T \subseteq U /\ l \notin T
    <3>1. T \subseteq U /\ l \notin T
      OBVIOUS
    <3> QED BY <1>3, <3>1, FS_Subset
  <2>2. Cardinality(T) \in Nat /\ Cardinality(T \cup {l}) = Cardinality(T) + 1 /\ (T # {} \/ Cardinality(T) = 0)
    BY <2>1, FS_CardinalityType, FS_AddElement, FS_EmptySet
  <2>3. CASE T = {}
    BY <1>3, <1>5, <1>8, <2>3, OthersFalse
  <2>4. ASSUME NEW S \in E, \A k \in U \ {l} : k \in S <=> ~FalseAt(s, k)
        PROVE  Determined(s, Var(l), K)
    <3> DEFINE D == flip(U, S)
               m == own(D)
    <3>1. m \in {l, -l} /\ Var(m) = Var(l)
      BY <1>7
    <3>2. \A d \in D \ {m} : FalseAt(s, d)
      <4>1. l \in D <=> l \notin S
        <5>1. \A k \in S : k \in C /\ -k # l
          BY <1>3, ClauseIs
        <5> QED BY <1>3, <5>1
      <4>2. ASSUME NEW d \in U \ S, d # m PROVE FalseAt(s, d)
        <5>1. d # l
          BY <4>1, <4>2
        <5> QED BY <2>4, <5>1
      <4>3. ASSUME NEW k \in S, -k # m PROVE FalseAt(s, -k)
        <5>1. k \in C /\ k \in Int /\ k # 0 /\ Var(k) \in Vars
          BY <1>3, ClauseIs
        <5>2. k # l
          BY <4>1, <4>3
        <5>3. ~FalseAt(s, k)
          BY <2>4, <5>2
        <5> QED BY <5>1, <5>3, OneIsFalse
      <4> QED BY <4>2, <4>3
    <3>3. /\ f[S] \in K /\ m \in f[S] /\ Unfalsified(f[S]) \subseteq D
      BY <1>4
    <3> HIDE DEF D, m, E, U, choices
    <3> QED BY <1>5, <1>8, <3>1, <3>2, <3>3, OthersFalse
  <2>5. CASE T # {} /\ Cardinality(T) % 2 = 0
    <3>1. T \in E /\ \A k \in U \ {l} : k \in T <=> ~FalseAt(s, k)
      BY <2>1, <2>5
    <3> QED BY <2>4, <3>1
  <2>6. CASE Cardinality(T) % 2 # 0
    <3> DEFINE S == T \cup {l}
    <3>1. Cardinality(S) % 2 = 0
      BY <2>2, <2>6
    <3>2. S \in E /\ \A k \in U \ {l} : k \in S <=> ~FalseAt(s, k)
      BY <1>3, <2>1, <3>1
    <3> HIDE DEF S, T, E
    <3> QED BY <2>4, <3>2
  <2> QED BY <2>3, <2>5, <2>6
<1> HIDE DEF choices, E, U
<1> QED BY <1>5, <1>6, <1>8 DEF Extracted

(* A core leaves a clause with no literal but the output or its            *)
(* complement.                                                             *)
LEMMA CoreClause ==
    ASSUME formula \in Inputs, NEW l \in Int, NEW K, Unsatisfiable(Environment(l, K)),
           NEW s \in [Vars -> BOOLEAN]
    PROVE  \E C \in K : \A k \in C \ {l, -l} : FalseAt(s, k)
<1>1. PICK D \in Environment(l, K) : ~Satisfied(D, s)
  BY DEF Unsatisfiable
<1>2. PICK C \in K : D = C \ {l, -l}
  BY <1>1 DEF Environment
<1> QED BY <1>1, <1>2 DEF Satisfied, FalseAt

(* The clauses of a core are a definition of the output.                   *)
LEMMA DefinitionIs ==
    ASSUME formula \in Inputs, NEW l \in Int, NEW K \in Definitions(l)
    PROVE  Extracted(l, K) /\ Unsatisfiable(Environment(l, K))
<1>1. K \subseteq Occurrences(l) \cup Occurrences(-l) /\ Unsatisfiable(Environment(l, K))
  BY DEF Definitions
<1>2. K \subseteq formula /\ \A C \in K : l \in C \/ -l \in C
  BY <1>1, OccurrenceIs
<1>3. Var(-l) = Var(l) /\ -(-l) = l
  BY DEF Var
<1>4. ASSUME NEW s \in [Vars -> BOOLEAN] PROVE Determined(s, Var(l), K)
  <2>1. PICK C \in K : \A k \in C \ {l, -l} : FalseAt(s, k)
    BY <1>1, CoreClause
  <2>2. CASE l \in C
    <3>1. -l \notin C
      BY <1>2, <2>2, ClauseIs
    <3> QED BY <2>1, <2>2, <3>1 DEF Determined, FalseBut
  <2>3. CASE -l \in C
    <3>1. l \notin C
      BY <1>2, <1>3, <2>3, ClauseIs
    <3> QED BY <1>3, <2>1, <2>3, <3>1 DEF Determined, FalseBut
  <2> QED BY <1>2, <2>2, <2>3
<1> QED BY <1>1, <1>2, <1>4 DEF Extracted

(* What an extractor finds for the complement defines the same variable.   *)
LEMMA ExtractedComplement ==
    ASSUME NEW l \in Int, NEW K, Extracted(-l, K)
    PROVE  Extracted(l, K)
<1>1. Var(-l) = Var(l) /\ -(-l) = l
  BY DEF Var
<1> QED BY <1>1 DEF Extracted

(* What the extractors find for a variable without a value.                *)
LEMMA FoundIs ==
    ASSUME formula \in Inputs, NEW l \in Int, l \notin values, -l \notin values,
           NEW gate \in FindGates(l), gate # NoGate
    PROVE  /\ gate = [type |-> gate.type, clauses |-> gate.clauses]
           /\ gate.type \in Types /\ Extracted(l, gate.clauses)
           /\ gate.type = "DEF" => Unsatisfiable(Environment(l, gate.clauses))
<1>1. -l \in Int /\ -(-l) = l
  OBVIOUS
<1>2. ASSUME NEW type, NEW Ks, gate \in Gates(type, Ks)
      PROVE  /\ gate = [type |-> gate.type, clauses |-> gate.clauses]
             /\ gate.type = type /\ gate.clauses \in Ks
  <2>1. PICK K \in Ks : gate = [type |-> type, clauses |-> K]
    BY <1>2 DEF Gates
  <2>2. gate.type = type /\ gate.clauses = K
    BY <2>1
  <2> QED BY <2>1, <2>2
<1>3. \/ gate \in Gates("EQV", Equivalences(l))
      \/ gate \in Gates("AND", Ands(l)) \/ gate \in Gates("AND", Ands(-l))
      \/ gate \in Gates("ITE", IfThenElses(l) \cup IfThenElses(-l))
      \/ gate \in Gates("XOR", Xors(l)) \/ gate \in Gates("XOR", Xors(-l))
      \/ gate \in Gates("DEF", Definitions(l))
  BY DEF FindGates
<1>4. CASE gate \in Gates("EQV", Equivalences(l))
  <2>1. /\ gate = [type |-> gate.type, clauses |-> gate.clauses]
        /\ gate.type = "EQV" /\ gate.clauses \in Equivalences(l)
    BY <1>2, <1>4
  <2> QED BY <2>1, EquivalenceIs DEF Types
<1>5. CASE gate \in Gates("AND", Ands(l))
  <2>1. /\ gate = [type |-> gate.type, clauses |-> gate.clauses]
        /\ gate.type = "AND" /\ gate.clauses \in Ands(l)
    BY <1>2, <1>5
  <2> QED BY <2>1, AndIs DEF Types
<1>6. CASE gate \in Gates("AND", Ands(-l))
  <2>1. /\ gate = [type |-> gate.type, clauses |-> gate.clauses]
        /\ gate.type = "AND" /\ gate.clauses \in Ands(-l)
    BY <1>2, <1>6
  <2>2. Extracted(-l, gate.clauses)
    BY <1>1, <2>1, AndIs
  <2> QED BY <2>1, <2>2, ExtractedComplement DEF Types
<1>7. CASE gate \in Gates("ITE", IfThenElses(l) \cup IfThenElses(-l))
  <2>1. /\ gate = [type |-> gate.type, clauses |-> gate.clauses]
        /\ gate.type = "ITE" /\ gate.clauses \in IfThenElses(l) \cup IfThenElses(-l)
    BY <1>2, <1>7
  <2>2. gate.clauses \in IfThenElses(-l) => Extracted(-l, gate.clauses)
    BY <1>1, IfThenElseIs
  <2>3. gate.clauses \in IfThenElses(l) => Extracted(l, gate.clauses)
    BY IfThenElseIs
  <2>4. Extracted(l, gate.clauses)
    BY <2>1, <2>2, <2>3, ExtractedComplement
  <2> QED BY <2>1, <2>4 DEF Types
<1>8. CASE gate \in Gates("XOR", Xors(l))
  <2>1. /\ gate = [type |-> gate.type, clauses |-> gate.clauses]
        /\ gate.type = "XOR" /\ gate.clauses \in Xors(l)
    BY <1>2, <1>8
  <2> QED BY <2>1, XorIs DEF Types
<1>9. CASE gate \in Gates("XOR", Xors(-l))
  <2>1. /\ gate = [type |-> gate.type, clauses |-> gate.clauses]
        /\ gate.type = "XOR" /\ gate.clauses \in Xors(-l)
    BY <1>2, <1>9
  <2>2. Extracted(-l, gate.clauses)
    BY <1>1, <2>1, XorIs
  <2> QED BY <2>1, <2>2, ExtractedComplement DEF Types
<1>10. CASE gate \in Gates("DEF", Definitions(l))
  <2>1. /\ gate = [type |-> gate.type, clauses |-> gate.clauses]
        /\ gate.type = "DEF" /\ gate.clauses \in Definitions(l)
    BY <1>2, <1>10
  <2> QED BY <2>1, DefinitionIs DEF Types
<1> QED BY <1>3, <1>4, <1>5, <1>6, <1>7, <1>8, <1>9, <1>10

(* Printing puts the output back in the clauses it was taken from.         *)
LEMMA PrintedIs ==
    ASSUME formula \in Inputs, NEW l \in Int, NEW K, K \subseteq formula,
           \A C \in K : l \in C \/ -l \in C
    PROVE  Printed(l, K) = K
<1> DEFINE printed(C) == (C \ {l, -l}) \cup {IF l \in C THEN l ELSE -l}
<1>1. ASSUME NEW C \in K PROVE printed(C) = C
  <2>1. \A k \in C : -k \notin C
    BY ClauseIs
  <2>2. ~(l \in C /\ -l \in C)
    BY <2>1
  <2> QED BY <2>2
<1>2. Printed(l, K) = {printed(C) : C \in K}
  BY DEF Printed
<1> HIDE DEF printed
<1> QED BY <1>1, <1>2

(* The variable tried next.                                                *)
LEMMA NextIs ==
    ASSUME formula \in Inputs, todo \subseteq Vars, todo # {}
    PROVE  /\ Next_idx \in todo /\ Next_idx \in Nat \ {0}
           /\ Candidate(Next_idx) \in {Next_idx, -Next_idx}
           /\ Var(Candidate(Next_idx)) = Next_idx
<1>1. todo \subseteq Nat \ {0}
  BY VarsFinite
<1>2. \E x \in todo : \A y \in todo : x <= y
  BY <1>1, LeastElement
<1>3. Next_idx \in todo
  BY <1>2 DEF Next_idx, Min
<1>4. Candidate(Next_idx) \in {Next_idx, -Next_idx}
  BY DEF Candidate
<1> QED BY <1>1, <1>3, <1>4 DEF Var

-----------------------------------------------------------------------------
(* KissatInv is inductive.                                                 *)

(* A core whose clauses all have the literal u proves it.                  *)
LEMMA UnitImplied ==
    ASSUME formula \in Inputs, NEW l \in Int, NEW K, K \subseteq formula,
           Unsatisfiable(Environment(l, K)), NEW u \in {l, -l}, \A C \in K : u \in C,
           NEW s \in [Vars -> BOOLEAN], \A C \in formula : Satisfied(C, s)
    PROVE  s[Var(u)] = (u > 0)
<1>1. PICK C \in K : \A k \in C \ {l, -l} : FalseAt(s, k)
  BY CoreClause
<1>2. PICK k \in C : s[Var(k)] = (k > 0)
  BY DEF Satisfied
<1>3. k \in {l, -l}
  BY <1>1, <1>2 DEF FalseAt
<1>4. u \in C /\ -u \notin C
  BY ClauseIs
<1> QED BY <1>2, <1>3, <1>4

(* A variable that is tried has no value yet.                              *)
LEMMA TriedUnvalued ==
    ASSUME KissatTypeOK, NEW l \in Int, Var(l) \in todo
    PROVE  l \notin values /\ -l \notin values
<1>1. Var(-l) = Var(l)
  BY DEF Var
<1> QED BY <1>1 DEF KissatTypeOK

(* The clauses found for a variable leave one value for it.                *)
LEMMA ExtractedFixes ==
    ASSUME formula \in Inputs, NEW l, Var(l) \in Vars, NEW K, Extracted(l, K)
    PROVE  Fixes(Var(l), K)
BY OneValueFails DEF Extracted, Fixes, UnitsHold

(* What TryVariable finds, with the unit it may prove.                     *)
LEMMA TryFinds ==
    ASSUME KissatInv, todo # {}, NEW gate \in FindGates(Candidate(Next_idx)), gate # NoGate
    PROVE  /\ gate.type \in Types /\ gate.clauses \subseteq formula
           /\ Printed(Candidate(Next_idx), gate.clauses) = gate.clauses
           /\ Fixes(Next_idx, gate.clauses)
           /\ gate.type = "DEF" => Unsatisfiable(Environment(Candidate(Next_idx), gate.clauses))
<1> DEFINE l == Candidate(Next_idx)
<1>1. /\ formula \in Inputs /\ Next_idx \in todo /\ Next_idx \in Vars
      /\ l \in Int /\ Var(l) = Next_idx
  BY NextIs DEF KissatInv, KissatTypeOK
<1> HIDE DEF l
<1>2. l \notin values /\ -l \notin values
  BY <1>1, TriedUnvalued DEF KissatInv
<1>3. /\ gate.type \in Types /\ Extracted(l, gate.clauses)
      /\ gate.type = "DEF" => Unsatisfiable(Environment(l, gate.clauses))
  BY <1>1, <1>2, FoundIs DEF l
<1>4. Fixes(Next_idx, gate.clauses)
  BY <1>1, <1>3, ExtractedFixes
<1>5. Printed(l, gate.clauses) = gate.clauses
  BY <1>1, <1>3, PrintedIs DEF Extracted
<1> QED BY <1>3, <1>4, <1>5 DEF l, Extracted

(* The units that TryVariable learns.                                      *)
LEMMA TryLearns ==
    ASSUME KissatInv, todo # {}, NEW gate \in FindGates(Candidate(Next_idx)),
           NEW u \in Units(Candidate(Next_idx), gate)
    PROVE  /\ gate # NoGate /\ u \in Int /\ u # 0 /\ Var(u) = Next_idx /\ gate.clauses \subseteq formula
           /\ Unsatisfiable(Environment(u, gate.clauses)) /\ \A C \in gate.clauses : u \in C
           /\ \A s \in [Vars -> BOOLEAN] :
                (\A C \in formula : Satisfied(C, s)) => s[Var(u)] = (u > 0)
<1> DEFINE l == Candidate(Next_idx)
<1>1. gate.type = "DEF" /\ u \in {l, -l} /\ \A C \in gate.clauses : u \in C
  BY DEF Units
<1>2. gate # NoGate
  BY <1>1 DEF NoGate
<1>3. /\ formula \in Inputs /\ l \in {Next_idx, -Next_idx} /\ Next_idx \in Nat \ {0}
  BY NextIs DEF KissatInv, KissatTypeOK
<1>4. gate.clauses \subseteq formula /\ Unsatisfiable(Environment(l, gate.clauses))
  BY <1>1, <1>2, TryFinds
<1> HIDE DEF l
<1>5. u \in Int /\ u # 0 /\ Var(u) = Next_idx /\ l \in Int
  BY <1>1, <1>3 DEF Var
<1>6. {u, -u} = {l, -l}
  BY <1>1, <1>5
<1>7. Environment(u, gate.clauses) = Environment(l, gate.clauses)
  BY <1>6 DEF Environment
<1>8. ASSUME NEW s \in [Vars -> BOOLEAN], \A C \in formula : Satisfied(C, s)
      PROVE  s[Var(u)] = (u > 0)
  BY <1>1, <1>3, <1>4, <1>5, <1>8, UnitImplied
<1> QED BY <1>1, <1>2, <1>4, <1>5, <1>7, <1>8

(* A gate stays right when other variables are tried.                      *)
LEMMA GateKept ==
    ASSUME formula' = formula, todo' \subseteq todo, values \subseteq values',
           NEW w, NEW K, GateRight(w, K), \A u \in values' \ values : Var(u) # w
    PROVE  GateRight(w, K)'
<1>1. Vars' = Vars
  BY DEF Vars
<1>2. Fixes(w, K)'
  BY <1>1 DEF GateRight, Fixes
<1>3. CoreOf(w, K)'
  BY <1>1 DEF GateRight, CoreOf, Unsatisfiable
<1> QED BY <1>1, <1>2, <1>3 DEF GateRight

(* The gate that TryVariable finds is right.                               *)
LEMMA TryGate ==
    ASSUME KissatInv, todo # {}, NEW gate \in FindGates(Candidate(Next_idx)), gate # NoGate,
           NEW v, v = Next_idx, formula' = formula, todo' = todo \ {v},
           values' = values \cup Units(Candidate(Next_idx), gate)
    PROVE  GateRight(v, gate.clauses)'
<1>1. Vars' = Vars
  BY DEF Vars
<1>2. v \in todo /\ v \in Vars /\ \A u \in values : Var(u) # v
  BY NextIs DEF KissatInv, KissatTypeOK
<1>3. gate.clauses \subseteq formula /\ Fixes(v, gate.clauses)
  BY TryFinds
<1>4. \A u \in values' : Var(u) = v =>
        Unsatisfiable(Environment(u, gate.clauses)) /\ \A C \in gate.clauses : u \in C
  BY <1>2, TryLearns
<1>5. Fixes(v, gate.clauses)'
  BY <1>1, <1>3 DEF Fixes
<1>6. CoreOf(v, gate.clauses)'
  BY <1>1, <1>4 DEF CoreOf, Unsatisfiable
<1> QED BY <1>1, <1>2, <1>3, <1>5, <1>6 DEF GateRight

(* The auxiliary variables of a step that writes none.                     *)
LEMMA AuxKept ==
    ASSUME AuxRight, formula' = formula, script' = script, todo' \subseteq todo, values \subseteq values',
           edges' = edges, aux' = aux, \A w \in Aux : \A u \in values' \ values : Var(u) # w
    PROVE  AuxRight'
<1>1. Aux' = Aux
  BY DEF Aux
<1>2. ASSUME NEW w \in Aux
      PROVE  \E K \in SUBSET formula :
               GateRight(w, K)' /\ (script = "select_aux_graph" => Sources(w, K) \subseteq edges)
  <2>1. PICK K \in SUBSET formula :
          GateRight(w, K) /\ (script = "select_aux_graph" => Sources(w, K) \subseteq edges)
    BY DEF AuxRight
  <2>2. GateRight(w, K)'
    BY <2>1, GateKept
  <2> QED BY <2>1, <2>2
<1> QED BY <1>1, <1>2 DEF AuxRight

(* A gate that is written goes to the end of the pipe.                     *)
LEMMA WrittenIs ==
    ASSUME NEW S, NEW p \in Seq(S), NEW g \in S, NEW q, q = Append(p, g)
    PROVE  /\ q \in Seq(S) /\ DOMAIN q = DOMAIN p \cup {Len(p) + 1} /\ q[Len(p) + 1] = g
           /\ \A i \in DOMAIN p : q[i] = p[i] /\ i # Len(p) + 1
<1>1. q \in Seq(S) /\ Len(q) = Len(p) + 1 /\ Len(p) \in Nat
  OBVIOUS
<1>2. DOMAIN q = 1 .. Len(q) /\ DOMAIN p = 1 .. Len(p)
  BY <1>1
<1>3. 1 .. Len(p) + 1 = (1 .. Len(p)) \cup {Len(p) + 1}
  BY <1>1
<1> QED BY <1>1, <1>2, <1>3

(* The pipe stays right when a gate is written to it.                      *)
LEMMA PipeKept ==
    ASSUME PipeRight, NEW S, pipe \in Seq(S), NEW g \in S, pipe' = Append(pipe, g), aux' = aux,
           \A i \in DOMAIN pipe : Ends(pipe[i]) =>
             \A w, K : w = pipe[i].lit /\ K = pipe[i].clauses => GateRight(w, K)',
           Ends(g) => /\ g.lit \notin Aux /\ \A i \in DOMAIN pipe : Ends(pipe[i]) => pipe[i].lit # g.lit
                      /\ \A w, K : w = g.lit /\ K = g.clauses => GateRight(w, K)'
    PROVE  PipeRight'
<1>1. /\ DOMAIN pipe' = DOMAIN pipe \cup {Len(pipe) + 1} /\ pipe'[Len(pipe) + 1] = g
      /\ \A i \in DOMAIN pipe : pipe'[i] = pipe[i] /\ i # Len(pipe) + 1
  BY WrittenIs
<1>2. Aux' = Aux
  BY DEF Aux
<1>3. ASSUME NEW i \in DOMAIN pipe', NEW e, e = pipe'[i], Ends(e), NEW w, NEW K, w = e.lit, K = e.clauses
      PROVE  /\ w \notin Aux /\ GateRight(w, K)'
             /\ \A j \in DOMAIN pipe' : Ends(pipe'[j]) /\ pipe'[j].lit = w => j = i
  <2>1. CASE i \in DOMAIN pipe
    <3>1. e = pipe[i]
      BY <1>1, <1>3, <2>1
    <3>2. w \notin Aux /\ GateRight(w, K)'
      BY <1>3, <2>1, <3>1 DEF PipeRight
    <3>3. \A j \in DOMAIN pipe : Ends(pipe[j]) /\ pipe[j].lit = w => j = i
      BY <1>3, <2>1, <3>1 DEF PipeRight
    <3>4. Ends(g) => g.lit # w
      BY <1>3, <2>1, <3>1
    <3> QED BY <1>1, <3>2, <3>3, <3>4
  <2>2. CASE i = Len(pipe) + 1
    <3>1. e = g
      BY <1>1, <1>3, <2>2
    <3> QED BY <1>1, <1>3, <2>2, <3>1
  <2> QED BY <1>1, <2>1, <2>2
<1>4. ASSUME NEW i \in DOMAIN pipe', Ends(pipe'[i])
      PROVE  /\ pipe'[i].lit \notin Aux /\ GateRight(pipe[i].lit, pipe[i].clauses)'
             /\ \A j \in DOMAIN pipe' : Ends(pipe'[j]) /\ pipe'[j].lit = pipe'[i].lit => j = i
  BY <1>3, <1>4
<1> QED BY <1>2, <1>4 DEF PipeRight, Ends

(* Kissat tries one variable.                                              *)
LEMMA TryKeepsInv ==
    ASSUME KissatInv, TryVariable
    PROVE  KissatInv'
<1> PICK v, l : v = Next_idx /\ l = Candidate(Next_idx)
  OBVIOUS
<1>1. PICK gate \in FindGates(l) :
        /\ pipe' = IF gate = NoGate THEN pipe
                   ELSE Append(pipe, [lit |-> v, type |-> gate.type,
                                      clauses |-> Printed(l, gate.clauses), whole |-> TRUE])
        /\ values' = values \cup Units(l, gate)
  BY DEF TryVariable
<1>2. /\ todo # {} /\ todo' = todo \ {v} /\ formula' = formula /\ script' = script
      /\ edges' = edges /\ aux' = aux
  BY DEF TryVariable
<1>3. v \in todo /\ v \in Vars /\ v \in Nat \ {0}
  BY <1>2, NextIs DEF KissatInv, KissatTypeOK
<1>4. Vars' = Vars /\ Aux' = Aux
  BY <1>2 DEF Vars, Aux
<1>5. \A u \in values' \ values : u \in Units(l, gate) /\ u \in Int /\ u # 0 /\ Var(u) = v
  BY <1>1, <1>2, TryLearns
<1>6. gate # NoGate => Printed(l, gate.clauses) = gate.clauses /\ gate.clauses \subseteq formula /\ gate.type \in Types
  BY <1>2, TryFinds
<1>7. gate # NoGate => GateRight(v, gate.clauses)'
  BY <1>1, <1>2, TryGate
<1>8. UnitsImplied'
  <2>1. ASSUME NEW u \in values', NEW s \in [Vars -> BOOLEAN], \A C \in formula : Satisfied(C, s)
        PROVE  s[Var(u)] = (u > 0)
    <3>1. CASE u \in values
      BY <2>1, <3>1 DEF KissatInv, UnitsImplied
    <3>2. CASE u \notin values
      BY <1>2, <1>5, <2>1, <3>2, TryLearns
    <3> QED BY <3>1, <3>2
  <2> QED BY <1>2, <1>4, <2>1 DEF UnitsImplied
<1> DEFINE g == [lit |-> v, type |-> gate.type, clauses |-> gate.clauses, whole |-> TRUE]
           Entries == [lit : Vars, type : Types, clauses : SUBSET (SUBSET Int), whole : BOOLEAN]
<1>9. gate # NoGate => g \in Entries /\ g.lit = v /\ g.clauses = gate.clauses /\ Ends(g)
  <2>1. ASSUME gate # NoGate PROVE gate.clauses \in SUBSET (SUBSET Int)
    BY <1>6, <2>1, ClauseIs DEF KissatInv, KissatTypeOK
  <2> QED BY <1>3, <1>6, <2>1 DEF Ends
<1>10. pipe \in Seq(Entries)
  BY DEF KissatInv, KissatTypeOK
<1>11. pipe' = IF gate = NoGate THEN pipe ELSE Append(pipe, g)
  BY <1>1, <1>6
<1> HIDE DEF g, Entries
<1>12. pipe' \in Seq(Entries)
  BY <1>9, <1>10, <1>11, WrittenIs
<1>13. KissatTypeOK'
  <2>1. \A u \in values' : u \in Int /\ u # 0 /\ Var(u) \in Vars \ (todo \ {v})
    BY <1>3, <1>5 DEF KissatInv, KissatTypeOK
  <2> QED BY <1>2, <1>4, <1>12, <2>1 DEF KissatInv, KissatTypeOK, Entries
<1>14. \A w, K : w # v /\ GateRight(w, K) => GateRight(w, K)'
  BY <1>1, <1>2, <1>5, GateKept
<1>15. ASSUME NEW i \in DOMAIN pipe, Ends(pipe[i]), NEW w, NEW K, w = pipe[i].lit, K = pipe[i].clauses
       PROVE  w \notin Aux /\ w # v /\ GateRight(w, K)'
  <2>1. w \notin Aux /\ GateRight(w, K)
    BY <1>15 DEF KissatInv, PipeRight
  <2>2. w # v
    BY <1>3, <2>1 DEF GateRight
  <2> QED BY <1>14, <2>1, <2>2
<1>16. AuxRight'
  <2>1. \A w \in Aux : w # v
    BY <1>3 DEF KissatInv, AuxRight, GateRight
  <2> QED BY <1>1, <1>2, <1>5, <2>1, AuxKept DEF KissatInv
<1>17. v \notin Aux
  BY <1>3 DEF KissatInv, AuxRight, GateRight
<1>18. PipeRight'
  <2>1. CASE gate = NoGate
    <3>1. pipe' = pipe
      BY <1>11, <2>1
    <3>2. ASSUME NEW i \in DOMAIN pipe, Ends(pipe[i]), NEW w, NEW K, w = pipe[i].lit, K = pipe[i].clauses
          PROVE  GateRight(w, K)'
      BY <1>15, <3>2
    <3> QED BY <1>4, <3>1, <3>2 DEF KissatInv, PipeRight
  <2>2. CASE gate # NoGate
    <3>1. Ends(g) => /\ g.lit \notin Aux /\ \A i \in DOMAIN pipe : Ends(pipe[i]) => pipe[i].lit # g.lit
                     /\ \A w, K : w = g.lit /\ K = g.clauses => GateRight(w, K)'
      BY <1>7, <1>9, <1>15, <1>17, <2>2
    <3>2. \A i \in DOMAIN pipe : Ends(pipe[i]) =>
             \A w, K : w = pipe[i].lit /\ K = pipe[i].clauses => GateRight(w, K)'
      BY <1>15
    <3>3. g \in Entries /\ pipe' = Append(pipe, g) /\ PipeRight
      BY <1>9, <1>11, <2>2 DEF KissatInv
    <3> QED BY <1>2, <1>10, <3>1, <3>2, <3>3, PipeKept
  <2> QED BY <2>1, <2>2
<1>19. ~Cyclic(edges)'
  BY <1>2 DEF KissatInv, Cyclic
<1> QED BY <1>8, <1>13, <1>16, <1>18, <1>19 DEF KissatInv

(* Kissat is killed: a gate may be written in part.                        *)
LEMMA KilledKeepsInv ==
    ASSUME KissatInv, Killed
    PROVE  KissatInv'
<1> DEFINE Entries == [lit : Vars, type : Types, clauses : SUBSET (SUBSET Int), whole : BOOLEAN]
<1>1. /\ todo # {} /\ todo' = {} /\ formula' = formula /\ script' = script /\ values' = values
      /\ edges' = edges /\ aux' = aux
  BY DEF Killed
<1>2. Vars' = Vars /\ Aux' = Aux
  BY <1>1 DEF Vars, Aux
<1>3. \/ pipe' = pipe
      \/ \E g \in Entries : pipe' = Append(pipe, g) /\ ~Ends(g)
  <2> SUFFICES ASSUME pipe' # pipe PROVE \E g \in Entries : pipe' = Append(pipe, g) /\ ~Ends(g)
    OBVIOUS
  <2>1. PICK gate \in FindGates(Candidate(Next_idx)) \ {NoGate} :
          \E part \in SUBSET Printed(Candidate(Next_idx), gate.clauses) :
            pipe' = Append(pipe, [lit |-> Next_idx, type |-> gate.type, clauses |-> part, whole |-> FALSE])
    BY DEF Killed
  <2>6. PICK part \in SUBSET Printed(Candidate(Next_idx), gate.clauses) :
            pipe' = Append(pipe, [lit |-> Next_idx, type |-> gate.type, clauses |-> part, whole |-> FALSE])
    BY <2>1
  <2> DEFINE g == [lit |-> Next_idx, type |-> gate.type, clauses |-> part, whole |-> FALSE]
  <2>2. gate.type \in Types /\ part \subseteq formula
    BY <1>1, TryFinds
  <2>3. part \in SUBSET (SUBSET Int)
    BY <2>2, ClauseIs DEF KissatInv, KissatTypeOK
  <2>4. Next_idx \in Vars
    BY <1>1, NextIs DEF KissatInv, KissatTypeOK
  <2>5. g \in Entries /\ ~Ends(g)
    BY <2>2, <2>3, <2>4 DEF Ends
  <2> QED BY <2>5, <2>6
<1>4. pipe \in Seq(Entries)
  BY DEF KissatInv, KissatTypeOK
<1> HIDE DEF Entries
<1>5. pipe' \in Seq(Entries)
  BY <1>3, <1>4, WrittenIs
<1>6. KissatTypeOK'
  BY <1>1, <1>2, <1>5 DEF KissatInv, KissatTypeOK, Entries
<1>7. UnitsImplied'
  BY <1>1, <1>2 DEF KissatInv, UnitsImplied
<1>8. AuxRight'
  BY <1>1, AuxKept DEF KissatInv
<1>9. ASSUME NEW i \in DOMAIN pipe, Ends(pipe[i]), NEW w, NEW K, w = pipe[i].lit, K = pipe[i].clauses
      PROVE  GateRight(w, K)'
  <2>1. GateRight(w, K)
    BY <1>9 DEF KissatInv, PipeRight
  <2> QED BY <1>1, <2>1, GateKept
<1>10. PipeRight'
  <2>1. CASE pipe' = pipe
    BY <1>2, <1>9, <2>1 DEF KissatInv, PipeRight
  <2>2. CASE \E g \in Entries : pipe' = Append(pipe, g) /\ ~Ends(g)
    BY <1>1, <1>4, <1>9, <2>2, PipeKept DEF KissatInv
  <2> QED BY <1>3, <2>1, <2>2
<1>11. ~Cyclic(edges)'
  BY <1>1 DEF KissatInv, Cyclic
<1> QED BY <1>6, <1>7, <1>8, <1>10, <1>11 DEF KissatInv

(* What the script reads is the first gate of the pipe.                    *)
LEMMA ReadIs ==
    ASSUME NEW S, NEW p \in Seq(S), p # <<>>, NEW q, q = Tail(p)
    PROVE  /\ 1 \in DOMAIN p /\ Head(p) = p[1] /\ p[1] \in S /\ q \in Seq(S)
           /\ \A i \in DOMAIN q : i \in Nat /\ i + 1 \in DOMAIN p /\ i + 1 # 1 /\ q[i] = p[i + 1]
<1>1. Len(p) \in Nat /\ Len(p) > 0 /\ DOMAIN p = 1 .. Len(p)
  OBVIOUS
<1>2. q \in Seq(S) /\ Len(q) = Len(p) - 1 /\ DOMAIN q = 1 .. Len(q) /\ Head(p) = p[1]
  BY <1>1
<1>3. ASSUME NEW i \in DOMAIN q PROVE i \in Nat /\ i + 1 \in DOMAIN p /\ i + 1 # 1 /\ q[i] = p[i + 1]
  BY <1>1, <1>2
<1> QED BY <1>1, <1>2, <1>3

(* The dependencies of a gate as the script computes them.                 *)
LEMMA SourcesAre ==
    ASSUME NEW v, NEW K
    PROVE  {<<Var(l), v>> : l \in {l \in UNION K : Var(l) # v}} = Sources(v, K)
BY DEF Sources, VarsOf

(* The variables of clauses of the formula.                                *)
LEMMA VarsOfWithin ==
    ASSUME NEW K, K \subseteq formula
    PROVE  VarsOf(K) \subseteq Vars
BY DEF VarsOf, Vars

(* The script reads a gate: select_aux.py drops it or not, and             *)
(* select_aux_graph.py keeps it unless there is a cycle.                   *)
LEMMA ReadSelects ==
    ASSUME KissatInv, ReadGate, NEW g, g = Head(pipe)
    PROVE  /\ edges' \subseteq Vars \X Aux' /\ ~Cyclic(edges') /\ edges \subseteq edges'
           /\ \/ Aux' = Aux
              \/ /\ Aux' = Aux \cup {g.lit}
                 /\ script = "select_aux_graph" => Sources(g.lit, g.clauses) \subseteq edges'
<1> DEFINE new == {<<Var(l), g.lit>> : l \in {l \in UNION g.clauses : Var(l) # g.lit}}
           Entries == [lit : Vars, type : Types, clauses : SUBSET (SUBSET Int), whole : BOOLEAN]
<1>1. g.lit \in Vars /\ g.lit \notin Aux /\ g.clauses \subseteq formula
  <2>1. pipe \in Seq(Entries) /\ pipe # <<>> /\ Ends(Head(pipe))
    BY DEF ReadGate, KissatInv, KissatTypeOK
  <2>2. 1 \in DOMAIN pipe /\ g = pipe[1] /\ g \in Entries
    <3> HIDE DEF Entries
    <3> QED BY <2>1, ReadIs
  <2>3. g.lit \notin Aux /\ GateRight(g.lit, g.clauses)
    BY <2>1, <2>2 DEF KissatInv, PipeRight
  <2> QED BY <2>2, <2>3 DEF GateRight
<1>2. new = Sources(g.lit, g.clauses)
  BY SourcesAre
<1>3. edges \subseteq Vars \X Aux /\ ~Cyclic(edges)
  BY DEF KissatInv, KissatTypeOK
<1>4. ASSUME aux' = aux \cup {<<g.lit, g.type>>} PROVE Aux' = Aux \cup {g.lit}
  <2> DEFINE a == <<g.lit, g.type>>
  <2>1. a[1] = g.lit /\ aux' = aux \cup {a}
    BY <1>4
  <2> HIDE DEF a
  <2> QED BY <2>1 DEF Aux
<1>5. aux' = aux => Aux' = Aux
  BY DEF Aux
<1>6. new \subseteq Vars \X {g.lit}
  BY <1>1, VarsOfWithin, <1>2 DEF Sources
<1> HIDE DEF new
<1>7. CASE script = "select_aux_graph"
  <2>1. IF Cyclic(edges \cup new) THEN edges' = edges \ new /\ aux' = aux
        ELSE edges' = edges \cup new /\ aux' = aux \cup {<<g.lit, g.type>>}
    BY <1>7 DEF ReadGate, SelectAcyclic, new
  <2>2. CASE Cyclic(edges \cup new)
    <3>1. edges \cap new = {}
      BY <1>1, <1>3, <1>6
    <3>2. edges' = edges /\ aux' = aux
      BY <2>1, <2>2, <3>1
    <3> QED BY <1>3, <1>5, <3>2
  <2>3. CASE ~Cyclic(edges \cup new)
    <3>1. edges' = edges \cup new /\ Aux' = Aux \cup {g.lit}
      BY <1>4, <2>1, <2>3
    <3> QED BY <1>2, <1>3, <1>6, <2>3, <3>1
  <2> QED BY <2>2, <2>3
<1>8. CASE script # "select_aux_graph"
  <2>1. edges' = edges /\ (aux' = aux \/ aux' = aux \cup {<<g.lit, g.type>>})
    BY <1>8 DEF ReadGate, SelectUnused
  <2> QED BY <1>3, <1>4, <1>5, <1>8, <2>1
<1> QED BY <1>7, <1>8

(* The script reads a gate.                                                *)
LEMMA ReadKeepsInv ==
    ASSUME KissatInv, ReadGate
    PROVE  KissatInv'
<1> DEFINE Entries == [lit : Vars, type : Types, clauses : SUBSET (SUBSET Int), whole : BOOLEAN]
<1> PICK g : g = Head(pipe)
  OBVIOUS
<1>1. /\ pipe # <<>> /\ Ends(g) /\ pipe' = Tail(pipe)
      /\ formula' = formula /\ script' = script /\ todo' = todo /\ values' = values
  BY DEF ReadGate
<1>2. pipe \in Seq(Entries)
  BY DEF KissatInv, KissatTypeOK
<1>3. Vars' = Vars
  BY <1>1 DEF Vars
<1> HIDE DEF Entries
<1>4. /\ 1 \in DOMAIN pipe /\ g = pipe[1] /\ g \in Entries /\ pipe' \in Seq(Entries)
      /\ \A i \in DOMAIN pipe' :
           i \in Nat /\ i + 1 \in DOMAIN pipe /\ i + 1 # 1 /\ pipe'[i] = pipe[i + 1]
  BY <1>1, <1>2, ReadIs
<1>5. /\ edges' \subseteq Vars \X Aux' /\ ~Cyclic(edges') /\ edges \subseteq edges'
      /\ \/ Aux' = Aux
         \/ /\ Aux' = Aux \cup {g.lit}
            /\ script = "select_aux_graph" => Sources(g.lit, g.clauses) \subseteq edges'
  BY ReadSelects
<1>6. \A w, K : GateRight(w, K) => GateRight(w, K)'
  BY <1>1, GateKept
<1>7. g.lit \in Vars /\ GateRight(g.lit, g.clauses)
  BY <1>1, <1>4 DEF KissatInv, PipeRight, GateRight
<1>8. KissatTypeOK'
  BY <1>1, <1>3, <1>4, <1>5 DEF KissatInv, KissatTypeOK, Entries
<1>9. UnitsImplied'
  BY <1>1, <1>3 DEF KissatInv, UnitsImplied
<1>10. PipeRight'
  <2>1. ASSUME NEW i \in DOMAIN pipe', NEW e, e = pipe'[i], Ends(e), NEW w, NEW K, w = e.lit, K = e.clauses
        PROVE  /\ w \notin Aux' /\ GateRight(w, K)'
               /\ \A j \in DOMAIN pipe' : Ends(pipe'[j]) /\ pipe'[j].lit = w => j = i
    <3>1. i \in Nat /\ i + 1 \in DOMAIN pipe /\ i + 1 # 1 /\ e = pipe[i + 1]
      BY <1>4, <2>1
    <3>2. /\ w \notin Aux /\ GateRight(w, K)
          /\ \A j \in DOMAIN pipe : Ends(pipe[j]) /\ pipe[j].lit = w => j = i + 1
      BY <2>1, <3>1 DEF KissatInv, PipeRight
    <3>3. w # g.lit
      BY <1>1, <1>4, <3>1, <3>2
    <3>4. ASSUME NEW j \in DOMAIN pipe', Ends(pipe'[j]), pipe'[j].lit = w PROVE j = i
      <4>1. j \in Nat /\ j + 1 \in DOMAIN pipe /\ pipe'[j] = pipe[j + 1]
        BY <1>4
      <4>2. j + 1 = i + 1
        BY <3>2, <3>4, <4>1
      <4> QED BY <3>1, <4>1, <4>2
    <3> QED BY <1>5, <1>6, <3>2, <3>3, <3>4
  <2>2. ASSUME NEW i \in DOMAIN pipe', Ends(pipe'[i])
        PROVE  /\ pipe'[i].lit \notin Aux' /\ GateRight(pipe[i].lit, pipe[i].clauses)'
               /\ \A j \in DOMAIN pipe' : Ends(pipe'[j]) /\ pipe'[j].lit = pipe'[i].lit => j = i
    BY <2>1, <2>2
  <2> QED BY <2>2 DEF PipeRight, Ends
<1>11. AuxRight'
  <2>1. ASSUME NEW w \in Aux'
        PROVE  \E K \in SUBSET formula :
                 GateRight(w, K)' /\ (script = "select_aux_graph" => Sources(w, K) \subseteq edges')
    <3>1. CASE w \in Aux
      BY <1>5, <1>6, <3>1 DEF KissatInv, AuxRight
    <3>2. CASE w \notin Aux
      <4>1. w = g.lit /\ (script = "select_aux_graph" => Sources(g.lit, g.clauses) \subseteq edges')
        BY <1>5, <3>2
      <4>2. GateRight(w, g.clauses)' /\ g.clauses \subseteq formula
        BY <1>6, <1>7, <4>1 DEF GateRight
      <4> QED BY <4>1, <4>2
    <3> QED BY <3>1, <3>2
  <2> QED BY <1>1, <2>1 DEF AuxRight
<1>12. ~Cyclic(edges)'
  BY <1>5 DEF Cyclic
<1> QED BY <1>8, <1>9, <1>10, <1>11, <1>12 DEF KissatInv

(* A step that changes nothing.                                            *)
LEMMA StutterKeepsInv ==
    ASSUME KissatInv, UNCHANGED vars
    PROVE  KissatInv'
<1>1. /\ formula' = formula /\ script' = script /\ todo' = todo /\ values' = values
      /\ pipe' = pipe /\ edges' = edges /\ aux' = aux
  BY DEF vars
<1>2. Vars' = Vars /\ Aux' = Aux
  BY <1>1 DEF Vars, Aux
<1>3. KissatTypeOK' /\ UnitsImplied'
  BY <1>1, <1>2 DEF KissatInv, KissatTypeOK, UnitsImplied
<1>4. \A w, K : GateRight(w, K) => GateRight(w, K)'
  BY <1>1, GateKept
<1>5. PipeRight'
  BY <1>1, <1>2, <1>4 DEF KissatInv, PipeRight
<1>6. AuxRight'
  BY <1>1, AuxKept DEF KissatInv
<1>7. ~Cyclic(edges)'
  BY <1>1 DEF KissatInv, Cyclic
<1> QED BY <1>3, <1>5, <1>6, <1>7 DEF KissatInv

(* At the start nothing is found or read.                                  *)
LEMMA InitInv ==
    ASSUME Init
    PROVE  KissatInv
<1>1. Aux = {}
  BY DEF Init, Aux
<1>2. pipe \in Seq([lit : Vars, type : Types, clauses : SUBSET (SUBSET Int), whole : BOOLEAN]) /\ DOMAIN pipe = {}
  BY DEF Init
<1>3. ~Cyclic(edges)
  <2>1. edges = {} /\ {e[1] : e \in edges} = {}
    BY DEF Init
  <2>2. ~\E D \in (SUBSET {}) \ {{}} : TRUE
    OBVIOUS
  <2>3. Cyclic(edges) => \E D \in (SUBSET {e[1] : e \in edges}) \ {{}} : TRUE
    BY DEF Cyclic
  <2> QED BY <2>1, <2>2, <2>3
<1> QED BY <1>1, <1>2, <1>3 DEF Init, KissatInv, KissatTypeOK, UnitsImplied, PipeRight, AuxRight

(* KissatInv holds in every reachable state.                               *)
THEOREM KissatInvariant == Spec => []KissatInv
<1>1. Init => KissatInv
  BY InitInv
<1>2. KissatInv /\ [Next]_vars => KissatInv'
  <2> SUFFICES ASSUME KissatInv, [Next]_vars PROVE KissatInv'
    OBVIOUS
  <2>1. CASE TryVariable
    BY <2>1, TryKeepsInv
  <2>2. CASE Killed
    BY <2>2, KilledKeepsInv
  <2>3. CASE ReadGate
    BY <2>3, ReadKeepsInv
  <2>4. CASE UNCHANGED vars
    BY <2>4, StutterKeepsInv
  <2>5. Done => UNCHANGED vars
    BY DEF Done
  <2> QED BY <2>1, <2>2, <2>3, <2>4, <2>5 DEF Next
<1> QED BY <1>1, <1>2, PTL DEF Spec

-----------------------------------------------------------------------------
(* Unit propagation.                                                       *)

\* The literals of the variables.
Literals == {l \in Int : l # 0 /\ Var(l) \in Vars}

Consistent(R) == \A l \in R : -l \notin R

(* There are finitely many literals, and the formula has no others.        *)
LEMMA LiteralsFinite ==
    ASSUME formula \in Inputs
    PROVE  IsFiniteSet(Literals) /\ UNION formula \subseteq Literals
<1> DEFINE N == {v \in Int : -v \in Vars}
           f == [v \in Vars |-> -v]
<1>1. IsFiniteSet(Vars) /\ Vars \subseteq Nat \ {0}
  BY VarsFinite
<1>2. f \in Surjection(Vars, N)
  <2>1. f \in [Vars -> N]
    BY <1>1
  <2>2. \A n \in N : -n \in Vars /\ f[-n] = n
    BY <1>1
  <2> HIDE DEF f, N
  <2> QED BY <2>1, <2>2 DEF Surjection
<1>3. IsFiniteSet(N)
  <2> HIDE DEF f, N
  <2> QED BY <1>1, <1>2, FS_Surjection
<1>4. IsFiniteSet(Vars \cup N)
  <2> HIDE DEF N
  <2> QED BY <1>1, <1>3, FS_Union
<1>5. Literals \subseteq Vars \cup N
  BY DEF Literals, Var
<1>6. UNION formula \subseteq Literals
  BY ClauseIs DEF Literals
<1> QED BY <1>4, <1>5, <1>6, FS_Subset

(* A consistent set has a literal for a variable at most.                  *)
LEMMA ConsistentSmall ==
    ASSUME formula \in Inputs, NEW R, R \subseteq Literals, Consistent(R)
    PROVE  Cardinality(R) <= Cardinality(Vars)
<1> DEFINE f == [l \in R |-> Var(l)]
<1>1. \A l, k \in R : Var(l) = Var(k) => l = k
  BY DEF Literals, Consistent, Var
<1>2. f \in [R -> Vars] /\ \A l, k \in R : f[l] = f[k] => l = k
  BY <1>1 DEF Literals
<1> HIDE DEF f
<1>3. f \in Injection(R, Vars)
  BY <1>2 DEF Injection, IsInjective
<1> QED BY <1>3, VarsFinite, FS_Injection

(* The rounds of unit propagation.                                         *)
LEMMA RoundsAre ==
    ASSUME formula \in Inputs, NEW A, A \subseteq Literals
    PROVE  \E f : /\ Propagated(A) = f[Rounds] /\ f[0] = A /\ f \in [0 .. Rounds -> SUBSET Literals]
                  /\ \A n \in 1 .. Rounds : f[n] = f[n - 1] \cup Forced(f[n - 1])
<1> DEFINE round[n \in 0 .. Rounds] == IF n = 0 THEN A ELSE round[n - 1] \cup Forced(round[n - 1])
           S == SUBSET Literals
           F == [x \in (1 .. Rounds) \X S |-> x[2] \cup Forced(x[2])]
<1>1. Propagated(A) = round[Rounds]
  BY DEF Propagated
<1>2. Rounds \in Nat
  BY VarsFinite DEF Rounds
<1>3. A \in S /\ F \in [(1 .. Rounds) \X S -> S]
  <2>1. \A B : Forced(B) \subseteq Literals
    BY LiteralsFinite DEF Forced
  <2>2. \A x \in (1 .. Rounds) \X S : x[2] \cup Forced(x[2]) \in S
    BY <2>1
  <2> QED BY <2>2
<1>4. \E f : RecursiveUpto(f, S, A, Rounds, F)
  <2> HIDE DEF S, F
  <2> QED BY <1>2, <1>3, BoundedRecursion
<1> PICK f : RecursiveUpto(f, S, A, Rounds, F)
  BY <1>4
<1>5. f \in [0 .. Rounds -> S] /\ f[0] = A /\ \A n \in 1 .. Rounds : f[n] = F[<<n, f[n - 1]>>]
  BY DEF RecursiveUpto
<1>6. \A n \in 1 .. Rounds : F[<<n, f[n - 1]>>] = f[n - 1] \cup Forced(f[n - 1])
  <2>1. \A n \in 1 .. Rounds : n - 1 \in 0 .. Rounds
    BY <1>2
  <2>2. \A n \in 1 .. Rounds : f[n - 1] \in S
    BY <1>5, <2>1
  <2> HIDE DEF S
  <2> QED BY <2>2
<1>7. f = [n \in 0 .. Rounds |-> IF n = 0 THEN A ELSE f[n - 1] \cup Forced(f[n - 1])]
  <2>1. \A n \in 0 .. Rounds : f[n] = IF n = 0 THEN A ELSE f[n - 1] \cup Forced(f[n - 1])
    <3>1. \A n \in 0 .. Rounds : n = 0 \/ (n # 0 /\ n \in 1 .. Rounds)
      BY <1>2
    <3> HIDE DEF F, S
    <3> QED BY <1>5, <1>6, <3>1
  <2> HIDE DEF F, S
  <2> QED BY <1>5, <2>1
<1>8. round = [n \in 0 .. Rounds |-> IF n = 0 THEN A ELSE round[n - 1] \cup Forced(round[n - 1])]
  BY <1>7
<1> HIDE DEF round
<1>9. round \in [0 .. Rounds -> S]
  <2> DEFINE T == {n \in Nat : n <= Rounds => round[n] \in S}
  <2>1. 0 \in T
    BY <1>2, <1>3, <1>8
  <2>2. ASSUME NEW n \in Nat, n \in T PROVE n + 1 \in T
    <3>1. n + 1 <= Rounds => round[n + 1] = round[n] \cup Forced(round[n])
      <4>1. n + 1 <= Rounds => n + 1 \in 0 .. Rounds /\ n + 1 # 0 /\ (n + 1) - 1 = n
        BY <1>2
      <4> QED BY <1>8, <4>1
    <3>2. Forced(round[n]) \subseteq Literals
      BY LiteralsFinite DEF Forced
    <3> QED BY <1>2, <2>2, <3>1, <3>2
  <2>3. \A n \in Nat : n \in T
    <3> HIDE DEF T
    <3> QED BY <2>1, <2>2, SetInduction
  <2>4. \A n \in 0 .. Rounds : round[n] \in S
    BY <1>2, <2>3
  <2>5. round = [n \in 0 .. Rounds |-> round[n]]
    BY <1>8
  <2> HIDE DEF S, T
  <2> QED BY <2>4, <2>5
<1>10. round[0] = A /\ \A n \in 1 .. Rounds : round[n] = round[n - 1] \cup Forced(round[n - 1])
  <2>1. 0 \in 0 .. Rounds /\ \A n \in 1 .. Rounds : n \in 0 .. Rounds /\ n # 0
    BY <1>2
  <2> QED BY <1>8, <2>1
<1> QED BY <1>1, <1>9, <1>10

(* Propagation goes on until nothing is forced any more or there is a      *)
(* conflict.                                                               *)
LEMMA PropagatedIs ==
    ASSUME formula \in Inputs, NEW A, A \subseteq Literals
    PROVE  /\ A \subseteq Propagated(A) /\ Propagated(A) \subseteq Literals
           /\ Consistent(Propagated(A)) => Forced(Propagated(A)) \subseteq Propagated(A)
<1>1. PICK f : /\ Propagated(A) = f[Rounds] /\ f[0] = A /\ f \in [0 .. Rounds -> SUBSET Literals]
               /\ \A n \in 1 .. Rounds : f[n] = f[n - 1] \cup Forced(f[n - 1])
  BY RoundsAre
<1>2. Cardinality(Vars) \in Nat /\ Rounds = Cardinality(Vars) + 1 /\ Rounds \in Nat
  BY VarsFinite DEF Rounds
<1> DEFINE Grown(n) == Forced(f[n]) \subseteq f[n] \/ Cardinality(f[n]) >= n
           T == {n \in Nat : n <= Rounds => A \subseteq f[n] /\ Grown(n)}
<1>3. \A n \in 0 .. Rounds : f[n] \subseteq Literals /\ IsFiniteSet(f[n]) /\ Cardinality(f[n]) \in Nat
  <2>1. \A n \in 0 .. Rounds : f[n] \subseteq Literals
    BY <1>1
  <2> QED BY <2>1, LiteralsFinite, FS_Subset, FS_CardinalityType
<1>4. 0 \in T
  <2>1. 0 \in 0 .. Rounds
    BY <1>2
  <2> QED BY <1>1, <1>3, <2>1
<1>5. ASSUME NEW n \in Nat, n \in T PROVE n + 1 \in T
  <2> SUFFICES ASSUME n + 1 <= Rounds PROVE A \subseteq f[n + 1] /\ Grown(n + 1)
    OBVIOUS
  <2>1. n \in 0 .. Rounds /\ n + 1 \in 0 .. Rounds /\ n + 1 \in 1 .. Rounds /\ (n + 1) - 1 = n
    BY <1>2
  <2>2. f[n + 1] = f[n] \cup Forced(f[n])
    BY <1>1, <2>1
  <2>3. A \subseteq f[n] /\ Grown(n)
    BY <1>2, <1>5, <2>1
  <2>4. CASE Forced(f[n]) \subseteq f[n]
    <3>1. f[n + 1] = f[n]
      BY <2>2, <2>4
    <3> QED BY <2>3, <2>4, <3>1
  <2>5. CASE ~(Forced(f[n]) \subseteq f[n])
    <3>1. f[n] \subseteq f[n + 1] /\ f[n + 1] # f[n]
      BY <2>2, <2>5
    <3>2. Cardinality(f[n]) <= Cardinality(f[n + 1]) /\ Cardinality(f[n]) # Cardinality(f[n + 1])
      BY <1>3, <2>1, <3>1, FS_Subset
    <3>3. Cardinality(f[n]) >= n /\ Cardinality(f[n]) \in Nat /\ Cardinality(f[n + 1]) \in Nat
      BY <1>3, <2>1, <2>3, <2>5
    <3> QED BY <2>3, <3>1, <3>2, <3>3
  <2> QED BY <2>4, <2>5
<1>6. \A n \in Nat : n \in T
  <2> HIDE DEF T
  <2> QED BY <1>4, <1>5, SetInduction
<1>7. A \subseteq f[Rounds] /\ Grown(Rounds) /\ f[Rounds] \subseteq Literals
  BY <1>2, <1>3, <1>6
<1>8. ASSUME Consistent(f[Rounds]) PROVE Forced(f[Rounds]) \subseteq f[Rounds]
  <2>1. Cardinality(f[Rounds]) <= Cardinality(Vars)
    BY <1>7, <1>8, ConsistentSmall
  <2>2. Cardinality(f[Rounds]) \in Nat
    BY <1>2, <1>3
  <2> QED BY <1>2, <1>7, <2>1, <2>2
<1> QED BY <1>1, <1>7, <1>8

-----------------------------------------------------------------------------
(* What KissatInv says about unit propagation.                             *)

\* The variables with a value, and a total assignment that agrees with them.
Decided(R) == {v \in Vars : v \in R \/ -v \in R}
ValueOf(R) == [v \in Vars |-> v \in R]

\* The result of a propagation without a conflict.
Settled(R) == R \subseteq Literals /\ Consistent(R) /\ Forced(R) \subseteq R

(* A literal of a variable with a value is false where its complement is   *)
(* known.                                                                  *)
LEMMA FalseIsKnown ==
    ASSUME NEW R, Settled(R), NEW k \in Literals, Var(k) \in Decided(R)
    PROVE  FalseAt(ValueOf(R), k) => -k \in R
<1>1. k \in Int /\ k # 0 /\ Var(k) \in Vars
  BY DEF Literals
<1>2. ValueOf(R)[Var(k)] = (Var(k) \in R)
  BY <1>1 DEF ValueOf
<1>3. CASE k > 0
  BY <1>1, <1>2, <1>3 DEF FalseAt, Decided, Var
<1>4. CASE k < 0
  <2>1. Var(k) = -k
    BY <1>1, <1>4 DEF Var
  <2> QED BY <1>1, <1>2, <1>4, <2>1 DEF FalseAt
<1> QED BY <1>1, <1>3, <1>4

(* Known literals are true.                                                *)
LEMMA KnownIsTrue ==
    ASSUME NEW R, Settled(R), NEW u \in R
    PROVE  ValueOf(R)[Var(u)] = (u > 0)
<1>1. u \in Int /\ u # 0 /\ Var(u) \in Vars /\ -u \notin R
  BY DEF Settled, Literals, Consistent
<1>2. ValueOf(R)[Var(u)] = (Var(u) \in R)
  BY <1>1 DEF ValueOf
<1> QED BY <1>1, <1>2 DEF Var

(* A clause with no undecided variable but x is not falsified by the       *)
(* values known, and does not force x.                                     *)
LEMMA TrueLiteral ==
    ASSUME formula \in Inputs, NEW R, Settled(R), NEW x, x \notin Decided(R), NEW C \in formula,
           \A k \in C : Var(k) # x => Var(k) \in Decided(R)
    PROVE  \E k \in C : Var(k) # x /\ ~FalseAt(ValueOf(R), k)
<1> SUFFICES ASSUME \A k \in C : Var(k) # x => FalseAt(ValueOf(R), k) PROVE FALSE
  OBVIOUS
<1>1. C \subseteq Literals /\ C \subseteq UNION formula
  BY LiteralsFinite
<1>2. \A k \in C : Var(k) # x => -k \in R
  BY <1>1, FalseIsKnown
<1>3. PICK l \in C : (\E k \in C : Var(k) = x) => Var(l) = x
  BY ClauseIs, FS_EmptySet
<1>4. \A k \in C \ {l} : Var(k) # x
  BY <1>3, ClauseIs
<1>5. l \in R
  BY <1>1, <1>2, <1>4 DEF Forced, Settled
<1>6. Var(l) \in Decided(R)
  BY <1>1, <1>5 DEF Decided, Literals, Var
<1> QED BY <1>2, <1>5, <1>6 DEF Settled, Consistent

(* Where only v has no value, every value of it satisfies the formula.     *)
LEMMA BothSatisfy ==
    ASSUME formula \in Inputs, NEW R, Settled(R), NEW v \in Vars, Decided(R) = Vars \ {v},
           NEW a \in BOOLEAN, NEW C \in formula
    PROVE  Satisfied(C, [ValueOf(R) EXCEPT ![v] = a])
<1>1. \A k \in C : Var(k) \in Vars
  BY ClauseIs
<1>2. PICK k \in C : Var(k) # v /\ ~FalseAt(ValueOf(R), k)
  BY <1>1, TrueLiteral
<1>3. [ValueOf(R) EXCEPT ![v] = a][Var(k)] = ValueOf(R)[Var(k)]
  BY <1>1, <1>2 DEF ValueOf
<1> QED BY <1>2, <1>3 DEF Satisfied, FalseAt

\* The literals of a valuation.
LiteralsOf(s, D) == {IF s[v] THEN v ELSE -v : v \in Vars \ D}

(* The variables with a value are known after propagation.                 *)
LEMMA PropagationIs ==
    ASSUME formula \in Inputs, NEW D, NEW s, ~Decides(s, D)
    PROVE  LET R == Propagated(LiteralsOf(s, D))
           IN  /\ Settled(R) /\ LiteralsOf(s, D) \subseteq R
               /\ Vars \ D \subseteq Decided(R) /\ Decided(R) # Vars
<1> DEFINE A == LiteralsOf(s, D)
           R == Propagated(A)
<1>1. A \subseteq Literals
  BY VarsFinite DEF LiteralsOf, Literals, Var
<1>2. Consistent(R) /\ ~\A v \in Vars : v \in R \/ -v \in R
  BY DEF Decides, Consistent, LiteralsOf
<1> HIDE DEF A
<1>3. A \subseteq R /\ Settled(R)
  BY <1>1, <1>2, PropagatedIs DEF Settled
<1>4. \A v \in Vars \ D : v \in A \/ -v \in A
  BY DEF A, LiteralsOf
<1> HIDE DEF R
<1>5. Vars \ D \subseteq Decided(R) /\ Decided(R) # Vars
  BY <1>2, <1>3, <1>4 DEF Decided
<1> QED BY <1>3, <1>5 DEF R, A

(* Every auxiliary variable by itself follows by unit propagation.         *)
LEMMA InvForces ==
    ASSUME KissatInv
    PROVE  EachForced
<1> SUFFICES ASSUME NEW v \in Aux, NEW s \in [Vars \ {v} -> BOOLEAN], ~Decides(s, {v}) PROVE FALSE
  BY DEF EachForced
<1>1. formula \in Inputs
  BY DEF KissatInv, KissatTypeOK
<1>2. PICK K \in SUBSET formula : GateRight(v, K)
  BY DEF KissatInv, AuxRight
<1>3. v \in Vars
  BY <1>2 DEF GateRight
<1> DEFINE R == Propagated(LiteralsOf(s, {v}))
           t == ValueOf(R)
<1>4. Settled(R) /\ Decided(R) = Vars \ {v}
  <2>1. Settled(R) /\ Vars \ {v} \subseteq Decided(R) /\ Decided(R) # Vars
    BY <1>1, PropagationIs
  <2>2. Decided(R) \subseteq Vars
    BY DEF Decided
  <2> HIDE DEF R
  <2> QED BY <2>1, <2>2
<1> HIDE DEF R
<1>5. t \in [Vars -> BOOLEAN]
  BY DEF ValueOf
<1>6. \A a \in BOOLEAN : \A C \in formula : Satisfied(C, [t EXCEPT ![v] = a])
  BY <1>1, <1>3, <1>4, BothSatisfy
<1> HIDE DEF t
<1>7. \A C \in formula : Satisfied(C, t)
  <2>1. [t EXCEPT ![v] = t[v]] = t /\ t[v] \in BOOLEAN
    BY <1>3, <1>5
  <2> QED BY <1>6, <2>1
<1>8. \A u \in values : t[Var(u)] = (u > 0)
  BY <1>5, <1>7 DEF KissatInv, UnitsImplied
<1>9. \E a \in BOOLEAN, C \in K : ~Satisfied(C, [t EXCEPT ![v] = a])
  BY <1>2, <1>5, <1>8 DEF GateRight, Fixes
<1> QED BY <1>2, <1>6, <1>9

(* A learned unit of an auxiliary variable is known as soon as the other   *)
(* variables of its core have a value.                                     *)
LEMMA CoreKnown ==
    ASSUME formula \in Inputs, NEW R, Settled(R), NEW K, K \subseteq formula, NEW u \in values, u \in Int,
           GateRight(Var(u), K), VarsOf(K) \ {Var(u)} \subseteq Decided(R)
    PROVE  u \in R
<1>1. Unsatisfiable(Environment(u, K)) /\ \A C \in K : u \in C
  BY DEF GateRight, CoreOf
<1>2. ValueOf(R) \in [Vars -> BOOLEAN]
  BY DEF ValueOf
<1>3. PICK C \in K : \A k \in C \ {u, -u} : FalseAt(ValueOf(R), k)
  BY <1>1, <1>2, CoreClause
<1>4. u \in C /\ -u \notin C /\ \A k \in C \ {u} : Var(k) # Var(u)
  BY <1>1, ClauseIs
<1>5. \A k \in C \ {u} : Var(k) \in Decided(R) /\ k \in Literals
  BY <1>4, LiteralsFinite DEF VarsOf
<1>6. \A k \in C \ {u} : -k \in R
  BY <1>3, <1>4, <1>5, FalseIsKnown
<1>7. u \in UNION formula
  BY <1>4
<1> QED BY <1>4, <1>6, <1>7 DEF Forced, Settled

(* A graph without cycles has a variable outside of a set of variables     *)
(* that misses some, whose predecessors are all inside.                    *)
LEMMA AcyclicFirst ==
    ASSUME ~Cyclic(edges), NEW W, W # {}
    PROVE  \E x \in W : \A y : <<y, x>> \in edges => y \notin W
<1> SUFFICES ASSUME \A x \in W : \E y \in W : <<y, x>> \in edges PROVE FALSE
  OBVIOUS
<1> DEFINE Starts == {e[1] : e \in edges}
           D == W \cap Starts
<1>1. \A x, y : <<y, x>> \in edges => y \in Starts
  <2> SUFFICES ASSUME NEW x, NEW y, <<y, x>> \in edges PROVE y \in Starts
    OBVIOUS
  <2>1. <<y, x>>[1] = y
    OBVIOUS
  <2> QED BY <2>1
<1> HIDE DEF Starts
<1>2. D # {} /\ D \in (SUBSET Starts) \ {{}}
  BY <1>1
<1>3. \A x \in D : \E y \in D : <<y, x>> \in edges
  BY <1>1
<1> HIDE DEF D
<1> QED BY <1>2, <1>3 DEF Cyclic, Starts

(* Once all inputs have a value, every auxiliary variable gets one.        *)
LEMMA InvSuffices ==
    ASSUME KissatInv
    PROVE  InputsSuffice
<1> SUFFICES ASSUME script = "select_aux_graph", NEW s \in [Vars \ Aux -> BOOLEAN], Agrees(s), ~Decides(s, Aux)
             PROVE  FALSE
  BY DEF InputsSuffice
<1>1. formula \in Inputs /\ \A u \in values : u \in Int /\ u # 0 /\ Var(u) \in Vars
  BY DEF KissatInv, KissatTypeOK
<1> DEFINE A == LiteralsOf(s, Aux)
           R == Propagated(A)
           t == ValueOf(R)
<1>2. Settled(R) /\ A \subseteq R /\ Vars \ Aux \subseteq Decided(R) /\ Decided(R) # Vars
  BY <1>1, PropagationIs
<1>3. Decided(R) \subseteq Vars
  BY DEF Decided
<1> DEFINE Closed(P) == P \subseteq Decided(R) /\ \A y \in P : \A z : <<z, y>> \in edges => z \in P
           G == {y \in Vars : \E P \in SUBSET Vars : Closed(P) /\ y \in P}
<1> HIDE DEF R
<1>4. G \subseteq Decided(R) /\ \A y \in G : \A z : <<z, y>> \in edges => z \in G
  BY <1>3
<1>5. PICK x \in Vars \ G : \A y : <<y, x>> \in edges => y \notin Vars \ G
  <2>1. Vars \ G # {}
    BY <1>2, <1>3, <1>4
  <2> HIDE DEF G
  <2> QED BY <2>1, AcyclicFirst DEF KissatInv
<1>6. \A y, z : <<z, y>> \in edges => z \in Vars
  BY DEF KissatInv, KissatTypeOK
<1>7. x \notin Decided(R)
  <2> SUFFICES ASSUME x \in Decided(R) PROVE FALSE
    OBVIOUS
  <2> DEFINE P == G \cup {x}
  <2>1. Closed(P)
    <3>1. \A z : <<z, x>> \in edges => z \in G
      BY <1>5, <1>6
    <3> HIDE DEF G
    <3> QED BY <1>4, <3>1
  <2>2. P \in SUBSET Vars /\ x \in P
    BY <1>3
  <2> HIDE DEF P, Closed
  <2> QED BY <1>5, <2>1, <2>2
<1>8. x \in Aux
  BY <1>2, <1>7
<1> HIDE DEF G
<1>9. PICK K \in SUBSET formula : GateRight(x, K) /\ Sources(x, K) \subseteq edges
  BY <1>8 DEF KissatInv, AuxRight
<1>10. VarsOf(K) \ {x} \subseteq G
  BY <1>5, <1>6, <1>9 DEF Sources
<1>11. ASSUME NEW u \in values, Var(u) \in VarsOf(K) \ {x}
       PROVE  u \in R
  <2>1. Var(u) \in G /\ Var(u) \in Vars /\ u \in Int /\ u # 0
    BY <1>1, <1>10, <1>11
  <2>2. CASE Var(u) \in Aux
    <3>1. PICK L \in SUBSET formula : GateRight(Var(u), L) /\ Sources(Var(u), L) \subseteq edges
      BY <2>2 DEF KissatInv, AuxRight
    <3>2. VarsOf(L) \ {Var(u)} \subseteq Decided(R)
      BY <1>4, <2>1, <3>1 DEF Sources
    <3> QED BY <1>1, <1>2, <2>1, <3>1, <3>2, CoreKnown
  <2>3. CASE Var(u) \notin Aux
    <3>1. s[Var(u)] = (u > 0)
      BY <2>3 DEF Agrees
    <3>2. (IF s[Var(u)] THEN Var(u) ELSE -Var(u)) = u
      <4>1. CASE u > 0
        <5>1. Var(u) = u
          BY <2>1, <4>1 DEF Var
        <5>2. s[Var(u)]
          BY <3>1, <4>1
        <5> QED BY <5>1, <5>2
      <4>2. CASE ~(u > 0)
        <5>1. Var(u) = -u /\ -(-u) = u
          BY <2>1, <4>2 DEF Var
        <5> QED BY <3>1, <4>2, <5>1
      <4> QED BY <4>1, <4>2
    <3>3. (IF s[Var(u)] THEN Var(u) ELSE -Var(u)) \in A
      BY <2>1, <2>3 DEF LiteralsOf
    <3> QED BY <1>2, <3>2, <3>3
  <2> QED BY <2>2, <2>3
<1>12. \A u \in values : Var(u) \in VarsOf(K) \ {x} => t[Var(u)] = (u > 0)
  BY <1>2, <1>11, KnownIsTrue
<1>13. t \in [Vars -> BOOLEAN]
  BY DEF ValueOf
<1> HIDE DEF t
<1>14. PICK a \in BOOLEAN, C \in K : ~Satisfied(C, [t EXCEPT ![x] = a])
  BY <1>9, <1>12, <1>13 DEF GateRight, Fixes
<1>15. \A k \in C : Var(k) \in Vars /\ (Var(k) # x => Var(k) \in Decided(R))
  BY <1>1, <1>4, <1>9, <1>10, ClauseIs DEF VarsOf
<1>16. PICK k \in C : Var(k) # x /\ ~FalseAt(t, k)
  BY <1>1, <1>2, <1>7, <1>9, <1>15, TrueLiteral DEF t
<1>17. [t EXCEPT ![x] = a][Var(k)] = t[Var(k)]
  BY <1>13, <1>15, <1>16
<1> QED BY <1>14, <1>16, <1>17 DEF Satisfied, FalseAt

(* DetectorRight: what Kissat learns follows from the formula, and every   *)
(* auxiliary variable written by a script is forced by the other           *)
(* variables.                                                              *)
THEOREM DetectorIsRight == Spec => []DetectorRight
<1>1. KissatInv => DetectorRight
  BY InvForces DEF DetectorRight, KissatInv
<1> QED BY <1>1, KissatInvariant, PTL

(* InputsSuffice: with select_aux_graph.py a solver that branches on       *)
(* inputs only is left with no auxiliary variable without a value.         *)
THEOREM InputsAreEnough == Spec => []InputsSuffice
<1>1. KissatInv => InputsSuffice
  BY InvSuffices
<1> QED BY <1>1, KissatInvariant, PTL
=============================================================================
