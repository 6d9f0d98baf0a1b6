----------------------------- MODULE CdclProofs -----------------------------
(***************************************************************************)
(* The CDCL loop and the searches before it keep SolveInv: whatever the    *)
(* problem is, the answers, the trail and the learned clauses are right.   *)
(*                                                                         *)
(* First, the operations of Cdcl on the trail preserve the invariant       *)
(* Assignment: search_assign, backtrack, and the decisions.  Then conflict *)
(* analysis: what minimize_clause, shrink_and_minimize_clause,             *)
(* analyze_reason and the resolution of auxiliary literals make of the     *)
(* clause still follows from the formula, and is false on the trail.  Last *)
(* comes one lemma per action of Cdcl, and one per action of Presearch.    *)
(***************************************************************************)
EXTENDS CdclInvariant, FiniteSetTheorems, Recursion

-----------------------------------------------------------------------------
(* Trail and backtracking.                                                 *)

(* Literals and their variables; 0 is the pseudo decision.                 *)
LEMMA Literals ==
    ASSUME NEW p \in Problems
    PROVE  /\ p.vars \subseteq Nat \ {0} /\ IsFiniteSet(p.vars)
           /\ Var(0) = 0 /\ 0 \notin LitsOf(p)
           /\ p.vars \subseteq LitsOf(p)
           /\ \A l \in LitsOf(p) : /\ l \in Int /\ -l \in LitsOf(p) /\ -(-l) = l /\ l # -l
                                   /\ Var(l) \in p.vars /\ Var(-l) = Var(l) /\ Var(l) # 0
           /\ \A l, o \in LitsOf(p) \cup {0} : Var(l) = Var(o) <=> l = o \/ l = -o
<1>1. p.vars \subseteq Nat \ {0} /\ IsFiniteSet(p.vars)
  BY CdclAssumption
<1>2. Var(0) = 0 /\ 0 \notin LitsOf(p) /\ p.vars \subseteq LitsOf(p)
  BY <1>1 DEF Var, LitsOf, LitsOver
<1>3. ASSUME NEW l \in LitsOf(p)
      PROVE  /\ l \in Int /\ -l \in LitsOf(p) /\ -(-l) = l /\ l # -l
             /\ Var(l) \in p.vars /\ Var(-l) = Var(l) /\ Var(l) # 0
  <2>1. CASE l \in p.vars
    BY <1>1, <2>1 DEF Var, LitsOf, LitsOver
  <2>2. CASE l \notin p.vars
    <3>1. PICK v \in p.vars : l = -v
      BY <2>2 DEF LitsOf, LitsOver
    <3>2. v \in Nat \ {0} /\ -(-v) = v
      BY <1>1
    <3>3. l \in Int /\ l < 0 /\ -l = v
      BY <3>1, <3>2
    <3> QED BY <3>1, <3>2, <3>3 DEF Var, LitsOf, LitsOver
  <2> QED BY <2>1, <2>2
<1>4. ASSUME NEW l \in LitsOf(p) \cup {0}, NEW o \in LitsOf(p) \cup {0}
      PROVE  Var(l) = Var(o) <=> l = o \/ l = -o
  <2>1. l \in Int /\ o \in Int
    BY <1>3
  <2> QED BY <2>1 DEF Var
<1> QED BY <1>1, <1>2, <1>3, <1>4

(* Largest, of a set of levels or of positions.                            *)
LEMMA LargestElement ==
    ASSUME NEW T, NEW b \in Nat, T \subseteq 0 .. b, T # {}
    PROVE  /\ Largest(T) \in T
           /\ \A y \in T : y <= Largest(T)
BY GreatestElement DEF Largest

-----------------------------------------------------------------------------
(* The trail s consists of the literals of t up to level n in their order; *)
(* the first h of them, before the frame of the next level, stay in place. *)
Keeps(t, s, lv, n, h) ==
    \E g \in [1 .. Len(s) -> 1 .. Len(t)] :
        /\ h <= Len(s)
        /\ \A j \in 1 .. Len(s) : s[j] = t[g[j]] /\ lv[Var(s[j])] <= n
        /\ \A i, j \in 1 .. Len(s) : i < j => g[i] < g[j]
        /\ \A k \in 1 .. Len(t) : lv[Var(t[k])] <= n => \E j \in 1 .. Len(s) : g[j] = k
        /\ \A j \in 1 .. h : g[j] = j

(* backtrack keeps these literals.                                         *)
LEMMA BacktrackKeeps ==
    ASSUME NEW L, trail \in Seq(L), NEW n \in Nat, n # level,
           NEW h \in 0 .. Len(trail), h = control[n + 1].trail,
           \A k \in 1 .. h : lev[Var(trail[k])] <= n
    PROVE  Kept(n) \in Seq(L) /\ Keeps(trail, Kept(n), lev, n, h)
<1> DEFINE Stays(k) == k <= control[n + 1].trail \/ lev[Var(trail[k])] <= n
           kept[k \in Nat] == IF k = 0 THEN << >>
                              ELSE IF k <= control[n + 1].trail \/ lev[Var(trail[k])] <= n
                                   THEN Append(kept[k - 1], trail[k])
                                   ELSE kept[k - 1]
           N == Len(trail)
<1>1. Kept(n) = kept[N]
  BY DEF Kept
<1>2. kept[0] = << >> /\ \A k \in Nat \ {0} :
         kept[k] = IF Stays(k) THEN Append(kept[k - 1], trail[k]) ELSE kept[k - 1]
  <2> DEFINE S == Seq({trail[k] : k \in Nat})
             F == [x \in Nat \X S |-> IF Stays(x[1]) THEN Append(x[2], trail[x[1]]) ELSE x[2]]
  <2>1. << >> \in S
    OBVIOUS
  <2>2. F \in [Nat \X S -> S]
    <3>1. \A x \in Nat \X S : x[1] \in Nat /\ x[2] \in S /\ trail[x[1]] \in {trail[k] : k \in Nat}
      OBVIOUS
    <3>2. \A x \in Nat \X S : Append(x[2], trail[x[1]]) \in S
      BY <3>1
    <3> QED BY <3>1, <3>2
  <2>3. \E f : RecursiveOn(f, S, << >>, F)
    <3> HIDE DEF S, F
    <3> QED BY <2>1, <2>2, RecursiveFunction
  <2> PICK f : RecursiveOn(f, S, << >>, F)
    BY <2>3
  <2>7. f \in [Nat -> S] /\ f[0] = << >> /\ \A k \in Nat \ {0} : f[k] = F[<<k, f[k - 1]>>]
    BY DEF RecursiveOn
  <2>4. \A k \in Nat \ {0} : f[k] = IF Stays(k) THEN Append(f[k - 1], trail[k]) ELSE f[k - 1]
    <3> SUFFICES ASSUME NEW k \in Nat \ {0}
                 PROVE  f[k] = IF Stays(k) THEN Append(f[k - 1], trail[k]) ELSE f[k - 1]
      OBVIOUS
    <3>1. k - 1 \in Nat /\ f[k - 1] \in S
      BY <2>7
    <3>2. <<k, f[k - 1]>> \in Nat \X S
      BY <3>1
    <3>3. F[<<k, f[k - 1]>>] = IF Stays(k) THEN Append(f[k - 1], trail[k]) ELSE f[k - 1]
      BY <3>2
    <3> QED BY <2>7, <3>3
  <2>5. f = [k \in Nat |-> IF k = 0 THEN << >>
                          ELSE IF Stays(k) THEN Append(f[k - 1], trail[k])
                                   ELSE f[k - 1]]
    BY <2>7, <2>4
  <2>6. kept = [k \in Nat |-> IF k = 0 THEN << >>
                              ELSE IF Stays(k) THEN Append(kept[k - 1], trail[k])
                                   ELSE kept[k - 1]]
    BY <2>5
  <2> HIDE DEF kept
  <2> QED BY <2>6
<1> HIDE DEF kept
<1> DEFINE Embeds(s, g, k) ==
               /\ g \in [1 .. Len(s) -> 1 .. k]
               /\ \A j \in 1 .. Len(s) : s[j] = trail[g[j]] /\ lev[Var(s[j])] <= n
               /\ \A i, j \in 1 .. Len(s) : i < j => g[i] < g[j]
               /\ \A i \in 1 .. k : lev[Var(trail[i])] <= n => \E j \in 1 .. Len(s) : g[j] = i
               /\ \A j \in 1 .. Len(s) : j <= h => g[j] = j
           Good(s, k) == /\ s \in Seq(L)
                         /\ IF k <= h THEN Len(s) = k ELSE h <= Len(s)
                         /\ \E g : Embeds(s, g, k)
           T == {k \in Nat : k <= N => Good(kept[k], k)}
<1>3. 0 \in T
  <2>1. Embeds(<< >>, [j \in {} |-> 1], 0)
    OBVIOUS
  <2>2. Good(<< >>, 0)
    <3> HIDE DEF Embeds
    <3>1. << >> \in Seq(L) /\ Len(<< >>) = 0 /\ 0 <= h
      OBVIOUS
    <3> QED BY <2>1, <3>1
  <2>3. 0 \in Nat /\ kept[0] = << >>
    BY <1>2
  <2> HIDE DEF Good
  <2> QED BY <2>2, <2>3
<1>4. ASSUME NEW k \in Nat, k \in T PROVE k + 1 \in T
  <2> SUFFICES ASSUME k + 1 <= N PROVE Good(kept[k + 1], k + 1)
    <3> HIDE DEF Good, N
    <3> QED OBVIOUS
  <2> DEFINE s == kept[k]
             x == trail[k + 1]
  <2>0. Good(kept[k], k)
    <3> HIDE DEF Good
    <3>1. N \in Nat /\ k <= N
      BY <1>4
    <3> HIDE DEF N
    <3> QED BY <1>4, <3>1
  <2>1. s \in Seq(L) /\ (IF k <= h THEN Len(s) = k ELSE h <= Len(s)) /\ x \in L
    BY <2>0
  <2>6. \E g : Embeds(kept[k], g, k)
    <3> HIDE DEF Embeds
    <3> QED BY <2>0
  <2>2. PICK g : Embeds(s, g, k)
    <3> HIDE DEF Embeds
    <3> QED BY <2>6
  <2>3. kept[k + 1] = IF Stays(k + 1) THEN Append(s, x) ELSE s
    BY <1>2
  <2>4. CASE Stays(k + 1)
    <3> DEFINE f == [j \in 1 .. Len(s) + 1 |-> IF j = Len(s) + 1 THEN k + 1 ELSE g[j]]
               a == Append(s, x)
    <3>1. /\ Len(a) = Len(s) + 1 /\ Len(s) \in Nat
          /\ a[Len(s) + 1] = x /\ \A j \in 1 .. Len(s) : a[j] = s[j]
      BY <2>1
    <3>2. lev[Var(x)] <= n
      <4>1. k + 1 <= h => k + 1 \in 1 .. h
        OBVIOUS
      <4> QED BY <2>4, <4>1
    <3> HIDE DEF s, x, a
    <3>3. f \in [1 .. Len(a) -> 1 .. k + 1]
      BY <2>2, <3>1
    <3>4. ASSUME NEW j \in 1 .. Len(s) PROVE f[j] = g[j] /\ g[j] \in 1 .. k
      <4>1. j \in 1 .. Len(s) + 1 /\ j # Len(s) + 1
        BY <3>1
      <4> QED BY <4>1, <2>2
    <3>5. f[Len(s) + 1] = k + 1
      BY <3>1
    <3>6. \A j \in 1 .. Len(a) : j \in 1 .. Len(s) \/ j = Len(s) + 1
      BY <3>1
    <3> HIDE DEF f
    <3>7. \A j \in 1 .. Len(a) : a[j] = trail[f[j]] /\ lev[Var(a[j])] <= n
      BY <2>2, <3>1, <3>2, <3>4, <3>5, <3>6 DEF x
    <3>8. ASSUME NEW i \in 1 .. Len(a), NEW j \in 1 .. Len(a), i < j
          PROVE  f[i] < f[j]
      <4>1. i \in 1 .. Len(s)
        BY <3>1, <3>6, <3>8
      <4>2. CASE j \in 1 .. Len(s)
        <5>1. g[i] < g[j]
          BY <2>2, <3>8, <4>1, <4>2
        <5> QED BY <5>1, <3>4, <4>1, <4>2
      <4>3. CASE j = Len(s) + 1
        BY <3>4, <3>5, <4>1, <4>3
      <4> QED BY <3>6, <4>2, <4>3
    <3>9. ASSUME NEW i \in 1 .. k + 1, lev[Var(trail[i])] <= n
          PROVE  \E j \in 1 .. Len(a) : f[j] = i
      <4>1. CASE i = k + 1
        BY <4>1, <3>1, <3>5
      <4>2. CASE i # k + 1
        <5>1. i \in 1 .. k
          BY <4>2
        <5>2. PICK j \in 1 .. Len(s) : g[j] = i
          BY <2>2, <3>9, <5>1
        <5>3. j \in 1 .. Len(a) /\ f[j] = i
          BY <5>2, <3>1, <3>4
        <5> QED BY <5>3
      <4> QED BY <4>1, <4>2
    <3>10. \A j \in 1 .. Len(a) : j <= h => f[j] = j
      <4>1. Len(s) + 1 <= h => Len(s) = k
        BY <2>1, <3>1 DEF s
      <4> QED BY <4>1, <2>2, <3>4, <3>5, <3>6
    <3>11. a \in Seq(L) /\ (IF k + 1 <= h THEN Len(a) = k + 1 ELSE h <= Len(a))
      BY <2>1, <3>1 DEF a
    <3>12. Embeds(a, f, k + 1)
      BY <3>3, <3>7, <3>8, <3>9, <3>10
    <3>13. kept[k + 1] = a
      BY <2>3, <2>4 DEF a
    <3> QED BY <3>11, <3>12, <3>13
  <2>5. CASE ~Stays(k + 1)
    <3>1. k >= h
      BY <2>5
    <3>2. Embeds(s, g, k + 1)
      <4> HIDE DEF s
      <4>1. g \in [1 .. Len(s) -> 1 .. k + 1]
        BY <2>2
      <4>2. \A i \in 1 .. k + 1 : i \in 1 .. k \/ i = k + 1
        OBVIOUS
      <4> QED BY <4>1, <4>2, <2>2, <2>5
    <3>3. kept[k + 1] = s
      BY <2>3, <2>5
    <3> HIDE DEF s, Embeds
    <3> QED BY <2>1, <3>1, <3>2, <3>3
  <2> QED BY <2>4, <2>5
<1>5. Good(kept[N], N)
  <2> HIDE DEF T
  <2>1. \A k \in Nat : k \in T
    BY <1>3, <1>4, SetInduction
  <2>2. N \in Nat
    OBVIOUS
  <2> HIDE DEF Good, N
  <2> QED BY <2>1, <2>2 DEF T
<1>6. Kept(n) \in Seq(L) /\ h <= Len(Kept(n)) /\ \E g : Embeds(Kept(n), g, N)
  <2> HIDE DEF Embeds
  <2> QED BY <1>1, <1>5
<1> PICK g : Embeds(Kept(n), g, N)
  BY <1>6
<1>7. \A j \in 1 .. h : j \in 1 .. Len(Kept(n)) /\ j <= h
  <2>1. h \in Nat /\ Len(Kept(n)) \in Nat
    BY <1>6
  <2> QED BY <1>6, <2>1
<1>8. /\ g \in [1 .. Len(Kept(n)) -> 1 .. Len(trail)]
      /\ h <= Len(Kept(n))
      /\ \A j \in 1 .. Len(Kept(n)) : Kept(n)[j] = trail[g[j]] /\ lev[Var(Kept(n)[j])] <= n
      /\ \A i, j \in 1 .. Len(Kept(n)) : i < j => g[i] < g[j]
      /\ \A k \in 1 .. Len(trail) : lev[Var(trail[k])] <= n =>
                                      \E j \in 1 .. Len(Kept(n)) : g[j] = k
      /\ \A j \in 1 .. h : g[j] = j
  BY <1>6, <1>7
<1> HIDE DEF Embeds
<1>9. Keeps(trail, Kept(n), lev, n, h)
  BY <1>8 DEF Keeps
<1> QED BY <1>6, <1>9

(* What is kept, in terms of literals; the prefix before the frames that   *)
(* stay is the same, and so is the order.                                  *)
SameLiterals(t, s, lv, n, h) ==
    /\ h <= Len(s)
    /\ \A k \in 1 .. h : s[k] = t[k]
    /\ \A l : On(s, l) <=> On(t, l) /\ lv[Var(l)] <= n

Places(t, s, lv, n, h, g) ==
    /\ g \in [1 .. Len(s) -> 1 .. Len(t)]
    /\ \A j \in 1 .. Len(s) : s[j] = t[g[j]] /\ lv[Var(s[j])] <= n
    /\ \A i, j \in 1 .. Len(s) : i < j <=> g[i] < g[j]
    /\ \A k \in 1 .. Len(t) : lv[Var(t[k])] <= n => \E j \in 1 .. Len(s) : g[j] = k
    /\ \A j \in 1 .. Len(s) : /\ j <= h => g[j] = j
                              /\ j > h => g[j] > h
                              /\ g[j] <= h + 1 => j = g[j]

(* backtrack keeps the literals of the lower levels, in their order.       *)
LEMMA KeptLiterals ==
    ASSUME NEW p \in Problems, NEW t \in Seq(LitsOf(p) \cup {0}), NEW lv, NEW n \in Nat,
           lv \in [p.vars \cup {0} -> Nat],
           NEW s \in Seq(LitsOf(p) \cup {0}), NEW h \in 0 .. Len(t), Keeps(t, s, lv, n, h)
    PROVE  SameLiterals(t, s, lv, n, h) /\ \E g : Places(t, s, lv, n, h, g)
<1> PICK g \in [1 .. Len(s) -> 1 .. Len(t)] :
        /\ h <= Len(s)
        /\ \A j \in 1 .. Len(s) : s[j] = t[g[j]] /\ lv[Var(s[j])] <= n
        /\ \A i, j \in 1 .. Len(s) : i < j => g[i] < g[j]
        /\ \A k \in 1 .. Len(t) : lv[Var(t[k])] <= n => \E j \in 1 .. Len(s) : g[j] = k
        /\ \A j \in 1 .. h : g[j] = j
  BY DEF Keeps
<1>1. Len(s) \in Nat /\ Len(t) \in Nat /\ \A j \in 1 .. Len(s) : g[j] \in Nat /\ g[j] >= 1
  OBVIOUS
<1>2. \A k \in 1 .. h : k \in 1 .. Len(s) /\ s[k] = t[k]
  BY <1>1
<1>3. ASSUME NEW l PROVE On(s, l) <=> On(t, l) /\ lv[Var(l)] <= n
  <2>1. ASSUME On(s, l) PROVE On(t, l) /\ lv[Var(l)] <= n
    BY <2>1, <1>1 DEF On
  <2>2. ASSUME On(t, l), lv[Var(l)] <= n PROVE On(s, l)
    <3>1. PICK k \in 1 .. Len(t) : t[k] = l
      BY <2>2 DEF On
    <3>2. PICK j \in 1 .. Len(s) : g[j] = k
      BY <2>2, <3>1
    <3> QED BY <3>1, <3>2 DEF On
  <2> QED BY <2>1, <2>2
<1>4. ASSUME NEW i \in 1 .. Len(s), NEW j \in 1 .. Len(s)
      PROVE  i < j <=> g[i] < g[j]
  <2>1. i \in Nat /\ j \in Nat /\ g[i] \in Nat /\ g[j] \in Nat
    BY <1>1
  <2>2. j < i => g[j] < g[i]
    OBVIOUS
  <2>3. j = i => g[j] = g[i]
    OBVIOUS
  <2> QED BY <2>1, <2>2, <2>3
<1>5. ASSUME NEW j \in 1 .. Len(s)
      PROVE  /\ j <= h => g[j] = j
             /\ j > h => g[j] > h
             /\ g[j] <= h + 1 => j = g[j]
  <2>1. j <= h => g[j] = j
    BY <1>1
  <2>2. ASSUME j > h PROVE g[j] > h
    <3>1. CASE h = 0
      BY <3>1, <1>1
    <3>2. CASE h > 0
      <4>1. h \in 1 .. h /\ h \in 1 .. Len(s)
        BY <1>1, <3>2
      <4>2. g[h] = h /\ g[h] < g[j]
        BY <4>1, <2>2
      <4> QED BY <4>2
    <3> QED BY <3>1, <3>2
  <2>3. ASSUME j > h, g[j] <= h + 1 PROVE j = h + 1
    <3> SUFFICES ASSUME j > h + 1 PROVE FALSE
      BY <2>3, <1>1
    <3>1. h + 1 \in 1 .. Len(s) /\ h + 1 > h
      BY <1>1
    <3>2. g[h + 1] > h
      <4>1. CASE h = 0
        BY <3>1, <4>1, <1>1
      <4>2. CASE h > 0
        <5>1. h \in 1 .. h /\ h \in 1 .. Len(s)
          BY <1>1, <4>2
        <5>2. g[h] = h /\ g[h] < g[h + 1]
          BY <5>1, <3>1
        <5> QED BY <5>2
      <4> QED BY <4>1, <4>2
    <3>3. g[h + 1] < g[j]
      BY <3>1
    <3> QED BY <3>1, <3>2, <3>3, <2>3, <1>1
  <2>4. g[j] \in Nat /\ j \in Nat
    BY <1>1
  <2> QED BY <2>1, <2>2, <2>3, <2>4
<1>6. SameLiterals(t, s, lv, n, h)
  BY <1>2, <1>3 DEF SameLiterals
<1>7. Places(t, s, lv, n, h, g)
  BY <1>4, <1>5 DEF Places
<1> QED BY <1>6, <1>7

(* Frames that stay.                                                       *)
LEMMA KeptFrames ==
    ASSUME NEW F, NEW ct \in Seq(F), NEW n \in 0 .. Len(ct)
    PROVE  /\ SubSeq(ct, 1, n) \in Seq(F)
           /\ Len(SubSeq(ct, 1, n)) = n
           /\ \A i \in 1 .. n : SubSeq(ct, 1, n)[i] = ct[i]
OBVIOUS

(* backtrack preserves the invariant.                                      *)
LEMMA BacktrackAssignment ==
    ASSUME NEW p \in Problems, NEW t, NEW lv, NEW rs, NEW ct, NEW C,
           Assignment(p, t, lv, rs, ct, C),
           NEW n \in Nat, n < Len(ct),
           NEW s \in Seq(LitsOf(p) \cup {0}), Keeps(t, s, lv, n, ct[n + 1].trail)
    PROVE  Assignment(p, s, lv, rs, SubSeq(ct, 1, n), C)
<1> DEFINE d == SubSeq(ct, 1, n)
           h == ct[n + 1].trail
           F == [decision : LitsOf(p) \cup {0}, trail : Nat]
<1>1. /\ t \in Seq(LitsOf(p) \cup {0}) /\ lv \in [p.vars \cup {0} -> Nat]
      /\ rs \in [p.vars \cup {0} -> SUBSET LitsOf(p)] /\ ct \in Seq(F)
  BY DEF Assignment, SearchState, Shape
<1>2. /\ d \in Seq(F) /\ Len(d) = n /\ \A i \in 1 .. n : d[i] = ct[i] /\ i \in 1 .. Len(ct)
  <2>1. n \in 0 .. Len(ct)
    BY <1>1
  <2> HIDE DEF F
  <2> QED BY <1>1, <2>1, KeptFrames
<1>3. n + 1 \in 1 .. Len(ct) /\ h \in 0 .. Len(t)
  <2>1. n + 1 \in 1 .. Len(ct)
    BY <1>1
  <2>2. ct[n + 1] \in F
    <3> HIDE DEF F
    <3> QED BY <2>1, <1>1
  <2>3. h \in Nat
    BY <2>2
  <2>4. h <= Len(t)
    BY <2>1 DEF Assignment, SearchState, Ordered
  <2>5. Len(t) \in Nat
    BY <1>1
  <2> HIDE DEF h
  <2> QED BY <2>1, <2>3, <2>4, <2>5
<1>4. SameLiterals(t, s, lv, n, h) /\ \E g : Places(t, s, lv, n, h, g)
  <2>1. Keeps(t, s, lv, n, h)
    OBVIOUS
  <2> HIDE DEF h
  <2> QED BY <2>1, <1>1, <1>3, KeptLiterals
<1>5. /\ h <= Len(s)
      /\ \A k \in 1 .. h : s[k] = t[k]
      /\ \A l : On(s, l) <=> On(t, l) /\ lv[Var(l)] <= n
  BY <1>4 DEF SameLiterals
<1> PICK g : Places(t, s, lv, n, h, g)
  BY <1>4
<1>6. /\ g \in [1 .. Len(s) -> 1 .. Len(t)]
      /\ \A j \in 1 .. Len(s) : s[j] = t[g[j]] /\ lv[Var(s[j])] <= n
      /\ \A i, j \in 1 .. Len(s) : i < j <=> g[i] < g[j]
      /\ \A k \in 1 .. Len(t) : lv[Var(t[k])] <= n => \E j \in 1 .. Len(s) : g[j] = k
      /\ \A j \in 1 .. Len(s) : /\ j <= h => g[j] = j
                                /\ j > h => g[j] > h
                                /\ g[j] <= h + 1 => j = g[j]
  BY DEF Places
<1>7. /\ Len(s) \in Nat /\ Len(t) \in Nat
      /\ \A j \in 1 .. Len(s) : g[j] \in 1 .. Len(t) /\ g[j] \in Nat /\ Var(s[j]) \in p.vars \cup {0}
                                /\ lv[Var(s[j])] \in Nat /\ s[j] \in LitsOf(p) \cup {0}
  <2>1. \A l \in LitsOf(p) \cup {0} : Var(l) \in p.vars \cup {0}
    BY Literals
  <2>2. \A j \in 1 .. Len(s) : s[j] \in LitsOf(p) \cup {0}
    OBVIOUS
  <2>3. Len(s) \in Nat /\ Len(t) \in Nat /\ \A j \in 1 .. Len(s) : g[j] \in 1 .. Len(t) /\ g[j] \in Nat
    <3>1. g \in [1 .. Len(s) -> 1 .. Len(t)] /\ Len(s) \in Nat /\ Len(t) \in Nat
      BY <1>1, <1>6
    <3>2. \A j \in 1 .. Len(s) : g[j] \in 1 .. Len(t)
      BY <3>1
    <3>3. \A j \in 1 .. Len(t) : j \in Nat
      BY <3>1
    <3> QED BY <3>1, <3>2, <3>3
  <2>4. \A v \in p.vars \cup {0} : lv[v] \in Nat
    BY <1>1
  <2>5. \A j \in 1 .. Len(s) : Var(s[j]) \in p.vars \cup {0}
    BY <2>1, <2>2
  <2> QED BY <2>2, <2>3, <2>4, <2>5
<1>8. \A i \in 1 .. n : ct[i].trail \in 0 .. h
  <2>1. \A i \in 1 .. n : n + 1 \in i .. Len(ct)
    BY <1>3
  <2>2. \A i \in 1 .. n : ct[i].trail \in Nat
    BY <1>1, <1>2
  <2> QED BY <2>1, <2>2, <1>2, <1>3 DEF Assignment, SearchState, Ordered
<1>9. Shape(p, s, lv, rs, d)
  BY <1>1, <1>2 DEF Shape
<1> HIDE DEF d, h, F
<1>10. Ordered(p, s, lv, d)
  <2>1. ASSUME NEW j \in 1 .. Len(s), NEW k \in 1 .. Len(s), Var(s[j]) = Var(s[k])
        PROVE  j = k
    <3>1. g[j] = g[k]
      <4>1. s[j] = t[g[j]] /\ s[k] = t[g[k]] /\ g[j] \in 1 .. Len(t) /\ g[k] \in 1 .. Len(t)
        BY <1>6, <1>7
      <4>2. Var(t[g[j]]) = Var(t[g[k]])
        BY <4>1, <2>1
      <4> QED BY <4>1, <4>2 DEF Assignment, SearchState, Ordered
    <3>2. ~(j < k) /\ ~(k < j)
      BY <3>1, <1>6, <1>7
    <3> QED BY <3>2
  <2>2. \A k \in 1 .. Len(s) : LevelAt(s, lv, k) <= Len(d)
    BY <1>2, <1>6 DEF LevelAt
  <2>3. ASSUME NEW i \in 1 .. Len(d)
        PROVE  /\ d[i].trail <= Len(s)
               /\ \A j \in i .. Len(d) : d[i].trail <= d[j].trail
               /\ \A k \in 1 .. Len(s) : k <= d[i].trail => LevelAt(s, lv, k) < i
               /\ "chrono" \notin p.opts =>
                     \A k \in 1 .. Len(s) : k > d[i].trail => LevelAt(s, lv, k) >= i
    <3>1. i \in 1 .. n /\ d[i] = ct[i] /\ i \in 1 .. Len(ct) /\ d[i].trail \in 0 .. h
      BY <1>2, <1>8
    <3>2. d[i].trail <= Len(s)
      BY <3>1, <1>3, <1>5, <1>7
    <3>3. \A j \in i .. Len(d) : d[i].trail <= d[j].trail
      <4>1. \A j \in i .. Len(d) : j \in 1 .. n /\ j \in i .. Len(ct)
        BY <1>2, <1>3
      <4> QED BY <3>1, <4>1, <1>2 DEF Assignment, SearchState, Ordered
    <3>4. /\ \A k \in 1 .. Len(t) : k <= ct[i].trail => lv[Var(t[k])] < i
          /\ "chrono" \notin p.opts => \A k \in 1 .. Len(t) : k > ct[i].trail => lv[Var(t[k])] >= i
      BY <3>1 DEF Assignment, SearchState, Ordered, LevelAt
    <3>5. \A k \in 1 .. Len(s) : LevelAt(s, lv, k) = lv[Var(t[g[k]])] /\ g[k] \in 1 .. Len(t)
      BY <1>6, <1>7 DEF LevelAt
    <3>6. ASSUME NEW k \in 1 .. Len(s), k <= d[i].trail PROVE LevelAt(s, lv, k) < i
      <4>1. g[k] = k
        BY <3>1, <3>6, <1>3, <1>6
      <4> QED BY <3>1, <3>4, <3>5, <3>6, <4>1
    <3>7. ASSUME "chrono" \notin p.opts, NEW k \in 1 .. Len(s), k > d[i].trail
          PROVE  LevelAt(s, lv, k) >= i
      <4>1. g[k] > ct[i].trail
        <5>1. ct[i].trail \in 0 .. h /\ k > ct[i].trail /\ h \in Nat /\ k \in Nat /\ g[k] \in Nat
          BY <3>1, <3>7, <1>3, <1>7
        <5>2. (k <= h => g[k] = k) /\ (k > h => g[k] > h)
          BY <1>6
        <5> QED BY <5>1, <5>2
      <4> QED BY <3>4, <3>5, <3>7, <4>1
    <3> QED BY <3>2, <3>3, <3>6, <3>7
  <2> QED BY <2>1, <2>2, <2>3 DEF Ordered
<1>11. Decided(s, lv, rs, d)
  <2> SUFFICES ASSUME NEW k \in 1 .. Len(s), ReasonAt(s, rs, k) = None, LevelAt(s, lv, k) > 0
               PROVE  /\ k = d[LevelAt(s, lv, k)].trail + 1
                      /\ s[k] = d[LevelAt(s, lv, k)].decision
    BY DEF Decided
  <2>1. /\ s[k] = t[g[k]] /\ g[k] \in 1 .. Len(t)
        /\ LevelAt(t, lv, g[k]) = LevelAt(s, lv, k) /\ ReasonAt(t, rs, g[k]) = None
    BY <1>6, <1>7 DEF LevelAt, ReasonAt
  <2>2. LevelAt(s, lv, k) \in 1 .. n
    BY <1>6, <1>7 DEF LevelAt
  <2>3. g[k] = ct[LevelAt(s, lv, k)].trail + 1 /\ t[g[k]] = ct[LevelAt(s, lv, k)].decision
    BY <2>1 DEF Assignment, SearchState, Decided
  <2>4. ct[LevelAt(s, lv, k)].trail \in 0 .. h
    BY <2>2, <1>8
  <2>5. k = g[k]
    BY <2>3, <2>4, <1>3, <1>6
  <2> QED BY <1>2, <2>1, <2>2, <2>3, <2>5
<1>12. Graph(s, lv, rs)
  <2> SUFFICES ASSUME NEW k \in 1 .. Len(s), ReasonAt(s, rs, k) # None
               PROVE  /\ s[k] \in ReasonAt(s, rs, k)
                      /\ \A o \in ReasonAt(s, rs, k) \ {s[k]} : \E j \in 1 .. k - 1 : s[j] = -o
                      /\ \E o \in ReasonAt(s, rs, k) \ {s[k]} : lv[Var(o)] = LevelAt(s, lv, k)
                      /\ \A o \in ReasonAt(s, rs, k) \ {s[k]} : lv[Var(o)] <= LevelAt(s, lv, k)
    BY DEF Graph
  <2>1. /\ s[k] = t[g[k]] /\ g[k] \in 1 .. Len(t)
        /\ LevelAt(t, lv, g[k]) = LevelAt(s, lv, k) /\ ReasonAt(t, rs, g[k]) = ReasonAt(s, rs, k)
    BY <1>6, <1>7 DEF LevelAt, ReasonAt
  <2>2. /\ s[k] \in ReasonAt(s, rs, k)
        /\ \A o \in ReasonAt(s, rs, k) \ {s[k]} : \E j \in 1 .. g[k] - 1 : t[j] = -o
        /\ \E o \in ReasonAt(s, rs, k) \ {s[k]} : lv[Var(o)] = LevelAt(s, lv, k)
        /\ \A o \in ReasonAt(s, rs, k) \ {s[k]} : lv[Var(o)] <= LevelAt(s, lv, k)
    BY <2>1 DEF Assignment, SearchState, Graph
  <2>3. ASSUME NEW o \in ReasonAt(s, rs, k) \ {s[k]} PROVE \E j \in 1 .. k - 1 : s[j] = -o
    <3>1. PICK i \in 1 .. g[k] - 1 : t[i] = -o
      BY <2>2
    <3>2. i \in 1 .. Len(t) /\ i < g[k]
      BY <2>1, <1>7
    <3>3. o \in LitsOf(p)
      BY <1>1, <1>7 DEF ReasonAt
    <3>4. lv[Var(t[i])] <= n
      <4>1. Var(t[i]) = Var(o) /\ lv[Var(o)] <= LevelAt(s, lv, k)
        BY <2>2, <3>1, <3>3, Literals
      <4>2. LevelAt(s, lv, k) <= n /\ LevelAt(s, lv, k) \in Nat
        BY <1>6, <1>7 DEF LevelAt
      <4>3. lv[Var(o)] \in Nat
        BY <3>3, <1>1, Literals
      <4> QED BY <4>1, <4>2, <4>3
    <3>5. PICK j \in 1 .. Len(s) : g[j] = i
      BY <1>6, <3>2, <3>4
    <3>6. j < k
      BY <3>2, <3>5, <1>6
    <3>7. j \in 1 .. k - 1 /\ s[j] = -o
      BY <3>1, <3>5, <3>6, <1>6
    <3> QED BY <3>7
  <2> QED BY <2>2, <2>3
<1>13. Sound(p, s, lv, rs, d)
  <2> SUFFICES ASSUME NEW k \in 1 .. Len(s)
               PROVE  /\ ReasonAt(s, rs, k) # None => Follows(p, ReasonAt(s, rs, k))
                      /\ \A m \in ModelsOf(p) : Decides(m, d, LevelAt(s, lv, k)) => Holds(m, s[k])
    BY DEF Sound
  <2>1. /\ s[k] = t[g[k]] /\ g[k] \in 1 .. Len(t)
        /\ LevelAt(t, lv, g[k]) = LevelAt(s, lv, k) /\ ReasonAt(t, rs, g[k]) = ReasonAt(s, rs, k)
    BY <1>6, <1>7 DEF LevelAt, ReasonAt
  <2>2. LevelAt(s, lv, k) \in 0 .. n
    BY <1>6, <1>7 DEF LevelAt
  <2>3. \A m : Decides(m, d, LevelAt(s, lv, k)) <=> Decides(m, ct, LevelAt(s, lv, k))
    <3>1. \A i \in 1 .. LevelAt(s, lv, k) : d[i] = ct[i]
      BY <2>2, <1>2
    <3> QED BY <3>1 DEF Decides
  <2> QED BY <2>1, <2>3 DEF Assignment, SearchState, Sound
<1>14. Framed(s, lv, d, C)
  <2> SUFFICES ASSUME NEW i \in 1 .. Len(d), NEW c \in C PROVE Safe(s, lv, d, i, c)
    BY DEF Framed
  <2>1. i \in 1 .. n /\ d[i] = ct[i] /\ i \in 1 .. Len(ct) /\ ct[i].trail \in 0 .. h
    BY <1>2, <1>8
  <2>2. Safe(t, lv, ct, i, c)
    BY <2>1 DEF Assignment, SearchState, Framed
  <2>3. \A l : FalseBefore(s, d, i, l) => FalseBefore(t, ct, i, l)
    <3>1. \A k \in 1 .. ct[i].trail : s[k] = t[k]
      BY <2>1, <1>3, <1>5
    <3> QED BY <2>1, <3>1 DEF FalseBefore
  <2>4. \A l \in LitsOf(p) \cup {0} : On(t, l) /\ lv[Var(l)] < i => On(s, l)
    <3>1. \A l \in LitsOf(p) \cup {0} : lv[Var(l)] \in Nat
      BY <1>1, Literals
    <3> QED BY <3>1, <1>5, <2>1
  <2>5. \A l : On(t, l) => l \in LitsOf(p) \cup {0}
    BY <1>1 DEF On
  <2> QED BY <2>2, <2>3, <2>4, <2>5 DEF Safe
<1>15. AssumptionsDecided(p, s, lv, d)
  <2> SUFFICES ASSUME NEW i \in 1 .. Len(d)
               PROVE  /\ i <= Len(p.assumptions) =>
                            /\ d[i].decision \in {0, p.assumptions[i]}
                            /\ On(s, p.assumptions[i]) /\ lv[Var(p.assumptions[i])] <= i
                      /\ i = Len(p.assumptions) + 1 /\ p.constraint # << >> =>
                            \E j \in 1 .. Len(p.constraint) :
                                On(s, p.constraint[j]) /\ lv[Var(p.constraint[j])] <= i
    BY DEF AssumptionsDecided
  <2>1. i \in 1 .. n /\ d[i] = ct[i] /\ i \in 1 .. Len(ct)
    BY <1>2
  <2>2. \A l : On(t, l) /\ lv[Var(l)] <= i => On(s, l)
    <3> SUFFICES ASSUME NEW l, On(t, l), lv[Var(l)] <= i PROVE On(s, l)
      OBVIOUS
    <3>1. l \in LitsOf(p) \cup {0}
      BY <1>1 DEF On
    <3>2. lv[Var(l)] \in Nat
      BY <1>1, <3>1, Literals
    <3> QED BY <3>2, <1>5, <2>1
  <2> QED BY <2>1, <2>2 DEF Assignment, SearchState, AssumptionsDecided
<1>16. UnitsAssigned(p, s, lv)
  <2>1. \A k \in DOMAIN p.units : On(t, p.units[k]) /\ lv[Var(p.units[k])] = 0
    BY DEF Assignment, UnitsAssigned
  <2>2. \A k \in DOMAIN p.units : On(s, p.units[k])
    BY <2>1, <1>5
  <2> QED BY <2>1, <2>2 DEF UnitsAssigned
<1> QED BY <1>9, <1>10, <1>11, <1>12, <1>13, <1>14, <1>15, <1>16 DEF Assignment, SearchState, d

(* A literal that is assigned has a position, and only one; its negation   *)
(* is not assigned.                                                        *)
LEMMA OneAssignment ==
    ASSUME NEW p \in Problems, NEW t, NEW lv, NEW rs, NEW ct, NEW C,
           SearchState(p, t, lv, rs, ct, C)
    PROVE  /\ Len(t) \in Nat /\ Len(ct) \in Nat
           /\ \A k \in 1 .. Len(t) : /\ t[k] \in LitsOf(p) \cup {0} /\ Var(t[k]) \in p.vars \cup {0}
                                      /\ LevelAt(t, lv, k) \in 0 .. Len(ct)
                                      /\ ReasonAt(t, rs, k) \subseteq LitsOf(p)
           /\ \A l \in LitsOf(p) : ~(On(t, l) /\ On(t, -l))
           /\ \A l \in LitsOf(p) \cup {0} : lv[Var(l)] \in Nat /\ Var(l) \in p.vars \cup {0}
           /\ \A l : On(t, l) => l \in LitsOf(p) \cup {0} /\ lv[Var(l)] \in 0 .. Len(ct)
<1>1. /\ t \in Seq(LitsOf(p) \cup {0}) /\ lv \in [p.vars \cup {0} -> Nat]
      /\ rs \in [p.vars \cup {0} -> SUBSET LitsOf(p)]
      /\ ct \in Seq([decision : LitsOf(p) \cup {0}, trail : Nat])
  BY DEF SearchState, Shape
<1>2. Len(t) \in Nat /\ Len(ct) \in Nat
  BY <1>1
<1>3. \A l \in LitsOf(p) \cup {0} : Var(l) \in p.vars \cup {0}
  BY Literals
<1>4. \A k \in 1 .. Len(t) : t[k] \in LitsOf(p) \cup {0} /\ Var(t[k]) \in p.vars \cup {0}
  BY <1>1, <1>3
<1>5. \A v \in p.vars \cup {0} : lv[v] \in Nat /\ rs[v] \subseteq LitsOf(p)
  BY <1>1
<1>6. \A k \in 1 .. Len(t) : LevelAt(t, lv, k) \in 0 .. Len(ct) /\ ReasonAt(t, rs, k) \subseteq LitsOf(p)
  <2>1. \A k \in 1 .. Len(t) : LevelAt(t, lv, k) <= Len(ct)
    BY DEF SearchState, Ordered
  <2> QED BY <1>2, <1>4, <1>5, <2>1 DEF LevelAt, ReasonAt
<1>7. ASSUME NEW l \in LitsOf(p), On(t, l), On(t, -l) PROVE FALSE
  <2>1. PICK j \in 1 .. Len(t) : t[j] = l
    BY <1>7 DEF On
  <2>2. PICK k \in 1 .. Len(t) : t[k] = -l
    BY <1>7 DEF On
  <2>3. Var(t[j]) = Var(t[k]) /\ l # -l
    BY <2>1, <2>2, Literals
  <2>4. j = k
    BY <2>3 DEF SearchState, Ordered
  <2> QED BY <2>1, <2>2, <2>3, <2>4
<1>8. \A l : On(t, l) => l \in LitsOf(p) \cup {0} /\ lv[Var(l)] \in 0 .. Len(ct)
  BY <1>4, <1>6 DEF On, LevelAt
<1> QED BY <1>2, <1>3, <1>4, <1>5, <1>6, <1>7, <1>8

(* The frames start on the trail, and in the order of their levels.        *)
LEMMA Frames ==
    ASSUME NEW p \in Problems, NEW t, NEW lv, NEW rs, NEW ct, NEW C,
           SearchState(p, t, lv, rs, ct, C), NEW i \in 1 .. Len(ct)
    PROVE  /\ ct[i].trail \in 0 .. Len(t)
           /\ ct[i].decision \in LitsOf(p) \cup {0}
           /\ \A j \in i .. Len(ct) : ct[i].trail <= ct[j].trail
           /\ \A k \in 1 .. Len(t) : k <= ct[i].trail => lv[Var(t[k])] < i
           /\ "chrono" \notin p.opts => \A k \in 1 .. Len(t) : k > ct[i].trail => lv[Var(t[k])] >= i
<1> DEFINE F == [decision : LitsOf(p) \cup {0}, trail : Nat]
<1>1. ct \in Seq(F)
  BY DEF SearchState, Shape
<1>2. ct[i] \in F
  <2> HIDE DEF F
  <2> QED BY <1>1
<1>3. ct[i].trail \in Nat /\ ct[i].decision \in LitsOf(p) \cup {0}
  BY <1>2
<1>4. Len(t) \in Nat
  BY OneAssignment
<1>5. /\ ct[i].trail <= Len(t)
      /\ \A j \in i .. Len(ct) : ct[i].trail <= ct[j].trail
      /\ \A k \in 1 .. Len(t) : k <= ct[i].trail => lv[Var(t[k])] < i
      /\ "chrono" \notin p.opts => \A k \in 1 .. Len(t) : k > ct[i].trail => lv[Var(t[k])] >= i
  BY DEF SearchState, Ordered, LevelAt
<1> QED BY <1>3, <1>4, <1>5

-----------------------------------------------------------------------------
(* Values at an extended sequence.                                         *)
LEMMA Extended ==
    ASSUME NEW L, NEW t \in Seq(L), NEW l \in L
    PROVE  /\ Append(t, l) \in Seq(L)
           /\ Len(t) \in Nat
           /\ Len(Append(t, l)) = Len(t) + 1
           /\ \A k \in 1 .. Len(t) : Append(t, l)[k] = t[k] /\ k \in 1 .. Len(t) + 1
           /\ Append(t, l)[Len(t) + 1] = l
           /\ Len(t) + 1 \in 1 .. Len(t) + 1
           /\ \A k \in 1 .. Len(t) + 1 : k \in 1 .. Len(t) \/ k = Len(t) + 1
OBVIOUS

(* search_assign: literal l is assigned at level n, because of the clause  *)
(* c, as a unit, or as the decision of the last frame.                     *)
LEMMA ExtendTrail ==
    ASSUME NEW p \in Problems, NEW t, NEW lv, NEW rs, NEW ct, NEW C,
           SearchState(p, t, lv, rs, ct, C),
           NEW l \in LitsOf(p) \cup {0}, ~On(t, l), ~On(t, -l),
           NEW n \in 0 .. Len(ct), "chrono" \notin p.opts => n = Len(ct),
           NEW c \in SUBSET LitsOf(p),
           c = None /\ n = 0 => Follows(p, {l}),
           c = None /\ n > 0 => ct[n].trail = Len(t) /\ ct[n].decision = l,
           c # None => l \in c /\ Follows(p, c) /\ \A o \in c \ {l} : On(t, -o) /\ lv[Var(o)] <= n,
           c # None /\ n > 0 => \E o \in c \ {l} : lv[Var(o)] = n
    PROVE  SearchState(p, Append(t, l), [lv EXCEPT ![Var(l)] = n],
                       [rs EXCEPT ![Var(l)] = IF n = 0 THEN None ELSE c], ct, C)
<1> DEFINE s == Append(t, l)
           lw == [lv EXCEPT ![Var(l)] = n]
           rw == [rs EXCEPT ![Var(l)] = IF n = 0 THEN None ELSE c]
           N == Len(t)
<1>1. /\ t \in Seq(LitsOf(p) \cup {0}) /\ lv \in [p.vars \cup {0} -> Nat]
      /\ rs \in [p.vars \cup {0} -> SUBSET LitsOf(p)]
      /\ ct \in Seq([decision : LitsOf(p) \cup {0}, trail : Nat])
  BY DEF SearchState, Shape
<1>2. /\ s \in Seq(LitsOf(p) \cup {0}) /\ N \in Nat /\ Len(s) = N + 1
      /\ \A k \in 1 .. N : s[k] = t[k] /\ k \in 1 .. N + 1
      /\ s[N + 1] = l
      /\ N + 1 \in 1 .. N + 1
      /\ \A k \in 1 .. N + 1 : k \in 1 .. N \/ k = N + 1
  BY <1>1, Extended
<1>3. /\ \A k \in 1 .. N : /\ t[k] \in LitsOf(p) \cup {0} /\ Var(t[k]) \in p.vars \cup {0}
                           /\ LevelAt(t, lv, k) \in 0 .. Len(ct)
                           /\ ReasonAt(t, rs, k) \subseteq LitsOf(p)
      /\ \A o \in LitsOf(p) \cup {0} : lv[Var(o)] \in Nat /\ Var(o) \in p.vars \cup {0}
      /\ n \in Nat /\ Len(ct) \in Nat
  BY OneAssignment
<1>4. \A o \in LitsOf(p) \cup {0} : Var(o) = Var(l) <=> o = l \/ o = -l
  BY Literals
<1>5. \A k \in 1 .. N : Var(t[k]) # Var(l)
  BY <1>3, <1>4 DEF On
<1>6. /\ lw \in [p.vars \cup {0} -> Nat] /\ rw \in [p.vars \cup {0} -> SUBSET LitsOf(p)]
      /\ lw[Var(l)] = n /\ rw[Var(l)] = IF n = 0 THEN None ELSE c
      /\ \A v \in p.vars \cup {0} : v # Var(l) => lw[v] = lv[v] /\ rw[v] = rs[v]
  <2>1. Var(l) \in p.vars \cup {0}
    BY <1>3
  <2> QED BY <2>1, <1>1, <1>3 DEF None
<1> HIDE DEF s, lw, rw
<1>7. \A k \in 1 .. N : /\ LevelAt(s, lw, k) = LevelAt(t, lv, k)
                       /\ ReasonAt(s, rw, k) = ReasonAt(t, rs, k)
  BY <1>2, <1>3, <1>5, <1>6 DEF LevelAt, ReasonAt
<1>8. LevelAt(s, lw, N + 1) = n /\ ReasonAt(s, rw, N + 1) = IF n = 0 THEN None ELSE c
  BY <1>2, <1>6 DEF LevelAt, ReasonAt
<1>9. \A o : On(t, o) => /\ On(s, o) /\ Var(o) # Var(l) /\ lw[Var(o)] = lv[Var(o)]
                          /\ o \in LitsOf(p) \cup {0}
  BY <1>2, <1>3, <1>5, <1>6 DEF On
<1>10. \A o \in LitsOf(p) : On(t, -o) => lw[Var(o)] = lv[Var(o)] /\ Var(o) = Var(-o)
  BY <1>9, Literals
<1>11. Shape(p, s, lw, rw, ct)
  BY <1>1, <1>2, <1>6 DEF Shape
<1>12. \A i \in 1 .. Len(ct) : ct[i].trail \in 0 .. N
  <2>1. \A i \in 1 .. Len(ct) : ct[i] \in [decision : LitsOf(p) \cup {0}, trail : Nat]
    <3> DEFINE F == [decision : LitsOf(p) \cup {0}, trail : Nat]
    <3>1. ct \in Seq(F)
      BY <1>1
    <3> HIDE DEF F
    <3>2. \A i \in 1 .. Len(ct) : ct[i] \in F
      BY <3>1
    <3> QED BY <3>2 DEF F
  <2>2. \A i \in 1 .. Len(ct) : ct[i].trail <= N
    BY DEF SearchState, Ordered
  <2> QED BY <1>2, <2>1, <2>2
<1>13. Ordered(p, s, lw, ct)
  <2>1. ASSUME NEW j \in 1 .. Len(s), NEW k \in 1 .. Len(s), Var(s[j]) = Var(s[k])
        PROVE  j = k
    <3>1. CASE j \in 1 .. N /\ k \in 1 .. N
      BY <3>1, <2>1, <1>2 DEF SearchState, Ordered
    <3>2. CASE ~(j \in 1 .. N /\ k \in 1 .. N)
      BY <3>2, <2>1, <1>2, <1>5
    <3> QED BY <3>1, <3>2
  <2>2. \A k \in 1 .. Len(s) : LevelAt(s, lw, k) <= Len(ct)
    BY <1>2, <1>3, <1>7, <1>8
  <2>3. ASSUME NEW i \in 1 .. Len(ct)
        PROVE  /\ ct[i].trail <= Len(s)
               /\ \A j \in i .. Len(ct) : ct[i].trail <= ct[j].trail
               /\ \A k \in 1 .. Len(s) : k <= ct[i].trail => LevelAt(s, lw, k) < i
               /\ "chrono" \notin p.opts =>
                     \A k \in 1 .. Len(s) : k > ct[i].trail => LevelAt(s, lw, k) >= i
    <3>1. ct[i].trail <= Len(s) /\ ct[i].trail \in Nat /\ ct[i].trail <= N
      BY <1>2, <1>12
    <3>2. \A j \in i .. Len(ct) : ct[i].trail <= ct[j].trail
      BY DEF SearchState, Ordered
    <3>3. ASSUME NEW k \in 1 .. Len(s), k <= ct[i].trail PROVE LevelAt(s, lw, k) < i
      <4>1. k \in 1 .. N
        BY <3>1, <3>3, <1>2
      <4> QED BY <4>1, <3>3, <1>7 DEF SearchState, Ordered
    <3>4. ASSUME "chrono" \notin p.opts, NEW k \in 1 .. Len(s), k > ct[i].trail
          PROVE  LevelAt(s, lw, k) >= i
      <4>1. CASE k \in 1 .. N
        BY <4>1, <3>4, <1>7 DEF SearchState, Ordered
      <4>2. CASE k = N + 1
        BY <4>2, <3>4, <1>3, <1>8
      <4> QED BY <4>1, <4>2, <1>2
    <3> QED BY <3>1, <3>2, <3>3, <3>4
  <2> QED BY <2>1, <2>2, <2>3 DEF Ordered
<1>14. Decided(s, lw, rw, ct)
  <2> SUFFICES ASSUME NEW k \in 1 .. Len(s), ReasonAt(s, rw, k) = None, LevelAt(s, lw, k) > 0
               PROVE  /\ k = ct[LevelAt(s, lw, k)].trail + 1
                      /\ s[k] = ct[LevelAt(s, lw, k)].decision
    BY DEF Decided
  <2>1. CASE k \in 1 .. N
    BY <2>1, <1>2, <1>7 DEF SearchState, Decided
  <2>2. CASE k = N + 1
    BY <2>2, <1>2, <1>8
  <2> QED BY <2>1, <2>2, <1>2
<1>15. Graph(s, lw, rw)
  <2> SUFFICES ASSUME NEW k \in 1 .. Len(s), ReasonAt(s, rw, k) # None
               PROVE  /\ s[k] \in ReasonAt(s, rw, k)
                      /\ \A o \in ReasonAt(s, rw, k) \ {s[k]} : \E j \in 1 .. k - 1 : s[j] = -o
                      /\ \E o \in ReasonAt(s, rw, k) \ {s[k]} : lw[Var(o)] = LevelAt(s, lw, k)
                      /\ \A o \in ReasonAt(s, rw, k) \ {s[k]} : lw[Var(o)] <= LevelAt(s, lw, k)
    BY DEF Graph
  <2>1. CASE k \in 1 .. N
    <3> DEFINE r == ReasonAt(t, rs, k)
    <3>1. ReasonAt(s, rw, k) = r /\ s[k] = t[k] /\ LevelAt(s, lw, k) = LevelAt(t, lv, k) /\ k \in Nat
          /\ r \subseteq LitsOf(p) /\ r # None
      BY <2>1, <1>2, <1>3, <1>7
    <3> HIDE DEF r
    <3>2. /\ t[k] \in r
          /\ \A o \in r \ {t[k]} : \E j \in 1 .. k - 1 : t[j] = -o
          /\ \E o \in r \ {t[k]} : lv[Var(o)] = LevelAt(t, lv, k)
          /\ \A o \in r \ {t[k]} : lv[Var(o)] <= LevelAt(t, lv, k)
      BY <2>1, <3>1 DEF SearchState, Graph, r
    <3>3. \A j \in 1 .. k - 1 : j \in 1 .. N /\ s[j] = t[j]
      BY <2>1, <1>2
    <3>4. \A o \in r \ {t[k]} : On(t, -o) /\ o \in LitsOf(p)
      BY <3>1, <3>2, <3>3 DEF On
    <3>5. \A o \in r \ {t[k]} : lw[Var(o)] = lv[Var(o)]
      BY <3>4, <1>10
    <3>6. \A o \in r \ {t[k]} : \E j \in 1 .. k - 1 : s[j] = -o
      BY <3>2, <3>3
    <3>7. \E o \in r \ {t[k]} : lw[Var(o)] = LevelAt(t, lv, k)
      BY <3>2, <3>5
    <3>8. \A o \in r \ {t[k]} : lw[Var(o)] <= LevelAt(t, lv, k)
      BY <3>2, <3>5
    <3> QED BY <3>1, <3>2, <3>6, <3>7, <3>8
  <2>2. CASE k = N + 1
    <3>1. n > 0 /\ c # None /\ ReasonAt(s, rw, k) = c /\ s[k] = l /\ LevelAt(s, lw, k) = n
      BY <2>2, <1>2, <1>3, <1>8
    <3>2. \A o \in c \ {l} : On(t, -o) /\ lv[Var(o)] <= n /\ o \in LitsOf(p)
      BY <3>1
    <3>3. \A o \in c \ {l} : lw[Var(o)] = lv[Var(o)]
      BY <3>2, <1>10
    <3>4. \A o \in c \ {l} : \E j \in 1 .. k - 1 : s[j] = -o
      <4>1. \A j \in 1 .. N : j \in 1 .. k - 1 /\ s[j] = t[j]
        BY <2>2, <1>2
      <4> QED BY <4>1, <3>2 DEF On
    <3>5. \E o \in c \ {l} : lw[Var(o)] = n
      BY <3>1, <3>3
    <3> QED BY <3>1, <3>2, <3>3, <3>4, <3>5
  <2> QED BY <2>1, <2>2, <1>2
<1>16. Sound(p, s, lw, rw, ct)
  <2> SUFFICES ASSUME NEW k \in 1 .. Len(s)
               PROVE  /\ ReasonAt(s, rw, k) # None => Follows(p, ReasonAt(s, rw, k))
                      /\ \A m \in ModelsOf(p) : Decides(m, ct, LevelAt(s, lw, k)) => Holds(m, s[k])
    BY DEF Sound
  <2>1. CASE k \in 1 .. N
    BY <2>1, <1>2, <1>7 DEF SearchState, Sound
  <2>2. CASE k = N + 1
    <3>1. ReasonAt(s, rw, k) # None => Follows(p, ReasonAt(s, rw, k))
      BY <2>2, <1>8
    <3>2. s[k] = l /\ LevelAt(s, lw, k) = n
      BY <2>2, <1>2, <1>8
    <3>3. ASSUME NEW m \in ModelsOf(p), Decides(m, ct, n) PROVE Holds(m, l)
      <4>1. CASE c # None
        <5>1. PICK o \in c : Holds(m, o)
          BY <4>1 DEF Follows, Satisfies
        <5>2. ASSUME o # l PROVE FALSE
          <6>1. On(t, -o) /\ lv[Var(o)] <= n /\ o \in LitsOf(p)
            BY <4>1, <5>2
          <6>2. PICK j \in 1 .. N : t[j] = -o
            BY <6>1 DEF On
          <6>3. LevelAt(t, lv, j) <= n /\ LevelAt(t, lv, j) \in Nat
            BY <6>1, <6>2, <1>3, Literals DEF LevelAt
          <6>4. Decides(m, ct, LevelAt(t, lv, j))
            BY <3>3, <6>3, <1>3 DEF Decides
          <6>5. Holds(m, -o)
            BY <6>2, <6>4 DEF SearchState, Sound
          <6>6. o \in Int /\ o # 0
            BY <6>1, Literals
          <6> QED BY <5>1, <6>5, <6>6 DEF Holds
        <5> QED BY <5>1, <5>2
      <4>2. CASE c = None /\ n = 0
        BY <4>2 DEF Follows, Satisfies
      <4>3. CASE c = None /\ n > 0
        BY <4>3, <3>3, <1>3 DEF Decides
      <4> QED BY <4>1, <4>2, <4>3, <1>3
    <3> QED BY <3>1, <3>2, <3>3
  <2> QED BY <2>1, <2>2, <1>2
<1>17. Framed(s, lw, ct, C)
  <2> SUFFICES ASSUME NEW i \in 1 .. Len(ct), NEW d \in C PROVE Safe(s, lw, ct, i, d)
    BY DEF Framed
  <2>1. Safe(t, lv, ct, i, d)
    BY DEF SearchState, Framed
  <2>2. \A o : FalseBefore(s, ct, i, o) => FalseBefore(t, ct, i, o)
    <3>1. \A k \in 1 .. ct[i].trail : s[k] = t[k]
      BY <1>2, <1>12
    <3> QED BY <3>1 DEF FalseBefore
  <2>3. \A o : On(t, o) /\ lv[Var(o)] < i => On(s, o) /\ lw[Var(o)] < i
    BY <1>9
  <2> QED BY <2>1, <2>2, <2>3 DEF Safe
<1> QED BY <1>11, <1>13, <1>14, <1>15, <1>16, <1>17 DEF SearchState, s, lw, rw

(* A new frame starts at the end of the trail.  It needs propagation to be *)
(* complete: what is not propagated yet would be lost by backtracking.     *)
LEMMA OpenFrame ==
    ASSUME NEW p \in Problems, NEW t, NEW lv, NEW rs, NEW ct, NEW C,
           SearchState(p, t, lv, rs, ct, C),
           NEW l \in LitsOf(p) \cup {0},
           \A c \in C : Complete(t, c)
    PROVE  SearchState(p, t, lv, rs, Append(ct, [decision |-> l, trail |-> Len(t)]), C)
<1> DEFINE F == [decision : LitsOf(p) \cup {0}, trail : Nat]
           f == [decision |-> l, trail |-> Len(t)]
           d == Append(ct, f)
           M == Len(ct)
<1>1. /\ t \in Seq(LitsOf(p) \cup {0}) /\ lv \in [p.vars \cup {0} -> Nat]
      /\ rs \in [p.vars \cup {0} -> SUBSET LitsOf(p)] /\ ct \in Seq(F)
  BY DEF SearchState, Shape
<1>2. /\ Len(t) \in Nat
      /\ \A k \in 1 .. Len(t) : LevelAt(t, lv, k) \in 0 .. M
  BY OneAssignment
<1>3. f \in F /\ f.trail = Len(t) /\ f.decision = l
  BY <1>2
<1> HIDE DEF F, f
<1>4. /\ d \in Seq(F) /\ M \in Nat /\ Len(d) = M + 1
      /\ \A i \in 1 .. M : d[i] = ct[i] /\ i \in 1 .. M + 1
      /\ d[M + 1] = f
      /\ \A i \in 1 .. M + 1 : i \in 1 .. M \/ i = M + 1
  BY <1>1, <1>3, Extended
<1> HIDE DEF d
<1>5. Shape(p, t, lv, rs, d)
  BY <1>1, <1>4 DEF Shape, F
<1>6. Ordered(p, t, lv, d)
  <2>1. \A j, k \in 1 .. Len(t) : Var(t[j]) = Var(t[k]) => j = k
    BY DEF SearchState, Ordered
  <2>2. \A k \in 1 .. Len(t) : LevelAt(t, lv, k) <= Len(d)
    BY <1>2, <1>4
  <2>3. ASSUME NEW i \in 1 .. Len(d)
        PROVE  /\ d[i].trail <= Len(t)
               /\ \A j \in i .. Len(d) : d[i].trail <= d[j].trail
               /\ \A k \in 1 .. Len(t) : k <= d[i].trail => LevelAt(t, lv, k) < i
               /\ "chrono" \notin p.opts =>
                     \A k \in 1 .. Len(t) : k > d[i].trail => LevelAt(t, lv, k) >= i
    <3>1. CASE i \in 1 .. M
      <4>1. /\ ct[i].trail <= Len(t)
            /\ \A j \in i .. M : ct[i].trail <= ct[j].trail
            /\ \A k \in 1 .. Len(t) : k <= ct[i].trail => LevelAt(t, lv, k) < i
            /\ "chrono" \notin p.opts =>
                  \A k \in 1 .. Len(t) : k > ct[i].trail => LevelAt(t, lv, k) >= i
        BY <3>1 DEF SearchState, Ordered
      <4>2. \A j \in i .. Len(d) : (j \in i .. M /\ j \in 1 .. M) \/ j = M + 1
        BY <3>1, <1>4
      <4> QED BY <3>1, <4>1, <4>2, <1>3, <1>4
    <3>2. CASE i = M + 1
      <4>1. d[i].trail = Len(t)
        BY <3>2, <1>3, <1>4
      <4>2. \A j \in i .. Len(d) : j = i
        BY <3>2, <1>4
      <4>3. \A k \in 1 .. Len(t) : LevelAt(t, lv, k) < i /\ ~(k > Len(t))
        BY <3>2, <1>2, <1>4
      <4> QED BY <4>1, <4>2, <4>3, <1>2
    <3> QED BY <3>1, <3>2, <1>4
  <2> QED BY <2>1, <2>2, <2>3 DEF Ordered
<1>7. Decided(t, lv, rs, d)
  <2> SUFFICES ASSUME NEW k \in 1 .. Len(t), ReasonAt(t, rs, k) = None, LevelAt(t, lv, k) > 0
               PROVE  /\ k = d[LevelAt(t, lv, k)].trail + 1
                      /\ t[k] = d[LevelAt(t, lv, k)].decision
    BY DEF Decided
  <2>1. LevelAt(t, lv, k) \in 1 .. M
    BY <1>2, <1>4
  <2> QED BY <2>1, <1>4 DEF SearchState, Decided
<1>8. Sound(p, t, lv, rs, d)
  <2> SUFFICES ASSUME NEW k \in 1 .. Len(t)
               PROVE  /\ ReasonAt(t, rs, k) # None => Follows(p, ReasonAt(t, rs, k))
                      /\ \A m \in ModelsOf(p) : Decides(m, d, LevelAt(t, lv, k)) => Holds(m, t[k])
    BY DEF Sound
  <2>1. \A i \in 1 .. LevelAt(t, lv, k) : d[i] = ct[i]
    <3>1. LevelAt(t, lv, k) \in 0 .. M
      BY <1>2
    <3> QED BY <3>1, <1>4
  <2>2. \A m : Decides(m, d, LevelAt(t, lv, k)) <=> Decides(m, ct, LevelAt(t, lv, k))
    BY <2>1 DEF Decides
  <2> QED BY <2>2 DEF SearchState, Sound
<1>9. Framed(t, lv, d, C)
  <2> SUFFICES ASSUME NEW i \in 1 .. Len(d), NEW c \in C PROVE Safe(t, lv, d, i, c)
    BY DEF Framed
  <2>1. CASE i \in 1 .. M
    <3>1. Safe(t, lv, ct, i, c) /\ d[i] = ct[i]
      BY <2>1, <1>4 DEF SearchState, Framed
    <3> QED BY <3>1 DEF Safe, FalseBefore
  <2>2. CASE i = M + 1
    <3>1. \A o : FalseBefore(t, d, i, o) => On(t, -o)
      BY <2>2, <1>3, <1>4 DEF FalseBefore, On
    <3>2. \A o : On(t, o) => lv[Var(o)] < i
      <4>1. \A k \in 1 .. Len(t) : lv[Var(t[k])] < i
        BY <2>2, <1>2, <1>4 DEF LevelAt
      <4> QED BY <4>1 DEF On
    <3>3. Complete(t, c)
      OBVIOUS
    <3> QED BY <3>1, <3>2, <3>3 DEF Safe, Complete, Free
  <2> QED BY <2>1, <2>2, <1>4
<1>10. Graph(t, lv, rs)
  BY DEF SearchState
<1>11. SearchState(p, t, lv, rs, d, C)
  BY <1>5, <1>6, <1>7, <1>8, <1>9, <1>10 DEF SearchState
<1> QED BY <1>11 DEF d, f

(* What is assumed stays assigned when the trail is extended.              *)
LEMMA ExtendAssumed ==
    ASSUME NEW p \in Problems, NEW t, NEW lv, NEW rs, NEW ct, NEW C,
           Assignment(p, t, lv, rs, ct, C),
           NEW l \in LitsOf(p) \cup {0}, ~On(t, l), ~On(t, -l), NEW n \in Nat
    PROVE  /\ AssumptionsDecided(p, Append(t, l), [lv EXCEPT ![Var(l)] = n], ct)
           /\ UnitsAssigned(p, Append(t, l), [lv EXCEPT ![Var(l)] = n])
<1> DEFINE s == Append(t, l)
           lw == [lv EXCEPT ![Var(l)] = n]
<1>1. /\ t \in Seq(LitsOf(p) \cup {0}) /\ lv \in [p.vars \cup {0} -> Nat]
  BY DEF Assignment, SearchState, Shape
<1>2. \A k \in 1 .. Len(t) : s[k] = t[k] /\ k \in 1 .. Len(s)
  BY <1>1, Extended
<1>3. \A o : On(t, o) => o \in LitsOf(p) \cup {0}
  BY OneAssignment DEF Assignment
<1>4. \A o : On(t, o) => On(s, o) /\ Var(o) \in p.vars \cup {0} /\ Var(o) # Var(l)
  <2>1. \A o \in LitsOf(p) \cup {0} : Var(o) = Var(l) <=> o = l \/ o = -l
    BY Literals
  <2>2. \A o \in LitsOf(p) \cup {0} : Var(o) \in p.vars \cup {0}
    BY Literals
  <2>3. \A o : On(t, o) => On(s, o)
    BY <1>2 DEF On
  <2> QED BY <1>3, <2>1, <2>2, <2>3
<1>5. \A o : On(t, o) => On(s, o) /\ lw[Var(o)] = lv[Var(o)]
  BY <1>1, <1>4
<1> HIDE DEF s, lw
<1>6. AssumptionsDecided(p, s, lw, ct)
  <2> SUFFICES ASSUME NEW i \in 1 .. Len(ct)
               PROVE  /\ i <= Len(p.assumptions) =>
                            /\ ct[i].decision \in {0, p.assumptions[i]}
                            /\ On(s, p.assumptions[i]) /\ lw[Var(p.assumptions[i])] <= i
                      /\ i = Len(p.assumptions) + 1 /\ p.constraint # << >> =>
                            \E j \in 1 .. Len(p.constraint) :
                                On(s, p.constraint[j]) /\ lw[Var(p.constraint[j])] <= i
    BY DEF AssumptionsDecided
  <2> QED BY <1>5 DEF Assignment, AssumptionsDecided
<1>7. UnitsAssigned(p, s, lw)
  BY <1>5 DEF Assignment, UnitsAssigned
<1> QED BY <1>6, <1>7 DEF s, lw

(* A clause with a true literal of the level of another one may be added,  *)
(* and so may one that is satisfied on the root level.                     *)
LEMMA AssertedSafe ==
    ASSUME NEW p \in Problems, NEW t, NEW lv, NEW rs, NEW ct, NEW C,
           SearchState(p, t, lv, rs, ct, C),
           NEW c \in SUBSET LitsOf(p), NEW l \in c, On(t, l),
           lv[Var(l)] > 0 => \E o \in c \ {l} : lv[Var(o)] = lv[Var(l)]
    PROVE  \A i \in 1 .. Len(ct) : Safe(t, lv, ct, i, c)
<1> SUFFICES ASSUME NEW i \in 1 .. Len(ct), lv[Var(l)] >= i PROVE Safe(t, lv, ct, i, c)
  <2>1. lv[Var(l)] \in Nat /\ Len(ct) \in Nat
    BY OneAssignment
  <2>2. \A i \in 1 .. Len(ct) : i \in Nat /\ (~(lv[Var(l)] >= i) => lv[Var(l)] < i)
    BY <2>1
  <2> QED BY <2>2 DEF Safe
<1>1. lv[Var(l)] > 0
  <2>1. lv[Var(l)] \in Nat /\ Len(ct) \in Nat
    BY OneAssignment
  <2> QED BY <2>1
<1>2. PICK o \in c \ {l} : lv[Var(o)] = lv[Var(l)]
  BY <1>1
<1>3. ~FalseBefore(t, ct, i, l)
  <2>1. ~On(t, -l)
    BY OneAssignment
  <2>2. ct[i].trail \in 0 .. Len(t)
    BY Frames
  <2>3. Len(t) \in Nat
    BY OneAssignment
  <2> QED BY <2>1, <2>2, <2>3 DEF FalseBefore, On
<1>4. ~FalseBefore(t, ct, i, o)
  <2> SUFFICES ASSUME NEW k \in 1 .. ct[i].trail, t[k] = -o PROVE FALSE
    BY DEF FalseBefore
  <2>1. k \in 1 .. Len(t) /\ k <= ct[i].trail
    <3>1. ct[i].trail \in 0 .. Len(t) /\ Len(t) \in Nat
      BY Frames, OneAssignment
    <3> QED BY <3>1
  <2>2. lv[Var(t[k])] < i
    BY <2>1, Frames
  <2>3. Var(t[k]) = Var(o)
    BY Literals
  <2>4. lv[Var(l)] \in Nat /\ Len(ct) \in Nat
    BY OneAssignment
  <2> QED BY <1>2, <2>2, <2>3, <2>4
<1> QED BY <1>2, <1>3, <1>4 DEF Safe

-----------------------------------------------------------------------------
(* Nothing is lost when backtrack resets propagated to the first frame it  *)
(* removes: a clause is complete, or has a false literal that stayed after *)
(* that frame and is propagated again.                                     *)
LEMMA BacktrackPropagates ==
    ASSUME NEW p \in Problems, NEW t, NEW lv, NEW rs, NEW ct, NEW C,
           SearchState(p, t, lv, rs, ct, C), C \subseteq SUBSET LitsOf(p),
           NEW n \in Nat, n < Len(ct),
           NEW s \in Seq(LitsOf(p) \cup {0}), Keeps(t, s, lv, n, ct[n + 1].trail)
    PROVE  /\ ct[n + 1].trail \in 0 .. Len(s)
           /\ \A l : On(s, l) <=> On(t, l) /\ lv[Var(l)] <= n
           /\ \A c \in C : Complete(s, c) \/ Pending(s, ct[n + 1].trail, c)
<1> DEFINE h == ct[n + 1].trail
<1>1. t \in Seq(LitsOf(p) \cup {0}) /\ lv \in [p.vars \cup {0} -> Nat]
  BY DEF SearchState, Shape
<1>2. n + 1 \in 1 .. Len(ct) /\ Len(s) \in Nat
  BY OneAssignment
<1>3. h \in 0 .. Len(t)
  BY <1>2, Frames
<1>4. Keeps(t, s, lv, n, h)
  OBVIOUS
<1> HIDE DEF h
<1>5. SameLiterals(t, s, lv, n, h)
  BY <1>1, <1>3, <1>4, KeptLiterals
<1>6. /\ h \in 0 .. Len(s)
      /\ \A k \in 1 .. h : s[k] = t[k]
      /\ \A l : On(s, l) <=> On(t, l) /\ lv[Var(l)] <= n
  BY <1>2, <1>3, <1>5 DEF SameLiterals
<1>7. ASSUME NEW c \in C PROVE Complete(s, c) \/ Pending(s, h, c)
  <2>1. Safe(t, lv, ct, n + 1, c) /\ c \subseteq LitsOf(p)
    BY <1>2 DEF SearchState, Framed
  <2>2. CASE \E l \in c : On(t, l) /\ lv[Var(l)] < n + 1
    <3>1. PICK l \in c : On(t, l) /\ lv[Var(l)] < n + 1
      BY <2>2
    <3>2. lv[Var(l)] \in Nat
      BY <3>1, OneAssignment
    <3>3. On(s, l)
      BY <3>1, <3>2, <1>6
    <3> QED BY <3>3 DEF Complete
  <2>3. CASE \E l, o \in c : l # o /\ ~FalseBefore(t, ct, n + 1, l) /\ ~FalseBefore(t, ct, n + 1, o)
    <3>1. PICK l \in c, o \in c : l # o /\ ~FalseBefore(t, ct, n + 1, l) /\ ~FalseBefore(t, ct, n + 1, o)
      BY <2>3
    <3>2. ASSUME NEW x \in c, ~FalseBefore(t, ct, n + 1, x), On(s, -x) PROVE Pending(s, h, c)
      <4>1. PICK j \in 1 .. Len(s) : s[j] = -x
        BY <3>2 DEF On
      <4>2. j > h
        <5> SUFFICES ASSUME j <= h PROVE FALSE
          BY <1>6, <4>1
        <5>1. j \in 1 .. h
          BY <1>6
        <5>2. t[j] = -x
          BY <4>1, <5>1, <1>6
        <5> QED BY <3>2, <5>1, <5>2 DEF FalseBefore, h
      <4>3. j \in h + 1 .. Len(s)
        BY <4>2, <1>6
      <4>4. -s[j] = x
        BY <2>1, <4>1, Literals
      <4> QED BY <4>3, <4>4 DEF Pending
    <3>3. CASE On(s, -l) \/ On(s, -o)
      BY <3>1, <3>2, <3>3
    <3>4. CASE On(s, l) \/ On(s, o)
      BY <3>4 DEF Complete
    <3>5. CASE ~(On(s, -l) \/ On(s, -o)) /\ ~(On(s, l) \/ On(s, o))
      BY <3>1, <3>5 DEF Complete, Free
    <3> QED BY <3>3, <3>4, <3>5
  <2> QED BY <2>1, <2>2, <2>3 DEF Safe
<1> QED BY <1>6, <1>7 DEF h

(* A clause that is complete or has a literal to propagate still is or has *)
(* when the trail is extended.                                             *)
LEMMA ExtendPropagates ==
    ASSUME NEW p \in Problems, NEW t \in Seq(LitsOf(p) \cup {0}), NEW l \in LitsOf(p) \cup {0},
           NEW n \in 0 .. Len(t), NEW c \in SUBSET LitsOf(p), Complete(t, c) \/ Pending(t, n, c)
    PROVE  Complete(Append(t, l), c) \/ Pending(Append(t, l), n, c)
<1> DEFINE s == Append(t, l)
           N == Len(t)
<1>1. /\ N \in Nat /\ Len(s) = N + 1
      /\ \A k \in 1 .. N : s[k] = t[k] /\ k \in 1 .. N + 1
      /\ s[N + 1] = l
      /\ \A k \in 1 .. N + 1 : k \in 1 .. N \/ k = N + 1
  BY Extended
<1> HIDE DEF s
<1>2. \A o : On(s, o) <=> On(t, o) \/ o = l
  <2>1. \A o : On(t, o) => On(s, o)
    BY <1>1 DEF On
  <2>2. \A o : On(s, o) => On(t, o) \/ o = l
    BY <1>1 DEF On
  <2>3. On(s, l)
    <3>1. N + 1 \in 1 .. Len(s)
      BY <1>1
    <3> QED BY <3>1, <1>1 DEF On
  <2> QED BY <2>1, <2>2, <2>3
<1>3. CASE Pending(t, n, c)
  <2>1. PICK k \in n + 1 .. N : -t[k] \in c
    BY <1>3 DEF Pending
  <2>2. k \in n + 1 .. Len(s) /\ k \in 1 .. N
    BY <1>1
  <2>3. -s[k] \in c
    BY <2>1, <2>2, <1>1
  <2> QED BY <2>2, <2>3 DEF Pending, s
<1>4. CASE \E o \in c : On(t, o)
  BY <1>4, <1>2 DEF Complete, s
<1>5. CASE \E x, o \in c : x # o /\ Free(t, x) /\ Free(t, o)
  <2>1. PICK x \in c, o \in c : x # o /\ Free(t, x) /\ Free(t, o)
    BY <1>5
  <2>2. CASE l = x \/ l = o
    BY <2>2, <1>2 DEF Complete, s
  <2>3. ASSUME NEW y \in c, l = -y PROVE Pending(s, n, c)
    <3>1. N + 1 \in n + 1 .. Len(s)
      BY <1>1
    <3>2. -s[N + 1] \in c
      <4>1. -(-y) = y
        BY Literals
      <4> QED BY <4>1, <2>3, <1>1
    <3> QED BY <3>1, <3>2 DEF Pending
  <2>4. CASE l # x /\ l # o /\ l # -x /\ l # -o
    BY <2>1, <2>4, <1>2 DEF Complete, Free, s
  <2> QED BY <2>2, <2>3, <2>4 DEF s
<1> QED BY <1>3, <1>4, <1>5 DEF Complete

-----------------------------------------------------------------------------
(* Conflict analysis.                                                      *)

(* A valuation satisfies either a literal or its negation.                 *)
LEMMA HoldsNot ==
    ASSUME NEW p \in Problems, NEW l \in LitsOf(p), NEW m
    PROVE  Holds(m, -l) <=> ~Holds(m, l)
<1>1. l \in Int /\ l # 0 /\ -(-l) = l
  BY Literals
<1> QED BY <1>1 DEF Holds

(* Sets with one element and with more.                                    *)
LEMMA Several ==
    ASSUME NEW S, IsFiniteSet(S)
    PROVE  /\ Cardinality(S) \in Nat
           /\ Cardinality(S) > 1 <=> \E x, y \in S : x # y
           /\ Cardinality(S) = 1 <=> \E x \in S : S = {x}
           /\ \A x \in S : Cardinality(S) # 1 => \E y \in S : y # x
<1>1. Cardinality(S) \in Nat
  BY FS_CardinalityType
<1>2. Cardinality(S) = 1 <=> \E x : S = {x}
  BY FS_Singleton
<1>3. Cardinality(S) = 0 <=> S = {}
  BY FS_EmptySet
<1>4. ASSUME NEW x \in S, NEW y \in S, x # y PROVE Cardinality(S) > 1
  BY <1>1, <1>2, <1>3, <1>4
<1>5. ASSUME Cardinality(S) > 1 PROVE \E x, y \in S : x # y
  <2>1. S # {} /\ ~ \E x : S = {x}
    BY <1>2, <1>3, <1>5
  <2> QED BY <2>1
<1>6. \A x \in S : Cardinality(S) # 1 => \E y \in S : y # x
  BY <1>2
<1> QED BY <1>1, <1>2, <1>4, <1>5, <1>6

(* Clauses are finite.                                                     *)
LEMMA FiniteClauses ==
    ASSUME NEW p \in Problems, NEW c \in SUBSET LitsOf(p)
    PROVE  IsFiniteSet(c)
<1>1. IsFiniteSet(p.vars)
  BY Literals
<1>2. IsFiniteSet({-v : v \in p.vars})
  <2> DEFINE f == [v \in p.vars |-> -v]
             T == {-v : v \in p.vars}
  <2>1. f \in Surjection(p.vars, T)
    BY DEF Surjection
  <2> HIDE DEF f, T
  <2>2. IsFiniteSet(T)
    BY <1>1, <2>1, FS_Surjection
  <2> QED BY <2>2 DEF T
<1>3. IsFiniteSet(LitsOf(p))
  BY <1>1, <1>2, FS_Union DEF LitsOf, LitsOver
<1> QED BY <1>3, FS_Subset

(* A variable has one place on the trail.                                  *)
LEMMA OnePlace ==
    ASSUME NEW p, NEW t, NEW lv, NEW rs, NEW ct, NEW C, SearchState(p, t, lv, rs, ct, C)
    PROVE  \A j, k \in 1 .. Len(t) : Var(t[j]) = Var(t[k]) => j = k
BY DEF SearchState, Ordered

(* A literal of the root level follows from the formula.                   *)
LEMMA RootHolds ==
    ASSUME NEW p \in Problems, NEW t, NEW lv, NEW rs, NEW ct, NEW C,
           SearchState(p, t, lv, rs, ct, C),
           NEW m \in ModelsOf(p), NEW l, On(t, l), lv[Var(l)] = 0
    PROVE  Holds(m, l)
<1>1. PICK k \in 1 .. Len(t) : t[k] = l
  BY DEF On
<1>2. LevelAt(t, lv, k) = 0
  BY <1>1 DEF LevelAt
<1>3. Decides(m, ct, 0)
  BY DEF Decides
<1> QED BY <1>1, <1>2, <1>3 DEF SearchState, Sound

(* The other literals of a reason are false, and were so before.           *)
LEMMA ReasonLiterals ==
    ASSUME NEW p \in Problems, NEW t, NEW lv, NEW rs, NEW ct, NEW C,
           SearchState(p, t, lv, rs, ct, C),
           NEW k \in 1 .. Len(t), ReasonAt(t, rs, k) # None
    PROVE  /\ ReasonAt(t, rs, k) \subseteq LitsOf(p)
           /\ Follows(p, ReasonAt(t, rs, k))
           /\ t[k] \in ReasonAt(t, rs, k)
           /\ \A o \in ReasonAt(t, rs, k) \ {t[k]} :
                 /\ \E j \in 1 .. Len(t) : j < k /\ t[j] = -o
                 /\ lv[Var(o)] <= LevelAt(t, lv, k)
           /\ \E o \in ReasonAt(t, rs, k) \ {t[k]} : lv[Var(o)] = LevelAt(t, lv, k)
<1>1. ReasonAt(t, rs, k) \subseteq LitsOf(p) /\ Len(t) \in Nat
  BY OneAssignment
<1>2. Follows(p, ReasonAt(t, rs, k))
  BY DEF SearchState, Sound
<1>3. /\ t[k] \in ReasonAt(t, rs, k)
      /\ \A o \in ReasonAt(t, rs, k) \ {t[k]} : \E j \in 1 .. k - 1 : t[j] = -o
      /\ \E o \in ReasonAt(t, rs, k) \ {t[k]} : lv[Var(o)] = LevelAt(t, lv, k)
      /\ \A o \in ReasonAt(t, rs, k) \ {t[k]} : lv[Var(o)] <= LevelAt(t, lv, k)
  BY DEF SearchState, Graph
<1>4. \A j \in 1 .. k - 1 : j \in 1 .. Len(t) /\ j < k
  BY <1>1
<1> QED BY <1>1, <1>2, <1>3, <1>4

(* If they are false in a model as well, the literal holds in it.          *)
LEMMA ReasonHolds ==
    ASSUME NEW p \in Problems, NEW t, NEW lv, NEW rs, NEW ct, NEW C,
           SearchState(p, t, lv, rs, ct, C),
           NEW k \in 1 .. Len(t), ReasonAt(t, rs, k) # None,
           NEW m \in ModelsOf(p),
           \A o \in ReasonAt(t, rs, k) \ {t[k]} : Holds(m, -o)
    PROVE  Holds(m, t[k])
<1>1. PICK o \in ReasonAt(t, rs, k) : Holds(m, o)
  BY ReasonLiterals DEF Follows, Satisfies
<1>2. o \in LitsOf(p)
  BY ReasonLiterals
<1>3. o = t[k]
  BY <1>1, <1>2, HoldsNot
<1> QED BY <1>1, <1>3

-----------------------------------------------------------------------------
(* minimize_literal: a literal is implied only if the clause has its       *)
(* negation or its reason is implied as well.                              *)
LEMMA ImpliedSteps ==
    ASSUME NEW L, trail \in Seq(L), NEW C
    PROVE  \A x \in ImpliedBy(C) : On(trail, x) /\ (-x \in C \/ Removable(x, ImpliedBy(C)))
<1> DEFINE upto[k \in Nat] ==
              IF k = 0 THEN {}
              ELSE LET R == upto[k - 1]
                       t == trail[k]
                   IN  IF -t \in C \/ Removable(t, R) THEN R \cup {t} ELSE R
           N == Len(trail)
           I == ImpliedBy(C)
<1>1. I = upto[N]
  BY DEF ImpliedBy
<1>2. /\ \A k \in Nat : upto[k] \in SUBSET {trail[k_1] : k_1 \in Nat}
      /\ upto[0] = {}
      /\ \A k \in Nat \ {0} : upto[k] = IF -trail[k] \in C \/ Removable(trail[k], upto[k - 1])
                                        THEN upto[k - 1] \cup {trail[k]} ELSE upto[k - 1]
  <2> DEFINE S == SUBSET {trail[k] : k \in Nat}
             F == [x \in Nat \X S |-> IF -trail[x[1]] \in C \/ Removable(trail[x[1]], x[2])
                                      THEN x[2] \cup {trail[x[1]]} ELSE x[2]]
  <2>1. {} \in S
    OBVIOUS
  <2>2. F \in [Nat \X S -> S]
    <3>1. \A x \in Nat \X S : x[1] \in Nat /\ x[2] \in S /\ trail[x[1]] \in {trail[k] : k \in Nat}
      OBVIOUS
    <3>2. \A x \in Nat \X S : x[2] \cup {trail[x[1]]} \in S
      BY <3>1
    <3> QED BY <3>1, <3>2
  <2>3. \E f : RecursiveOn(f, S, {}, F)
    <3> HIDE DEF S, F
    <3> QED BY <2>1, <2>2, RecursiveFunction
  <2> PICK f : RecursiveOn(f, S, {}, F)
    BY <2>3
  <2>4. f \in [Nat -> S] /\ f[0] = {} /\ \A k \in Nat \ {0} : f[k] = F[<<k, f[k - 1]>>]
    BY DEF RecursiveOn
  <2>5. \A k \in Nat \ {0} : f[k] = IF -trail[k] \in C \/ Removable(trail[k], f[k - 1])
                                    THEN f[k - 1] \cup {trail[k]} ELSE f[k - 1]
    <3> SUFFICES ASSUME NEW k \in Nat \ {0}
                 PROVE  f[k] = IF -trail[k] \in C \/ Removable(trail[k], f[k - 1])
                               THEN f[k - 1] \cup {trail[k]} ELSE f[k - 1]
      OBVIOUS
    <3>1. k - 1 \in Nat /\ f[k - 1] \in S
      BY <2>4
    <3>2. <<k, f[k - 1]>> \in Nat \X S
      BY <3>1
    <3>3. F[<<k, f[k - 1]>>] = IF -trail[k] \in C \/ Removable(trail[k], f[k - 1])
                               THEN f[k - 1] \cup {trail[k]} ELSE f[k - 1]
      BY <3>2
    <3> QED BY <2>4, <3>3
  <2>6. f = [k \in Nat |-> IF k = 0 THEN {}
                           ELSE IF -trail[k] \in C \/ Removable(trail[k], f[k - 1])
                                THEN f[k - 1] \cup {trail[k]} ELSE f[k - 1]]
    BY <2>4, <2>5
  <2>7. upto = [k \in Nat |-> IF k = 0 THEN {}
                              ELSE IF -trail[k] \in C \/ Removable(trail[k], upto[k - 1])
                                   THEN upto[k - 1] \cup {trail[k]} ELSE upto[k - 1]]
    BY <2>6
  <2> HIDE DEF upto
  <2>8. /\ upto[0] = {}
        /\ \A k \in Nat \ {0} : upto[k] = IF -trail[k] \in C \/ Removable(trail[k], upto[k - 1])
                                          THEN upto[k - 1] \cup {trail[k]} ELSE upto[k - 1]
    BY <2>7
  <2>9. \A k \in Nat : upto[k] \in S
    <3> DEFINE T == {k \in Nat : upto[k] \in S}
    <3>1. 0 \in T
      BY <2>1, <2>8
    <3>2. ASSUME NEW k \in Nat, k \in T PROVE k + 1 \in T
      <4>1. k + 1 \in Nat \ {0} /\ (k + 1) - 1 = k
        OBVIOUS
      <4>2. upto[k + 1] = upto[k] \/ upto[k + 1] = upto[k] \cup {trail[k + 1]}
        BY <4>1, <2>8
      <4> QED BY <4>1, <4>2, <3>2
    <3> HIDE DEF T
    <3>3. \A k \in Nat : k \in T
      BY <3>1, <3>2, SetInduction
    <3> QED BY <3>3 DEF T
  <2> QED BY <2>8, <2>9
<1> HIDE DEF upto
<1>3. N \in Nat
  OBVIOUS
<1> HIDE DEF N
<1>4. \A k \in Nat : k <= N => upto[N - k] \subseteq I
  <2> DEFINE T == {k \in Nat : k <= N => upto[N - k] \subseteq I}
  <2>1. 0 \in T
    BY <1>1, <1>3
  <2>2. ASSUME NEW k \in Nat, k \in T PROVE k + 1 \in T
    <3> SUFFICES ASSUME k + 1 <= N PROVE upto[N - (k + 1)] \subseteq I
      OBVIOUS
    <3>1. N - k \in Nat \ {0} /\ (N - k) - 1 = N - (k + 1)
      BY <1>3
    <3>2. upto[N - (k + 1)] \subseteq upto[N - k]
      BY <3>1, <1>2
    <3>3. upto[N - k] \subseteq I
      BY <2>2, <1>3
    <3> QED BY <3>2, <3>3
  <2> HIDE DEF T
  <2>3. \A k \in Nat : k \in T
    BY <2>1, <2>2, SetInduction
  <2> QED BY <2>3 DEF T
<1>5. \A k \in Nat : k <= N => upto[k] \subseteq I
  <2> SUFFICES ASSUME NEW k \in Nat, k <= N PROVE upto[k] \subseteq I
    OBVIOUS
  <2>1. N - k \in Nat /\ N - k <= N /\ N - (N - k) = k
    BY <1>3
  <2> QED BY <2>1, <1>4
<1> DEFINE Good(x) == On(trail, x) /\ (-x \in C \/ Removable(x, I))
           T == {k \in Nat : k <= N => \A x \in upto[k] : Good(x)}
<1>6. 0 \in T
  BY <1>2
<1>7. ASSUME NEW k \in Nat, k \in T PROVE k + 1 \in T
  <2> SUFFICES ASSUME k + 1 <= N, NEW x \in upto[k + 1] PROVE Good(x)
    <3> HIDE DEF Good
    <3> QED OBVIOUS
  <2>1. k + 1 \in Nat \ {0} /\ (k + 1) - 1 = k /\ k <= N /\ k + 1 \in 1 .. Len(trail)
    BY <1>3 DEF N
  <2>2. CASE x \in upto[k]
    <3> HIDE DEF Good
    <3> QED BY <2>1, <2>2, <1>7
  <2>3. CASE x \notin upto[k]
    <3>1. upto[k + 1] = IF -trail[k + 1] \in C \/ Removable(trail[k + 1], upto[k])
                        THEN upto[k] \cup {trail[k + 1]} ELSE upto[k]
      BY <2>1, <1>2
    <3>2. x = trail[k + 1] /\ (-x \in C \/ Removable(x, upto[k]))
      BY <3>1, <2>3
    <3>3. upto[k] \subseteq I
      BY <2>1, <1>5
    <3>4. On(trail, x)
      BY <3>2, <2>1 DEF On
    <3>5. Removable(x, upto[k]) => Removable(x, I)
      <4> HIDE DEF I
      <4> QED BY <3>3 DEF Removable
    <3> HIDE DEF I
    <3> QED BY <3>2, <3>4, <3>5
  <2> QED BY <2>2, <2>3
<1>8. \A x \in upto[N] : Good(x)
  <2> HIDE DEF T
  <2>1. \A k \in Nat : k \in T
    BY <1>6, <1>7, SetInduction
  <2> HIDE DEF Good
  <2> QED BY <2>1, <1>3 DEF T
<1> QED BY <1>1, <1>8

(* What minimize_literal takes for implied holds in a model.               *)
LEMMA RemovableHolds ==
    ASSUME problem \in Problems, SearchState(problem, trail, lev, reason, control, Clauses),
           NEW m \in ModelsOf(problem), NEW R,
           NEW k \in 1 .. Len(trail), Removable(trail[k], R),
           \A j \in 1 .. Len(trail) : j < k /\ trail[j] \in R => Holds(m, trail[j])
    PROVE  Holds(m, trail[k])
<1>1. CASE lev[Var(trail[k])] = 0
  BY <1>1, RootHolds DEF On
<1>2. CASE /\ reason[Var(trail[k])] # None
           /\ \A o \in reason[Var(trail[k])] \ {trail[k]} : -o \in R
  <2>1. ReasonAt(trail, reason, k) # None
    BY <1>2 DEF ReasonAt
  <2>2. ASSUME NEW o \in ReasonAt(trail, reason, k) \ {trail[k]} PROVE Holds(m, -o)
    <3>1. PICK j \in 1 .. Len(trail) : j < k /\ trail[j] = -o
      BY <2>1, ReasonLiterals
    <3>2. trail[j] \in R
      BY <3>1, <1>2 DEF ReasonAt
    <3> QED BY <3>1, <3>2
  <2> QED BY <2>1, <2>2, ReasonHolds
<1> QED BY <1>1, <1>2 DEF Removable

(* A first false one has no reason to be implied.                          *)
LEMMA ImpliedHold ==
    ASSUME problem \in Problems, SearchState(problem, trail, lev, reason, control, Clauses),
           NEW m \in ModelsOf(problem), NEW R,
           \A x \in R : On(trail, x) /\ (Holds(m, x) \/ Removable(x, R))
    PROVE  \A x \in R : Holds(m, x)
<1> SUFFICES ASSUME NEW x \in R, ~Holds(m, x) PROVE FALSE
  OBVIOUS
<1> DEFINE T == {k \in 1 .. Len(trail) : trail[k] \in R /\ ~Holds(m, trail[k])}
<1>1. T # {}
  BY DEF On
<1>2. T \subseteq Nat
  OBVIOUS
<1>3. PICK k \in T : \A j \in T : k <= j
  <2> HIDE DEF T
  <2> QED BY <1>1, <1>2, LeastElement
<1>4. Removable(trail[k], R) /\ k \in 1 .. Len(trail)
  OBVIOUS
<1>5. \A j \in 1 .. Len(trail) : j < k /\ trail[j] \in R => Holds(m, trail[j])
  BY <1>3
<1>6. Holds(m, trail[k])
  BY <1>4, <1>5, RemovableHolds
<1> QED BY <1>6

(* The literals that the negations of false literals imply hold.           *)
LEMMA ImpliedByFalse ==
    ASSUME problem \in Problems, SearchState(problem, trail, lev, reason, control, Clauses),
           NEW m \in ModelsOf(problem), NEW K \in SUBSET LitsOf(problem),
           \A l \in K : ~Holds(m, l)
    PROVE  \A x \in ImpliedBy(K) : Holds(m, x)
<1>1. trail \in Seq(LitsOf(problem) \cup {0})
  BY DEF SearchState, Shape
<1>2. \A x \in ImpliedBy(K) : On(trail, x) /\ (-x \in K \/ Removable(x, ImpliedBy(K)))
  BY <1>1, ImpliedSteps
<1>3. ASSUME NEW x \in ImpliedBy(K), -x \in K PROVE Holds(m, x)
  <2>1. x \in LitsOf(problem) \cup {0}
    BY <1>2, OneAssignment
  <2>2. x # 0
    BY <1>3, Literals
  <2> QED BY <2>1, <2>2, <1>3, HoldsNot
<1> HIDE DEF ImpliedBy
<1> QED BY <1>2, <1>3, ImpliedHold

(* minimize_clause: the clause follows from its minimized form.            *)
LEMMA MinimizedFollows ==
    ASSUME problem \in Problems, SearchState(problem, trail, lev, reason, control, Clauses),
           NEW m \in ModelsOf(problem),
           NEW K \in SUBSET LitsOf(problem), \A l \in K : On(trail, -l),
           \A l \in Minimized(K) : ~Holds(m, l)
    PROVE  \A l \in K : ~Holds(m, l)
<1> DEFINE I == ImpliedBy(K)
<1>1. trail \in Seq(LitsOf(problem) \cup {0})
  BY DEF SearchState, Shape
<1>2. \A x \in I : On(trail, x) /\ (-x \in K \/ Removable(x, I))
  BY <1>1, ImpliedSteps
<1>3. \A l \in K : l \in Minimized(K) \/ Removable(-l, I)
  BY DEF Minimized
<1> HIDE DEF I
<1>4. ASSUME NEW x \in I, -x \in K, ~Removable(x, I) PROVE Holds(m, x)
  <2>1. x \in LitsOf(problem) \cup {0}
    BY <1>2, OneAssignment
  <2>2. x # 0
    BY <1>4, Literals
  <2>3. -(-x) = x
    BY <2>1, <2>2, Literals
  <2>4. ~Holds(m, -x)
    BY <1>3, <1>4, <2>3
  <2> QED BY <2>1, <2>2, <2>4, HoldsNot
<1>5. \A x \in I : Holds(m, x)
  BY <1>2, <1>4, ImpliedHold
<1>6. ASSUME NEW l \in K, l \notin Minimized(K) PROVE ~Holds(m, l)
  <2>1. PICK k \in 1 .. Len(trail) : trail[k] = -l
    BY DEF On
  <2>2. Removable(trail[k], I)
    BY <1>3, <1>6, <2>1
  <2>3. Holds(m, trail[k])
    BY <1>5, <2>2, RemovableHolds
  <2> QED BY <2>1, <2>3, HoldsNot
<1> QED BY <1>6

-----------------------------------------------------------------------------
(* shrink_block: the literals S that are left on level n when the trail is *)
(* resolved down to position k.  If they hold and the literals of K do not *)
(* then no literal of the block holds.                                     *)
BlockImplies(block, K, S) ==
    \A m \in ModelsOf(problem) :
        (\A x \in S : Holds(m, x)) /\ (\A l \in K : ~Holds(m, l)) => \A l \in block : ~Holds(m, l)

OnLevel(n, x) == x \in LitsOf(problem) /\ On(trail, x) /\ lev[Var(x)] = n
Unresolvable(S, k) == (\E x : S = {x}) \/ \A j \in 1 .. Len(trail) : trail[j] \in S => j <= k

(* One step of shrink_along_reason.                                        *)
LEMMA ShrinkStep ==
    ASSUME problem \in Problems, SearchState(problem, trail, lev, reason, control, Clauses),
           NEW n \in 1 .. level, NEW block, NEW K \in SUBSET LitsOf(problem),
           NEW S, \A x \in S : OnLevel(n, x), BlockImplies(block, K, S),
           NEW k \in 1 .. Len(trail), Unresolvable(S, k),
           trail[k] \in S, Cardinality(S) # 1, ~ShrinkFails(trail[k], n, ImpliedBy(K)),
           NEW U, U = (S \ {trail[k]}) \cup {-o : o \in {x \in reason[Var(trail[k])] \ {trail[k]} :
                                                             lev[Var(x)] = n}}
    PROVE  (\A x \in U : OnLevel(n, x)) /\ BlockImplies(block, K, U) /\ Unresolvable(U, k - 1)
<1> DEFINE r == ReasonAt(trail, reason, k)
<1>1. /\ Len(trail) \in Nat /\ Len(control) \in Nat /\ n \in Nat
      /\ \A j \in 1 .. Len(trail) : LevelAt(trail, lev, j) \in Nat
  BY OneAssignment DEF level
<1>2. LevelAt(trail, lev, k) = n /\ S \subseteq LitsOf(problem) /\ r = reason[Var(trail[k])]
  BY DEF OnLevel, LevelAt, ReasonAt
<1>3. PICK y \in S : y # trail[k]
  <2>1. IsFiniteSet(S)
    BY <1>2, FiniteClauses
  <2> QED BY <2>1, Several
<1>4. \A j \in 1 .. Len(trail) : trail[j] \in S => j <= k
  BY <1>3 DEF Unresolvable
<1>5. PICK i \in 1 .. Len(trail) : trail[i] = y
  BY DEF OnLevel, On
<1>6. r # None
  <2> SUFFICES ASSUME r = None PROVE FALSE
    OBVIOUS
  <2>1. k = control[n].trail + 1
    BY <1>1, <1>2 DEF SearchState, Decided
  <2>2. i <= k /\ i # k
    BY <1>3, <1>4, <1>5
  <2>3. control[n].trail \in Nat /\ n \in 1 .. Len(control)
    BY <1>1, Frames DEF level
  <2>4. i <= control[n].trail
    BY <2>1, <2>2, <2>3
  <2>5. lev[Var(trail[i])] < n
    BY <2>3, <2>4, Frames
  <2>6. lev[Var(trail[i])] = n
    BY <1>5 DEF OnLevel
  <2> QED BY <1>1, <2>5, <2>6
<1> HIDE DEF r
<1>7. /\ r \subseteq LitsOf(problem)
      /\ \A o \in r \ {trail[k]} : /\ \E j \in 1 .. Len(trail) : j < k /\ trail[j] = -o
                                   /\ lev[Var(o)] <= n
  BY <1>2, <1>6, ReasonLiterals DEF r
<1>8. U = (S \ {trail[k]}) \cup {-o : o \in {x \in r \ {trail[k]} : lev[Var(x)] = n}}
  BY <1>2
<1>9. ASSUME NEW o \in r \ {trail[k]}, lev[Var(o)] = n
      PROVE  OnLevel(n, -o) /\ \A j \in 1 .. Len(trail) : trail[j] = -o => j < k
  <2>1. o \in LitsOf(problem) /\ -o \in LitsOf(problem) /\ Var(-o) = Var(o)
    BY <1>7, Literals
  <2>2. PICK j \in 1 .. Len(trail) : j < k /\ trail[j] = -o
    BY <1>7
  <2>3. OnLevel(n, -o)
    BY <1>9, <2>1, <2>2 DEF OnLevel, On
  <2>4. ASSUME NEW a \in 1 .. Len(trail), trail[a] = -o PROVE a < k
    <3>1. a = j
      BY <2>2, <2>4 DEF SearchState, Ordered
    <3> QED BY <3>1, <2>2
  <2> QED BY <2>3, <2>4
<1>10. ASSUME NEW x \in U PROVE OnLevel(n, x)
  BY <1>8, <1>9
<1>11. BlockImplies(block, K, U)
  <2> SUFFICES ASSUME NEW m \in ModelsOf(problem), \A x \in U : Holds(m, x), \A l \in K : ~Holds(m, l)
               PROVE  \A l \in block : ~Holds(m, l)
    BY DEF BlockImplies
  <2>1. \A x \in ImpliedBy(K) : Holds(m, x)
    BY ImpliedByFalse
  <2>2. ASSUME NEW o \in r \ {trail[k]} PROVE Holds(m, -o)
    <3>1. CASE lev[Var(o)] = n
      BY <3>1, <1>8
    <3>2. CASE lev[Var(o)] # n
      <4>1. lev[Var(o)] < n
        <5>1. lev[Var(o)] <= n /\ o \in LitsOf(problem)
          BY <1>7
        <5>2. lev[Var(o)] \in Nat
          BY <5>1, OneAssignment
        <5> QED BY <3>2, <5>1, <5>2, <1>1
      <4>2. -o \in ImpliedBy(K)
        BY <4>1, <1>2 DEF ShrinkFails
      <4> QED BY <4>2, <2>1
    <3> QED BY <3>1, <3>2
  <2>3. Holds(m, trail[k])
    BY <1>6, <2>2, ReasonHolds DEF r
  <2>4. \A x \in S : Holds(m, x)
    BY <2>3, <1>8
  <2> QED BY <2>4 DEF BlockImplies
<1>12. Unresolvable(U, k - 1)
  <2>1. ASSUME NEW j \in 1 .. Len(trail), trail[j] \in U PROVE j <= k - 1
    <3>1. CASE trail[j] \in S \ {trail[k]}
      <4>1. j <= k /\ j # k
        BY <3>1, <1>4
      <4> QED BY <4>1
    <3>2. CASE trail[j] \notin S \ {trail[k]}
      <4>1. PICK o \in r \ {trail[k]} : lev[Var(o)] = n /\ trail[j] = -o
        BY <2>1, <3>2, <1>8
      <4>2. j < k
        BY <4>1, <1>9
      <4> QED BY <4>2
    <3> QED BY <3>1, <3>2
  <2> QED BY <2>1 DEF Unresolvable
<1> QED BY <1>10, <1>11, <1>12

(* The literals that shrink_block may come to.                             *)
Reached(block) == {-l : l \in block} \cup {-o : o \in UNION {reason[Var(trail[k])] : k \in Int}}

ResolvesBlock(w, block, n, R) ==
    /\ w \in [Nat -> SUBSET Reached(block)]
    /\ w[0] = {-l : l \in block}
    /\ \A k \in Nat \ {0} :
          w[k] = IF trail[Len(trail) + 1 - k] \notin w[k - 1] \/ Cardinality(w[k - 1]) = 1 THEN w[k - 1]
                 ELSE IF ShrinkFails(trail[Len(trail) + 1 - k], n, R) THEN None
                 ELSE (w[k - 1] \ {trail[Len(trail) + 1 - k]})
                      \cup {-o : o \in {x \in reason[Var(trail[Len(trail) + 1 - k])]
                                                \ {trail[Len(trail) + 1 - k]} : lev[Var(x)] = n}}

(* The loop of shrink_block.                                               *)
LEMMA BlockUipSteps ==
    ASSUME NEW L, trail \in Seq(L), NEW block, NEW n, NEW R
    PROVE  \E w : ResolvesBlock(w, block, n, R) /\ BlockUip(block, n, R) = w[Len(trail)]
<1> DEFINE walk[k \in Nat] ==
              IF k = 0 THEN {-l : l \in block}
              ELSE LET S == walk[k - 1]
                       t == trail[Len(trail) + 1 - k]
                   IN  IF t \notin S \/ Cardinality(S) = 1 THEN S
                       ELSE IF ShrinkFails(t, n, R) THEN None
                       ELSE (S \ {t}) \cup {-o : o \in {x \in reason[Var(t)] \ {t} :
                                                           lev[Var(x)] = n}}
           X == SUBSET Reached(block)
           T(k) == trail[Len(trail) + 1 - k]
           Step(k, S) == IF T(k) \notin S \/ Cardinality(S) = 1 THEN S
                         ELSE IF ShrinkFails(T(k), n, R) THEN None
                         ELSE (S \ {T(k)}) \cup {-o : o \in {x \in reason[Var(T(k))] \ {T(k)} :
                                                               lev[Var(x)] = n}}
           F == [x \in Nat \X X |-> Step(x[1], x[2])]
<1>1. BlockUip(block, n, R) = walk[Len(trail)]
  BY DEF BlockUip
<1>2. {-l : l \in block} \in X
  BY DEF Reached
<1>3. ASSUME NEW k \in Nat, NEW S \in X PROVE Step(k, S) \in X
  <2>1. Len(trail) + 1 - k \in Int
    OBVIOUS
  <2>2. reason[Var(T(k))] \in {reason[Var(trail[i])] : i \in Int}
    BY <2>1
  <2>3. {-o : o \in {x \in reason[Var(T(k))] \ {T(k)} : lev[Var(x)] = n}} \subseteq Reached(block)
    <3> HIDE DEF T
    <3> QED BY <2>2 DEF Reached
  <2> HIDE DEF T
  <2> QED BY <2>3 DEF None
<1>4. F \in [Nat \X X -> X]
  <2> HIDE DEF Step, X
  <2> QED BY <1>3
<1>5. \E f : RecursiveOn(f, X, {-l : l \in block}, F)
  <2> HIDE DEF X, F
  <2> QED BY <1>2, <1>4, RecursiveFunction
<1> PICK f : RecursiveOn(f, X, {-l : l \in block}, F)
  BY <1>5
<1>6. f \in [Nat -> X] /\ f[0] = {-l : l \in block} /\ \A k \in Nat \ {0} : f[k] = F[<<k, f[k - 1]>>]
  BY DEF RecursiveOn
<1>7. \A k \in Nat \ {0} : f[k] = Step(k, f[k - 1])
  <2> SUFFICES ASSUME NEW k \in Nat \ {0} PROVE f[k] = Step(k, f[k - 1])
    OBVIOUS
  <2>1. k - 1 \in Nat /\ f[k - 1] \in X
    BY <1>6
  <2>2. <<k, f[k - 1]>> \in Nat \X X
    BY <2>1
  <2> HIDE DEF Step, X
  <2>3. F[<<k, f[k - 1]>>] = Step(k, f[k - 1])
    BY <2>2
  <2> HIDE DEF F
  <2> QED BY <1>6, <2>3
<1>8. f = [k \in Nat |-> IF k = 0 THEN {-l : l \in block} ELSE Step(k, f[k - 1])]
  <2> HIDE DEF Step
  <2> QED BY <1>6, <1>7
<1>9. walk = [k \in Nat |-> IF k = 0 THEN {-l : l \in block} ELSE Step(k, walk[k - 1])]
  BY <1>8
<1> HIDE DEF walk
<1>10. walk[0] = {-l : l \in block} /\ \A k \in Nat \ {0} : walk[k] = Step(k, walk[k - 1])
  <2> HIDE DEF Step
  <2> QED BY <1>9
<1>11. \A k \in Nat : walk[k] \in X
  <2> DEFINE V == {k \in Nat : walk[k] \in X}
  <2>1. 0 \in V
    BY <1>2, <1>10
  <2>2. ASSUME NEW k \in Nat, k \in V PROVE k + 1 \in V
    <3>1. k + 1 \in Nat \ {0} /\ (k + 1) - 1 = k
      OBVIOUS
    <3> HIDE DEF Step, X
    <3> QED BY <3>1, <1>3, <1>10, <2>2
  <2> HIDE DEF V
  <2>3. \A k \in Nat : k \in V
    BY <2>1, <2>2, SetInduction
  <2> QED BY <2>3 DEF V
<1>12. walk \in [Nat -> X]
  <2> HIDE DEF X, Step
  <2> QED BY <1>9, <1>11
<1>13. ResolvesBlock(walk, block, n, R)
  BY <1>10, <1>12 DEF ResolvesBlock
<1> QED BY <1>1, <1>13

(* shrink_block finds literals of the level that imply the block.          *)
LEMMA BlockUipRight ==
    ASSUME problem \in Problems, SearchState(problem, trail, lev, reason, control, Clauses),
           NEW n \in 1 .. level, NEW K \in SUBSET LitsOf(problem),
           NEW block \in SUBSET LitsOf(problem),
           \A l \in block : On(trail, -l) /\ lev[Var(l)] = n,
           NEW u, u = BlockUip(block, n, ImpliedBy(K)), u # None
    PROVE  (\A x \in u : OnLevel(n, x)) /\ BlockImplies(block, K, u)
<1> DEFINE R == ImpliedBy(K)
           N == Len(trail)
<1>1. trail \in Seq(LitsOf(problem) \cup {0}) /\ N \in Nat
  BY DEF SearchState, Shape
<1>2. PICK w : ResolvesBlock(w, block, n, R) /\ u = w[N]
  <2> HIDE DEF R
  <2>1. \E w : ResolvesBlock(w, block, n, R) /\ BlockUip(block, n, R) = w[Len(trail)]
    BY <1>1, BlockUipSteps
  <2>2. u = BlockUip(block, n, R)
    BY DEF R
  <2> QED BY <2>1, <2>2
<1> DEFINE Right(S, k) == (\A x \in S : OnLevel(n, x)) /\ BlockImplies(block, K, S) /\ Unresolvable(S, k)
           T == {k \in Nat : k <= N /\ w[k] # None => Right(w[k], N - k)}
<1>3. 0 \in T
  <2>1. w[0] = {-l : l \in block}
    BY <1>2 DEF ResolvesBlock
  <2>2. \A x \in w[0] : OnLevel(n, x)
    BY <2>1, Literals DEF OnLevel
  <2>3. BlockImplies(block, K, w[0])
    <3> SUFFICES ASSUME NEW m \in ModelsOf(problem), \A x \in w[0] : Holds(m, x)
                 PROVE  \A l \in block : ~Holds(m, l)
      BY DEF BlockImplies
    <3> QED BY <2>1, HoldsNot
  <2>4. Unresolvable(w[0], N - 0)
    BY <1>1 DEF Unresolvable
  <2> QED BY <2>2, <2>3, <2>4
<1>4. ASSUME NEW k \in Nat, k \in T PROVE k + 1 \in T
  <2> SUFFICES ASSUME k + 1 <= N, w[k + 1] # None PROVE Right(w[k + 1], N - (k + 1))
    <3> HIDE DEF Right
    <3> QED OBVIOUS
  <2> DEFINE S == w[k]
             i == N - k
             t == trail[i]
  <2>1. /\ i \in 1 .. N /\ i \in Nat /\ i - 1 = N - (k + 1) /\ N + 1 - (k + 1) = i
        /\ k + 1 \in Nat \ {0} /\ (k + 1) - 1 = k
    BY <1>1
  <2>2. w[k + 1] = IF t \notin S \/ Cardinality(S) = 1 THEN S
                   ELSE IF ShrinkFails(t, n, R) THEN None
                   ELSE (S \ {t}) \cup {-o : o \in {x \in reason[Var(t)] \ {t} : lev[Var(x)] = n}}
    <3> HIDE DEF R
    <3>1. w[k + 1] = IF trail[N + 1 - (k + 1)] \notin w[(k + 1) - 1] \/ Cardinality(w[(k + 1) - 1]) = 1
                     THEN w[(k + 1) - 1]
                     ELSE IF ShrinkFails(trail[N + 1 - (k + 1)], n, R) THEN None
                     ELSE (w[(k + 1) - 1] \ {trail[N + 1 - (k + 1)]})
                          \cup {-o : o \in {x \in reason[Var(trail[N + 1 - (k + 1)])]
                                                    \ {trail[N + 1 - (k + 1)]} : lev[Var(x)] = n}}
      BY <2>1, <1>2 DEF ResolvesBlock
    <3>2. trail[N + 1 - (k + 1)] = t /\ w[(k + 1) - 1] = S
      BY <2>1
    <3> HIDE DEF t, S
    <3> QED BY <3>1, <3>2
  <2>3. S # None => Right(S, i)
    <3> HIDE DEF Right
    <3> QED BY <1>1, <1>4
  <2>4. CASE t \notin S
    <3>1. w[k + 1] = S /\ Right(S, i)
      BY <2>2, <2>3, <2>4
    <3>2. Unresolvable(S, i - 1)
      <4>1. \A j \in 1 .. N : trail[j] \in S /\ j <= i => j <= i - 1
        BY <2>1, <2>4
      <4> QED BY <3>1, <4>1 DEF Unresolvable
    <3> QED BY <3>1, <3>2, <2>1
  <2>5. CASE Cardinality(S) = 1
    <3>1. w[k + 1] = S /\ Right(S, i)
      BY <2>2, <2>3, <2>5
    <3>2. \E x : S = {x}
      <4>1. S \subseteq LitsOf(problem)
        BY <3>1 DEF OnLevel
      <4>2. IsFiniteSet(S)
        BY <4>1, FiniteClauses
      <4> HIDE DEF S
      <4> QED BY <4>2, <2>5, Several
    <3> QED BY <3>1, <3>2 DEF Unresolvable
  <2>6. CASE t \in S /\ Cardinality(S) # 1
    <3>1. ~ShrinkFails(t, n, R)
      BY <2>2, <2>6
    <3>2. w[k + 1] = (S \ {t}) \cup {-o : o \in {x \in reason[Var(t)] \ {t} : lev[Var(x)] = n}}
      BY <2>2, <2>6, <3>1
    <3>3. Right(S, i)
      BY <2>3, <2>6 DEF None
    <3> DEFINE U == w[k + 1]
    <3>4. (\A x \in S : OnLevel(n, x)) /\ BlockImplies(block, K, S) /\ Unresolvable(S, i)
      BY <3>3
    <3>5. U = (S \ {t}) \cup {-o : o \in {x \in reason[Var(t)] \ {t} : lev[Var(x)] = n}}
      BY <3>2
    <3> HIDE DEF S, i, U
    <3>6. (\A x \in U : OnLevel(n, x)) /\ BlockImplies(block, K, U) /\ Unresolvable(U, i - 1)
      BY <3>1, <3>4, <3>5, <2>1, <2>6, ShrinkStep
    <3> QED BY <3>6, <2>1 DEF U
  <2> QED BY <2>4, <2>5, <2>6
<1>5. N \in T
  <2> HIDE DEF T
  <2>1. \A k \in Nat : k \in T
    BY <1>3, <1>4, SetInduction
  <2> QED BY <2>1, <1>1
<1> QED BY <1>1, <1>2, <1>5

(* What replaces a block is false on the trail, and with the literals of   *)
(* lower levels that are kept it implies the block.                        *)
LEMMA ShrunkenBlockRight ==
    ASSUME problem \in Problems, SearchState(problem, trail, lev, reason, control, Clauses),
           NEW n \in 1 .. level, NEW K \in SUBSET LitsOf(problem), \A l \in K : On(trail, -l),
           NEW block \in SUBSET LitsOf(problem),
           \A l \in block : On(trail, -l) /\ lev[Var(l)] = n
    PROVE  LET B == ShrunkenBlock(block, n, K)
           IN  /\ \A l \in B : l \in LitsOf(problem) /\ On(trail, -l) /\ lev[Var(l)] = n
               /\ \A m \in ModelsOf(problem) :
                     (\A l \in K \cup B : ~Holds(m, l)) => \A l \in block : ~Holds(m, l)
<1> DEFINE B == ShrunkenBlock(block, n, K)
           u == BlockUip(block, n, ImpliedBy(K))
<1> SUFFICES /\ \A l \in B : l \in LitsOf(problem) /\ On(trail, -l) /\ lev[Var(l)] = n
             /\ \A m \in ModelsOf(problem) :
                   (\A l \in K \cup B : ~Holds(m, l)) => \A l \in block : ~Holds(m, l)
  OBVIOUS
<1>1. CASE B = block
  <2> HIDE DEF B
  <2> QED BY <1>1
<1>2. CASE u # None /\ B = {-l : l \in u}
  <2> HIDE DEF B, u
  <2>1. (\A x \in u : OnLevel(n, x)) /\ BlockImplies(block, K, u)
    BY <1>2, BlockUipRight DEF u
  <2>2. ASSUME NEW l \in B PROVE l \in LitsOf(problem) /\ On(trail, -l) /\ lev[Var(l)] = n
    <3>1. PICK x \in u : l = -x
      BY <1>2
    <3>2. x \in LitsOf(problem) /\ On(trail, x) /\ lev[Var(x)] = n
      BY <2>1 DEF OnLevel
    <3> QED BY <3>1, <3>2, Literals
  <2>3. ASSUME NEW m \in ModelsOf(problem), \A l \in K \cup B : ~Holds(m, l)
        PROVE  \A l \in block : ~Holds(m, l)
    <3>1. \A x \in u : Holds(m, x)
      <4>1. \A x \in u : x \in LitsOf(problem) /\ ~Holds(m, -x)
        BY <1>2, <2>1, <2>3 DEF OnLevel
      <4> QED BY <4>1, HoldsNot
    <3> QED BY <2>1, <2>3, <3>1 DEF BlockImplies
  <2> QED BY <2>2, <2>3
<1>3. CASE B = Minimized(K \cup block) \ K
  <2>1. B \subseteq block
    BY <1>3 DEF Minimized
  <2> HIDE DEF B
  <2>2. ASSUME NEW m \in ModelsOf(problem), \A l \in K \cup B : ~Holds(m, l)
        PROVE  \A l \in block : ~Holds(m, l)
    <3> DEFINE D == K \cup block
    <3>1. D \in SUBSET LitsOf(problem) /\ \A l \in D : On(trail, -l)
      OBVIOUS
    <3>2. \A l \in Minimized(D) : ~Holds(m, l)
      BY <1>3, <2>2
    <3> HIDE DEF D
    <3>3. \A l \in D : ~Holds(m, l)
      BY <3>1, <3>2, MinimizedFollows
    <3> QED BY <3>3 DEF D
  <2> QED BY <2>1, <2>2
<1>4. B = block \/ (u # None /\ B = {-l : l \in u}) \/ B = Minimized(K \cup block) \ K
  <2> DEFINE M == Minimized(K \cup block) \ K
  <2>1. B = IF Cardinality(block) < 2 THEN block
            ELSE IF u # None THEN {-l : l \in u}
            ELSE IF Minimize THEN M ELSE block
    BY DEF ShrunkenBlock
  <2> HIDE DEF B, u, M
  <2>2. B = block \/ (u # None /\ B = {-l : l \in u}) \/ B = M
    BY <2>1
  <2> QED BY <2>2 DEF M
<1> QED BY <1>1, <1>2, <1>3, <1>4

ShrinksClause(f, C) ==
    /\ f[0] = {}
    /\ \A n \in Nat \ {0} :
          f[n] = f[n - 1] \cup ShrunkenBlock({l \in C : lev[Var(l)] = n}, n, f[n - 1])

(* The loop over the levels.                                               *)
LEMMA ShrunkenSteps ==
    ASSUME NEW L, trail \in Seq(L), level \in Nat, NEW C
    PROVE  \E f : ShrinksClause(f, C) /\ Shrunken(C) = f[level]
<1> DEFINE upto[n \in Nat] ==
              IF n = 0 THEN {}
              ELSE LET K == upto[n - 1]
                   IN  K \cup ShrunkenBlock({l \in C : lev[Var(l)] = n}, n, K)
           V == C \cup {-x : x \in Reached(C)}
           X == SUBSET V
           Step(n, K) == K \cup ShrunkenBlock({l \in C : lev[Var(l)] = n}, n, K)
           F == [x \in Nat \X X |-> Step(x[1], x[2])]
<1>1. Shrunken(C) = upto[level]
  BY DEF Shrunken
<1>2. ASSUME NEW n \in Nat, NEW K \in X PROVE Step(n, K) \in X
  <2> DEFINE b == {l \in C : lev[Var(l)] = n}
             R == ImpliedBy(K)
             u == BlockUip(b, n, R)
             B == ShrunkenBlock(b, n, K)
             M == Minimized(K \cup b) \ K
  <2>1. u \subseteq Reached(C)
    <3>1. b \subseteq C
      OBVIOUS
    <3>2. PICK w : ResolvesBlock(w, b, n, R) /\ u = w[Len(trail)]
      <4> HIDE DEF b, R
      <4>1. \E w : ResolvesBlock(w, b, n, R) /\ BlockUip(b, n, R) = w[Len(trail)]
        BY BlockUipSteps
      <4> QED BY <4>1
    <3>3. Len(trail) \in Nat
      OBVIOUS
    <3> HIDE DEF b, R, u
    <3>4. u \subseteq Reached(b)
      BY <3>2, <3>3 DEF ResolvesBlock
    <3>5. Reached(b) \subseteq Reached(C)
      BY <3>1 DEF Reached
    <3> QED BY <3>4, <3>5
  <2>2. M \subseteq b /\ b \subseteq C
    BY DEF Minimized
  <2>3. B = IF Cardinality(b) < 2 THEN b
            ELSE IF u # None THEN {-l : l \in u}
            ELSE IF Minimize THEN M ELSE b
    BY DEF ShrunkenBlock
  <2> HIDE DEF b, u, M, R
  <2>4. B \subseteq V
    <3> HIDE DEF B
    <3> QED BY <2>1, <2>2, <2>3
  <2> HIDE DEF B
  <2> QED BY <2>4 DEF B, b
<1>3. F \in [Nat \X X -> X]
  <2> HIDE DEF Step, X
  <2> QED BY <1>2
<1>4. \E f : RecursiveOn(f, X, {}, F)
  <2>1. {} \in X
    OBVIOUS
  <2> HIDE DEF X, F
  <2> QED BY <2>1, <1>3, RecursiveFunction
<1> PICK f : RecursiveOn(f, X, {}, F)
  BY <1>4
<1>5. f \in [Nat -> X] /\ f[0] = {} /\ \A n \in Nat \ {0} : f[n] = F[<<n, f[n - 1]>>]
  BY DEF RecursiveOn
<1>6. \A n \in Nat \ {0} : f[n] = Step(n, f[n - 1])
  <2> SUFFICES ASSUME NEW n \in Nat \ {0} PROVE f[n] = Step(n, f[n - 1])
    OBVIOUS
  <2>1. n - 1 \in Nat /\ f[n - 1] \in X
    BY <1>5
  <2>2. <<n, f[n - 1]>> \in Nat \X X
    BY <2>1
  <2> HIDE DEF Step, X
  <2>3. F[<<n, f[n - 1]>>] = Step(n, f[n - 1])
    BY <2>2
  <2> HIDE DEF F
  <2> QED BY <1>5, <2>3
<1>7. f = [n \in Nat |-> IF n = 0 THEN {} ELSE Step(n, f[n - 1])]
  <2> HIDE DEF Step
  <2> QED BY <1>5, <1>6
<1>8. upto = [n \in Nat |-> IF n = 0 THEN {} ELSE Step(n, upto[n - 1])]
  BY <1>7
<1> HIDE DEF upto
<1>9. upto[0] = {} /\ \A n \in Nat \ {0} : upto[n] = Step(n, upto[n - 1])
  <2> HIDE DEF Step
  <2> QED BY <1>8
<1>10. ShrinksClause(upto, C)
  BY <1>9 DEF ShrinksClause
<1> QED BY <1>1, <1>10

(* shrink_and_minimize_clause: the clause follows from what is left of it, *)
(* and a single literal of the highest level stays.                        *)
LEMMA ShrunkenRight ==
    ASSUME problem \in Problems, SearchState(problem, trail, lev, reason, control, Clauses),
           level > 0, NEW C \in SUBSET LitsOf(problem),
           \A l \in C : On(trail, -l) /\ lev[Var(l)] \in 1 .. level,
           NEW x, {l \in C : lev[Var(l)] = level} = {x}
    PROVE  /\ \A l \in Shrunken(C) : /\ l \in LitsOf(problem) /\ On(trail, -l)
                                     /\ lev[Var(l)] \in 1 .. level
                                     /\ lev[Var(l)] = level => l = x
           /\ x \in Shrunken(C)
           /\ \A m \in ModelsOf(problem) :
                 (\A l \in Shrunken(C) : ~Holds(m, l)) => \A l \in C : ~Holds(m, l)
<1>1. trail \in Seq(LitsOf(problem) \cup {0}) /\ level \in Nat
  BY OneAssignment DEF SearchState, Shape, level
<1> PICK f : ShrinksClause(f, C) /\ Shrunken(C) = f[level]
  BY <1>1, ShrunkenSteps
<1> DEFINE Right(n) == /\ \A l \in f[n] : l \in LitsOf(problem) /\ On(trail, -l) /\ lev[Var(l)] \in 1 .. n
                       /\ \A m \in ModelsOf(problem) :
                             (\A l \in f[n] : ~Holds(m, l)) =>
                                 \A l \in C : lev[Var(l)] <= n => ~Holds(m, l)
           T == {n \in Nat : n <= level => Right(n)}
<1>2. 0 \in T
  BY DEF ShrinksClause
<1>3. ASSUME NEW n \in Nat, n \in T PROVE n + 1 \in T
  <2> SUFFICES ASSUME n + 1 <= level PROVE Right(n + 1)
    <3> HIDE DEF Right
    <3> QED OBVIOUS
  <2> DEFINE K == f[n]
             b == {l \in C : lev[Var(l)] = n + 1}
             B == ShrunkenBlock(b, n + 1, K)
  <2>1. Right(n) /\ n + 1 \in 1 .. level /\ n + 1 \in Nat \ {0} /\ (n + 1) - 1 = n
    <3> HIDE DEF Right
    <3> QED BY <1>1, <1>3
  <2>2. f[n + 1] = K \cup B
    BY <2>1 DEF ShrinksClause
  <2>3. /\ K \in SUBSET LitsOf(problem) /\ \A l \in K : On(trail, -l)
        /\ b \in SUBSET LitsOf(problem) /\ \A l \in b : On(trail, -l) /\ lev[Var(l)] = n + 1
    BY <2>1
  <2> HIDE DEF K, b
  <2>4. /\ \A l \in B : l \in LitsOf(problem) /\ On(trail, -l) /\ lev[Var(l)] = n + 1
        /\ \A m \in ModelsOf(problem) :
              (\A l \in K \cup B : ~Holds(m, l)) => \A l \in b : ~Holds(m, l)
    BY <2>1, <2>3, ShrunkenBlockRight
  <2> HIDE DEF B
  <2>5. ASSUME NEW l \in f[n + 1]
        PROVE  l \in LitsOf(problem) /\ On(trail, -l) /\ lev[Var(l)] \in 1 .. n + 1
    <3>1. CASE l \in K
      <4>1. l \in LitsOf(problem) /\ On(trail, -l) /\ lev[Var(l)] \in 1 .. n
        BY <2>1, <3>1 DEF K
      <4> QED BY <4>1
    <3>2. CASE l \in B
      BY <2>4, <3>2
    <3> QED BY <2>2, <3>1, <3>2
  <2>6. ASSUME NEW m \in ModelsOf(problem), \A l \in f[n + 1] : ~Holds(m, l),
               NEW l \in C, lev[Var(l)] <= n + 1
        PROVE  ~Holds(m, l)
    <3>1. CASE lev[Var(l)] = n + 1
      <4>1. l \in b
        BY <3>1 DEF b
      <4> QED BY <4>1, <2>2, <2>4, <2>6
    <3>2. CASE lev[Var(l)] # n + 1
      <4>1. lev[Var(l)] <= n
        BY <3>2, <2>6
      <4>2. \A o \in f[n] : ~Holds(m, o)
        BY <2>2, <2>6 DEF K
      <4> QED BY <4>1, <4>2, <2>1
    <3> QED BY <3>1, <3>2
  <2> QED BY <2>5, <2>6
<1>4. \A n \in Nat : n <= level => Right(n)
  <2> HIDE DEF T
  <2>1. \A n \in Nat : n \in T
    BY <1>2, <1>3, SetInduction
  <2> HIDE DEF Right
  <2> QED BY <2>1 DEF T
<1>5. /\ \A l \in Shrunken(C) : l \in LitsOf(problem) /\ On(trail, -l) /\ lev[Var(l)] \in 1 .. level
      /\ \A m \in ModelsOf(problem) :
            (\A l \in Shrunken(C) : ~Holds(m, l)) => \A l \in C : ~Holds(m, l)
  <2>1. Right(level)
    <3> HIDE DEF Right
    <3> QED BY <1>1, <1>4
  <2>2. \A l \in C : lev[Var(l)] <= level
    BY <1>1
  <2> QED BY <2>1, <2>2
<1>6. Shrunken(C) = f[level - 1] \cup {x}
  <2>1. level \in Nat \ {0}
    BY <1>1
  <2>2. Shrunken(C) = f[level - 1] \cup ShrunkenBlock({x}, level, f[level - 1])
    BY <2>1 DEF ShrinksClause
  <2>3. Cardinality({x}) = 1
    BY FS_Singleton
  <2>4. ShrunkenBlock({x}, level, f[level - 1]) = {x}
    BY <2>3 DEF ShrunkenBlock
  <2> QED BY <2>2, <2>4
<1>7. \A l \in f[level - 1] : lev[Var(l)] \in 1 .. level - 1
  <2>1. Right(level - 1)
    <3> HIDE DEF Right
    <3> QED BY <1>1, <1>4
  <2> QED BY <2>1
<1>8. \A l \in f[level - 1] : lev[Var(l)] # level
  BY <1>1, <1>7
<1> QED BY <1>5, <1>6, <1>8

(* Minimizing and shrinking the derived clause.                            *)
LEMMA MinimizeRight ==
    ASSUME problem \in Problems, SearchState(problem, trail, lev, reason, control, Clauses),
           level > 0, clause \in SUBSET LitsOf(problem),
           Derived(problem, trail, lev, level, clause, uip),
           NEW c, c = IF problem.shrink > 0 THEN Shrunken(clause)
                      ELSE IF Minimize THEN Minimized(clause)
                      ELSE clause
    PROVE  c \in SUBSET LitsOf(problem) /\ Derived(problem, trail, lev, level, c, uip)
<1>1. /\ uip \in LitsOf(problem) /\ On(trail, uip) /\ lev[Var(uip)] = level /\ -uip \in clause
      /\ \A l \in clause \ {-uip} : On(trail, -l) /\ lev[Var(l)] \in 1 .. level - 1
      /\ Follows(problem, clause)
  <2>1. uip \in LitsOf(problem) \cup {0} /\ uip # 0
    BY OneAssignment DEF Derived
  <2> QED BY <2>1 DEF Derived, FalseBelow
<1>2. -(-uip) = uip /\ Var(-uip) = Var(uip) /\ level \in Nat
  BY <1>1, Literals, OneAssignment DEF level
<1>3. \A l \in clause : On(trail, -l) /\ lev[Var(l)] \in 1 .. level
  <2>1. \A l \in clause \ {-uip} : lev[Var(l)] \in 1 .. level
    BY <1>1, <1>2
  <2>2. On(trail, -(-uip)) /\ lev[Var(-uip)] \in 1 .. level
    BY <1>1, <1>2
  <2> QED BY <1>1, <2>1, <2>2
<1>4. ASSUME c \in SUBSET LitsOf(problem), -uip \in c,
             \A l \in c \ {-uip} : On(trail, -l) /\ lev[Var(l)] \in 1 .. level - 1,
             \A m \in ModelsOf(problem) : (\A l \in c : ~Holds(m, l)) => \A l \in clause : ~Holds(m, l)
      PROVE  c \in SUBSET LitsOf(problem) /\ Derived(problem, trail, lev, level, c, uip)
  <2>1. Follows(problem, c)
    BY <1>1, <1>4 DEF Follows, Satisfies
  <2> QED BY <1>1, <1>4, <2>1 DEF Derived, FalseBelow
<1>5. CASE problem.shrink > 0
  <2>1. {l \in clause : lev[Var(l)] = level} = {-uip}
    <3>1. \A l \in clause \ {-uip} : lev[Var(l)] # level
      BY <1>1, <1>2
    <3> QED BY <1>1, <1>2, <3>1
  <2>2. c = Shrunken(clause)
    BY <1>5
  <2>3. /\ \A l \in c : /\ l \in LitsOf(problem) /\ On(trail, -l)
                        /\ lev[Var(l)] \in 1 .. level
                        /\ lev[Var(l)] = level => l = -uip
        /\ -uip \in c
        /\ \A m \in ModelsOf(problem) :
              (\A l \in c : ~Holds(m, l)) => \A l \in clause : ~Holds(m, l)
    BY <1>3, <2>1, <2>2, ShrunkenRight
  <2>4. \A l \in c \ {-uip} : On(trail, -l) /\ lev[Var(l)] \in 1 .. level - 1
    BY <1>2, <2>3
  <2> QED BY <1>4, <2>3, <2>4
<1>6. CASE ~(problem.shrink > 0) /\ Minimize
  <2>1. c = Minimized(clause)
    BY <1>6
  <2>2. c \subseteq clause
    BY <2>1 DEF Minimized
  <2>3. -uip \in c
    <3>1. ~Removable(uip, ImpliedBy(clause))
      BY <1>1, <1>2 DEF Removable
    <3>2. ~Removable(-(-uip), ImpliedBy(clause))
      BY <1>2, <3>1
    <3> QED BY <1>1, <2>1, <3>2 DEF Minimized
  <2>4. \A m \in ModelsOf(problem) : (\A l \in c : ~Holds(m, l)) => \A l \in clause : ~Holds(m, l)
    BY <1>3, <2>1, MinimizedFollows
  <2> QED BY <1>1, <1>4, <2>2, <2>3, <2>4
<1>7. CASE ~(problem.shrink > 0) /\ ~Minimize
  BY <1>7
<1> QED BY <1>5, <1>6, <1>7

-----------------------------------------------------------------------------
(* The literals analyze_literal marks, and the marks.                      *)
NewIn(lv, sn, c) == {l \in c : Var(l) \notin sn /\ lv[Var(l)] > 0}
MarkedWith(sn, new) == sn \cup {Var(l) : l \in new}

(* UIPAUX: resolving an auxiliary literal of the clause with its reason,   *)
(* in any order and each reason only once.                                 *)
ReplacesWith(p, t, lv, n, c, sm, u, new) ==
    /\ c \in SUBSET LitsOf(p)
    /\ \A o \in new : lv[Var(o)] < n
    /\ Derived(p, t, lv, n, c, u)
    /\ MarkedFollow(p, t, lv, n, c, sm)

(* analyze.cpp, UIPAUX: the clause in which an auxiliary literal is        *)
(* replaced by the literals of its reason still follows from the formula.  *)
LEMMA AuxResolveRight ==
    ASSUME NEW p \in Problems, NEW t, NEW lv, NEW rs, NEW ct, NEW C,
           SearchState(p, t, lv, rs, ct, C),
           NEW n \in Nat, NEW cl \in SUBSET LitsOf(p), NEW sn, NEW u,
           Derived(p, t, lv, n, cl, u), MarkedFollow(p, t, lv, n, cl, sn),
           NEW l \in cl, l # -u, rs[Var(l)] # None
    PROVE  ReplacesWith(p, t, lv, n, (cl \ {l}) \cup NewIn(lv, sn, rs[Var(l)]),
                        MarkedWith(sn, NewIn(lv, sn, rs[Var(l)])), u, NewIn(lv, sn, rs[Var(l)]))
<1> DEFINE new == NewIn(lv, sn, rs[Var(l)])
           c == (cl \ {l}) \cup new
           sm == MarkedWith(sn, new)
<1>a. /\ new = {o \in rs[Var(l)] : Var(o) \notin sn /\ lv[Var(o)] > 0}
      /\ c = (cl \ {l}) \cup new /\ sm = sn \cup {Var(o) : o \in new}
  BY DEF NewIn, MarkedWith
<1> SUFFICES ReplacesWith(p, t, lv, n, c, sm, u, new)
  OBVIOUS
<1> HIDE DEF new, c, sm
<1> USE <1>a
<1>1. On(t, -l) /\ lv[Var(l)] \in 1 .. n - 1 /\ Var(-l) = Var(l) /\ -(-l) = l
  BY Literals DEF Derived, FalseBelow
<1>2. PICK k \in 1 .. Len(t) : t[k] = -l
  BY <1>1 DEF On
<1> DEFINE r == ReasonAt(t, rs, k)
<1>3. r = rs[Var(l)] /\ r # None /\ LevelAt(t, lv, k) = lv[Var(l)] /\ Len(t) \in Nat
  BY <1>1, <1>2, OneAssignment DEF ReasonAt, LevelAt
<1> HIDE DEF r
<1>4. /\ r \subseteq LitsOf(p) /\ Follows(p, r) /\ -l \in r
      /\ \A o \in r \ {-l} : /\ \E j \in 1 .. Len(t) : j < k /\ t[j] = -o
                             /\ lv[Var(o)] <= lv[Var(l)]
  BY <1>2, <1>3, ReasonLiterals DEF r
<1>5. \A o \in LitsOf(p) : lv[Var(o)] \in Nat /\ Var(-o) = Var(o) /\ -o \in LitsOf(p) /\ -(-o) = o
  BY OneAssignment, Literals
<1>6. -l \notin new
  <2>1. Var(-l) \in sn
    BY <1>1 DEF MarkedFollow
  <2> QED BY <2>1
<1>7. ASSUME NEW o \in new
      PROVE  /\ o \in r \ {-l} /\ o \in LitsOf(p) /\ On(t, -o)
             /\ lv[Var(o)] \in 1 .. n - 1
  <2>1. o \in r \ {-l} /\ o \in LitsOf(p) /\ lv[Var(o)] > 0
    BY <1>3, <1>4, <1>6
  <2>2. On(t, -o) /\ lv[Var(o)] <= lv[Var(l)]
    BY <1>4, <2>1 DEF On
  <2>3. lv[Var(o)] \in Nat
    BY <1>5, <2>1
  <2> QED BY <1>1, <2>1, <2>2, <2>3
<1>8. c \in SUBSET LitsOf(p)
  BY <1>7
<1>9. \A o \in new : lv[Var(o)] < n
  BY <1>7
(* A literal of the trail before position k that is false in the reason    *)
(* of l holds if those before it that are in the new clause do.            *)
<1>10. ASSUME NEW m \in ModelsOf(p), NEW j \in 1 .. Len(t), j < k, -t[j] \in r \ {-l},
              \A i \in 1 .. Len(t) : i < k /\ -t[i] \in c => Holds(m, t[i])
       PROVE  Holds(m, t[j])
  <2>1. -t[j] \in LitsOf(p) /\ t[j] \in LitsOf(p) \cup {0}
    BY <1>4, <1>10, OneAssignment
  <2>2. t[j] \in LitsOf(p) /\ Var(-t[j]) = Var(t[j])
    <3>1. t[j] # 0
      BY <2>1, Literals
    <3> QED BY <2>1, <3>1, <1>5
  <2>3. CASE lv[Var(t[j])] = 0
    <3>1. On(t, t[j])
      BY DEF On
    <3> QED BY <2>3, <3>1, RootHolds
  <2>4. CASE lv[Var(t[j])] # 0 /\ Var(t[j]) \notin sn
    <3>1. -t[j] \in new
      <4>1. lv[Var(t[j])] > 0
        BY <2>2, <2>4, <1>5
      <4> QED BY <2>2, <2>4, <4>1, <1>3, <1>10
    <3> QED BY <3>1, <1>10
  <2>5. CASE lv[Var(t[j])] # 0 /\ Var(t[j]) \in sn
    <3>1. LevelAt(t, lv, j) < n
      <4>1. lv[Var(-t[j])] <= lv[Var(l)]
        BY <1>4, <1>10
      <4>2. lv[Var(t[j])] \in Nat
        BY <1>5, <2>2
      <4> QED BY <4>1, <4>2, <1>1, <2>2 DEF LevelAt
    <3>2. \A i \in 1 .. j : -t[i] \in cl => Holds(m, t[i])
      <4> SUFFICES ASSUME NEW i \in 1 .. j, -t[i] \in cl PROVE Holds(m, t[i])
        OBVIOUS
      <4>1. i \in 1 .. Len(t) /\ i < k
        BY <1>10
      <4>2. -t[i] # l
        <5> SUFFICES ASSUME -t[i] = l PROVE FALSE
          OBVIOUS
        <5>1. t[i] \in LitsOf(p) \cup {0} /\ t[i] # 0
          BY <4>1, OneAssignment, Literals
        <5>2. t[i] = -l
          BY <5>1, Literals
        <5>3. i = k
          BY <4>1, <5>2, <1>2 DEF SearchState, Ordered
        <5> QED BY <4>1, <5>3
      <4>3. -t[i] \in c
        BY <4>2
      <4> QED BY <4>1, <4>3, <1>10
    <3> QED BY <2>5, <3>1, <3>2 DEF MarkedFollow
  <2> QED BY <2>3, <2>4, <2>5
<1>11. ASSUME NEW m \in ModelsOf(p),
              \A i \in 1 .. Len(t) : i < k /\ -t[i] \in c => Holds(m, t[i])
       PROVE  Holds(m, -l)
  <2>1. ASSUME NEW o \in r \ {-l} PROVE Holds(m, -o)
    <3>1. PICK j \in 1 .. Len(t) : j < k /\ t[j] = -o
      BY <1>4
    <3>2. -t[j] \in r \ {-l}
      BY <3>1, <1>4, <1>5
    <3> QED BY <3>1, <3>2, <1>10, <1>11
  <2> QED BY <1>2, <1>3, <2>1, ReasonHolds DEF r
<1>12. Derived(p, t, lv, n, c, u)
  <2>1. -u \in c
    BY DEF Derived
  <2>2. \A o \in c \ {-u} : FalseBelow(t, lv, n, o)
    BY <1>7 DEF Derived, FalseBelow
  <2>3. Follows(p, c)
    <3> SUFFICES ASSUME NEW m \in ModelsOf(p), \A o \in c : ~Holds(m, o) PROVE FALSE
      BY DEF Follows, Satisfies
    <3>1. \A i \in 1 .. Len(t) : -t[i] \in c => Holds(m, t[i])
      <4> SUFFICES ASSUME NEW i \in 1 .. Len(t), -t[i] \in c PROVE Holds(m, t[i])
        OBVIOUS
      <4>1. t[i] \in LitsOf(p) \cup {0} /\ t[i] # 0
        BY <1>8, OneAssignment, Literals
      <4> QED BY <4>1, HoldsNot
    <3>2. Holds(m, -l)
      BY <3>1, <1>11
    <3>3. PICK o \in cl : Holds(m, o)
      BY DEF Derived, Follows, Satisfies
    <3>4. o = l
      BY <3>3
    <3> QED BY <3>2, <3>3, <3>4, HoldsNot
  <2> QED BY <2>1, <2>2, <2>3 DEF Derived
<1>13. MarkedFollow(p, t, lv, n, c, sm)
  <2>1. \A o \in c : Var(o) \in sm
    BY DEF MarkedFollow
  <2>2. ASSUME NEW a \in 1 .. Len(t), Var(t[a]) \in sm, LevelAt(t, lv, a) < n,
               NEW m \in ModelsOf(p), \A j \in 1 .. a : -t[j] \in c => Holds(m, t[j])
        PROVE  Holds(m, t[a])
    <3>1. CASE Var(t[a]) \in sn
      <4>1. \A j \in 1 .. a : -t[j] \in cl => Holds(m, t[j])
        <5> SUFFICES ASSUME NEW j \in 1 .. a, -t[j] \in cl PROVE Holds(m, t[j])
          OBVIOUS
        <5>1. CASE -t[j] # l
          BY <5>1, <2>2
        <5>2. CASE -t[j] = l
          <6>1. j \in 1 .. Len(t)
            BY <1>3
          <6>2. t[j] \in LitsOf(p) \cup {0} /\ t[j] # 0
            BY <5>2, <6>1, OneAssignment, Literals
          <6>3. t[j] = -l
            BY <5>2, <6>2, Literals
          <6>4. j = k
            BY <6>1, <6>3, <1>2 DEF SearchState, Ordered
          <6>5. \A i \in 1 .. Len(t) : i < k /\ -t[i] \in c => Holds(m, t[i])
            BY <2>2, <6>4
          <6> QED BY <6>3, <6>5, <1>11
        <5> QED BY <5>1, <5>2
      <4> QED BY <2>2, <3>1, <4>1 DEF MarkedFollow
    <3>2. CASE Var(t[a]) \notin sn
      <4>1. PICK o \in new : Var(t[a]) = Var(o)
        BY <2>2, <3>2
      <4>2. PICK j \in 1 .. Len(t) : t[j] = -o
        BY <1>7 DEF On
      <4>3. Var(t[j]) = Var(o) /\ -t[j] = o
        BY <4>2, <1>7, <1>5
      <4>4. j = a
        BY <4>1, <4>3 DEF SearchState, Ordered
      <4>5. a \in 1 .. a
        BY <1>3
      <4> QED BY <2>2, <4>3, <4>4, <4>5
    <3> QED BY <3>1, <3>2
  <2> QED BY <2>1, <2>2 DEF MarkedFollow
<1> QED BY <1>8, <1>9, <1>12, <1>13 DEF ReplacesWith

-----------------------------------------------------------------------------
(* The literals of a reason, or of the conflict, are false at positions    *)
(* before ix and of levels up to n.                                        *)
FalseUpTo(p, t, lv, n, ix, c) ==
    \A l \in c : /\ l \in LitsOf(p) /\ lv[Var(l)] <= n
                 /\ \E k \in 1 .. Len(t) : k < ix /\ t[k] = -l

(* The positions of the trail are finitely many, so that they are counted. *)
LEMMA FinitePositions ==
    ASSUME NEW N \in Nat
    PROVE  IsFiniteSet(1 .. N)
BY FS_Interval

(* The new literals of the level. *)
TopOf(lv, n, new) == {l \in new : ~(lv[Var(l)] < n)}
OpensMore(t, lv, n, O, top, Q) ==
    /\ Cardinality(Q) = Cardinality(O) + Cardinality(top)
    /\ Cardinality(O) \in Nat /\ Cardinality(top) \in Nat
    /\ \A l \in top : \E k \in Q : t[k] = -l
    /\ O \subseteq Q

(* Marking them opens as many positions as there are new ones of level n.  *)
LEMMA OpenCount ==
    ASSUME NEW p \in Problems, NEW t, NEW lv, NEW rs, NEW ct, NEW C,
           SearchState(p, t, lv, rs, ct, C),
           NEW n \in Nat \ {0}, NEW ix \in Nat, ix <= Len(t) + 1, NEW sn,
           NEW c, FalseUpTo(p, t, lv, n, ix, c)
    PROVE  OpensMore(t, lv, n, OpenAt(t, lv, n, sn, ix), TopOf(lv, n, NewIn(lv, sn, c)),
                     OpenAt(t, lv, n, MarkedWith(sn, NewIn(lv, sn, c)), ix))
<1> DEFINE new == {l \in c : Var(l) \notin sn /\ lv[Var(l)] > 0}
           top == {l \in new : ~(lv[Var(l)] < n)}
           sm == sn \cup {Var(l) : l \in new}
           O == OpenAt(t, lv, n, sn, ix)
           Q == OpenAt(t, lv, n, sm, ix)
           D == {k \in 1 .. Len(t) : k < ix /\ -t[k] \in top}
<1>1. Len(t) \in Nat /\ IsFiniteSet(1 .. Len(t))
  BY OneAssignment, FinitePositions
<1>2. \A l \in LitsOf(p) : lv[Var(l)] \in Nat /\ Var(-l) = Var(l) /\ -l \in LitsOf(p) /\ -(-l) = l
  BY OneAssignment, Literals
<1>3. \A l \in top : /\ l \in c /\ l \in LitsOf(p) /\ Var(l) \notin sn /\ lv[Var(l)] = n
                     /\ \E k \in 1 .. Len(t) : k < ix /\ t[k] = -l
  BY <1>2 DEF FalseUpTo
<1>4. \A k \in 1 .. Len(t) : -t[k] \in LitsOf(p) => t[k] \in LitsOf(p) /\ Var(t[k]) = Var(-t[k])
  <2> SUFFICES ASSUME NEW k \in 1 .. Len(t), -t[k] \in LitsOf(p)
               PROVE  t[k] \in LitsOf(p) /\ Var(t[k]) = Var(-t[k])
    OBVIOUS
  <2> HIDE DEF new, top, sm, O, Q, D
  <2>1. t[k] \in LitsOf(p) \cup {0}
    BY OneAssignment
  <2>2. t[k] \in Int
    BY <2>1, Literals
  <2>3. -(-t[k]) = t[k]
    BY <2>2
  <2>4. -(-t[k]) \in LitsOf(p) /\ Var(-(-t[k])) = Var(-t[k])
    BY Literals
  <2> QED BY <2>3, <2>4
<1>5. \A l \in top : \E k \in D : t[k] = -l
  BY <1>2, <1>3
<1>6. Q = O \cup D
  <2>1. ASSUME NEW k \in Q PROVE k \in O \cup D
    <3>1. k \in 1 .. Len(t) /\ k < ix /\ Var(t[k]) \in sm /\ lv[Var(t[k])] = n
      BY DEF OpenAt, LevelAt
    <3>2. CASE Var(t[k]) \in sn
      BY <3>1, <3>2 DEF OpenAt, LevelAt
    <3>3. CASE Var(t[k]) \notin sn
      <4>1. PICK l \in new : Var(t[k]) = Var(l)
        BY <3>1, <3>3
      <4>2. l \in c /\ l \in LitsOf(p) /\ lv[Var(l)] = n
        BY <3>1, <4>1 DEF FalseUpTo
      <4>3. PICK j \in 1 .. Len(t) : j < ix /\ t[j] = -l
        BY <4>2 DEF FalseUpTo
      <4>4. Var(t[j]) = Var(t[k]) /\ -t[j] = l
        BY <4>1, <4>2, <4>3, <1>2
      <4>5. j = k
        <5>1. k \in 1 .. Len(t)
          BY <3>1
        <5> QED BY <4>4, <5>1, OnePlace
      <4>6. l \in top
        BY <4>1, <4>2
      <4> QED BY <3>1, <4>4, <4>5, <4>6
    <3> QED BY <3>2, <3>3
  <2>2. \A k \in O : k \in Q
    BY DEF OpenAt
  <2>3. ASSUME NEW k \in D PROVE k \in Q
    <3>1. -t[k] \in top /\ k \in 1 .. Len(t) /\ k < ix
      OBVIOUS
    <3>2. Var(t[k]) = Var(-t[k]) /\ lv[Var(-t[k])] = n
      BY <3>1, <1>3, <1>4
    <3>3. Var(t[k]) \in sm
      BY <3>1, <3>2
    <3> QED BY <3>1, <3>2, <3>3 DEF OpenAt, LevelAt
  <2> HIDE DEF O, Q, D
  <2> QED BY <2>1, <2>2, <2>3
<1>7. O \cap D = {}
  <2> SUFFICES ASSUME NEW k \in O, k \in D PROVE FALSE
    OBVIOUS
  <2>1. Var(t[k]) \in sn
    BY DEF OpenAt
  <2>2. Var(-t[k]) \notin sn /\ Var(t[k]) = Var(-t[k])
    BY <1>3, <1>4
  <2> QED BY <2>1, <2>2
<1>8. IsFiniteSet(O) /\ IsFiniteSet(D)
  <2>1. O \in SUBSET (1 .. Len(t)) /\ D \in SUBSET (1 .. Len(t))
    BY DEF OpenAt
  <2> HIDE DEF O, D
  <2> QED BY <2>1, <1>1, FS_Subset
<1>9. Cardinality(D) = Cardinality(top)
  <2> DEFINE f == [k \in D |-> -t[k]]
  <2>1. f \in [D -> top]
    OBVIOUS
  <2>2. \A j, k \in D : f[j] = f[k] => j = k
    <3> SUFFICES ASSUME NEW j \in D, NEW k \in D, -t[j] = -t[k] PROVE j = k
      OBVIOUS
    <3>1. j \in 1 .. Len(t) /\ k \in 1 .. Len(t) /\ -t[j] \in LitsOf(p) /\ -t[k] \in LitsOf(p)
      BY <1>3
    <3>2. Var(t[j]) = Var(-t[j]) /\ Var(t[k]) = Var(-t[k])
      BY <3>1, <1>4
    <3>3. Var(t[j]) = Var(t[k])
      BY <3>2
    <3> HIDE DEF D
    <3> QED BY <3>1, <3>3, OnePlace
  <2>3. \A l \in top : \E k \in D : f[k] = l
    <3> SUFFICES ASSUME NEW l \in top PROVE \E k \in D : -t[k] = l
      OBVIOUS
    <3> QED BY <1>2, <1>3, <1>5
  <2> HIDE DEF f, D
  <2>4. f \in Bijection(D, top)
    BY <2>1, <2>2, <2>3 DEF Bijection, Injection, Surjection, IsInjective
  <2>5. ExistsBijection(D, top)
    BY <2>4 DEF ExistsBijection
  <2> QED BY <2>5, <1>8, FS_Bijection
<1>10. /\ IsFiniteSet(Q) /\ Cardinality(Q) = Cardinality(O) + Cardinality(D)
       /\ Cardinality(O) \in Nat /\ Cardinality(D) \in Nat
  <2> HIDE DEF O, Q, D
  <2>1. IsFiniteSet(O \cup D) /\ Cardinality(O \cup D) = Cardinality(O) + Cardinality(D) - Cardinality(O \cap D)
    BY <1>8, FS_Union
  <2>2. Cardinality(O \cap D) = 0
    BY <1>7, FS_EmptySet
  <2>3. Cardinality(O) \in Nat /\ Cardinality(D) \in Nat
    BY <1>8, FS_CardinalityType
  <2> QED BY <2>1, <2>2, <2>3, <1>6
<1>11. \A l \in top : \E k \in Q : t[k] = -l
  <2> HIDE DEF O, Q, D
  <2> QED BY <1>5, <1>6
<1>12. O \subseteq Q
  <2> HIDE DEF O, Q, D
  <2> QED BY <1>6
<1>13. OpensMore(t, lv, n, O, top, Q)
  <2> HIDE DEF O, Q, D, top
  <2> QED BY <1>9, <1>10, <1>11, <1>12 DEF OpensMore
<1> HIDE DEF D
<1> QED BY <1>13 DEF TopOf, NewIn, MarkedWith

(* The next literal to resolve is the last open one.                       *)
LastOpen(t, lv, n, sn, ix) == Largest({j \in 1 .. ix - 1 : Var(t[j]) \in sn /\ lv[Var(t[j])] = n})
IsNext(p, t, lv, rs, n, k, Q, Z) ==
    /\ k \in Q /\ Z = Q \ {k} /\ Cardinality(Z) = Cardinality(Q) - 1 /\ Cardinality(Z) \in Nat
    /\ t[k] \in LitsOf(p) /\ LevelAt(t, lv, k) = n
    /\ Z # {} => ReasonAt(t, rs, k) # None

(* analyze: the next literal to resolve is the last marked one of the      *)
(* level on the trail, and the open ones are counted.                      *)
LEMMA ResolveNext ==
    ASSUME NEW p \in Problems, NEW t, NEW lv, NEW rs, NEW ct, NEW C,
           SearchState(p, t, lv, rs, ct, C),
           NEW n \in Nat \ {0}, NEW ix \in Nat, ix <= Len(t) + 1, NEW sn, sn \subseteq p.vars,
           OpenAt(t, lv, n, sn, ix) # {}
    PROVE  IsNext(p, t, lv, rs, n, LastOpen(t, lv, n, sn, ix), OpenAt(t, lv, n, sn, ix),
                  OpenAt(t, lv, n, sn, LastOpen(t, lv, n, sn, ix)))
<1> DEFINE k == LastOpen(t, lv, n, sn, ix)
           O == OpenAt(t, lv, n, sn, ix)
           Q == OpenAt(t, lv, n, sn, k)
<1>1. Len(t) \in Nat /\ IsFiniteSet(1 .. Len(t))
  BY OneAssignment, FinitePositions
<1>2. {j \in 1 .. ix - 1 : Var(t[j]) \in sn /\ lv[Var(t[j])] = n} = O
  <2>1. \A j : j \in 1 .. ix - 1 <=> j \in 1 .. Len(t) /\ j < ix
    BY <1>1
  <2> QED BY <2>1 DEF OpenAt, LevelAt
<1>3. O \subseteq 0 .. Len(t) /\ O \in SUBSET (1 .. Len(t))
  BY <1>1 DEF OpenAt
<1>4. k = Largest(O)
  <2> HIDE DEF O
  <2> QED BY <1>2 DEF LastOpen
<1> HIDE DEF k
<1>5. k \in O /\ \A j \in O : j <= k
  <2>1. O # {}
    OBVIOUS
  <2> HIDE DEF O
  <2> QED BY <2>1, <1>1, <1>3, <1>4, LargestElement
<1>6. k \in 1 .. Len(t) /\ k < ix /\ Var(t[k]) \in sn /\ LevelAt(t, lv, k) = n
  BY <1>5 DEF OpenAt
<1>7. Q = O \ {k}
  <2>1. \A j \in O : j # k => j < k
    BY <1>1, <1>3, <1>5, <1>6
  <2>2. \A j \in 1 .. Len(t) : j < k => j < ix /\ j # k
    BY <1>1, <1>6
  <2>3. \A j \in Q : j \in O \ {k}
    BY <2>2 DEF OpenAt
  <2>4. \A j \in O \ {k} : j \in Q
    <3>1. \A j \in O \ {k} : j < k
      BY <2>1
    <3> QED BY <3>1 DEF OpenAt
  <2> HIDE DEF O, Q
  <2> QED BY <2>3, <2>4
<1>8. IsFiniteSet(O)
  <2> HIDE DEF O
  <2> QED BY <1>1, <1>3, FS_Subset
<1>9. Cardinality(Q) = Cardinality(O) - 1 /\ Cardinality(Q) \in Nat
  <2> HIDE DEF O, Q
  <2>1. IsFiniteSet(O \ {k}) /\ Cardinality(O \ {k}) = Cardinality(O) - 1
    <3>1. k \in O
      BY <1>5
    <3> QED BY <3>1, <1>8, FS_RemoveElement
  <2> QED BY <2>1, <1>7, FS_CardinalityType
<1>10. t[k] \in LitsOf(p)
  <2>1. t[k] \in LitsOf(p) \cup {0} /\ Var(t[k]) # 0
    BY <1>6, OneAssignment, Literals
  <2> QED BY <2>1, Literals
<1>11. ASSUME Q # {}, ReasonAt(t, rs, k) = None PROVE FALSE
  <2>1. PICK j \in 1 .. Len(t) : j < k /\ LevelAt(t, lv, j) = n
    BY <1>11 DEF OpenAt
  <2>2. n \in 1 .. Len(ct)
    BY <1>6, OneAssignment
  <2>3. k = ct[n].trail + 1
    BY <1>6, <1>11 DEF SearchState, Decided
  <2>4. ct[n].trail \in Nat
    BY <2>2, Frames, <1>1
  <2>5. j <= ct[n].trail
    BY <2>1, <2>3, <2>4
  <2>6. lv[Var(t[j])] < n
    BY <2>2, <2>5, Frames
  <2> QED BY <2>1, <2>6 DEF LevelAt
<1>12. IsNext(p, t, lv, rs, n, k, O, Q)
  <2> HIDE DEF O, Q
  <2> QED BY <1>5, <1>6, <1>7, <1>9, <1>10, <1>11 DEF IsNext
<1> QED BY <1>12 DEF k

(* analyze_reason: the literals that are new, and what the step of the     *)
(* derivation to the next literal gives.  The clause, this literal and the *)
(* open ones together follow.                                              *)
NewOf(lv, rs, cf, sn, u) == NewIn(lv, sn, (IF u = 0 THEN cf ELSE rs[Var(u)]) \ {u})
LowerOf(lv, n, new) == {l \in new : lv[Var(l)] < n}
StepsTo(p, t, lv, rs, n, cl, sm, k, left) ==
    /\ k \in 1 .. Len(t) /\ t[k] \in LitsOf(p) /\ LevelAt(t, lv, k) = n /\ Var(t[k]) \in sm
    /\ sm \in SUBSET p.vars /\ cl \in SUBSET LitsOf(p)
    /\ left \in Nat /\ left = Cardinality(OpenAt(t, lv, n, sm, k))
    /\ MarkedIn(t, lv, n, cl, sm)
    /\ \A l \in cl : FalseBelow(t, lv, n, l)
    /\ Follows(p, cl \cup {-t[k]} \cup {-t[j] : j \in OpenAt(t, lv, n, sm, k)})
    /\ left # 0 => ReasonAt(t, rs, k) # None
    /\ left = 0 => OpenAt(t, lv, n, sm, k) = {}

(* analyze: one resolution keeps what the clause, the resolved literal and *)
(* the open ones say together.                                             *)
LEMMA ResolveRight ==
    ASSUME NEW p \in Problems, NEW t, NEW lv, NEW rs, NEW ct, NEW C,
           SearchState(p, t, lv, rs, ct, C),
           NEW n, n = Len(ct), n > 0, NEW ix \in Nat,
           NEW cf \in SUBSET LitsOf(p), Follows(p, cf), \A l \in cf : On(t, -l),
           NEW cl \in SUBSET LitsOf(p), NEW sn \in SUBSET p.vars, NEW op, NEW u,
           Resolving(p, t, lv, rs, n, cf, cl, sn, op, u, ix)
    PROVE  StepsTo(p, t, lv, rs, n,
                   cl \cup LowerOf(lv, n, NewOf(lv, rs, cf, sn, u)),
                   MarkedWith(sn, NewOf(lv, rs, cf, sn, u)),
                   LastOpen(t, lv, n, MarkedWith(sn, NewOf(lv, rs, cf, sn, u)), ix),
                   op + Cardinality(NewOf(lv, rs, cf, sn, u)
                                    \ LowerOf(lv, n, NewOf(lv, rs, cf, sn, u))) - 1)
<1> DEFINE c == (IF u = 0 THEN cf ELSE rs[Var(u)]) \ {u}
           new == NewOf(lv, rs, cf, sn, u)
           below == LowerOf(lv, n, new)
           sm == MarkedWith(sn, new)
           k == LastOpen(t, lv, n, sm, ix)
           left == op + Cardinality(new \ below) - 1
<1>a. /\ c = (IF u = 0 THEN cf ELSE rs[Var(u)]) \ {u}
       /\ new = {l \in c : Var(l) \notin sn /\ lv[Var(l)] > 0}
       /\ below = {l \in new : lv[Var(l)] < n}
       /\ sm = sn \cup {Var(l) : l \in new}
       /\ k = Largest({j \in 1 .. ix - 1 : Var(t[j]) \in sm /\ lv[Var(t[j])] = n})
       /\ left = op + Cardinality(new \ below) - 1
  BY DEF NewOf, NewIn, LowerOf, MarkedWith, LastOpen
<1> SUFFICES StepsTo(p, t, lv, rs, n, cl \cup below, sm, k, left)
  OBVIOUS
<1> HIDE DEF c, new, below, sm, k, left
<1> USE <1>a
<1> DEFINE top == {l \in new : ~(lv[Var(l)] < n)}
           O == OpenAt(t, lv, n, sn, ix)
           Q == OpenAt(t, lv, n, sm, ix)
           Z == OpenAt(t, lv, n, sm, k)
<1>1. Len(t) \in Nat /\ n \in Nat \ {0}
  BY OneAssignment
<1>2. \A l \in LitsOf(p) : /\ lv[Var(l)] \in Nat /\ Var(-l) = Var(l) /\ -l \in LitsOf(p)
                           /\ -(-l) = l /\ Var(l) \in p.vars /\ l # 0
  BY OneAssignment, Literals
<1>3. /\ MarkedIn(t, lv, n, cl, sn)
      /\ \A l \in cl : FalseBelow(t, lv, n, l)
      /\ op = Cardinality(O)
      /\ u = 0 => Unresolved(t, lv, n, cf, sn, ix)
      /\ u # 0 => Resolved(p, t, lv, rs, n, cl, sn, u, ix)
  BY DEF Resolving
<1>4. u # 0 => /\ ix \in 1 .. Len(t) /\ t[ix] = u /\ LevelAt(t, lv, ix) = n
               /\ ReasonAt(t, rs, ix) = rs[Var(u)] /\ ReasonAt(t, rs, ix) # None
  BY <1>3 DEF Resolved, ReasonAt
<1>5. u = 0 => c = cf /\ ix = Len(t) + 1 /\ sn = {}
  BY <1>2, <1>3 DEF Unresolved
<1>6. ix <= Len(t) + 1
  BY <1>1, <1>4, <1>5
<1>7. FalseUpTo(p, t, lv, n, ix, c)
  <2>1. CASE u = 0
    <3> SUFFICES ASSUME NEW l \in cf
                 PROVE  /\ l \in LitsOf(p) /\ lv[Var(l)] <= n
                        /\ \E j \in 1 .. Len(t) : j < ix /\ t[j] = -l
      BY <1>5, <2>1 DEF FalseUpTo
    <3>1. PICK j \in 1 .. Len(t) : t[j] = -l
      BY DEF On
    <3>2. j < ix
      BY <2>1, <1>1, <1>5
    <3>3. lv[Var(-l)] <= n
      BY <1>1, OneAssignment
    <3> QED BY <3>1, <3>2, <3>3, <1>2
  <2>2. CASE u # 0
    <3> DEFINE r == ReasonAt(t, rs, ix)
    <3>1. r \subseteq LitsOf(p) /\ \A o \in r \ {t[ix]} : /\ \E j \in 1 .. Len(t) : j < ix /\ t[j] = -o
                                                          /\ lv[Var(o)] <= LevelAt(t, lv, ix)
      BY <2>2, <1>4, ReasonLiterals
    <3>2. c = r \ {t[ix]} /\ LevelAt(t, lv, ix) = n
      BY <2>2, <1>4
    <3> HIDE DEF r
    <3> QED BY <3>1, <3>2 DEF FalseUpTo
  <2> QED BY <2>1, <2>2
<1>8. \A l \in c : /\ l \in LitsOf(p) /\ lv[Var(l)] <= n
                   /\ \E j \in 1 .. Len(t) : j < ix /\ t[j] = -l
  BY <1>7 DEF FalseUpTo
<1>9. new \ below = top
  OBVIOUS
<1>10. /\ Cardinality(Q) = Cardinality(O) + Cardinality(top)
       /\ Cardinality(O) \in Nat /\ Cardinality(top) \in Nat
       /\ \A l \in top : \E j \in Q : t[j] = -l
       /\ O \subseteq Q
  <2>1. /\ sm = MarkedWith(sn, NewIn(lv, sn, c))
        /\ top = TopOf(lv, n, NewIn(lv, sn, c))
    BY DEF MarkedWith, NewIn, TopOf
  <2>2. OpensMore(t, lv, n, OpenAt(t, lv, n, sn, ix), TopOf(lv, n, NewIn(lv, sn, c)),
                  OpenAt(t, lv, n, MarkedWith(sn, NewIn(lv, sn, c)), ix))
    BY <1>1, <1>6, <1>7, OpenCount
  <2>3. OpensMore(t, lv, n, O, top, Q)
    BY <2>1, <2>2
  <2> HIDE DEF top, O, Q
  <2> QED BY <2>3 DEF OpensMore
<1> HIDE DEF top
<1>11. Q # {}
  <2>1. CASE u = 0
    <3>1. PICK l \in cf : lv[Var(l)] = n
      BY <2>1, <1>3 DEF Unresolved
    <3>2. l \in top
      BY <3>1, <2>1, <1>1, <1>5 DEF top
    <3> QED BY <3>2, <1>10
  <2>2. CASE u # 0
    <3>1. PICK o \in ReasonAt(t, rs, ix) \ {u} : lv[Var(o)] = n
      BY <2>2, <1>4, ReasonLiterals
    <3>2. o \in c
      BY <3>1, <2>2, <1>4
    <3>3. CASE Var(o) \in sn
      <4>1. PICK j \in 1 .. Len(t) : j < ix /\ t[j] = -o
        BY <3>2, <1>8
      <4>2. Var(t[j]) = Var(o)
        BY <4>1, <3>2, <1>2, <1>8
      <4>3. j \in O
        BY <4>1, <4>2, <3>1, <3>3 DEF OpenAt, LevelAt
      <4> QED BY <4>3, <1>10
    <3>4. CASE Var(o) \notin sn
      <4>1. o \in top
        BY <3>1, <3>2, <3>4, <1>1 DEF top
      <4> QED BY <4>1, <1>10
    <3> QED BY <3>3, <3>4
  <2> QED BY <2>1, <2>2
<1>12. sm \in SUBSET p.vars
  BY <1>2, <1>8
<1>13. /\ k \in Q /\ Z = Q \ {k} /\ Cardinality(Z) = Cardinality(Q) - 1 /\ Cardinality(Z) \in Nat
       /\ t[k] \in LitsOf(p) /\ LevelAt(t, lv, k) = n
       /\ Z # {} => ReasonAt(t, rs, k) # None
  <2>1. OpenAt(t, lv, n, sm, ix) # {} /\ sm \subseteq p.vars
    BY <1>11, <1>12
  <2>2. IsNext(p, t, lv, rs, n, LastOpen(t, lv, n, sm, ix), OpenAt(t, lv, n, sm, ix),
               OpenAt(t, lv, n, sm, LastOpen(t, lv, n, sm, ix)))
    BY <2>1, <1>1, <1>6, ResolveNext
  <2>3. k = LastOpen(t, lv, n, sm, ix)
    BY DEF LastOpen
  <2>4. IsNext(p, t, lv, rs, n, k, Q, Z)
    BY <2>2, <2>3
  <2> HIDE DEF Q, Z
  <2> QED BY <2>4 DEF IsNext
<1>14. k \in 1 .. Len(t) /\ Var(t[k]) \in sm
  BY <1>13 DEF OpenAt
<1>15. IsFiniteSet(Z)
  <2>1. Z \in SUBSET (1 .. Len(t)) /\ IsFiniteSet(1 .. Len(t))
    BY <1>1, FinitePositions DEF OpenAt
  <2> HIDE DEF Z
  <2> QED BY <2>1, FS_Subset
<1> HIDE DEF O, Q, Z
<1>16. left = Cardinality(Z)
  <2>1. left = Cardinality(O) + Cardinality(top) - 1
    BY <1>3, <1>9
  <2> QED BY <2>1, <1>10, <1>13
<1>17. left \in Nat /\ (left = 0 <=> Z = {})
  BY <1>13, <1>15, <1>16, FS_EmptySet
<1>18. MarkedIn(t, lv, n, cl \cup below, sm)
  <2>1. \A l \in cl \cup below : Var(l) \in sm
    BY <1>3 DEF MarkedIn
  <2>2. ASSUME NEW v \in sm
        PROVE  \E j \in 1 .. Len(t) : /\ v = Var(t[j]) /\ LevelAt(t, lv, j) > 0
                                      /\ LevelAt(t, lv, j) < n => -t[j] \in cl \cup below
    <3>1. CASE v \in sn
      BY <3>1, <1>3 DEF MarkedIn
    <3>2. CASE v \notin sn
      <4>1. PICK l \in new : v = Var(l)
        BY <2>2, <3>2
      <4>2. PICK j \in 1 .. Len(t) : t[j] = -l
        BY <1>8
      <4>3. Var(t[j]) = Var(l) /\ -t[j] = l /\ lv[Var(l)] > 0
        BY <4>2, <1>2, <1>8
      <4>4. lv[Var(l)] < n => l \in below
        OBVIOUS
      <4> QED BY <4>1, <4>3, <4>4 DEF LevelAt
    <3> QED BY <3>1, <3>2
  <2> QED BY <2>1, <2>2 DEF MarkedIn
<1>19. \A l \in cl \cup below : FalseBelow(t, lv, n, l)
  <2> SUFFICES ASSUME NEW l \in below PROVE FalseBelow(t, lv, n, l)
    BY <1>3
  <2>1. On(t, -l)
    BY <1>8 DEF On
  <2>2. lv[Var(l)] \in Nat /\ lv[Var(l)] > 0 /\ lv[Var(l)] < n
    BY <1>2, <1>8
  <2> QED BY <2>1, <2>2, <1>1 DEF FalseBelow
<1>20. Follows(p, cl \cup below \cup {-t[k]} \cup {-t[j] : j \in Z})
  <2> SUFFICES ASSUME NEW m \in ModelsOf(p),
                      \A l \in cl \cup below \cup {-t[k]} \cup {-t[j] : j \in Z} : ~Holds(m, l)
               PROVE  FALSE
    BY DEF Follows, Satisfies
  <2>1. \A j \in Q : ~Holds(m, -t[j])
    BY <1>13
  <2>2. ASSUME NEW l \in c PROVE ~Holds(m, l)
    <3>1. PICK j \in 1 .. Len(t) : j < ix /\ t[j] = -l
      BY <1>8
    <3>2. l \in LitsOf(p) /\ lv[Var(l)] <= n /\ lv[Var(l)] \in Nat /\ Var(t[j]) = Var(l) /\ -t[j] = l
      BY <3>1, <1>2, <1>8
    <3>3. CASE lv[Var(l)] = 0
      <4>1. On(t, t[j]) /\ lv[Var(t[j])] = 0
        BY <3>2, <3>3 DEF On
      <4>2. Holds(m, -l)
        BY <3>1, <4>1, RootHolds
      <4> QED BY <3>2, <4>2, HoldsNot
    <3>4. CASE lv[Var(l)] # 0 /\ Var(l) \in sn /\ lv[Var(l)] = n
      <4>1. j \in O
        BY <3>1, <3>2, <3>4 DEF O, OpenAt, LevelAt
      <4> QED BY <3>2, <4>1, <2>1, <1>10
    <3>5. CASE lv[Var(l)] # 0 /\ Var(l) \in sn /\ lv[Var(l)] # n
      <4>1. PICK i \in 1 .. Len(t) : /\ Var(l) = Var(t[i])
                                     /\ LevelAt(t, lv, i) < n => -t[i] \in cl
        BY <3>5, <1>3 DEF MarkedIn
      <4>2. i = j
        BY <3>2, <4>1, OnePlace
      <4>3. LevelAt(t, lv, j) < n
        BY <3>2, <3>5, <1>1 DEF LevelAt
      <4> QED BY <3>2, <4>1, <4>2, <4>3
    <3>6. CASE lv[Var(l)] # 0 /\ Var(l) \notin sn /\ lv[Var(l)] < n
      <4>1. l \in below
        BY <3>2, <3>6
      <4> QED BY <4>1
    <3>7. CASE lv[Var(l)] # 0 /\ Var(l) \notin sn /\ ~(lv[Var(l)] < n)
      <4>1. l \in top
        BY <3>2, <3>7 DEF top
      <4>2. PICK i \in Q : t[i] = -l
        BY <4>1, <1>10
      <4> QED BY <4>2, <2>1, <3>1, <3>2
    <3> QED BY <3>2, <3>3, <3>4, <3>5, <3>6, <3>7
  <2>3. CASE u = 0
    BY <2>2, <2>3, <1>5 DEF Follows, Satisfies
  <2>4. CASE u # 0
    <3>1. Follows(p, cl \cup {-u} \cup {-t[j] : j \in O})
      BY <2>4, <1>3 DEF Resolved, O
    <3>2. PICK l \in cl \cup {-u} \cup {-t[j] : j \in O} : Holds(m, l)
      BY <3>1 DEF Follows, Satisfies
    <3>3. Holds(m, -u)
      BY <3>2, <2>1, <1>10
    <3>4. \A o \in ReasonAt(t, rs, ix) \ {t[ix]} : Holds(m, -o)
      <4>1. \A o \in ReasonAt(t, rs, ix) \ {t[ix]} : o \in c
        BY <2>4, <1>4
      <4>2. \A o \in c : o \in LitsOf(p) /\ ~Holds(m, o)
        BY <2>2, <1>8
      <4> QED BY <4>1, <4>2, HoldsNot
    <3>5. Holds(m, u)
      BY <2>4, <3>4, <1>4, ReasonHolds
    <3>6. u \in LitsOf(p)
      BY <2>4, <1>4, OneAssignment
    <3> QED BY <3>3, <3>5, <3>6, HoldsNot
  <2> QED BY <2>3, <2>4
<1>21. cl \cup below \in SUBSET LitsOf(p)
  BY <1>8
<1> QED BY <1>12, <1>13, <1>14, <1>16, <1>17, <1>18, <1>19, <1>20, <1>21 DEF Z, StepsTo

-----------------------------------------------------------------------------
(* The actions of Cdcl.                                                    *)

(* What the clauses of a state are: two or more literals, all of them of   *)
(* the formula's variables, and implied by the formula.                    *)
ClauseShape(c) ==
    /\ c \in SUBSET LitsOf(problem) /\ IsFiniteSet(c) /\ c # None
    /\ Cardinality(c) \in Nat /\ Cardinality(c) > 1
    /\ \E x, y \in c : x # y
    /\ Follows(problem, c)

(* Every stored clause, original or learned, has such a shape.             *)
LEMMA ClauseShapes ==
    ASSUME TypeOK, LearnedFollows
    PROVE  \A c \in Clauses : ClauseShape(c)
<1>1. problem \in Problems
  BY DEF TypeOK
<1> SUFFICES ASSUME NEW c \in Clauses PROVE ClauseShape(c)
  OBVIOUS
<1>2. c \in SUBSET LitsOf(problem) /\ Cardinality(c) > 1 /\ Follows(problem, c)
  <2>1. CASE c \in formula
    <3>1. c \in SUBSET LitsOver(problem.vars) /\ Cardinality(c) > 1
      BY <1>1, <2>1, CdclAssumption DEF formula
    <3>2. c \in Originals(problem)
      BY <2>1 DEF Originals, formula
    <3> QED BY <3>1, <3>2 DEF Follows, ModelsOf, LitsOf
  <2>2. CASE c \in learned
    BY <2>2 DEF TypeOK, LearnedFollows, Lits, LitsOf, Vars
  <2> QED BY <2>1, <2>2 DEF Clauses
<1>3. IsFiniteSet(c)
  BY <1>1, <1>2, FiniteClauses
<1>4. \E x, y \in c : x # y
  BY <1>2, <1>3, Several
<1>5. Cardinality(c) \in Nat
  BY <1>3, Several
<1> QED BY <1>2, <1>3, <1>4, <1>5 DEF ClauseShape, None

(* The types that the steps need.                                          *)
LEMMA Types ==
    ASSUME CdclInv
    PROVE  /\ problem \in Problems
           /\ Assignment(problem, trail, lev, reason, control, Clauses)
           /\ SearchState(problem, trail, lev, reason, control, Clauses)
           /\ Clauses \in SUBSET (SUBSET LitsOf(problem))
           /\ \A c \in Clauses : ClauseShape(c)
           /\ trail \in Seq(LitsOf(problem) \cup {0}) /\ Len(trail) \in Nat
           /\ level \in Nat
           /\ propagated \in 0 .. Len(trail)
<1>1. /\ problem \in Problems
      /\ Assignment(problem, trail, lev, reason, control, Clauses)
      /\ propagated \in 0 .. Len(trail)
  BY DEF CdclInv, TypeOK, AssignmentInv
<1>2. SearchState(problem, trail, lev, reason, control, Clauses)
  BY <1>1 DEF Assignment
<1>3. trail \in Seq(LitsOf(problem) \cup {0})
  BY <1>2 DEF SearchState, Shape
<1>4. Len(trail) \in Nat /\ level \in Nat
  BY <1>1, <1>2, OneAssignment DEF level
<1>5. \A c \in Clauses : ClauseShape(c)
  BY ClauseShapes DEF CdclInv
<1>6. Clauses \in SUBSET (SUBSET LitsOf(problem))
  BY <1>5 DEF ClauseShape
<1> QED BY <1>1, <1>2, <1>3, <1>4, <1>5, <1>6

(* What backtrack leaves: the invariant of the assignment, every literal   *)
(* up to level n, and no clause that propagate could miss.                 *)
Requeued(n) == IF n < level /\ propagated > control[n + 1].trail
               THEN control[n + 1].trail ELSE propagated
BacktrackedTo(n) ==
    /\ Kept(n) \in Seq(LitsOf(problem) \cup {0})
    /\ SubSeq(control, 1, n) \in Seq([decision : LitsOf(problem) \cup {0}, trail : Nat])
    /\ Assignment(problem, Kept(n), lev, reason, SubSeq(control, 1, n), Clauses)
    /\ Len(SubSeq(control, 1, n)) = n
    /\ \A i \in 1 .. n : SubSeq(control, 1, n)[i] = control[i]
    /\ Requeued(n) \in 0 .. Len(Kept(n))
    /\ \A i \in 1 .. n : control[i].trail <= Requeued(n)
    /\ \A l : On(Kept(n), l) <=> On(trail, l) /\ lev[Var(l)] <= n
    /\ n < level => /\ Requeued(n) = control[n + 1].trail
                    /\ \A c \in Clauses : \/ Complete(Kept(n), c)
                                          \/ Pending(Kept(n), Requeued(n), c)
    /\ n = level => /\ Kept(n) = trail /\ SubSeq(control, 1, n) = control
                    /\ Requeued(n) = propagated

(* backtrack to level n leaves a trail of the same kind, and requeues what *)
(* may be unit or falsified by the literals that were assigned out of      *)
(* order.                                                                  *)
LEMMA Backtracking ==
    ASSUME CdclInv, NEW n \in 0 .. level
    PROVE  BacktrackedTo(n)
<1> DEFINE L == LitsOf(problem) \cup {0}
           F == [decision : L, trail : Nat]
<1>1. /\ problem \in Problems
      /\ Assignment(problem, trail, lev, reason, control, Clauses)
      /\ SearchState(problem, trail, lev, reason, control, Clauses)
      /\ Clauses \subseteq SUBSET LitsOf(problem)
      /\ trail \in Seq(L) /\ Len(trail) \in Nat
      /\ level \in Nat /\ n \in Nat
      /\ propagated \in 0 .. Len(trail)
  BY Types
<1>2. control \in Seq(F) /\ level = Len(control)
  BY <1>1 DEF SearchState, Shape, level
<1>3. \A i \in 1 .. level :
          /\ control[i].trail \in 0 .. Len(trail)
          /\ \A j \in i .. level : control[i].trail <= control[j].trail
          /\ \A k \in 1 .. Len(trail) : k <= control[i].trail => lev[Var(trail[k])] < i
  BY <1>1, <1>2, Frames
<1>4. \A i \in 1 .. level : control[i].trail <= propagated
  BY DEF CdclInv, PropagationInv
<1>5. /\ SubSeq(control, 1, n) \in Seq(F)
      /\ Len(SubSeq(control, 1, n)) = n
      /\ \A i \in 1 .. n : SubSeq(control, 1, n)[i] = control[i]
  <2>1. n \in 0 .. Len(control)
    BY <1>2
  <2> QED BY <1>2, <2>1, KeptFrames
<1> HIDE DEF F
<1>6. CASE n = level
  <2>1. Kept(n) = trail /\ Requeued(n) = propagated
    BY <1>6, <1>1 DEF Kept, Requeued
  <2>2. SubSeq(control, 1, n) = control
    BY <1>2, <1>5, <1>6
  <2>3. \A l : On(trail, l) => lev[Var(l)] \in 0 .. level
    BY <1>1, <1>2, OneAssignment
  <2>4. \A l : On(Kept(n), l) <=> On(trail, l) /\ lev[Var(l)] <= n
    BY <2>1, <2>3, <1>6, <1>1
  <2>5. /\ Kept(n) \in Seq(LitsOf(problem) \cup {0})
        /\ SubSeq(control, 1, n) \in Seq([decision : LitsOf(problem) \cup {0}, trail : Nat])
        /\ Assignment(problem, Kept(n), lev, reason, SubSeq(control, 1, n), Clauses)
        /\ Requeued(n) \in 0 .. Len(Kept(n))
    BY <1>1, <1>5, <2>1, <2>2 DEF F
  <2>6. \A i \in 1 .. n : control[i].trail <= Requeued(n)
    BY <1>4, <1>6, <2>1
  <2>7. ~(n < level)
    BY <1>1, <1>6
  <2> QED BY <1>5, <2>1, <2>2, <2>4, <2>5, <2>6, <2>7 DEF BacktrackedTo
<1>7. CASE n # level
  <2> DEFINE h == control[n + 1].trail
  <2>1. n < level /\ n + 1 \in 1 .. level /\ n < Len(control)
    BY <1>1, <1>2, <1>7
  <2>2. h \in 0 .. Len(trail) /\ h <= propagated
    BY <2>1, <1>3, <1>4
  <2>3. \A k \in 1 .. h : lev[Var(trail[k])] <= n
    <3> SUFFICES ASSUME NEW k \in 1 .. h PROVE lev[Var(trail[k])] <= n
      OBVIOUS
    <3>1. k \in 1 .. Len(trail) /\ k <= control[n + 1].trail
      BY <2>2, <1>1
    <3>2. lev[Var(trail[k])] < n + 1
      BY <2>1, <3>1, <1>3
    <3>3. lev[Var(trail[k])] \in Nat
      BY <3>1, <1>1, OneAssignment DEF LevelAt
    <3> QED BY <3>2, <3>3, <1>1
  <2>4. Kept(n) \in Seq(L) /\ Keeps(trail, Kept(n), lev, n, h)
    <3> HIDE DEF L
    <3> QED BY <1>1, <1>7, <2>2, <2>3, BacktrackKeeps
  <2>5. Assignment(problem, Kept(n), lev, reason, SubSeq(control, 1, n), Clauses)
    BY <1>1, <2>1, <2>4, BacktrackAssignment
  <2>6. /\ h \in 0 .. Len(Kept(n))
        /\ \A l : On(Kept(n), l) <=> On(trail, l) /\ lev[Var(l)] <= n
        /\ \A c \in Clauses : Complete(Kept(n), c) \/ Pending(Kept(n), h, c)
    BY <1>1, <2>1, <2>4, BacktrackPropagates
  <2>7. Requeued(n) = h
    BY <2>1, <2>2, <1>1 DEF Requeued
  <2>8. \A i \in 1 .. n : control[i].trail <= Requeued(n)
    <3> SUFFICES ASSUME NEW i \in 1 .. n PROVE control[i].trail <= Requeued(n)
      OBVIOUS
    <3>1. i \in 1 .. level /\ n + 1 \in i .. level
      BY <2>1, <1>1
    <3> QED BY <3>1, <1>3, <2>7
  <2>9. /\ Requeued(n) \in 0 .. Len(Kept(n)) /\ Requeued(n) = control[n + 1].trail
        /\ \A c \in Clauses : Complete(Kept(n), c) \/ Pending(Kept(n), Requeued(n), c)
    BY <2>6, <2>7
  <2>10. /\ Kept(n) \in Seq(LitsOf(problem) \cup {0})
         /\ SubSeq(control, 1, n) \in Seq([decision : LitsOf(problem) \cup {0}, trail : Nat])
    BY <1>5, <2>4 DEF F
  <2>11. \A l : On(Kept(n), l) <=> On(trail, l) /\ lev[Var(l)] <= n
    BY <2>6
  <2> HIDE DEF h, L
  <2> QED BY <1>5, <1>7, <2>5, <2>8, <2>9, <2>10, <2>11 DEF BacktrackedTo
<1> QED BY <1>6, <1>7

-----------------------------------------------------------------------------
(* What an action that leaves the assignment alone keeps.                  *)
LEMMA SameAssignment ==
    ASSUME AssignmentInv, LearnedFollows,
           UNCHANGED <<problem, learned, trail, lev, reason, control>>
    PROVE  AssignmentInv' /\ LearnedFollows' /\ Clauses' = Clauses /\ level' = level
BY DEF AssignmentInv, LearnedFollows, Clauses, formula, level

(* An action that does not answer.                                         *)
LEMMA Unanswered ==
    ASSUME AnswerInv, pc # "done", UNCHANGED result
    PROVE  AnswerInv'
BY DEF AnswerInv, AnswerCorrect

(* An action outside the analysis keeps it cleared.                        *)
LEMMA NotAnalyzing ==
    ASSUME AnalysisInv, ~Analyzing, ~Analyzing', UNCHANGED analysis
    PROVE  AnalysisInv'
BY DEF AnalysisInv, Analyzing, analysis

-----------------------------------------------------------------------------
(* propagate                                                               *)

(* propagate takes the next literal of the trail.                          *)
LEMMA PropagateLiteralInv ==
    ASSUME CdclInv, PropagateLiteral
    PROVE  CdclInv'
<1>1. /\ Len(trail) \in Nat /\ level \in Nat /\ propagated \in 0 .. Len(trail)
      /\ problem \in Problems /\ Clauses \in SUBSET (SUBSET LitsOf(problem))
      /\ trail \in Seq(LitsOf(problem) \cup {0})
  BY Types
<1>2. /\ pc = "propagate" /\ conflict = None /\ propagated < Len(trail)
      /\ propagated' = propagated + 1
      /\ todo' = {c \in Clauses : -trail[propagated + 1] \in c}
      /\ pc' = "visit"
      /\ UNCHANGED <<problem, learned, trail, lev, reason, control, conflict,
                     clause, seen, open, uip, idx, unsat, result, restarts>>
  BY DEF PropagateLiteral, analysis
<1>3. AssignmentInv' /\ LearnedFollows' /\ Clauses' = Clauses /\ level' = level
  BY <1>2, SameAssignment DEF CdclInv
<1>4. TypeOK'
  BY <1>1, <1>2, <1>3 DEF CdclInv, TypeOK, Lits, Vars
<1>5. PropagationInv'
  <2>1. \A i \in 1 .. level : control[i].trail <= propagated /\ control[i].trail \in Nat
    <3>1. \A i \in 1 .. level : control[i].trail \in 0 .. Len(trail)
      BY Types, Frames DEF level
    <3> QED BY <3>1, <1>1 DEF CdclInv, PropagationInv
  <2>2. ~unsat
    BY <1>2 DEF CdclInv, ConflictInv
  <2>3. Propagates(trail, propagated, Clauses, todo) /\ todo = {}
    BY <1>2, <2>2 DEF CdclInv, PropagationInv
  <2>4. Propagates(trail, propagated + 1, Clauses, todo')
    <3> SUFFICES ASSUME NEW c \in Clauses, ~Complete(trail, c), c \notin todo'
                 PROVE  Pending(trail, propagated + 1, c)
      BY DEF Propagates
    <3>1. PICK k \in propagated + 1 .. Len(trail) : -trail[k] \in c
      BY <2>3 DEF Propagates, Pending
    <3>2. k # propagated + 1
      BY <1>2, <3>1
    <3>3. k \in (propagated + 1) + 1 .. Len(trail)
      BY <1>1, <3>1, <3>2
    <3> QED BY <3>1, <3>3 DEF Pending
  <2> QED BY <1>1, <1>2, <1>3, <2>1, <2>4 DEF PropagationInv
<1>6. ConflictInv'
  BY <1>2 DEF CdclInv, ConflictInv, Analyzing
<1>7. AnalysisInv'
  BY <1>2, NotAnalyzing DEF CdclInv, Analyzing, analysis
<1>8. ZeroInv'
  <2> SUFFICES ASSUME On(trail, 0) PROVE ZeroInv'
    BY <1>2 DEF ZeroInv
  <2>1. /\ trail[Len(trail)] = 0 /\ propagated >= Len(trail) - 1 /\ ~unsat /\ Satisfied
        /\ \A v, w \in Vars : Free(trail, v) /\ Free(trail, w) => v = w
    BY DEF CdclInv, ZeroInv
  <2>2. propagated + 1 = Len(trail)
    BY <1>1, <1>2, <2>1
  <2>3. todo' = {}
    <3> SUFFICES ASSUME NEW c \in Clauses, -trail[propagated + 1] \in c PROVE FALSE
      BY <1>2
    <3>1. -trail[propagated + 1] \in LitsOf(problem) /\ trail[propagated + 1] \in Int
      BY <1>1, <2>1, <2>2
    <3>2. -(-trail[propagated + 1]) \in LitsOf(problem)
      BY <1>1, <3>1, Literals
    <3>3. trail[propagated + 1] \in LitsOf(problem)
      BY <3>1, <3>2
    <3> QED BY <1>1, <2>1, <2>2, <3>3, Literals
  <2>4. Satisfied'
    BY <1>2, <1>3, <2>1 DEF Satisfied, Assumptions, ConstraintLevels, Constraint, Vars
  <2> QED BY <1>1, <1>2, <2>1, <2>2, <2>3, <2>4 DEF ZeroInv, Vars
<1>9. AnswerInv'
  BY <1>2, Unanswered DEF CdclInv
<1> QED BY <1>3, <1>4, <1>5, <1>6, <1>7, <1>8, <1>9 DEF CdclInv

(* propagate is done with the watches of a literal.                        *)
LEMMA VisitEndInv ==
    ASSUME CdclInv, VisitEnd
    PROVE  CdclInv'
<1>1. /\ pc = "visit" /\ todo = {} /\ pc' = "propagate"
      /\ UNCHANGED <<problem, learned, trail, lev, reason, control, propagated, todo,
                     conflict, clause, seen, open, uip, idx, unsat, result, restarts>>
  BY DEF VisitEnd, analysis, assignment
<1>2. AssignmentInv' /\ LearnedFollows' /\ Clauses' = Clauses /\ level' = level
  BY <1>1, SameAssignment DEF CdclInv
<1>3. TypeOK'
  BY <1>1, <1>2 DEF CdclInv, TypeOK, Lits, Vars
<1>4. PropagationInv'
  BY <1>1, <1>2 DEF CdclInv, PropagationInv
<1>5. ConflictInv'
  BY <1>1 DEF CdclInv, ConflictInv, Analyzing
<1>6. AnalysisInv'
  BY <1>1, NotAnalyzing DEF CdclInv, Analyzing, analysis
<1>7. ZeroInv'
  BY <1>1, <1>2 DEF CdclInv, ZeroInv, Satisfied, Assumptions, ConstraintLevels, Constraint, Vars
<1>8. AnswerInv'
  BY <1>1, Unanswered DEF CdclInv
<1> QED BY <1>2, <1>3, <1>4, <1>5, <1>6, <1>7, <1>8 DEF CdclInv

(* propagate returns, with a conflict or with nothing left to do.          *)
LEMMA PropagateEndInv ==
    ASSUME CdclInv, PropagateEnd
    PROVE  CdclInv'
<1>1. /\ pc = "propagate"
      /\ conflict # None \/ propagated = Len(trail)
      /\ pc' = IF conflict # None THEN "analyze" ELSE "loop"
      /\ UNCHANGED <<problem, learned, trail, lev, reason, control, propagated, todo,
                     conflict, clause, seen, open, uip, idx, unsat, result, restarts>>
  BY DEF PropagateEnd, analysis, assignment
<1>2. AssignmentInv' /\ LearnedFollows' /\ Clauses' = Clauses /\ level' = level
  BY <1>1, SameAssignment DEF CdclInv
<1>3. TypeOK'
  BY <1>1, <1>2 DEF CdclInv, TypeOK, Lits, Vars
<1>4. PropagationInv'
  BY <1>1, <1>2 DEF CdclInv, PropagationInv
<1>5. ConflictInv'
  BY <1>1 DEF CdclInv, ConflictInv, Analyzing
<1>6. AnalysisInv'
  BY <1>1, NotAnalyzing DEF CdclInv, Analyzing, analysis
<1>7. ZeroInv'
  BY <1>1, <1>2 DEF CdclInv, ZeroInv, Satisfied, Assumptions, ConstraintLevels, Constraint, Vars
<1>8. AnswerInv'
  BY <1>1, Unanswered DEF CdclInv
<1> QED BY <1>2, <1>3, <1>4, <1>5, <1>6, <1>7, <1>8 DEF CdclInv

-----------------------------------------------------------------------------
(* assignment_level: with chronological backtracking it is the level of a  *)
(* literal of the reason, and none is of a higher level.                   *)
LEMMA ReasonLevel ==
    ASSUME NEW c, NEW l, NEW current, NEW b \in Nat, \A o \in c \ {l} : lev[Var(o)] \in 0 .. b,
           c # None, Chrono
    PROVE  /\ AssignmentLevel(l, c, current) \in 0 .. b
           /\ \A o \in c \ {l} : lev[Var(o)] <= AssignmentLevel(l, c, current)
           /\ AssignmentLevel(l, c, current) > 0 =>
                  \E o \in c \ {l} : lev[Var(o)] = AssignmentLevel(l, c, current)
<1> DEFINE T == {0} \cup {lev[Var(o)] : o \in c \ {l}}
<1>1. T \subseteq 0 .. b /\ T # {}
  OBVIOUS
<1>2. AssignmentLevel(l, c, current) = Largest(T)
  BY DEF AssignmentLevel
<1>3. \A o \in c \ {l} : lev[Var(o)] \in T
  OBVIOUS
<1>4. \A y \in T : y # 0 => \E o \in c \ {l} : lev[Var(o)] = y
  OBVIOUS
<1> HIDE DEF T
<1>5. Largest(T) \in T /\ \A y \in T : y <= Largest(T)
  BY <1>1, LargestElement
<1>6. Largest(T) \in 0 .. b
  BY <1>1, <1>5
<1>7. \A o \in c \ {l} : lev[Var(o)] <= Largest(T)
  BY <1>3, <1>5
<1>8. Largest(T) > 0 => \E o \in c \ {l} : lev[Var(o)] = Largest(T)
  BY <1>4, <1>5, <1>6
<1> QED BY <1>2, <1>6, <1>7, <1>8

(* Without chronological backtracking a clause that is not satisfied and   *)
(* has at most one literal that is not false has a false one of the        *)
(* current level.                                                          *)
LEMMA CurrentLevel ==
    ASSUME NEW p \in Problems, NEW t, NEW lv, NEW rs, NEW ct, NEW C,
           SearchState(p, t, lv, rs, ct, C), "chrono" \notin p.opts, Len(ct) > 0,
           NEW c \in C, c \in SUBSET LitsOf(p), NEW l, ~On(t, l),
           \A o \in c \ {l} : On(t, -o)
    PROVE  \E o \in c \ {l} : lv[Var(o)] = Len(ct)
<1>1. /\ Len(t) \in Nat /\ Len(ct) \in Nat /\ Len(ct) \in 1 .. Len(ct)
      /\ \A k \in 1 .. Len(t) : lv[Var(t[k])] \in 0 .. Len(ct)
      /\ \A o \in LitsOf(p) : ~(On(t, o) /\ On(t, -o))
  BY OneAssignment DEF LevelAt
<1>2. /\ ct[Len(ct)].trail \in 0 .. Len(t)
      /\ \A k \in 1 .. Len(t) : k > ct[Len(ct)].trail => lv[Var(t[k])] >= Len(ct)
  BY <1>1, Frames
<1>3. Safe(t, lv, ct, Len(ct), c)
  BY <1>1 DEF SearchState, Framed
<1>4. \A x \in c : ~On(t, x)
  BY <1>1
<1>5. PICK x, y \in c : x # y /\ ~FalseBefore(t, ct, Len(ct), x) /\ ~FalseBefore(t, ct, Len(ct), y)
  BY <1>3, <1>4 DEF Safe
<1>6. PICK o \in c \ {l} : ~FalseBefore(t, ct, Len(ct), o)
  BY <1>5
<1>7. PICK k \in 1 .. Len(t) : t[k] = -o
  BY DEF On
<1>8. k > ct[Len(ct)].trail
  BY <1>1, <1>2, <1>6, <1>7 DEF FalseBefore
<1>9. lv[Var(t[k])] = Len(ct)
  BY <1>1, <1>2, <1>8
<1>10. Var(-o) = Var(o)
  BY Literals
<1> QED BY <1>7, <1>9, <1>10

(* ExtendTrail for all of Assignment. *)
LEMMA ExtendAssignment ==
    ASSUME NEW p \in Problems, NEW t, NEW lv, NEW rs, NEW ct, NEW C,
           Assignment(p, t, lv, rs, ct, C),
           NEW l \in LitsOf(p) \cup {0}, ~On(t, l), ~On(t, -l),
           NEW n \in 0 .. Len(ct), "chrono" \notin p.opts => n = Len(ct),
           NEW c \in SUBSET LitsOf(p),
           c = None /\ n = 0 => Follows(p, {l}),
           c = None /\ n > 0 => ct[n].trail = Len(t) /\ ct[n].decision = l,
           c # None => l \in c /\ Follows(p, c) /\ \A o \in c \ {l} : On(t, -o) /\ lv[Var(o)] <= n,
           c # None /\ n > 0 => \E o \in c \ {l} : lv[Var(o)] = n
    PROVE  Assignment(p, Append(t, l), [lv EXCEPT ![Var(l)] = n],
                      [rs EXCEPT ![Var(l)] = IF n = 0 THEN None ELSE c], ct, C)
<1>1. SearchState(p, t, lv, rs, ct, C)
  BY DEF Assignment
<1>2. SearchState(p, Append(t, l), [lv EXCEPT ![Var(l)] = n],
                  [rs EXCEPT ![Var(l)] = IF n = 0 THEN None ELSE c], ct, C)
  BY <1>1, ExtendTrail
<1>3. n \in Nat
  BY <1>1, OneAssignment
<1>4. /\ AssumptionsDecided(p, Append(t, l), [lv EXCEPT ![Var(l)] = n], ct)
      /\ UnitsAssigned(p, Append(t, l), [lv EXCEPT ![Var(l)] = n])
  BY <1>3, ExtendAssumed
<1> QED BY <1>2, <1>4 DEF Assignment

(* propagate assigns the literal l of the unit clause c.                   *)
LEMMA UnitAssignment ==
    ASSUME CdclInv, NEW c \in Clauses, NEW l \in c, ~On(trail, l), ~On(trail, -l),
           \A o \in c \ {l} : On(trail, -o), SearchAssign(trail, l, c, level)
    PROVE  /\ trail' = Append(trail, l)
           /\ Assignment(problem, trail', lev', reason', control, Clauses)
<1> DEFINE n == AssignmentLevel(l, c, level)
<1>1. /\ problem \in Problems /\ Clauses \in SUBSET (SUBSET LitsOf(problem))
      /\ Assignment(problem, trail, lev, reason, control, Clauses)
      /\ SearchState(problem, trail, lev, reason, control, Clauses)
      /\ ClauseShape(c)
      /\ level \in Nat /\ level = Len(control)
  BY Types DEF level
<1>2. c \in SUBSET LitsOf(problem) /\ c # None /\ Follows(problem, c) /\ l \in LitsOf(problem)
  BY <1>1 DEF ClauseShape
<1>3. \A o \in c \ {l} : lev[Var(o)] \in 0 .. level
  <2> SUFFICES ASSUME NEW o \in c \ {l} PROVE lev[Var(o)] \in 0 .. level
    OBVIOUS
  <2>1. lev[Var(-o)] \in 0 .. level
    BY <1>1, OneAssignment
  <2>2. Var(-o) = Var(o)
    BY <1>1, <1>2, Literals
  <2> QED BY <2>1, <2>2
<1>4. /\ n \in 0 .. level /\ ("chrono" \notin problem.opts => n = level)
      /\ \A o \in c \ {l} : lev[Var(o)] <= n
      /\ n > 0 => \E o \in c \ {l} : lev[Var(o)] = n
  <2>1. CASE Chrono
    <3> HIDE DEF n
    <3>1. /\ AssignmentLevel(l, c, level) \in 0 .. level
          /\ \A o \in c \ {l} : lev[Var(o)] <= AssignmentLevel(l, c, level)
          /\ AssignmentLevel(l, c, level) > 0 =>
                  \E o \in c \ {l} : lev[Var(o)] = AssignmentLevel(l, c, level)
      BY <1>1, <1>2, <1>3, <2>1, ReasonLevel
    <3> QED BY <2>1, <3>1 DEF Chrono, n
  <2>2. CASE ~Chrono
    <3>1. n = level
      BY <1>2, <2>2 DEF AssignmentLevel
    <3>2. level > 0 => \E o \in c \ {l} : lev[Var(o)] = level
      <4> HIDE DEF n
      <4> QED BY <1>1, <1>2, <2>2, CurrentLevel DEF Chrono
    <3> HIDE DEF n
    <3> QED BY <1>1, <1>3, <3>1, <3>2
  <2> QED BY <2>1, <2>2
<1>5. /\ trail' = Append(trail, l)
      /\ lev' = [lev EXCEPT ![Var(l)] = n]
      /\ reason' = [reason EXCEPT ![Var(l)] = IF n = 0 THEN None ELSE c]
  BY DEF SearchAssign
<1> HIDE DEF n
<1>6. Assignment(problem, Append(trail, l), [lev EXCEPT ![Var(l)] = n],
                 [reason EXCEPT ![Var(l)] = IF n = 0 THEN None ELSE c], control, Clauses)
  <2>1. n \in 0 .. Len(control)
    BY <1>1, <1>4
  <2> QED BY <1>1, <1>2, <1>4, <2>1, ExtendAssignment
<1> QED BY <1>5, <1>6

(* propagate visits a clause: it is passed by, satisfied, unit or the      *)
(* conflict.                                                               *)
LEMMA VisitClauseInv ==
    ASSUME CdclInv, NEW c \in todo, VisitClause(c)
    PROVE  CdclInv'
<1> DEFINE free == {l \in c : ~IsFalse(l)}
           large == Cardinality(c) > 2
           unit == \E l \in free : free = {l} /\ IsUnassigned(l)
<1>1. /\ problem \in Problems /\ Clauses \in SUBSET (SUBSET LitsOf(problem))
      /\ SearchState(problem, trail, lev, reason, control, Clauses)
      /\ trail \in Seq(LitsOf(problem) \cup {0}) /\ Len(trail) \in Nat /\ level \in Nat
      /\ propagated \in 0 .. Len(trail)
  BY Types
<1>2. /\ pc = "visit" /\ pc' = "visit"
      /\ UNCHANGED <<problem, learned, control, propagated, clause, seen, open, uip, idx,
                     unsat, result, restarts>>
  BY DEF VisitClause, analysis
<1>3. c \in Clauses /\ ClauseShape(c) /\ c \in SUBSET LitsOf(problem) /\ c # None
  <2>1. c \in Clauses
    BY DEF CdclInv, TypeOK
  <2> QED BY <2>1, Types DEF ClauseShape
<1>4. ~unsat /\ ~On(trail, 0)
  BY <1>2 DEF CdclInv, ConflictInv, ZeroInv
<1>5. Clauses' = Clauses /\ level' = level /\ Vars' = Vars /\ Lits' = Lits
  BY <1>2 DEF Clauses, formula, level, Vars, Lits
<1>6. AnalysisInv' /\ AnswerInv' /\ LearnedFollows'
  BY <1>2, NotAnalyzing, Unanswered DEF CdclInv, Analyzing, analysis, LearnedFollows
<1>7. /\ conflict = None => Propagates(trail, propagated, Clauses, todo)
      /\ \A l \in conflict : On(trail, -l)
      /\ \A i \in 1 .. level : control[i].trail <= propagated
  BY <1>2, <1>4 DEF CdclInv, PropagationInv, ConflictInv
<1>8. \A l \in LitsOf(problem) : ~(On(trail, l) /\ On(trail, -l))
  BY <1>1, OneAssignment
<1>9. \A l : (IsFalse(l) <=> On(trail, -l)) /\ (IsTrue(l) <=> On(trail, l))
  BY DEF IsFalse, IsTrue, Assigned, On
<1>10. \A l : IsUnassigned(l) <=> Free(trail, l)
  BY <1>9 DEF IsUnassigned, Free
<1>11. todo \subseteq Clauses
  BY DEF CdclInv, TypeOK
(* The cases that leave the trail alone. *)
<1>12. ASSUME UNCHANGED <<trail, lev, reason>>, todo' \subseteq todo,
              conflict' \in Clauses \cup {None}, \A l \in conflict' : On(trail, -l),
              conflict' = None => Propagates(trail, propagated, Clauses, todo')
       PROVE  CdclInv'
  <2>1. AssignmentInv'
    BY <1>2, <1>12, SameAssignment DEF CdclInv
  <2>2. TypeOK'
    BY <1>2, <1>5, <1>11, <1>12 DEF CdclInv, TypeOK
  <2>3. PropagationInv'
    BY <1>2, <1>5, <1>7, <1>12 DEF PropagationInv
  <2>4. ConflictInv'
    BY <1>2, <1>4, <1>12 DEF ConflictInv, Analyzing
  <2>5. ZeroInv'
    BY <1>4, <1>12 DEF ZeroInv
  <2> QED BY <1>6, <2>1, <2>2, <2>3, <2>4, <2>5 DEF CdclInv
<1>13. conflict \in Clauses \cup {None}
  BY DEF CdclInv, TypeOK
(* A clause that need not be visited any more. *)
<1>14. Complete(trail, c) \/ Pending(trail, propagated, c) =>
          (conflict = None => Propagates(trail, propagated, Clauses, todo \ {c}))
  BY <1>7 DEF Propagates
<1> HIDE DEF free, large, unit
<1>15. CASE large /\ conflict # None /\ todo' = {} /\ UNCHANGED <<trail, lev, reason, conflict>>
  BY <1>7, <1>12, <1>13, <1>15
<1>16. CASE large /\ WatchedLater(c) /\ todo' = todo \ {c}
            /\ UNCHANGED <<trail, lev, reason, conflict>>
  <2>1. Pending(trail, propagated, c)
    BY <1>16 DEF WatchedLater, Pending
  <2>2. conflict' = None => Propagates(trail, propagated, Clauses, todo')
    BY <1>14, <1>16, <2>1
  <2> QED BY <1>7, <1>12, <1>13, <1>16, <2>2
<1>17. CASE unit /\ (\E l \in free : SearchAssign(trail, l, c, level))
            /\ todo' = todo \ {c} /\ UNCHANGED conflict
  <2>1. PICK l \in free : SearchAssign(trail, l, c, level)
    BY <1>17
  <2>2. l \in c /\ IsUnassigned(l) /\ free = {l}
    BY <1>17, <2>1 DEF unit, free
  <2>3. ~On(trail, l) /\ ~On(trail, -l)
    BY <2>2, <1>10 DEF Free
  <2>4. \A o \in c \ {l} : On(trail, -o)
    BY <2>2, <1>9 DEF free
  <2>5. trail' = Append(trail, l) /\ Assignment(problem, trail', lev', reason', control, Clauses)
    BY <1>3, <2>1, <2>2, <2>3, <2>4, UnitAssignment
  <2>6. l \in LitsOf(problem)
    BY <1>3, <2>2
  <2>7. /\ Len(trail') = Len(trail) + 1
        /\ \A k \in 1 .. Len(trail) : trail'[k] = trail[k]
        /\ trail'[Len(trail) + 1] = l
    BY <1>1, <2>5, <2>6, Extended
  <2>8. \A x : On(trail', x) <=> On(trail, x) \/ x = l
    <3> HIDE DEF LitsOf
    <3>1. \A k \in 1 .. Len(trail') : k \in 1 .. Len(trail) \/ k = Len(trail) + 1
      BY <1>1, <2>7
    <3>2. Len(trail) + 1 \in 1 .. Len(trail') /\ \A k \in 1 .. Len(trail) : k \in 1 .. Len(trail')
      BY <1>1, <2>7
    <3> QED BY <2>7, <3>1, <3>2 DEF On
  <2>9. AssignmentInv'
    BY <1>2, <1>5, <2>5 DEF AssignmentInv
  <2>10. TypeOK'
    <3>1. propagated' \in 0 .. Len(trail')
      BY <1>1, <1>2, <2>7
    <3> QED BY <1>2, <1>5, <1>11, <1>17, <3>1 DEF CdclInv, TypeOK
  <2>11. PropagationInv'
    <3>1. conflict = None => Propagates(trail', propagated, Clauses, todo')
      <4> SUFFICES ASSUME conflict = None, NEW d \in Clauses, d \notin todo'
                   PROVE  Complete(trail', d) \/ Pending(trail', propagated, d)
        BY DEF Propagates
      <4>1. CASE d = c
        BY <2>2, <2>8, <4>1 DEF Complete
      <4>2. CASE d # c
        <5>1. Complete(trail, d) \/ Pending(trail, propagated, d)
          BY <1>7, <1>17, <4>2 DEF Propagates
        <5>2. d \in SUBSET LitsOf(problem) /\ l \in LitsOf(problem) \cup {0}
          BY <1>1, <2>6
        <5> QED BY <1>1, <2>5, <5>1, <5>2, ExtendPropagates
      <4> QED BY <4>1, <4>2
    <3> QED BY <1>2, <1>5, <1>7, <1>17, <3>1 DEF PropagationInv
  <2>12. ConflictInv'
    BY <1>2, <1>4, <1>7, <1>17, <2>8 DEF ConflictInv, Analyzing
  <2>13. ZeroInv'
    <3>1. l # 0
      BY <1>1, <2>6, Literals
    <3> QED BY <1>4, <2>8, <3>1 DEF ZeroInv
  <2> QED BY <1>6, <2>9, <2>10, <2>11, <2>12, <2>13 DEF CdclInv
<1>18. CASE free = {} /\ conflict' = c /\ todo' = (IF large THEN {} ELSE todo \ {c})
            /\ UNCHANGED <<trail, lev, reason>>
  <2>1. \A l \in c : On(trail, -l)
    BY <1>9, <1>18 DEF free
  <2> QED BY <1>3, <1>12, <1>18, <2>1
<1>19. CASE ~unit /\ free # {} /\ todo' = todo \ {c} /\ UNCHANGED <<trail, lev, reason, conflict>>
  <2>1. Complete(trail, c)
    <3> SUFFICES ASSUME \A l \in c : ~On(trail, l)
                 PROVE  \E l, o \in c : l # o /\ Free(trail, l) /\ Free(trail, o)
      BY DEF Complete
    <3>1. PICK l \in free : TRUE
      BY <1>19
    <3>2. l \in c /\ Free(trail, l) /\ IsUnassigned(l)
      BY <1>9, <1>10, <3>1 DEF free, Free
    <3>3. PICK o \in free : o # l
      BY <1>19, <3>1, <3>2 DEF unit
    <3>4. o \in c /\ Free(trail, o)
      BY <1>9, <3>3 DEF free, Free
    <3> QED BY <3>2, <3>3, <3>4
  <2>2. conflict' = None => Propagates(trail, propagated, Clauses, todo')
    BY <1>14, <1>19, <2>1
  <2> QED BY <1>7, <1>12, <1>13, <1>19, <2>2
<1> QED
  <2>1. \/ large /\ conflict # None /\ todo' = {} /\ UNCHANGED <<trail, lev, reason, conflict>>
        \/ large /\ WatchedLater(c) /\ todo' = todo \ {c} /\ UNCHANGED <<trail, lev, reason, conflict>>
        \/ unit /\ (\E l \in free : SearchAssign(trail, l, c, level))
           /\ todo' = todo \ {c} /\ UNCHANGED conflict
        \/ free = {} /\ conflict' = c /\ todo' = (IF large THEN {} ELSE todo \ {c})
           /\ UNCHANGED <<trail, lev, reason>>
        \/ ~unit /\ free # {} /\ todo' = todo \ {c} /\ UNCHANGED <<trail, lev, reason, conflict>>
    BY DEF VisitClause, free, large, unit
  <2> QED BY <2>1, <1>15, <1>16, <1>17, <1>18, <1>19

-----------------------------------------------------------------------------
(* analyze                                                                 *)

(* The conflict that analyze starts from is a clause of false literals.    *)
LEMMA ConflictFacts ==
    ASSUME CdclInv, conflict # None
    PROVE  /\ conflict \in Clauses /\ ClauseShape(conflict)
           /\ \A l \in conflict : /\ l \in LitsOf(problem) /\ On(trail, -l) /\ ~On(trail, l)
                                  /\ lev[Var(l)] \in 0 .. level
           /\ ConflictLevel \in 0 .. level
           /\ \A l \in conflict : lev[Var(l)] <= ConflictLevel
           /\ HighestInConflict # {} /\ IsFiniteSet(HighestInConflict)
<1> DEFINE T == {lev[Var(l)] : l \in conflict}
<1>1. /\ problem \in Problems /\ Clauses \in SUBSET (SUBSET LitsOf(problem))
      /\ SearchState(problem, trail, lev, reason, control, Clauses)
      /\ level \in Nat /\ level = Len(control)
  BY Types DEF level
<1>2. conflict \in Clauses /\ ClauseShape(conflict) /\ IsFiniteSet(conflict)
      /\ \A l \in conflict : l \in LitsOf(problem) /\ On(trail, -l)
  <2>1. conflict \in Clauses
    BY DEF CdclInv, TypeOK
  <2>2. ClauseShape(conflict)
    BY <2>1, Types
  <2> QED BY <2>1, <2>2 DEF CdclInv, ConflictInv, ClauseShape
<1>3. \A l \in conflict : lev[Var(l)] \in 0 .. level /\ ~On(trail, l)
  <2> SUFFICES ASSUME NEW l \in conflict PROVE lev[Var(l)] \in 0 .. level /\ ~On(trail, l)
    OBVIOUS
  <2>1. lev[Var(-l)] \in 0 .. level /\ ~On(trail, l)
    BY <1>1, <1>2, OneAssignment
  <2>2. Var(-l) = Var(l)
    BY <1>1, <1>2, Literals
  <2> QED BY <2>1, <2>2
<1>4. T \subseteq 0 .. level /\ T # {}
  BY <1>2, <1>3 DEF None
<1>5. ConflictLevel = Largest(T)
  BY DEF ConflictLevel
<1>6. (\A l \in conflict : lev[Var(l)] \in T) /\ \A y \in T : \E l \in conflict : lev[Var(l)] = y
  OBVIOUS
<1> HIDE DEF T
<1>7. ConflictLevel \in T /\ \A y \in T : y <= ConflictLevel
  BY <1>1, <1>4, <1>5, LargestElement
<1>8. HighestInConflict # {} /\ HighestInConflict \subseteq conflict
  BY <1>6, <1>7 DEF HighestInConflict
<1>9. IsFiniteSet(HighestInConflict)
  BY <1>2, <1>8, FS_Subset
<1>10. ConflictLevel \in 0 .. level
  BY <1>4, <1>7
<1>11. \A l \in conflict : lev[Var(l)] <= ConflictLevel
  BY <1>6, <1>7
<1> QED BY <1>2, <1>3, <1>8, <1>9, <1>10, <1>11

(* analyze ends with a backtrack to a lower level n and the assignment of  *)
(* a literal l, at level m, that the clause c forces there.                *)
LEMMA ForcedAfterBacktrack ==
    ASSUME CdclInv, pc \in {"analyze", "learn"}, NEW n \in 0 .. level, n < level,
           NEW l \in LitsOf(problem), ~On(Kept(n), l), ~On(Kept(n), -l),
           NEW m \in 0 .. n, ~Chrono => m = n,
           NEW c \in SUBSET LitsOf(problem),
           c = None => m = 0 /\ Follows(problem, {l}),
           c # None => l \in c /\ Follows(problem, c),
           \A o \in c \ {l} : On(Kept(n), -o) /\ lev[Var(o)] <= m,
           c # None /\ m > 0 => \E o \in c \ {l} : lev[Var(o)] = m,
           trail' = Append(Kept(n), l), lev' = [lev EXCEPT ![Var(l)] = m],
           reason' = [reason EXCEPT ![Var(l)] = IF m = 0 THEN None ELSE c],
           BacktrackControl(n), conflict' = None, pc' = "propagate",
           UNCHANGED <<problem, todo, unsat, result, restarts>>,
           learned' \in SUBSET (learned \cup (IF Cardinality(c) > 1 THEN {c} ELSE {})),
           clause' = {} /\ seen' = {} /\ open' = 0 /\ uip' = 0 /\ idx' \in Nat
    PROVE  CdclInv'
<1> DEFINE ct == SubSeq(control, 1, n)
<1>1. /\ problem \in Problems /\ Clauses \in SUBSET (SUBSET LitsOf(problem))
      /\ level \in Nat /\ n \in Nat
  BY Types
<1>2. BacktrackedTo(n)
  BY Backtracking
<1>3. /\ Kept(n) \in Seq(LitsOf(problem) \cup {0})
      /\ Assignment(problem, Kept(n), lev, reason, ct, Clauses)
      /\ Len(ct) = n /\ \A i \in 1 .. n : ct[i] = control[i]
      /\ Requeued(n) \in 0 .. Len(Kept(n))
      /\ \A i \in 1 .. n : control[i].trail <= Requeued(n)
      /\ \A x : On(Kept(n), x) => On(trail, x)
      /\ \A d \in Clauses : Complete(Kept(n), d) \/ Pending(Kept(n), Requeued(n), d)
  BY <1>2 DEF BacktrackedTo
<1>4. control' = ct /\ propagated' = Requeued(n)
  BY DEF BacktrackControl, Requeued
<1>5. todo = {} /\ ~unsat /\ ~On(trail, 0)
  BY DEF CdclInv, PropagationInv, ConflictInv, ZeroInv
<1>6. Vars' = Vars /\ Lits' = Lits
  BY DEF Vars, Lits
<1>21. Cardinality(c) > 1 => c # None
  <2>1. Cardinality({}) = 0
    BY FS_EmptySet
  <2>2. c = {} => Cardinality(c) = 0
    BY <2>1
  <2> QED BY <2>2 DEF None
<1> HIDE DEF ct
<1>7. Assignment(problem, trail', lev', reason', control', Clauses)
  <2>1. m \in 0 .. Len(ct) /\ ("chrono" \notin problem.opts => m = Len(ct))
    BY <1>3 DEF Chrono
  <2>2. Assignment(problem, Append(Kept(n), l), [lev EXCEPT ![Var(l)] = m],
                   [reason EXCEPT ![Var(l)] = IF m = 0 THEN None ELSE c], ct, Clauses)
    <3>1. /\ l \in LitsOf(problem) \cup {0} /\ ~(c = None /\ m > 0)
          /\ c = None /\ m = 0 => Follows(problem, {l})
          /\ c # None => /\ l \in c /\ Follows(problem, c)
                        /\ \A o \in c \ {l} : On(Kept(n), -o) /\ lev[Var(o)] <= m
      OBVIOUS
    <3> QED BY <1>1, <1>3, <2>1, <3>1, ExtendAssignment
  <2> QED BY <1>4, <2>2
<1>8. SearchState(problem, trail', lev', reason', control', Clauses)
  BY <1>7 DEF Assignment
<1>9. /\ Len(Kept(n)) \in Nat
      /\ Len(trail') = Len(Kept(n)) + 1
      /\ \A k \in 1 .. Len(Kept(n)) : trail'[k] = Kept(n)[k]
      /\ trail'[Len(Kept(n)) + 1] = l
  BY <1>3, Extended
<1>10. \A x : On(trail', x) <=> On(Kept(n), x) \/ x = l
  <2>1. \A k \in 1 .. Len(trail') : k \in 1 .. Len(Kept(n)) \/ k = Len(Kept(n)) + 1
    BY <1>9
  <2>2. /\ Len(Kept(n)) + 1 \in 1 .. Len(trail')
        /\ \A k \in 1 .. Len(Kept(n)) : k \in 1 .. Len(trail')
    BY <1>9
  <2> QED BY <1>9, <2>1, <2>2 DEF On
<1>11. \A d \in Clauses' : d \in Clauses \/ (d = c /\ Cardinality(c) > 1)
  BY DEF Clauses, formula
<1>12. c # None => \A i \in 1 .. Len(control') : Safe(trail', lev', control', i, c)
  <2> SUFFICES ASSUME c # None
               PROVE  \A i \in 1 .. Len(control') : Safe(trail', lev', control', i, c)
    OBVIOUS
  <2>1. l \in c /\ On(trail', l)
    BY <1>10
  <2>2. lev \in [problem.vars \cup {0} -> Nat] /\ Var(l) \in problem.vars \cup {0}
    <3>1. SearchState(problem, trail, lev, reason, control, Clauses)
      BY Types
    <3> QED BY <1>1, <3>1, OneAssignment DEF SearchState, Shape
  <2>3. lev'[Var(l)] = m /\ \A v \in problem.vars : v # Var(l) => lev'[v] = lev[v]
    BY <2>2
  <2>4. \A o \in c \ {l} : Var(o) # Var(l) /\ Var(o) \in problem.vars
    <3> SUFFICES ASSUME NEW o \in c \ {l}, Var(o) = Var(l) PROVE FALSE
      BY <1>1, Literals
    <3>1. o = -l /\ -o = l
      BY <1>1, Literals
    <3> QED BY <3>1
  <2>5. lev'[Var(l)] > 0 => \E o \in c \ {l} : lev'[Var(o)] = lev'[Var(l)]
    BY <2>3, <2>4
  <2> QED BY <1>1, <1>8, <2>1, <2>5, AssertedSafe
<1>13. AssignmentInv'
  <2>1. Framed(trail', lev', control', Clauses')
    <3>1. Framed(trail', lev', control', Clauses)
      BY <1>8 DEF SearchState
    <3>2. \A d \in Clauses' : d \notin Clauses => d = c /\ c # None
      BY <1>11, <1>21
    <3> QED BY <1>12, <3>1, <3>2 DEF Framed
  <2> QED BY <1>7, <1>8, <2>1 DEF AssignmentInv, Assignment, SearchState
<1>14. LearnedFollows'
  <2> QED BY <1>21 DEF CdclInv, LearnedFollows
<1>15. TypeOK'
  <2>1. propagated' \in 0 .. Len(trail')
    BY <1>3, <1>4, <1>9
  <2>2. learned' \subseteq {d \in SUBSET Lits : Cardinality(d) > 1}
    BY DEF CdclInv, TypeOK, LitsOf, Lits, Vars
  <2> QED BY <1>5, <1>6, <2>1, <2>2 DEF CdclInv, TypeOK
<1>16. PropagationInv'
  <2>1. \A i \in 1 .. level' : control'[i].trail <= propagated'
    BY <1>3, <1>4 DEF level
  <2>2. Propagates(trail', propagated', Clauses', todo')
    <3> SUFFICES ASSUME NEW d \in Clauses'
                 PROVE  Complete(trail', d) \/ Pending(trail', propagated', d)
      BY DEF Propagates
    <3>1. CASE d \in Clauses
      <4>1. d \in SUBSET LitsOf(problem) /\ l \in LitsOf(problem) \cup {0}
        BY <1>1, <3>1
      <4>2. Complete(Kept(n), d) \/ Pending(Kept(n), Requeued(n), d)
        BY <1>3, <3>1
      <4> QED BY <1>1, <1>3, <1>4, <4>1, <4>2, ExtendPropagates
    <3>2. CASE d = c /\ Cardinality(c) > 1
      <4>1. c # None
        BY <3>2, <1>21
      <4> QED BY <1>10, <3>2, <4>1 DEF Complete
    <3> QED BY <1>11, <3>1, <3>2
  <2> QED BY <1>5, <2>1, <2>2 DEF PropagationInv
<1>17. ConflictInv'
  BY <1>5 DEF ConflictInv, Analyzing, None
<1>18. AnalysisInv'
  BY DEF AnalysisInv, Analyzing
<1>19. ZeroInv'
  <2>1. l # 0
    BY <1>1, Literals
  <2> QED BY <1>3, <1>5, <1>10, <2>1 DEF ZeroInv
<1>20. AnswerInv'
  BY Unanswered DEF CdclInv
<1> QED BY <1>13, <1>14, <1>15, <1>16, <1>17, <1>18, <1>19, <1>20 DEF CdclInv

(* analyze with chronological backtracking: the only literal of the        *)
(* conflict on its highest level is flipped by the conflict itself.        *)
LEMMA AnalyzeForcedInv ==
    ASSUME CdclInv, NEW l \in conflict, AnalyzeForced(l)
    PROVE  CdclInv'
<1> DEFINE n == ConflictLevel - 1
           m == AssignmentLevel(l, conflict, n)
<1>1. /\ pc = "analyze" /\ Chrono /\ HighestInConflict = {l}
      /\ BacktrackControl(n) /\ SearchAssign(Kept(n), l, conflict, n)
      /\ conflict' = None /\ pc' = "propagate"
      /\ UNCHANGED <<problem, learned, todo, unsat, result, restarts>>
      /\ UNCHANGED <<clause, seen, open, uip, idx>>
  BY DEF AnalyzeForced, analysis
<1>2. conflict # None
  BY <1>1 DEF CdclInv, ConflictInv
<1>3. /\ conflict \in Clauses /\ ClauseShape(conflict)
      /\ \A o \in conflict : /\ o \in LitsOf(problem) /\ On(trail, -o) /\ ~On(trail, o)
                             /\ lev[Var(o)] \in 0 .. level
      /\ ConflictLevel \in 0 .. level
      /\ \A o \in conflict : lev[Var(o)] <= ConflictLevel
  BY <1>2, ConflictFacts
<1>4. level \in Nat /\ problem \in Problems
  BY Types
<1>5. lev[Var(l)] = ConflictLevel /\ \A o \in conflict \ {l} : lev[Var(o)] # ConflictLevel
  BY <1>1 DEF HighestInConflict
<1>6. \A o \in conflict \ {l} : lev[Var(o)] \in 0 .. n
  BY <1>3, <1>4, <1>5
<1>7. n \in 0 .. level /\ n < level
  <2>1. PICK o \in conflict \ {l} : TRUE
    BY <1>3 DEF ClauseShape
  <2>2. lev[Var(o)] \in 0 .. ConflictLevel - 1
    BY <1>6
  <2> QED BY <1>3, <1>4, <2>2
<1>8. BacktrackedTo(n)
  BY <1>7, Backtracking
<1>9. \A x : On(Kept(n), x) <=> On(trail, x) /\ lev[Var(x)] <= n
  BY <1>8 DEF BacktrackedTo
<1>10. \A o \in conflict : Var(-o) = Var(o)
  BY <1>3, <1>4, Literals
<1>11. ~On(Kept(n), l) /\ ~On(Kept(n), -l)
  <2>1. ~(lev[Var(l)] <= n)
    BY <1>3, <1>4, <1>5
  <2> QED BY <1>9, <1>10, <2>1
<1>12. \A o \in conflict \ {l} : On(Kept(n), -o)
  <2> SUFFICES ASSUME NEW o \in conflict \ {l} PROVE On(Kept(n), -o)
    OBVIOUS
  <2>1. lev[Var(-o)] \in 0 .. n
    BY <1>6, <1>10
  <2> QED BY <1>3, <1>9, <2>1
<1>13. /\ m \in 0 .. n
       /\ \A o \in conflict \ {l} : lev[Var(o)] <= m
       /\ m > 0 => \E o \in conflict \ {l} : lev[Var(o)] = m
  <2>1. n \in Nat
    BY <1>7, <1>4
  <2> HIDE DEF n
  <2> QED BY <1>1, <1>2, <1>6, <2>1, ReasonLevel
<1>14. /\ trail' = Append(Kept(n), l) /\ lev' = [lev EXCEPT ![Var(l)] = m]
       /\ reason' = [reason EXCEPT ![Var(l)] = IF m = 0 THEN None ELSE conflict]
  BY <1>1 DEF SearchAssign
<1>15. /\ clause' = {} /\ seen' = {} /\ open' = 0 /\ uip' = 0 /\ idx' \in Nat
       /\ learned' \in SUBSET (learned \cup (IF Cardinality(conflict) > 1 THEN {conflict} ELSE {}))
  BY <1>1 DEF CdclInv, AnalysisInv, Analyzing, TypeOK
<1>16. /\ conflict \in SUBSET LitsOf(problem) /\ l \in LitsOf(problem)
       /\ Follows(problem, conflict)
  BY <1>3 DEF ClauseShape
<1> HIDE DEF n, m
<1> QED
  BY <1>1, <1>2, <1>7, <1>11, <1>12, <1>13, <1>14, <1>15, <1>16, ForcedAfterBacktrack

(* analyze backtracks to the conflict level and starts the derivation, or  *)
(* finds the formula unsatisfiable.                                        *)
LEMMA AnalyzeStartInv ==
    ASSUME CdclInv, AnalyzeStart
    PROVE  CdclInv'
<1> DEFINE n == IF Chrono THEN ConflictLevel ELSE level
<1>1. /\ pc = "analyze" /\ (Chrono => Cardinality(HighestInConflict) # 1)
      /\ BacktrackControl(n) /\ trail' = Kept(n) /\ unsat' = (n = 0)
      /\ idx' = Len(Kept(n)) + 1
      /\ pc' = IF n = 0 THEN "loop" ELSE "resolve"
      /\ UNCHANGED <<problem, learned, lev, reason, todo, conflict, clause, seen,
                     open, uip, result, restarts>>
  BY DEF AnalyzeStart, RootConflict
<1>2. conflict # None
  BY <1>1 DEF CdclInv, ConflictInv
<1>3. /\ conflict \in Clauses /\ ClauseShape(conflict)
      /\ \A o \in conflict : /\ o \in LitsOf(problem) /\ On(trail, -o) /\ ~On(trail, o)
                             /\ lev[Var(o)] \in 0 .. level
      /\ ConflictLevel \in 0 .. level
      /\ \A o \in conflict : lev[Var(o)] <= ConflictLevel
      /\ HighestInConflict # {} /\ IsFiniteSet(HighestInConflict)
  BY <1>2, ConflictFacts
<1>4. /\ level \in Nat /\ problem \in Problems /\ level = Len(control)
      /\ SearchState(problem, trail, lev, reason, control, Clauses)
      /\ Clauses \in SUBSET (SUBSET LitsOf(problem))
  BY Types DEF level
<1>5. n \in 0 .. level /\ \A o \in conflict : lev[Var(o)] <= n
  BY <1>3, <1>4
<1>6. BacktrackedTo(n)
  BY <1>5, Backtracking
<1>7. /\ Kept(n) \in Seq(LitsOf(problem) \cup {0}) /\ Len(Kept(n)) \in Nat
      /\ Assignment(problem, Kept(n), lev, reason, SubSeq(control, 1, n), Clauses)
      /\ Len(SubSeq(control, 1, n)) = n
      /\ \A i \in 1 .. n : SubSeq(control, 1, n)[i] = control[i]
      /\ Requeued(n) \in 0 .. Len(Kept(n))
      /\ \A i \in 1 .. n : control[i].trail <= Requeued(n)
      /\ \A x : On(Kept(n), x) <=> On(trail, x) /\ lev[Var(x)] <= n
  BY <1>6 DEF BacktrackedTo
<1>8. control' = SubSeq(control, 1, n) /\ propagated' = Requeued(n) /\ level' = n
  BY <1>1, <1>7 DEF BacktrackControl, Requeued, level
<1>9. todo = {} /\ ~unsat /\ ~On(trail, 0)
  BY <1>1 DEF CdclInv, PropagationInv, ConflictInv, ZeroInv
<1>10. Vars' = Vars /\ Lits' = Lits /\ Clauses' = Clauses
  BY <1>1 DEF Vars, Lits, Clauses, formula
<1>11. \A l \in conflict : On(trail', -l)
  <2> SUFFICES ASSUME NEW l \in conflict PROVE On(trail', -l)
    OBVIOUS
  <2>1. Var(-l) = Var(l)
    BY <1>3, <1>4, Literals
  <2> QED BY <1>1, <1>3, <1>5, <1>7, <2>1
<1>12. n = 0 => ModelsOf(problem) = {}
  <2> SUFFICES ASSUME n = 0, NEW m \in ModelsOf(problem) PROVE FALSE
    OBVIOUS
  <2>1. PICK l \in conflict : Holds(m, l)
    BY <1>3 DEF ClauseShape, Follows, Satisfies
  <2>2. Var(-l) = Var(l) /\ lev[Var(l)] = 0
    BY <1>3, <1>4, <1>5, Literals
  <2>3. Holds(m, -l)
    BY <1>3, <1>4, <2>2, RootHolds
  <2> QED BY <1>3, <1>4, <2>1, <2>3, HoldsNot
<1>13. n # 0 => \E l, o \in conflict : l # o /\ lev[Var(l)] = n /\ lev[Var(o)] = n
  <2>1. CASE Chrono
    <3>1. PICK l \in HighestInConflict : TRUE
      BY <1>3
    <3>2. PICK o \in HighestInConflict : o # l
      BY <1>1, <1>3, <2>1, <3>1, Several
    <3> QED BY <2>1, <3>1, <3>2 DEF HighestInConflict
  <2>2. CASE ~Chrono
    <3> SUFFICES ASSUME n # 0
                 PROVE  \E l, o \in conflict : l # o /\ lev[Var(l)] = n /\ lev[Var(o)] = n
      OBVIOUS
    <3>1. n = Len(control) /\ Len(control) > 0 /\ "chrono" \notin problem.opts
      BY <1>4, <2>2 DEF Chrono
    <3> HIDE DEF n
    <3>2. conflict \in SUBSET LitsOf(problem)
      BY <1>3 DEF ClauseShape
    <3>3. \A l \in conflict : \E o \in conflict \ {l} : lev[Var(o)] = n
      <4> SUFFICES ASSUME NEW l \in conflict
                   PROVE  \E o \in conflict \ {l} : lev[Var(o)] = n
        OBVIOUS
      <4>1. ~On(trail, l) /\ \A o \in conflict \ {l} : On(trail, -o)
        BY <1>3
      <4> QED BY <1>3, <1>4, <3>1, <3>2, <4>1, CurrentLevel
    <3>4. PICK x \in conflict : TRUE
      BY <1>2 DEF None
    <3>5. PICK l \in conflict : lev[Var(l)] = n
      BY <3>3, <3>4
    <3>6. PICK o \in conflict \ {l} : lev[Var(o)] = n
      BY <3>3
    <3> QED BY <3>5, <3>6
  <2> QED BY <2>1, <2>2
<1> HIDE DEF n
<1>14. clause = {} /\ seen = {} /\ open = 0 /\ uip = 0
  BY <1>1 DEF CdclInv, AnalysisInv, Analyzing
<1>15. AssignmentInv' /\ LearnedFollows'
  BY <1>1, <1>7, <1>8, <1>10 DEF CdclInv, AssignmentInv, LearnedFollows
<1>16. TypeOK'
  <2>1. propagated' \in 0 .. Len(trail') /\ idx' \in Nat
    BY <1>1, <1>7, <1>8
  <2> QED BY <1>1, <1>10, <2>1 DEF CdclInv, TypeOK
<1>17. PropagationInv'
  BY <1>1, <1>7, <1>8, <1>9, <1>2 DEF PropagationInv
<1>18. ConflictInv'
  BY <1>1, <1>2, <1>11, <1>12 DEF ConflictInv, Analyzing
<1>19. AnalysisInv'
  <2>1. CASE n = 0
    BY <1>1, <1>14, <2>1 DEF AnalysisInv, Analyzing
  <2>2. CASE n # 0
    <3>1. OpenAt(trail', lev, n, {}, Len(trail') + 1) = {}
      BY DEF OpenAt
    <3>2. Cardinality({}) = 0
      BY FS_EmptySet
    <3>3. Unresolved(trail', lev, n, conflict, {}, Len(trail') + 1)
      BY <1>13, <2>2 DEF Unresolved
    <3>4. MarkedIn(trail', lev, n, {}, {})
      BY DEF MarkedIn
    <3>5. Resolving(problem, trail', lev, reason, n, conflict, {}, {}, 0, 0, Len(trail') + 1)
      BY <3>1, <3>2, <3>3, <3>4 DEF Resolving
    <3>6. n > 0
      BY <1>4, <1>5, <2>2
    <3>7. /\ problem' = problem /\ lev' = lev /\ reason' = reason /\ conflict' = conflict
          /\ clause' = {} /\ seen' = {} /\ open' = 0 /\ uip' = 0 /\ level' = n
          /\ idx' = Len(trail') + 1 /\ pc' = "resolve"
      BY <1>1, <1>8, <1>14, <2>2
    <3> QED BY <3>5, <3>6, <3>7 DEF AnalysisInv, Analyzing
  <2> QED BY <2>1, <2>2
<1>20. ZeroInv'
  BY <1>1, <1>7, <1>9 DEF ZeroInv
<1>21. AnswerInv'
  BY <1>1, Unanswered DEF CdclInv
<1> QED BY <1>15, <1>16, <1>17, <1>18, <1>19, <1>20, <1>21 DEF CdclInv

(* What an action of the analysis leaves alone is kept.                    *)
LEMMA SameTrail ==
    ASSUME CdclInv, Analyzing, Analyzing',
           UNCHANGED <<problem, learned, trail, lev, reason, control, propagated, todo,
                       conflict, unsat, result, restarts>>,
           clause' \in SUBSET Lits, seen' \in SUBSET Vars, open' \in Nat, uip' \in Lits,
           idx' \in Nat, AnalysisInv'
    PROVE  CdclInv'
<1>1. AssignmentInv' /\ LearnedFollows' /\ Clauses' = Clauses /\ level' = level
  BY SameAssignment DEF CdclInv
<1>2. Vars' = Vars /\ Lits' = Lits
  BY DEF Vars, Lits
<1>3. /\ pc \in {"resolve", "auxres", "minimize", "learn"}
      /\ pc' \in {"resolve", "auxres", "minimize", "learn"}
  BY DEF Analyzing
<1>4. TypeOK'
  BY <1>1, <1>2, <1>3 DEF CdclInv, TypeOK
<1>5. PropagationInv'
  BY <1>1, <1>3 DEF CdclInv, PropagationInv
<1>6. ConflictInv'
  BY <1>3 DEF CdclInv, ConflictInv, Analyzing
<1>7. ZeroInv'
  BY <1>3 DEF CdclInv, ZeroInv
<1>8. AnswerInv'
  BY <1>3, Unanswered DEF CdclInv
<1> QED BY <1>1, <1>4, <1>5, <1>6, <1>7, <1>8 DEF CdclInv

(* analyze_reason and the search for the next literal to resolve.          *)
LEMMA ResolveInv ==
    ASSUME CdclInv, AuxInv, Resolve
    PROVE  CdclInv'
<1> DEFINE new == NewOf(lev, reason, conflict, seen, uip)
           below == LowerOf(lev, level, new)
           sm == MarkedWith(seen, new)
           k == LastOpen(trail, lev, level, sm, idx)
           left == open + Cardinality(new \ below) - 1
           u == trail[k]
           stop == StopsAt(left, u)
           all == clause \cup below \cup (IF stop THEN {-u} ELSE {})
<1>1. /\ pc = "resolve"
      /\ seen' = sm /\ clause' = all /\ open' = left /\ uip' = u
      /\ idx' = (IF stop THEN 0 ELSE k)
      /\ pc' = IF ~stop THEN "resolve"
               ELSE IF UipAux THEN "auxres"
               ELSE IF Cardinality(all) > 1 THEN "minimize"
               ELSE "learn"
      /\ UNCHANGED <<problem, learned, trail, lev, reason, control, propagated, todo,
                     conflict, unsat, result, restarts>>
  BY DEF Resolve, Unseen, Below, assignment, NewOf, NewIn, LowerOf, MarkedWith, LastOpen
<1>2. /\ problem \in Problems /\ Clauses \in SUBSET (SUBSET LitsOf(problem))
      /\ SearchState(problem, trail, lev, reason, control, Clauses)
      /\ level \in Nat /\ level = Len(control)
  BY Types DEF level
<1>3. /\ Resolving(problem, trail, lev, reason, level, conflict, clause, seen, open, uip, idx)
      /\ level > 0 /\ conflict # None
  BY <1>1 DEF CdclInv, AnalysisInv, ConflictInv, Analyzing
<1>4. /\ conflict \in SUBSET LitsOf(problem) /\ Follows(problem, conflict)
      /\ \A l \in conflict : On(trail, -l)
  BY <1>3, ConflictFacts DEF ClauseShape
<1>5. clause \in SUBSET LitsOf(problem) /\ seen \in SUBSET problem.vars /\ idx \in Nat
  BY DEF CdclInv, TypeOK, Lits, LitsOf, Vars
<1>6. /\ k \in 1 .. Len(trail) /\ trail[k] \in LitsOf(problem)
      /\ LevelAt(trail, lev, k) = level /\ Var(trail[k]) \in sm
      /\ sm \in SUBSET problem.vars /\ clause \cup below \in SUBSET LitsOf(problem)
      /\ left \in Nat /\ left = Cardinality(OpenAt(trail, lev, level, sm, k))
      /\ MarkedIn(trail, lev, level, clause \cup below, sm)
      /\ \A l \in clause \cup below : FalseBelow(trail, lev, level, l)
      /\ Follows(problem, clause \cup below \cup {-trail[k]}
                          \cup {-trail[j] : j \in OpenAt(trail, lev, level, sm, k)})
      /\ left # 0 => ReasonAt(trail, reason, k) # None
      /\ left = 0 => OpenAt(trail, lev, level, sm, k) = {}
  <2> HIDE DEF new, below, sm, k, left
  <2>1. StepsTo(problem, trail, lev, reason, level, clause \cup below, sm, k, left)
    BY <1>2, <1>3, <1>4, <1>5, ResolveRight DEF new, below, sm, k, left
  <2> QED BY <2>1 DEF StepsTo
<1> HIDE DEF new, below, sm, k, left
<1>7. u \in LitsOf(problem) /\ -u \in LitsOf(problem) /\ Var(-u) = Var(u) /\ u # 0
      /\ Len(trail) \in Nat
  BY <1>2, <1>6, Literals, OneAssignment
<1>8. /\ all \in SUBSET Lits /\ sm \in SUBSET Vars /\ left \in Nat /\ u \in Lits
      /\ (IF stop THEN 0 ELSE k) \in Nat
  BY <1>2, <1>6, <1>7 DEF Lits, LitsOf, Vars
<1>9. stop => Derived(problem, trail, lev, level, all, u)
  <2> SUFFICES ASSUME stop PROVE Derived(problem, trail, lev, level, all, u)
    OBVIOUS
  <2>1. all = clause \cup below \cup {-u} /\ left = 0
    BY DEF StopsAt
  <2>2. Follows(problem, all)
    <3>1. {-trail[j] : j \in OpenAt(trail, lev, level, sm, k)} = {}
      BY <1>6, <2>1
    <3> QED BY <1>6, <2>1, <3>1
  <2>3. On(trail, u) /\ lev[Var(u)] = level
    BY <1>6 DEF On, LevelAt
  <2> HIDE DEF all, u
  <2> QED BY <1>6, <1>7, <2>1, <2>2, <2>3 DEF Derived
<1>10. ~stop => Resolving(problem, trail, lev, reason, level, conflict, all, sm, left, u, k)
  <2> SUFFICES ASSUME ~stop
               PROVE  Resolving(problem, trail, lev, reason, level, conflict, all, sm, left, u, k)
    OBVIOUS
  <2>1. all = clause \cup below
    OBVIOUS
  <2>2. ReasonAt(trail, reason, k) # None
    BY <1>6 DEF StopsAt, ReasonAt
  <2>3. Resolved(problem, trail, lev, reason, level, all, sm, u, k)
    BY <1>6, <2>1, <2>2 DEF Resolved
  <2> HIDE DEF all, u
  <2> QED BY <1>6, <1>7, <2>1, <2>3 DEF Resolving
<1>11. stop /\ UipAux => ~IsAux(Var(u)) /\ MarkedFollow(problem, trail, lev, level, all, sm)
  <2> SUFFICES ASSUME stop, UipAux
               PROVE  ~IsAux(Var(u)) /\ MarkedFollow(problem, trail, lev, level, all, sm)
    OBVIOUS
  <2>1. ~IsAux(Var(u))
    <3>1. CASE reason[Var(u)] = None
      <4>1. u = control[level].decision
        BY <1>2, <1>3, <1>6, <3>1 DEF SearchState, Decided, ReasonAt
      <4>2. level \in 1 .. level
        BY <1>2, <1>3
      <4> QED BY <4>1, <4>2 DEF AuxInv
    <3> QED BY <3>1 DEF StopsAt
  <2>2. all = clause \cup below \cup {-u}
    OBVIOUS
  <2>3. \A l \in all : Var(l) \in sm
    <3> HIDE DEF all
    <3> QED BY <1>6, <1>7, <2>2 DEF MarkedIn
  <2>4. ASSUME NEW j \in 1 .. Len(trail), Var(trail[j]) \in sm, LevelAt(trail, lev, j) < level
        PROVE  -trail[j] \in all
    <3> HIDE DEF all, u
    <3>1. PICK i \in 1 .. Len(trail) :
              /\ Var(trail[j]) = Var(trail[i])
              /\ LevelAt(trail, lev, i) < level => -trail[i] \in clause \cup below
      BY <1>6, <2>4 DEF MarkedIn
    <3>2. i = j
      BY <1>2, <3>1, OnePlace
    <3> QED BY <2>2, <2>4, <3>1, <3>2
  <2>5. ASSUME NEW j \in 1 .. Len(trail), -trail[j] \in all, NEW m,
               \A i \in 1 .. j : -trail[i] \in all => Holds(m, trail[i])
        PROVE  Holds(m, trail[j])
    <3>1. j \in 1 .. j
      BY <1>7
    <3> QED BY <2>5, <3>1
  <2> HIDE DEF all, u, stop
  <2> QED BY <2>1, <2>3, <2>4, <2>5 DEF MarkedFollow
<1> HIDE DEF all, u, stop
<1>12. level' = level /\ problem' = problem /\ UipAux' = UipAux
  BY <1>1 DEF level, UipAux
<1>13. Analyzing /\ Analyzing'
  BY <1>1 DEF Analyzing
<1>14. AnalysisInv'
  BY <1>1, <1>3, <1>9, <1>10, <1>11, <1>12 DEF AnalysisInv, Analyzing, UipAux, IsAux
<1> QED BY <1>1, <1>8, <1>13, <1>14, SameTrail

(* UIPAUX replaces an auxiliary literal of the clause by its reason.       *)
LEMMA AuxResolveInv ==
    ASSUME CdclInv, AuxInv, NEW l \in clause, AuxResolve(l)
    PROVE  CdclInv'
<1> DEFINE new == NewIn(lev, seen, reason[Var(l)])
<1>1. /\ pc = "auxres" /\ IsAux(Var(l))
      /\ seen' = MarkedWith(seen, new)
      /\ clause' = (clause \ {l}) \cup {o \in new : lev[Var(o)] < level}
      /\ open' = open + Cardinality(new \ {o \in new : lev[Var(o)] < level})
      /\ UNCHANGED <<problem, learned, trail, lev, reason, control, propagated, todo,
                     conflict, uip, idx, unsat, result, restarts, pc>>
  BY DEF AuxResolve, Unseen, Below, assignment, NewIn, MarkedWith
<1>2. /\ problem \in Problems /\ level \in Nat /\ level = Len(control)
      /\ SearchState(problem, trail, lev, reason, control, Clauses)
  BY Types DEF level
<1>3. /\ Derived(problem, trail, lev, level, clause, uip) /\ UipAux /\ ~IsAux(Var(uip))
      /\ MarkedFollow(problem, trail, lev, level, clause, seen) /\ level > 0
  BY <1>1 DEF CdclInv, AnalysisInv, Analyzing
<1>4. /\ clause \in SUBSET LitsOf(problem) /\ seen \in SUBSET Vars /\ open \in Nat
      /\ uip \in LitsOf(problem) \cup {0} /\ uip # 0 /\ idx \in Nat
  BY <1>3 DEF CdclInv, TypeOK, Lits, LitsOf, Vars, Derived
<1>5. l # -uip
  <2>1. Var(-uip) = Var(uip)
    BY <1>2, <1>4, Literals
  <2> QED BY <1>1, <1>3, <2>1
<1>6. On(trail, -l) /\ lev[Var(l)] \in 1 .. level - 1 /\ Var(-l) = Var(l)
  BY <1>2, <1>3, <1>4, <1>5, Literals DEF Derived, FalseBelow
<1>7. reason[Var(l)] # None
  <2> SUFFICES ASSUME reason[Var(l)] = None PROVE FALSE
    OBVIOUS
  <2>1. PICK k \in 1 .. Len(trail) : trail[k] = -l
    BY <1>6 DEF On
  <2>2. ReasonAt(trail, reason, k) = None /\ LevelAt(trail, lev, k) = lev[Var(l)]
    BY <1>6, <2>1 DEF ReasonAt, LevelAt
  <2>3. trail[k] = control[lev[Var(l)]].decision
    BY <1>2, <1>6, <2>2 DEF SearchState, Decided
  <2>4. lev[Var(l)] \in 1 .. level
    BY <1>2, <1>6
  <2> QED BY <1>1, <1>3, <1>6, <2>1, <2>3, <2>4 DEF AuxInv
<1> HIDE DEF new
<1>8. /\ (clause \ {l}) \cup new \in SUBSET LitsOf(problem)
      /\ \A o \in new : lev[Var(o)] < level
      /\ Derived(problem, trail, lev, level, (clause \ {l}) \cup new, uip)
      /\ MarkedFollow(problem, trail, lev, level, (clause \ {l}) \cup new, MarkedWith(seen, new))
  <2>1. ReplacesWith(problem, trail, lev, level, (clause \ {l}) \cup NewIn(lev, seen, reason[Var(l)]),
                     MarkedWith(seen, NewIn(lev, seen, reason[Var(l)])), uip,
                     NewIn(lev, seen, reason[Var(l)]))
    BY <1>2, <1>3, <1>4, <1>5, <1>7, AuxResolveRight
  <2>2. ReplacesWith(problem, trail, lev, level, (clause \ {l}) \cup new, MarkedWith(seen, new), uip, new)
    BY <2>1 DEF new
  <2> QED BY <2>2 DEF ReplacesWith
<1>9. {o \in new : lev[Var(o)] < level} = new /\ new \ new = {}
  BY <1>8
<1>10. clause' = (clause \ {l}) \cup new /\ open' = open
  <2>1. open' = open + Cardinality({})
    BY <1>1, <1>9
  <2>2. Cardinality({}) = 0
    BY FS_EmptySet
  <2> QED BY <1>1, <1>4, <1>9, <2>1, <2>2
<1>11. seen' \in SUBSET Vars
  <2>1. \A o \in new : o \in LitsOf(problem) /\ Var(o) \in problem.vars
    BY <1>2, <1>8, Literals
  <2> QED BY <1>1, <1>4, <2>1 DEF MarkedWith, Vars
<1>12. level' = level /\ UipAux' /\ Analyzing /\ Analyzing'
  BY <1>1, <1>3 DEF level, UipAux, Analyzing
<1>13. AnalysisInv'
  BY <1>1, <1>3, <1>8, <1>10, <1>12 DEF AnalysisInv, IsAux
<1>14. clause' \in SUBSET Lits /\ open' \in Nat /\ uip' \in Lits /\ idx' \in Nat
  BY <1>1, <1>4, <1>8, <1>10 DEF Lits, LitsOf, Vars
<1> QED BY <1>1, <1>11, <1>12, <1>13, <1>14, SameTrail

(* UIPAUX is done when the clause has no auxiliary literal.                *)
LEMMA AuxResolveEndInv ==
    ASSUME CdclInv, AuxResolveEnd
    PROVE  CdclInv'
<1>1. /\ pc = "auxres" /\ pc' = "learn"
      /\ UNCHANGED <<problem, learned, trail, lev, reason, control, propagated, todo,
                     conflict, clause, seen, open, uip, idx, unsat, result, restarts>>
  BY DEF AuxResolveEnd, assignment, analysis
<1>2. /\ Derived(problem, trail, lev, level, clause, uip) /\ level > 0
  BY <1>1 DEF CdclInv, AnalysisInv, Analyzing
<1>3. level' = level /\ Analyzing /\ Analyzing'
  BY <1>1 DEF level, Analyzing
<1>4. AnalysisInv'
  BY <1>1, <1>2, <1>3 DEF AnalysisInv
<1>5. /\ clause' \in SUBSET Lits /\ seen' \in SUBSET Vars /\ open' \in Nat /\ uip' \in Lits
      /\ idx' \in Nat
  BY <1>1, <1>2 DEF CdclInv, TypeOK, Derived
<1> QED BY <1>1, <1>3, <1>4, <1>5, SameTrail

(* minimize_clause and shrink_and_minimize_clause leave a clause that      *)
(* still follows.                                                          *)
LEMMA MinimizeClauseInv ==
    ASSUME CdclInv, MinimizeClause
    PROVE  CdclInv'
<1>1. /\ pc = "minimize" /\ pc' = "learn"
      /\ UNCHANGED <<problem, learned, trail, lev, reason, control, propagated, todo,
                     conflict, seen, open, uip, idx, unsat, result, restarts>>
  BY DEF MinimizeClause, assignment
<1>2. /\ problem \in Problems /\ SearchState(problem, trail, lev, reason, control, Clauses)
      /\ clause \in SUBSET LitsOf(problem)
  BY Types DEF CdclInv, TypeOK, Lits, LitsOf, Vars
<1>3. Derived(problem, trail, lev, level, clause, uip) /\ level > 0
  BY <1>1 DEF CdclInv, AnalysisInv, Analyzing
<1> DEFINE c == IF problem.shrink > 0 THEN Shrunken(clause)
                ELSE IF Minimize THEN Minimized(clause)
                ELSE clause
<1>4. clause' = c
  BY DEF MinimizeClause
<1>5. c = IF problem.shrink > 0 THEN Shrunken(clause)
          ELSE IF Minimize THEN Minimized(clause)
          ELSE clause
  OBVIOUS
<1> HIDE DEF c
<1>6. c \in SUBSET LitsOf(problem) /\ Derived(problem, trail, lev, level, c, uip)
  BY <1>2, <1>3, <1>5, MinimizeRight
<1>7. level' = level /\ Analyzing /\ Analyzing'
  BY <1>1 DEF level, Analyzing
<1>8. AnalysisInv'
  BY <1>1, <1>3, <1>4, <1>6, <1>7 DEF AnalysisInv
<1>9. /\ clause' \in SUBSET Lits /\ seen' \in SUBSET Vars /\ open' \in Nat /\ uip' \in Lits
      /\ idx' \in Nat
  BY <1>1, <1>3, <1>4, <1>6 DEF CdclInv, TypeOK, Derived, Lits, LitsOf, Vars
<1> QED BY <1>1, <1>7, <1>8, <1>9, SameTrail

(* The jump level is the level of another literal of the clause, and no    *)
(* other one is of a higher level.                                         *)
LEMMA JumpRight ==
    ASSUME problem \in Problems, SearchState(problem, trail, lev, reason, control, Clauses),
           level \in Nat, level > 0, clause \in SUBSET LitsOf(problem),
           Derived(problem, trail, lev, level, clause, uip)
    PROVE  /\ JumpLevel \in 0 .. level - 1
           /\ \A o \in clause \ {-uip} : lev[Var(o)] <= JumpLevel
           /\ Cardinality(clause) > 1 => \E o \in clause \ {-uip} : lev[Var(o)] = JumpLevel
           /\ ~(Cardinality(clause) > 1) => clause = {-uip} /\ JumpLevel = 0
<1>1. IsFiniteSet(clause)
  BY FiniteClauses
<1>2. /\ -uip \in clause /\ uip # 0 /\ lev[Var(uip)] = level /\ On(trail, uip)
      /\ \A o \in clause \ {-uip} : lev[Var(o)] \in 1 .. level - 1
  BY DEF Derived, FalseBelow
<1>3. uip \in LitsOf(problem) /\ Var(-uip) = Var(uip)
  <2>1. uip \in LitsOf(problem) \cup {0}
    BY <1>2, OneAssignment
  <2> QED BY <1>2, <2>1, Literals
<1>4. CASE ~(Cardinality(clause) > 1)
  <2>1. clause = {-uip}
    BY <1>1, <1>2, <1>4, Several
  <2>2. JumpLevel = 0
    <3>1. Cardinality(clause) < 2
      BY <1>1, <1>4, Several
    <3> QED BY <3>1 DEF JumpLevel
  <2> QED BY <1>4, <2>1, <2>2
<1>5. CASE Cardinality(clause) > 1
  <2> DEFINE IsTop(l) == \A o \in clause : lev[Var(o)] <= lev[Var(l)]
             top == CHOOSE l \in clause : IsTop(l)
             T == {lev[Var(l)] : l \in clause \ {top}}
  <2>1. IsTop(-uip)
    <3> SUFFICES ASSUME NEW o \in clause PROVE lev[Var(o)] <= lev[Var(-uip)]
      OBVIOUS
    <3>1. CASE o = -uip
      BY <1>2, <1>3, <3>1
    <3>2. CASE o # -uip
      <4>1. lev[Var(o)] \in 1 .. level - 1
        BY <1>2, <3>2
      <4> QED BY <1>2, <1>3, <4>1
    <3> QED BY <3>1, <3>2
  <2>2. \A l \in clause : IsTop(l) => l = -uip
    <3> SUFFICES ASSUME NEW l \in clause, IsTop(l), l # -uip PROVE FALSE
      OBVIOUS
    <3>1. lev[Var(l)] \in 1 .. level - 1
      BY <1>2
    <3>2. level <= lev[Var(l)]
      BY <1>2, <1>3
    <3> QED BY <3>1, <3>2
  <2>3. top = -uip
    <3> HIDE DEF IsTop
    <3>1. top \in clause /\ IsTop(top)
      BY <1>2, <2>1
    <3> HIDE DEF top
    <3> QED BY <2>2, <3>1
  <2>4. JumpLevel = Largest(T)
    <3>1. ~(Cardinality(clause) < 2)
      BY <1>1, <1>5, Several
    <3> QED BY <3>1 DEF JumpLevel
  <2> HIDE DEF IsTop, top
  <2>5. T \subseteq 0 .. level - 1 /\ T # {}
    <3>1. \E o \in clause : o # -uip
      BY <1>1, <1>5, Several
    <3> QED BY <1>2, <2>3, <3>1
  <2>6. /\ \A o \in clause \ {-uip} : lev[Var(o)] \in T
        /\ \A y \in T : \E o \in clause \ {-uip} : lev[Var(o)] = y
    BY <2>3
  <2> HIDE DEF T
  <2>7. Largest(T) \in T /\ \A y \in T : y <= Largest(T)
    <3>1. level - 1 \in Nat
      OBVIOUS
    <3> QED BY <2>5, <3>1, LargestElement
  <2>8. JumpLevel \in 0 .. level - 1
    BY <2>4, <2>5, <2>7
  <2>9. \A o \in clause \ {-uip} : lev[Var(o)] <= JumpLevel
    BY <2>4, <2>6, <2>7
  <2>10. \E o \in clause \ {-uip} : lev[Var(o)] = JumpLevel
    BY <2>4, <2>6, <2>7
  <2> QED BY <1>5, <2>8, <2>9, <2>10
<1> QED BY <1>4, <1>5

(* Every level that determine_actual_backtrack_level may return is below   *)
(* the conflict level and not below the jump level.                        *)
LEMMA BacktrackLevelsRight ==
    ASSUME level \in Nat, level > 0, JumpLevel \in 0 .. level - 1, NEW n \in BacktrackLevels
    PROVE  /\ n \in 0 .. level /\ n < level /\ JumpLevel <= n
           /\ ~Chrono => n = JumpLevel
BY DEF BacktrackLevels

(* The driving clause is learned, its flipped UIP assigned after           *)
(* backtracking, and what it subsumes removed.                             *)
LEMMA LearnInv ==
    ASSUME CdclInv, NEW n \in 0 .. level - 1, Learn(n)
    PROVE  CdclInv'
<1> DEFINE driving == IF Cardinality(clause) > 1 THEN clause ELSE None
           l == -uip
           m == AssignmentLevel(l, driving, n)
<1>1. /\ pc = "learn" /\ n \in BacktrackLevels
      /\ learned' \subseteq learned \cup (IF Cardinality(clause) > 1 THEN {clause} ELSE {})
      /\ BacktrackControl(n) /\ conflict' = None /\ pc' = "propagate"
      /\ clause' = {} /\ seen' = {} /\ open' = 0 /\ uip' = 0 /\ idx' = 0
      /\ UNCHANGED <<problem, todo, unsat, result, restarts>>
  BY DEF Learn
<1>2. SearchAssign(Kept(n), l, driving, n)
  BY DEF Learn
<1>3. /\ problem \in Problems /\ SearchState(problem, trail, lev, reason, control, Clauses)
      /\ level \in Nat /\ clause \in SUBSET LitsOf(problem)
  BY Types DEF CdclInv, TypeOK, Lits, LitsOf, Vars
<1>4. Derived(problem, trail, lev, level, clause, uip) /\ level > 0
  BY <1>1 DEF CdclInv, AnalysisInv, Analyzing
<1>5. /\ JumpLevel \in 0 .. level - 1
      /\ \A o \in clause \ {-uip} : lev[Var(o)] <= JumpLevel
      /\ Cardinality(clause) > 1 => \E o \in clause \ {-uip} : lev[Var(o)] = JumpLevel
      /\ ~(Cardinality(clause) > 1) => clause = {-uip} /\ JumpLevel = 0
  BY <1>3, <1>4, JumpRight
<1>6. n \in 0 .. level /\ n < level /\ JumpLevel <= n /\ (~Chrono => n = JumpLevel) /\ n \in Nat
  BY <1>1, <1>3, <1>4, <1>5, BacktrackLevelsRight
<1>7. /\ On(trail, uip) /\ uip # 0 /\ lev[Var(uip)] = level /\ l \in clause
      /\ \A o \in clause \ {l} : On(trail, -o) /\ lev[Var(o)] \in 1 .. level - 1
      /\ Follows(problem, clause)
  BY <1>4 DEF Derived, FalseBelow
<1>8. l \in LitsOf(problem) /\ uip \in LitsOf(problem) /\ Var(l) = Var(uip) /\ -l = uip
  <2>1. uip \in LitsOf(problem) \cup {0}
    BY <1>3, <1>7, OneAssignment
  <2> QED BY <1>3, <1>7, <2>1, Literals
<1>9. \A x : On(Kept(n), x) <=> On(trail, x) /\ lev[Var(x)] <= n
  BY <1>6, Backtracking DEF BacktrackedTo
<1> HIDE DEF l
<1>10. ~On(Kept(n), l) /\ ~On(Kept(n), -l)
  BY <1>3, <1>6, <1>7, <1>8, <1>9
<1>11. \A o \in clause \ {l} : On(Kept(n), -o) /\ lev[Var(o)] \in 0 .. n
  <2> SUFFICES ASSUME NEW o \in clause \ {l} PROVE On(Kept(n), -o) /\ lev[Var(o)] \in 0 .. n
    OBVIOUS
  <2>1. Var(-o) = Var(o)
    BY <1>3, Literals
  <2>2. lev[Var(o)] \in 0 .. n
    BY <1>3, <1>5, <1>6, <1>7 DEF l
  <2> QED BY <1>6, <1>7, <1>9, <2>1, <2>2
<1>12. driving \in SUBSET LitsOf(problem)
       /\ (driving = None => clause = {l} /\ JumpLevel = 0 /\ ~(Cardinality(clause) > 1))
       /\ (driving # None => driving = clause /\ Cardinality(clause) > 1)
       /\ driving \ {l} \subseteq clause \ {l}
  BY <1>3, <1>5, <1>7 DEF l, None
<1> HIDE DEF driving
<1>13. /\ m \in 0 .. n /\ (~Chrono => m = n)
       /\ \A o \in driving \ {l} : lev[Var(o)] <= m
       /\ driving # None /\ m > 0 => \E o \in driving \ {l} : lev[Var(o)] = m
       /\ driving = None => m = 0
  <2>1. CASE driving = None
    BY <1>6, <1>12, <2>1 DEF AssignmentLevel, None
  <2>2. CASE driving # None /\ Chrono
    <3>1. \A o \in driving \ {l} : lev[Var(o)] \in 0 .. n
      BY <1>11, <1>12
    <3> HIDE DEF m
    <3>2. /\ AssignmentLevel(l, driving, n) \in 0 .. n
          /\ \A o \in driving \ {l} : lev[Var(o)] <= AssignmentLevel(l, driving, n)
          /\ AssignmentLevel(l, driving, n) > 0 =>
                  \E o \in driving \ {l} : lev[Var(o)] = AssignmentLevel(l, driving, n)
      BY <1>6, <2>2, <3>1, ReasonLevel
    <3> QED BY <2>2, <3>2 DEF m
  <2>3. CASE driving # None /\ ~Chrono
    <3>1. m = n /\ n = JumpLevel
      BY <1>6, <2>3 DEF AssignmentLevel
    <3> QED BY <1>5, <1>6, <1>12, <2>3, <3>1 DEF l
  <2> QED BY <2>1, <2>2, <2>3
<1>14. /\ trail' = Append(Kept(n), l) /\ lev' = [lev EXCEPT ![Var(l)] = m]
       /\ reason' = [reason EXCEPT ![Var(l)] = IF m = 0 THEN None ELSE driving]
  BY <1>2 DEF SearchAssign
<1>15. learned' \in SUBSET (learned \cup (IF Cardinality(driving) > 1 THEN {driving} ELSE {}))
  BY <1>1, <1>12
<1> HIDE DEF m
<1>16. /\ driving = None => m = 0 /\ Follows(problem, {l})
       /\ driving # None => l \in driving /\ Follows(problem, driving)
       /\ \A o \in driving \ {l} : On(Kept(n), -o) /\ lev[Var(o)] <= m
  BY <1>7, <1>11, <1>12, <1>13
<1>17. pc \in {"analyze", "learn"} /\ idx' \in Nat
  BY <1>1
<1> QED
  BY <1>1, <1>6, <1>8, <1>10, <1>12, <1>13, <1>14, <1>15, <1>16, <1>17, ForcedAfterBacktrack

-----------------------------------------------------------------------------
(* The loop: answers, restart, rephase and decide.                         *)

(* Without the literal 0 the trail has as many variables as literals.      *)
OnVars(t) == {Var(t[k]) : k \in 1 .. Len(t)}

(* The length of the trail counts its variables: a trail as long as there  *)
(* are variables has them all (internal.hpp, satisfied).                   *)
LEMMA TrailCount ==
    ASSUME NEW p \in Problems, NEW t, NEW lv, NEW rs, NEW ct, NEW C,
           SearchState(p, t, lv, rs, ct, C), ~On(t, 0)
    PROVE  /\ OnVars(t) \in SUBSET p.vars /\ IsFiniteSet(p.vars)
           /\ Cardinality(OnVars(t)) = Len(t)
           /\ \A v \in p.vars : Free(t, v) <=> v \notin OnVars(t)
<1>1. Len(t) \in Nat /\ \A k \in 1 .. Len(t) : t[k] \in LitsOf(p) /\ Var(t[k]) \in p.vars
  <2>1. Len(t) \in Nat /\ \A k \in 1 .. Len(t) : t[k] \in LitsOf(p) \cup {0}
    BY OneAssignment
  <2>2. \A k \in 1 .. Len(t) : t[k] # 0
    BY DEF On
  <2> QED BY <2>1, <2>2, Literals
<1> DEFINE f == [k \in 1 .. Len(t) |-> Var(t[k])]
<1>2. f \in Bijection(1 .. Len(t), OnVars(t))
  <2>1. f \in [1 .. Len(t) -> OnVars(t)]
    BY DEF OnVars
  <2>2. \A j, k \in 1 .. Len(t) : f[j] = f[k] => j = k
    BY OnePlace
  <2>3. \A v \in OnVars(t) : \E k \in 1 .. Len(t) : f[k] = v
    BY DEF OnVars
  <2> QED BY <2>1, <2>2, <2>3 DEF Bijection, Injection, Surjection, IsInjective
<1>3. IsFiniteSet(1 .. Len(t)) /\ Cardinality(1 .. Len(t)) = Len(t)
  <2>1. 1 \in Int /\ Len(t) \in Int
    BY <1>1
  <2>2. /\ IsFiniteSet(1 .. Len(t))
        /\ Cardinality(1 .. Len(t)) = IF 1 > Len(t) THEN 0 ELSE Len(t) - 1 + 1
    BY <2>1, FS_Interval
  <2> QED BY <1>1, <2>2
<1>4. Cardinality(OnVars(t)) = Len(t)
  <2>1. ExistsBijection(1 .. Len(t), OnVars(t))
    BY <1>2 DEF ExistsBijection
  <2> QED BY <1>3, <2>1, FS_Bijection
<1>5. ASSUME NEW v \in p.vars PROVE Free(t, v) <=> v \notin OnVars(t)
  <2>1. v \in LitsOf(p) /\ Var(v) = v /\ Var(-v) = v
    BY Literals DEF Var
  <2>2. ASSUME NEW k \in 1 .. Len(t), Var(t[k]) = v PROVE ~Free(t, v)
    <3>1. t[k] = v \/ t[k] = -v
      BY <1>1, <2>1, <2>2, Literals
    <3> QED BY <3>1 DEF Free, On
  <2>3. ASSUME NEW k \in 1 .. Len(t), t[k] = v \/ t[k] = -v PROVE v \in OnVars(t)
    BY <2>1, <2>3 DEF OnVars
  <2> QED BY <2>2, <2>3 DEF OnVars, Free, On
<1>6. OnVars(t) \in SUBSET p.vars
  BY <1>1 DEF OnVars
<1>7. IsFiniteSet(p.vars)
  BY Literals
<1> QED BY <1>4, <1>5, <1>6, <1>7

(* A model of the query is one of the formula in which the assumptions and *)
(* the constraint hold.                                                    *)
LEMMA QueryModels ==
    ASSUME NEW m \in Models(Query)
    PROVE  /\ m \in ModelsOf(problem)
           /\ \A k \in 1 .. Len(Assumptions) : Holds(m, Assumptions[k])
           /\ Constraint # << >> => \E k \in 1 .. Len(Constraint) : Holds(m, Constraint[k])
<1>1. m \in SUBSET problem.vars /\ \A c \in Query : Satisfies(m, c)
  BY DEF Models, Vars
<1>2. Originals(problem) \subseteq Query
  BY DEF Query, Original, Originals, formula
<1>3. \A k \in 1 .. Len(Assumptions) : {Assumptions[k]} \in Query
  BY DEF Query
<1>4. Constraint # << >> => {Constraint[k] : k \in 1 .. Len(Constraint)} \in Query
  BY DEF Query
<1> QED BY <1>1, <1>2, <1>3, <1>4 DEF ModelsOf, Satisfies

(* While no more than the assumptions are decided, what is on the trail    *)
(* holds in every model of the query.                                      *)
LEMMA AssumedHold ==
    ASSUME CdclInv, level <= Len(Assumptions), NEW m \in Models(Query), NEW x, On(trail, x)
    PROVE  Holds(m, x)
<1>1. /\ problem \in Problems /\ level \in Nat /\ level = Len(control)
      /\ SearchState(problem, trail, lev, reason, control, Clauses)
      /\ AssumptionsDecided(problem, trail, lev, control)
  BY Types DEF level, Assignment
<1>2. m \in ModelsOf(problem) /\ \A k \in 1 .. Len(Assumptions) : Holds(m, Assumptions[k])
  BY QueryModels
<1>3. Holds(m, 0)
  <2>1. m \subseteq problem.vars /\ problem.vars \subseteq LitsOf(problem)
    BY <1>1, <1>2, Literals DEF ModelsOf
  <2>2. \A z \in {0} : Holds(m, z)
    <3> SUFFICES ASSUME NEW z \in {0}, -z \in m PROVE FALSE
      BY DEF Holds
    <3>1. -(-z) \in LitsOf(problem) /\ -(-z) = z
      BY <1>1, <2>1, Literals
    <3> QED BY <1>1, <3>1, Literals
  <2> QED BY <2>2
<1>4. Len(Assumptions) \in Nat
  BY <1>1, CdclAssumption DEF Assumptions
<1>5. \A i \in 1 .. level : Holds(m, control[i].decision)
  <2> SUFFICES ASSUME NEW i \in 1 .. level PROVE Holds(m, control[i].decision)
    OBVIOUS
  <2>1. i \in 1 .. Len(Assumptions)
    BY <1>1, <1>4
  <2>2. control[i].decision \in {0, Assumptions[i]}
    BY <1>1, <2>1 DEF AssumptionsDecided, Assumptions
  <2> QED BY <1>2, <1>3, <2>1, <2>2
<1>6. PICK k \in 1 .. Len(trail) : trail[k] = x
  BY DEF On
<1>7. LevelAt(trail, lev, k) \in 0 .. level
  BY <1>1, OneAssignment
<1>8. Decides(m, control, LevelAt(trail, lev, k))
  BY <1>1, <1>5, <1>7 DEF Decides
<1> QED BY <1>1, <1>2, <1>6, <1>8 DEF SearchState, Sound

(* An answer leaves the rest of the state alone.                           *)
LEMMA AnswerInvKept ==
    ASSUME CdclInv, pc = "loop", NEW r \in {10, 20}, Answer(r), AnswerCorrect'
    PROVE  CdclInv'
<1>1. /\ result' = r /\ pc' = "done"
      /\ UNCHANGED <<problem, learned, trail, lev, reason, control, propagated, todo,
                     conflict, clause, seen, open, uip, idx, unsat, restarts>>
  BY DEF Answer, assignment, analysis
<1>2. AssignmentInv' /\ LearnedFollows' /\ Clauses' = Clauses /\ level' = level
  BY <1>1, SameAssignment DEF CdclInv
<1>3. TypeOK'
  BY <1>1, <1>2 DEF CdclInv, TypeOK, Lits, Vars
<1>4. PropagationInv'
  BY <1>1, <1>2 DEF CdclInv, PropagationInv
<1>5. ConflictInv'
  BY <1>1 DEF CdclInv, ConflictInv, Analyzing
<1>6. AnalysisInv'
  BY <1>1, NotAnalyzing DEF CdclInv, Analyzing, analysis
<1>7. ZeroInv'
  BY <1>1, <1>2 DEF CdclInv, ZeroInv, Satisfied, Assumptions, ConstraintLevels, Constraint, Vars
<1>8. AnswerInv'
  BY <1>1 DEF AnswerInv
<1> QED BY <1>2, <1>3, <1>4, <1>5, <1>6, <1>7, <1>8 DEF CdclInv

(* The query stays the same. *)
LEMMA SameQuery ==
    ASSUME UNCHANGED problem
    PROVE  Query' = Query /\ Models(Query)' = Models(Query)
BY DEF Query, Original, formula, Assumptions, Constraint, Models, Vars

(* cdcl_loop_with_inprocessing answers 20 when the empty clause was        *)
(* learned.                                                                *)
LEMMA AnswerUnsatInv ==
    ASSUME CdclInv, AnswerUnsat
    PROVE  CdclInv'
<1>1. pc = "loop" /\ unsat /\ Answer(20) /\ UNCHANGED problem /\ result' = 20
  BY DEF AnswerUnsat, Answer
<1>2. ModelsOf(problem) = {}
  BY <1>1 DEF CdclInv, ConflictInv
<1>3. Models(Query) = {}
  BY <1>2, QueryModels
<1>4. AnswerCorrect'
  BY <1>1, <1>3, SameQuery DEF AnswerCorrect
<1> QED BY <1>1, <1>4, AnswerInvKept

(* Satisfied: all variables but possibly one are assigned, propagation is  *)
(* complete, so that every clause has a true literal.                      *)
LEMMA SatisfiedClauses ==
    ASSUME CdclInv, pc = "loop", ~unsat, Satisfied, NEW c \in formula
    PROVE  \E l \in c : On(trail, l)
<1>1. /\ problem \in Problems
      /\ SearchState(problem, trail, lev, reason, control, Clauses)
      /\ c \in Clauses /\ ClauseShape(c)
      /\ propagated \in 0 .. Len(trail) /\ Len(trail) \in Nat
  <2>1. c \in Clauses
    BY DEF Clauses
  <2> QED BY <2>1, Types
<1>2. conflict = None /\ propagated = Len(trail) /\ todo = {}
  BY DEF CdclInv, PropagationInv
<1>3. Propagates(trail, propagated, Clauses, todo)
  BY <1>2 DEF CdclInv, PropagationInv
<1>4. ~Pending(trail, propagated, c)
  BY <1>1, <1>2 DEF Pending
<1>5. Complete(trail, c)
  BY <1>1, <1>2, <1>3, <1>4 DEF Propagates
<1> SUFFICES ASSUME NEW l \in c, NEW o \in c, l # o, Free(trail, l), Free(trail, o)
             PROVE  FALSE
  BY <1>5 DEF Complete
<1>6. l \in LitsOf(problem) /\ o \in LitsOf(problem)
  BY <1>1 DEF ClauseShape
<1>7. Var(l) \in problem.vars /\ Var(o) \in problem.vars /\ Var(l) # Var(o)
  <2>1. -l \notin c
    BY <1>1, CdclAssumption DEF formula
  <2>2. o # -l
    BY <2>1
  <2>3. l # -o
    BY <2>2, <1>1, <1>6, Literals
  <2> QED BY <2>2, <2>3, <1>1, <1>6, Literals
<1>8. Free(trail, Var(l)) /\ Free(trail, Var(o))
  <2>1. ASSUME NEW x \in LitsOf(problem), Free(trail, x) PROVE Free(trail, Var(x))
    <3>1. -(-x) = x
      BY <1>1, Literals
    <3>2. Var(x) = x \/ Var(x) = -x
      BY DEF Var
    <3> QED BY <2>1, <3>1, <3>2 DEF Free
  <2> QED BY <2>1, <1>6
<1>9. CASE On(trail, 0)
  BY <1>7, <1>8, <1>9 DEF CdclInv, ZeroInv, Vars
<1>10. CASE ~On(trail, 0)
  <2>1. /\ OnVars(trail) \in SUBSET problem.vars /\ IsFiniteSet(problem.vars)
        /\ Cardinality(OnVars(trail)) = Len(trail)
        /\ \A v \in problem.vars : Free(trail, v) <=> v \notin OnVars(trail)
    BY <1>1, <1>10, TrailCount
  <2>2. Cardinality(OnVars(trail)) = Cardinality(problem.vars)
    BY <2>1 DEF Satisfied, Vars
  <2>3. OnVars(trail) = problem.vars
    BY <2>1, <2>2, FS_Subset
  <2> QED BY <1>7, <1>8, <2>1, <2>3
<1> QED BY <1>9, <1>10

(* cdcl_loop_with_inprocessing answers 10 when all variables are assigned, *)
(* also if literal 0 stands for one of them.                               *)
LEMMA AnswerSatInv ==
    ASSUME CdclInv, AnswerSat
    PROVE  CdclInv'
<1>1. /\ pc = "loop" /\ ~unsat /\ Satisfied /\ Answer(10) /\ result' = 10
      /\ UNCHANGED <<problem, trail>>
  BY DEF AnswerSat, Answer, assignment
<1>2. /\ problem \in Problems /\ level \in Nat /\ level = Len(control)
      /\ AssumptionsDecided(problem, trail, lev, control)
      /\ UnitsAssigned(problem, trail, lev)
  BY Types DEF level, Assignment
<1>3. Len(Assumptions) \in Nat
  BY <1>2, CdclAssumption DEF Assumptions
<1>4. level >= Len(Assumptions) + ConstraintLevels
  BY <1>1 DEF Satisfied
<1>5. ASSUME NEW c \in Query PROVE \E l \in c : On(trail, l)
  <2>1. CASE c \in formula
    BY <1>1, <2>1, SatisfiedClauses
  <2>2. CASE c \in {{problem.units[k]} : k \in DOMAIN problem.units}
    BY <1>2, <2>2 DEF UnitsAssigned
  <2>3. CASE c \in {{Assumptions[k]} : k \in 1 .. Len(Assumptions)}
    <3>1. PICK k \in 1 .. Len(Assumptions) : c = {Assumptions[k]}
      BY <2>3
    <3>2. k \in 1 .. Len(control)
      BY <1>2, <1>3, <1>4 DEF ConstraintLevels
    <3>3. On(trail, Assumptions[k])
      BY <1>2, <3>2 DEF AssumptionsDecided, Assumptions
    <3> QED BY <3>1, <3>3
  <2>4. CASE Constraint # << >> /\ c = {Constraint[k] : k \in 1 .. Len(Constraint)}
    <3>1. Len(Assumptions) + 1 \in 1 .. Len(control)
      BY <1>2, <1>3, <1>4, <2>4 DEF ConstraintLevels
    <3>2. \E k \in 1 .. Len(Constraint) : On(trail, Constraint[k])
      BY <1>2, <2>4, <3>1 DEF AssumptionsDecided, Assumptions, Constraint
    <3> QED BY <2>4, <3>2
  <2> QED BY <2>1, <2>2, <2>3, <2>4 DEF Query, Original
<1>6. \A l : On(trail, l) => IsTrue(l)'
  BY <1>1 DEF IsTrue, Assigned, On
<1>7. Query' = Query
  BY <1>1, SameQuery
<1>8. AnswerCorrect'
  BY <1>1, <1>5, <1>6, <1>7 DEF AnswerCorrect
<1> QED BY <1>1, <1>8, AnswerInvKept

(* restart and rephase: backtrack and propagate again.                     *)
LEMMA BacktrackInLoop ==
    ASSUME CdclInv, pc = "loop", ~unsat, ~Satisfied, NEW n \in 0 .. level,
           trail' = Kept(n), BacktrackControl(n), restarts' \in Nat, pc' = "propagate",
           UNCHANGED <<problem, learned, lev, reason, todo, conflict, clause, seen, open,
                       uip, idx, unsat, result>>
    PROVE  CdclInv'
<1>1. /\ problem \in Problems /\ level \in Nat /\ level = Len(control)
      /\ propagated \in 0 .. Len(trail)
  BY Types DEF level
<1>2. /\ Kept(n) \in Seq(LitsOf(problem) \cup {0})
      /\ Assignment(problem, Kept(n), lev, reason, SubSeq(control, 1, n), Clauses)
      /\ Len(SubSeq(control, 1, n)) = n
      /\ \A i \in 1 .. n : SubSeq(control, 1, n)[i] = control[i]
      /\ Requeued(n) \in 0 .. Len(Kept(n))
      /\ \A i \in 1 .. n : control[i].trail <= Requeued(n)
      /\ \A x : On(Kept(n), x) => On(trail, x)
      /\ n < level => \A c \in Clauses : \/ Complete(Kept(n), c)
                                         \/ Pending(Kept(n), Requeued(n), c)
      /\ n = level => Kept(n) = trail /\ Requeued(n) = propagated
  BY Backtracking DEF BacktrackedTo
<1>3. control' = SubSeq(control, 1, n) /\ propagated' = Requeued(n) /\ level' = n
  BY <1>2 DEF BacktrackControl, Requeued, level
<1>4. todo = {} /\ conflict = None /\ ~On(trail, 0)
  BY DEF CdclInv, PropagationInv, ZeroInv
<1>5. Vars' = Vars /\ Lits' = Lits /\ Clauses' = Clauses
  BY DEF Vars, Lits, Clauses, formula
<1>6. AssignmentInv' /\ LearnedFollows'
  BY <1>2, <1>3, <1>5 DEF CdclInv, AssignmentInv, LearnedFollows
<1>7. TypeOK'
  <2>1. propagated' \in 0 .. Len(trail')
    BY <1>2, <1>3
  <2> QED BY <1>5, <2>1 DEF CdclInv, TypeOK
<1>8. PropagationInv'
  <2>1. Propagates(Kept(n), Requeued(n), Clauses, {})
    <3>1. CASE n < level
      BY <1>2, <3>1 DEF Propagates
    <3>2. CASE n = level
      BY <1>2, <1>4, <3>2 DEF CdclInv, PropagationInv
    <3> QED BY <1>1, <3>1, <3>2
  <2> QED BY <1>2, <1>3, <1>4, <1>5, <2>1 DEF PropagationInv
<1>9. ConflictInv'
  BY <1>4 DEF ConflictInv, Analyzing, None
<1>10. AnalysisInv'
  BY NotAnalyzing DEF CdclInv, Analyzing, analysis
<1>11. ZeroInv'
  BY <1>2, <1>4 DEF ZeroInv
<1>12. AnswerInv'
  BY Unanswered DEF CdclInv
<1> QED BY <1>6, <1>7, <1>8, <1>9, <1>10, <1>11, <1>12 DEF CdclInv

(* restart backtracks to the level that reuse_trail chose.                 *)
LEMMA RestartInv ==
    ASSUME CdclInv, NEW n \in 0 .. level, Restart(n)
    PROVE  CdclInv'
<1>1. /\ pc = "loop" /\ ~unsat /\ ~Satisfied /\ trail' = Kept(n) /\ BacktrackControl(n)
      /\ restarts' = restarts + 1 /\ pc' = "propagate"
      /\ UNCHANGED <<problem, learned, lev, reason, todo, conflict, clause, seen, open,
                     uip, idx, unsat, result>>
  BY DEF Restart, analysis
<1>2. restarts' \in Nat
  BY <1>1 DEF CdclInv, TypeOK
<1> QED BY <1>1, <1>2, BacktrackInLoop

(* rephase backtracks to the root.                                         *)
LEMMA RephaseInv ==
    ASSUME CdclInv, Rephase
    PROVE  CdclInv'
<1>1. /\ pc = "loop" /\ ~unsat /\ ~Satisfied /\ trail' = Kept(0) /\ BacktrackControl(0)
      /\ restarts' = restarts + 1 /\ pc' = "propagate"
      /\ UNCHANGED <<problem, learned, lev, reason, todo, conflict, clause, seen, open,
                     uip, idx, unsat, result>>
  BY DEF Rephase, analysis
<1>2. restarts' \in Nat /\ 0 \in 0 .. level
  BY <1>1, Types DEF CdclInv, TypeOK
<1> QED BY <1>1, <1>2, BacktrackInLoop

(* Where decide is called propagation is complete.                         *)
LEMMA LoopComplete ==
    ASSUME CdclInv, pc = "loop", ~unsat
    PROVE  /\ todo = {} /\ conflict = None /\ propagated = Len(trail)
           /\ \A c \in Clauses : Complete(trail, c)
<1>1. todo = {} /\ conflict = None /\ propagated = Len(trail) /\ Len(trail) \in Nat
  BY Types DEF CdclInv, PropagationInv
<1>2. Propagates(trail, propagated, Clauses, todo)
  BY <1>1 DEF CdclInv, PropagationInv
<1>3. \A c \in Clauses : ~Pending(trail, propagated, c)
  BY <1>1 DEF Pending
<1> QED BY <1>1, <1>2, <1>3 DEF Propagates

(* A frame is opened: for an assumption or for the constraint it is true.  *)
OpensFor(p, t, lv, i, l) ==
    /\ i <= Len(p.assumptions) =>
          /\ l \in {0, p.assumptions[i]}
          /\ On(t, p.assumptions[i]) /\ lv[Var(p.assumptions[i])] <= i
    /\ i = Len(p.assumptions) + 1 /\ p.constraint # << >> =>
          \E j \in 1 .. Len(p.constraint) : On(t, p.constraint[j]) /\ lv[Var(p.constraint[j])] <= i

(* A level that is opened for its assumption, or for the constraint, keeps *)
(* the assumed levels first.                                               *)
LEMMA OpenAssumed ==
    ASSUME NEW p, NEW t, NEW lv, NEW F, NEW ct \in Seq(F), AssumptionsDecided(p, t, lv, ct),
           NEW f \in F, OpensFor(p, t, lv, Len(ct) + 1, f.decision)
    PROVE  AssumptionsDecided(p, t, lv, Append(ct, f))
<1>1. /\ Len(Append(ct, f)) = Len(ct) + 1 /\ Append(ct, f)[Len(ct) + 1] = f
      /\ \A i \in 1 .. Len(ct) : Append(ct, f)[i] = ct[i]
      /\ \A i \in 1 .. Len(ct) + 1 : i \in 1 .. Len(ct) \/ i = Len(ct) + 1
  BY Extended
<1> SUFFICES ASSUME NEW i \in 1 .. Len(ct) + 1
             PROVE  /\ i <= Len(p.assumptions) =>
                          /\ Append(ct, f)[i].decision \in {0, p.assumptions[i]}
                          /\ On(t, p.assumptions[i]) /\ lv[Var(p.assumptions[i])] <= i
                    /\ i = Len(p.assumptions) + 1 /\ p.constraint # << >> =>
                          \E j \in 1 .. Len(p.constraint) :
                              On(t, p.constraint[j]) /\ lv[Var(p.constraint[j])] <= i
  BY <1>1 DEF AssumptionsDecided
<1>2. CASE i \in 1 .. Len(ct)
  BY <1>1, <1>2 DEF AssumptionsDecided
<1>3. CASE i = Len(ct) + 1
  BY <1>1, <1>3 DEF OpensFor
<1> QED BY <1>1, <1>2, <1>3

(* What does not depend on the decision.                                   *)
LEMMA DecisionKeeps ==
    ASSUME CdclInv, pc = "loop", ~unsat, pc' = "propagate",
           UNCHANGED <<problem, learned, propagated, todo, conflict, clause, seen, open, uip,
                       idx, unsat, result, restarts>>,
           AssignmentInv', NEW l \in LitsOf(problem) \cup {0},
           trail' = trail \/ trail' = Append(trail, l),
           control' = Append(control, [decision |-> l, trail |-> Len(trail)])
    PROVE  /\ TypeOK' /\ LearnedFollows' /\ PropagationInv' /\ ConflictInv' /\ AnalysisInv'
           /\ AnswerInv' /\ level' = level + 1
<1>1. /\ problem \in Problems /\ Clauses \in SUBSET (SUBSET LitsOf(problem))
      /\ trail \in Seq(LitsOf(problem) \cup {0}) /\ Len(trail) \in Nat
      /\ level \in Nat /\ level = Len(control)
      /\ SearchState(problem, trail, lev, reason, control, Clauses)
  BY Types DEF level
<1>2. /\ todo = {} /\ conflict = None /\ propagated = Len(trail)
      /\ \A c \in Clauses : Complete(trail, c)
  BY LoopComplete
<1>3. Vars' = Vars /\ Lits' = Lits /\ Clauses' = Clauses
  BY DEF Vars, Lits, Clauses, formula
<1>4. /\ Len(trail') \in Nat /\ Len(trail') >= Len(trail)
  BY <1>1, Extended
<1>5. /\ Len(control') = level + 1 /\ control'[level + 1].trail = Len(trail)
      /\ \A i \in 1 .. level : control'[i] = control[i]
      /\ \A i \in 1 .. level + 1 : i \in 1 .. level \/ i = level + 1
  <2>1. control \in Seq([decision : LitsOf(problem) \cup {0}, trail : Nat])
    BY <1>1 DEF SearchState, Shape
  <2>2. [decision |-> l, trail |-> Len(trail)]
           \in [decision : LitsOf(problem) \cup {0}, trail : Nat]
    BY <1>1
  <2> DEFINE F == [decision : LitsOf(problem) \cup {0}, trail : Nat]
             f == [decision |-> l, trail |-> Len(trail)]
  <2>3. f.trail = Len(trail) /\ control' = Append(control, f)
    OBVIOUS
  <2> HIDE DEF F, f
  <2>4. control \in Seq(F) /\ f \in F
    BY <2>1, <2>2 DEF F, f
  <2> QED BY <1>1, <2>3, <2>4, Extended
<1>6. level' = level + 1
  BY <1>5 DEF level
<1>7. TypeOK'
  <2>1. propagated' \in 0 .. Len(trail')
    BY <1>1, <1>2, <1>4
  <2> QED BY <1>3, <2>1 DEF CdclInv, TypeOK
<1>8. LearnedFollows'
  BY DEF CdclInv, LearnedFollows
<1>9. PropagationInv'
  <2>1. \A i \in 1 .. level + 1 : control'[i].trail <= propagated
    <3>1. \A i \in 1 .. level : control[i].trail <= propagated
      BY DEF CdclInv, PropagationInv
    <3>2. control'[level + 1].trail <= propagated
      BY <1>1, <1>2, <1>5
    <3> QED BY <1>5, <3>1, <3>2
  <2>2. Propagates(trail', propagated, Clauses, {})
    <3> SUFFICES ASSUME NEW c \in Clauses
                 PROVE  Complete(trail', c) \/ Pending(trail', propagated, c)
      BY DEF Propagates
    <3>1. c \in SUBSET LitsOf(problem) /\ propagated \in 0 .. Len(trail)
      BY <1>1, <1>2
    <3>2. Complete(trail, c)
      BY <1>2
    <3> QED BY <1>1, <3>1, <3>2, ExtendPropagates
  <2> QED BY <1>2, <1>3, <1>6, <2>1, <2>2 DEF PropagationInv
<1>10. ConflictInv'
  BY <1>2 DEF ConflictInv, Analyzing, None
<1>11. AnalysisInv'
  BY NotAnalyzing DEF CdclInv, Analyzing, analysis
<1>12. AnswerInv'
  BY Unanswered DEF CdclInv
<1> QED BY <1>6, <1>7, <1>8, <1>9, <1>10, <1>11, <1>12

(* decide opens a level without a decision for an assumption or a          *)
(* constraint that holds already.                                          *)
LEMMA PseudoDecisionInv ==
    ASSUME CdclInv, pc = "loop", ~unsat, ~On(trail, 0), PseudoDecision,
           OpensFor(problem, trail, lev, level + 1, 0)
    PROVE  CdclInv'
<1> DEFINE f == [decision |-> 0, trail |-> Len(trail)]
           F == [decision : LitsOf(problem) \cup {0}, trail : Nat]
<1>1. /\ control' = Append(control, f) /\ pc' = "propagate"
      /\ UNCHANGED <<problem, learned, trail, lev, reason, propagated, todo, conflict, clause,
                     seen, open, uip, idx, unsat, result, restarts>>
  BY DEF PseudoDecision, NewLevel, analysis
<1>2. /\ problem \in Problems /\ Len(trail) \in Nat
      /\ Assignment(problem, trail, lev, reason, control, Clauses)
      /\ SearchState(problem, trail, lev, reason, control, Clauses)
      /\ level = Len(control)
  BY Types DEF level
<1>3. \A c \in Clauses : Complete(trail, c)
  BY LoopComplete
<1>4. SearchState(problem, trail, lev, reason, control', Clauses)
  BY <1>1, <1>2, <1>3, OpenFrame
<1>5. AssumptionsDecided(problem, trail, lev, control')
  <2>1. control \in Seq(F) /\ f \in F /\ f.decision = 0
    BY <1>2 DEF SearchState, Shape
  <2> HIDE DEF f, F
  <2> QED BY <1>1, <1>2, <2>1, OpenAssumed DEF Assignment
<1>6. AssignmentInv'
  BY <1>1, <1>2, <1>4, <1>5 DEF AssignmentInv, Assignment, Clauses, formula
<1>7. ZeroInv'
  BY <1>1 DEF ZeroInv
<1> QED BY <1>1, <1>6, <1>7, DecisionKeeps DEF CdclInv

(* search_assume_decision; the literal is 0 where no variable is left.     *)
LEMMA AssumeDecisionInv ==
    ASSUME CdclInv, pc = "loop", ~unsat, ~On(trail, 0),
           NEW l \in LitsOf(problem) \cup {0}, ~On(trail, l), ~On(trail, -l), AssumeDecision(l),
           level + 1 <= Len(Assumptions) => l = Assumptions[level + 1],
           level + 1 = Len(Assumptions) + 1 /\ Constraint # << >> =>
               \E j \in 1 .. Len(Constraint) : l = Constraint[j],
           l = 0 => /\ level >= Len(Assumptions) + ConstraintLevels
                    /\ Len(trail) + 1 = Cardinality(Vars)
                    /\ \A v, w \in Vars : Free(trail, v) /\ Free(trail, w) => v = w
    PROVE  CdclInv'
<1> DEFINE f == [decision |-> l, trail |-> Len(trail)]
           F == [decision : LitsOf(problem) \cup {0}, trail : Nat]
           n == level + 1
<1>1. /\ control' = Append(control, f) /\ pc' = "propagate"
      /\ trail' = Append(trail, l)
      /\ lev' = [lev EXCEPT ![Var(l)] = n]
      /\ reason' = [reason EXCEPT ![Var(l)] = None]
      /\ UNCHANGED <<problem, learned, propagated, todo, conflict, clause, seen, open, uip,
                     idx, unsat, result, restarts>>
  BY DEF AssumeDecision, NewLevel, analysis
<1>2. /\ problem \in Problems /\ Len(trail) \in Nat
      /\ trail \in Seq(LitsOf(problem) \cup {0})
      /\ Assignment(problem, trail, lev, reason, control, Clauses)
      /\ SearchState(problem, trail, lev, reason, control, Clauses)
      /\ level = Len(control) /\ level \in Nat /\ n \in Nat
  BY Types DEF level
<1>3. \A c \in Clauses : Complete(trail, c)
  BY LoopComplete
<1>4. SearchState(problem, trail, lev, reason, control', Clauses)
  BY <1>1, <1>2, <1>3, OpenFrame
<1>5. control \in Seq(F) /\ f \in F /\ f.decision = l /\ f.trail = Len(trail)
  BY <1>2 DEF SearchState, Shape
<1> HIDE DEF f, F
<1>6. Len(control') = n /\ control'[n] = f
  BY <1>1, <1>2, <1>5, Extended
<1>7. SearchState(problem, trail', lev', reason', control', Clauses)
  <2>1. n \in 0 .. Len(control') /\ n = Len(control') /\ n # 0
    BY <1>2, <1>6
  <2>2. control'[n].trail = Len(trail) /\ control'[n].decision = l
    BY <1>5, <1>6
  <2>3. None \in SUBSET LitsOf(problem) /\ None = None
    BY DEF None
  <2>4. SearchState(problem, Append(trail, l), [lev EXCEPT ![Var(l)] = n],
                    [reason EXCEPT ![Var(l)] = IF n = 0 THEN None ELSE None], control', Clauses)
    BY <1>2, <1>4, <2>1, <2>2, <2>3, ExtendTrail
  <2> QED BY <1>1, <2>4
<1>8. /\ AssumptionsDecided(problem, trail', lev', control)
      /\ UnitsAssigned(problem, trail', lev')
  BY <1>1, <1>2, ExtendAssumed
<1>9. On(trail', l) /\ lev'[Var(l)] = n
  <2>1. lev \in [problem.vars \cup {0} -> Nat] /\ Var(l) \in problem.vars \cup {0}
    BY <1>2, OneAssignment DEF SearchState, Shape
  <2>2. /\ Len(trail') = Len(trail) + 1 /\ trail'[Len(trail) + 1] = l
        /\ Len(trail) + 1 \in 1 .. Len(trail')
    BY <1>1, <1>2, Extended
  <2> QED BY <1>1, <2>1, <2>2 DEF On
<1>10. AssumptionsDecided(problem, trail', lev', control')
  <2>1. OpensFor(problem, trail', lev', n, l)
    BY <1>2, <1>9, SMTT(30) DEF OpensFor, Assumptions, Constraint
  <2> QED BY <1>1, <1>2, <1>5, <1>8, <2>1, OpenAssumed
<1>11. AssignmentInv'
  BY <1>1, <1>7, <1>8, <1>10 DEF AssignmentInv, Assignment, Clauses, formula
<1>12. /\ TypeOK' /\ LearnedFollows' /\ PropagationInv' /\ ConflictInv' /\ AnalysisInv'
       /\ AnswerInv' /\ level' = n
  BY <1>1, <1>11, DecisionKeeps DEF f
<1>13. ZeroInv'
  <2>1. /\ Len(trail') = Len(trail) + 1 /\ trail'[Len(trail) + 1] = l
        /\ \A k \in 1 .. Len(trail) : trail'[k] = trail[k]
        /\ \A k \in 1 .. Len(trail) + 1 : k \in 1 .. Len(trail) \/ k = Len(trail) + 1
    BY <1>1, <1>2, Extended
  <2>2. CASE l # 0
    <3>1. ~On(trail', 0)
      BY <2>1, <2>2 DEF On
    <3> QED BY <3>1 DEF ZeroInv
  <2>3. CASE l = 0
    <3>1. todo = {} /\ conflict = None /\ propagated = Len(trail)
      BY LoopComplete
    <3>2. Satisfied'
      <4>1. /\ Len(Assumptions)' = Len(Assumptions) /\ ConstraintLevels' = ConstraintLevels
            /\ Vars' = Vars
        BY <1>1 DEF Assumptions, ConstraintLevels, Constraint, Vars
      <4>2. level + 1 >= Len(Assumptions) + ConstraintLevels
        <5>1. Len(Assumptions) \in Nat /\ ConstraintLevels \in Nat
          BY <1>2, CdclAssumption DEF Assumptions, ConstraintLevels
        <5> QED BY <1>2, <2>3, <5>1
      <4> QED BY <1>12, <2>1, <2>3, <4>1, <4>2 DEF Satisfied
    <3>3. \A v, w \in Vars : Free(trail', v) /\ Free(trail', w) => v = w
      <4>1. \A x : On(trail, x) => On(trail', x)
        <5>1. \A k \in 1 .. Len(trail) : k \in 1 .. Len(trail')
          BY <1>2, <2>1
        <5> QED BY <2>1, <5>1 DEF On
      <4> QED BY <2>3, <4>1 DEF Free
    <3> QED BY <1>1, <1>2, <2>1, <2>3, <3>1, <3>2, <3>3 DEF ZeroInv, Vars
  <2> QED BY <2>2, <2>3
<1> QED BY <1>11, <1>12, <1>13 DEF CdclInv

(* The literals of the assumptions and of the constraint.                  *)
LEMMA AssumedLiterals ==
    ASSUME problem \in Problems
    PROVE  /\ Len(Assumptions) \in Nat /\ Len(Constraint) \in Nat
           /\ \A k \in 1 .. Len(Assumptions) : Assumptions[k] \in LitsOf(problem)
           /\ \A k \in 1 .. Len(Constraint) : Constraint[k] \in LitsOf(problem)
<1>1. Assumptions \in Seq(LitsOf(problem)) /\ Constraint \in Seq(LitsOf(problem))
  BY CdclAssumption DEF Assumptions, Constraint, LitsOf
<1> QED BY <1>1

(* Where decide runs the literal 0 is not on the trail.                    *)
LEMMA DecidingFacts ==
    ASSUME CdclInv, Deciding
    PROVE  /\ pc = "loop" /\ ~unsat /\ ~Satisfied /\ ~On(trail, 0)
           /\ problem \in Problems /\ level \in Nat /\ level = Len(control)
           /\ SearchState(problem, trail, lev, reason, control, Clauses)
           /\ \A l : (IsTrue(l) <=> On(trail, l)) /\ (IsFalse(l) <=> On(trail, -l))
           /\ \A l : IsUnassigned(l) <=> ~On(trail, l) /\ ~On(trail, -l)
           /\ \A l : On(trail, l) => lev[Var(l)] <= level + 1
<1>1. pc = "loop" /\ ~unsat /\ ~Satisfied
  BY DEF Deciding
<1>2. ~On(trail, 0)
  BY <1>1 DEF CdclInv, ZeroInv
<1>3. /\ problem \in Problems /\ level \in Nat /\ level = Len(control)
      /\ SearchState(problem, trail, lev, reason, control, Clauses)
  BY Types DEF level
<1>4. \A l : (IsTrue(l) <=> On(trail, l)) /\ (IsFalse(l) <=> On(trail, -l))
  BY DEF IsTrue, IsFalse, Assigned, On
<1>5. \A l : IsUnassigned(l) <=> ~On(trail, l) /\ ~On(trail, -l)
  BY <1>4 DEF IsUnassigned
<1>6. \A l : On(trail, l) => lev[Var(l)] <= level + 1
  <2> SUFFICES ASSUME NEW l, On(trail, l) PROVE lev[Var(l)] <= level + 1
    OBVIOUS
  <2>1. lev[Var(l)] \in 0 .. level
    BY <1>3, OneAssignment
  <2> QED BY <1>3, <2>1
<1> QED BY <1>1, <1>2, <1>3, <1>4, <1>5, <1>6

(* decide takes the next assumption, or answers 20 if it is false.         *)
LEMMA DecideAssumptionInv ==
    ASSUME CdclInv, DecideAssumption
    PROVE  CdclInv'
<1> DEFINE l == Assumptions[level + 1]
<1>1. Deciding /\ level < Len(Assumptions)
  BY DEF DecideAssumption
<1>2. /\ pc = "loop" /\ ~unsat /\ ~On(trail, 0)
      /\ problem \in Problems /\ level \in Nat
      /\ (IsTrue(l) => On(trail, l) /\ lev[Var(l)] <= level + 1)
      /\ (IsFalse(l) => On(trail, -l))
      /\ (IsUnassigned(l) => ~On(trail, l) /\ ~On(trail, -l))
  BY <1>1, DecidingFacts
<1>3. l \in LitsOf(problem) /\ Len(Assumptions) \in Nat /\ level + 1 \in 1 .. Len(Assumptions)
  BY <1>1, <1>2, AssumedLiterals
<1>4. CASE IsFalse(l) /\ Answer(20)
  <2>1. Models(Query) = {}
    <3> SUFFICES ASSUME NEW m \in Models(Query) PROVE FALSE
      OBVIOUS
    <3>1. Holds(m, l)
      BY <1>3, QueryModels
    <3>2. level <= Len(Assumptions) /\ On(trail, -l)
      BY <1>1, <1>2, <1>3, <1>4
    <3> HIDE DEF l
    <3>3. Holds(m, -l)
      BY <3>2, AssumedHold
    <3> QED BY <1>2, <1>3, <3>1, <3>3, HoldsNot
  <2>2. AnswerCorrect'
    BY <1>4, <2>1, SameQuery DEF Answer, AnswerCorrect
  <2> QED BY <1>2, <1>4, <2>2, AnswerInvKept
<1>5. CASE IsTrue(l) /\ PseudoDecision
  <2>1. OpensFor(problem, trail, lev, level + 1, 0)
    BY <1>2, <1>3, <1>5 DEF OpensFor, Assumptions
  <2> QED BY <1>2, <1>5, <2>1, PseudoDecisionInv
<1>6. CASE IsUnassigned(l) /\ AssumeDecision(l)
  <2>1. /\ l # 0 /\ l \in LitsOf(problem) \cup {0}
        /\ level + 1 <= Len(Assumptions) => l = Assumptions[level + 1]
        /\ ~(level + 1 = Len(Assumptions) + 1)
    BY <1>2, <1>3, Literals
  <2> HIDE DEF l
  <2> QED BY <1>2, <1>6, <2>1, AssumeDecisionInv
<1> QED BY <1>4, <1>5, <1>6 DEF DecideAssumption

(* decide takes a literal of the constraint, or answers 20 if all are      *)
(* false.                                                                  *)
LEMMA DecideConstraintInv ==
    ASSUME CdclInv, DecideConstraint
    PROVE  CdclInv'
<1> DEFINE lits == {Constraint[k] : k \in 1 .. Len(Constraint)}
<1>1. Deciding /\ level = Len(Assumptions) /\ Constraint # << >>
  BY DEF DecideConstraint
<1>2. /\ pc = "loop" /\ ~unsat /\ ~On(trail, 0)
      /\ problem \in Problems /\ level \in Nat
      /\ \A l : (IsTrue(l) <=> On(trail, l)) /\ (IsFalse(l) <=> On(trail, -l))
      /\ \A l : IsUnassigned(l) <=> ~On(trail, l) /\ ~On(trail, -l)
      /\ \A l : On(trail, l) => lev[Var(l)] <= level + 1
  BY <1>1, DecidingFacts
<1>3. \A k \in 1 .. Len(Constraint) : Constraint[k] \in LitsOf(problem)
  BY <1>2, AssumedLiterals
<1>4. ~(level + 1 <= Len(Assumptions)) /\ level <= Len(Assumptions)
  BY <1>1, <1>2
<1>5. CASE (\E l \in lits : IsTrue(l)) /\ PseudoDecision
  <2>1. PICK k \in 1 .. Len(Constraint) : IsTrue(Constraint[k])
    BY <1>5
  <2>2. On(trail, Constraint[k]) /\ lev[Var(Constraint[k])] <= level + 1
    BY <1>2, <2>1
  <2>3. OpensFor(problem, trail, lev, level + 1, 0)
    BY <1>4, <2>2 DEF OpensFor, Assumptions, Constraint
  <2> QED BY <1>2, <1>5, <2>3, PseudoDecisionInv
<1>6. CASE \E k \in {j \in 1 .. Len(Constraint) : IsUnassigned(Constraint[j])} :
               AssumeDecision(Constraint[k])
  <2>1. PICK k \in 1 .. Len(Constraint) : /\ IsUnassigned(Constraint[k])
                                          /\ AssumeDecision(Constraint[k])
    BY <1>6
  <2>2. PICK l : l = Constraint[k]
    OBVIOUS
  <2>3. /\ l \in LitsOf(problem) \cup {0} /\ l # 0 /\ ~On(trail, l) /\ ~On(trail, -l)
        /\ \E j \in 1 .. Len(Constraint) : l = Constraint[j]
    BY <1>2, <1>3, <2>1, <2>2, Literals
  <2>4. AssumeDecision(l)
    BY <2>1, <2>2
  <2> QED BY <1>2, <1>4, <2>3, <2>4, AssumeDecisionInv
<1>7. CASE (\A l \in lits : IsFalse(l)) /\ Answer(20)
  <2>1. Models(Query) = {}
    <3> SUFFICES ASSUME NEW m \in Models(Query) PROVE FALSE
      OBVIOUS
    <3>1. PICK k \in 1 .. Len(Constraint) : Holds(m, Constraint[k])
      BY <1>1, QueryModels
    <3>2. On(trail, -Constraint[k])
      BY <1>2, <1>7
    <3>3. Holds(m, -Constraint[k])
      BY <1>4, <3>2, AssumedHold
    <3> QED BY <1>2, <1>3, <3>1, <3>3, HoldsNot
  <2>2. AnswerCorrect'
    BY <1>7, <2>1, SameQuery DEF Answer, AnswerCorrect
  <2> QED BY <1>2, <1>7, <2>2, AnswerInvKept
<1> QED BY <1>5, <1>6, <1>7 DEF DecideConstraint

(* decide takes an unassigned variable that is not auxiliary.              *)
LEMMA DecideVariableInv ==
    ASSUME CdclInv, NEW v \in Vars, DecideVariable(v)
    PROVE  CdclInv'
<1>1. /\ Deciding /\ level >= Len(Assumptions) + ConstraintLevels
      /\ IsUnassigned(v) /\ (AssumeDecision(v) \/ AssumeDecision(-v))
  BY DEF DecideVariable, Candidates
<1>2. /\ pc = "loop" /\ ~unsat /\ ~On(trail, 0)
      /\ problem \in Problems /\ level \in Nat
      /\ ~On(trail, v) /\ ~On(trail, -v)
  BY <1>1, DecidingFacts
<1>3. v \in LitsOf(problem) /\ -v \in LitsOf(problem) /\ -(-v) = v /\ v # 0 /\ -v # 0
  BY <1>2, Literals DEF Vars
<1>4. /\ ~(level + 1 <= Len(Assumptions))
      /\ ~(level + 1 = Len(Assumptions) + 1 /\ Constraint # << >>)
  <2>1. Len(Assumptions) \in Nat
    BY <1>2, AssumedLiterals
  <2> QED BY <1>1, <1>2, <2>1 DEF ConstraintLevels
<1>5. ASSUME NEW l \in {v, -v}, AssumeDecision(l) PROVE CdclInv'
  <2>1. l \in LitsOf(problem) \cup {0} /\ l # 0 /\ ~On(trail, l) /\ ~On(trail, -l)
    BY <1>2, <1>3
  <2> QED BY <1>2, <1>4, <1>5, <2>1, AssumeDecisionInv
<1> QED BY <1>1, <1>5

(* The single auxiliary variable is the only one that may be unassigned,   *)
(* and it is, as the search would be over otherwise.                       *)
LEMMA DecideNothingInv ==
    ASSUME CdclInv, DecideNothing
    PROVE  CdclInv'
<1>1. /\ Deciding /\ level >= Len(Assumptions) + ConstraintLevels
      /\ Candidates = {} /\ Cardinality(problem.aux) = 1 /\ AssumeDecision(0)
  BY DEF DecideNothing
<1>2. /\ pc = "loop" /\ ~unsat /\ ~Satisfied /\ ~On(trail, 0)
      /\ problem \in Problems /\ level \in Nat
      /\ SearchState(problem, trail, lev, reason, control, Clauses)
      /\ \A l : IsUnassigned(l) <=> ~On(trail, l) /\ ~On(trail, -l)
  BY <1>1, DecidingFacts
<1>3. /\ ~(level + 1 <= Len(Assumptions))
      /\ ~(level + 1 = Len(Assumptions) + 1 /\ Constraint # << >>)
  <2>1. Len(Assumptions) \in Nat
    BY <1>2, AssumedLiterals
  <2> QED BY <1>1, <1>2, <2>1 DEF ConstraintLevels
<1>4. /\ OnVars(trail) \in SUBSET problem.vars /\ IsFiniteSet(problem.vars)
      /\ Cardinality(OnVars(trail)) = Len(trail)
      /\ \A v \in problem.vars : Free(trail, v) <=> v \notin OnVars(trail)
  BY <1>2, TrailCount
<1>5. PICK a : problem.aux = {a}
  <2>1. problem.aux \subseteq problem.vars
    BY <1>2, CdclAssumption
  <2>2. IsFiniteSet(problem.aux)
    BY <1>4, <2>1, FS_Subset
  <2> QED BY <1>1, <2>2, FS_Singleton
<1>6. \A v \in Vars : Free(trail, v) => v = a
  BY <1>1, <1>2, <1>5 DEF Candidates, IsAux, Free
<1>7. problem.vars \ {a} \subseteq OnVars(trail)
  BY <1>4, <1>6 DEF Vars
<1>8. a \notin OnVars(trail)
  <2> SUFFICES ASSUME a \in OnVars(trail) PROVE FALSE
    OBVIOUS
  <2>1. OnVars(trail) = problem.vars
    BY <1>4, <1>7
  <2>2. Len(trail) = Cardinality(Vars)
    BY <1>4, <2>1 DEF Vars
  <2> QED BY <1>1, <1>2, <2>2 DEF Satisfied
<1>9. Len(trail) + 1 = Cardinality(Vars)
  <2>1. OnVars(trail) = problem.vars \ {a}
    BY <1>4, <1>7, <1>8
  <2>2. a \in problem.vars
    BY <1>2, <1>5, CdclAssumption
  <2>3. Cardinality(problem.vars \ {a}) = Cardinality(problem.vars) - 1
    BY <1>4, <2>2, FS_RemoveElement
  <2>4. Cardinality(problem.vars) \in Nat
    BY <1>4, FS_CardinalityType
  <2> QED BY <1>4, <2>1, <2>3, <2>4 DEF Vars
<1>10. \A v, w \in Vars : Free(trail, v) /\ Free(trail, w) => v = w
  BY <1>6
<1>11. PICK l \in {0} : AssumeDecision(l)
  BY <1>1
<1>12. l \in LitsOf(problem) \cup {0} /\ ~On(trail, l) /\ ~On(trail, -l)
  <2>1. ~On(trail, -l)
    <3> SUFFICES ASSUME On(trail, -l), -l # 0 PROVE FALSE
      BY <1>2
    <3>1. -l \in LitsOf(problem) \cup {0}
      BY <1>2, OneAssignment
    <3>2. -(-l) = l
      <4>1. \A z \in Int : -(-z) = z
        OBVIOUS
      <4>2. l \in Int
        OBVIOUS
      <4> QED BY <4>1, <4>2
    <3>3. l \in LitsOf(problem)
      BY <1>2, <3>1, <3>2, Literals
    <3> QED BY <1>2, <3>3, Literals
  <2> QED BY <1>2, <2>1
<1> QED BY <1>1, <1>2, <1>3, <1>9, <1>10, <1>11, <1>12, AssumeDecisionInv

-----------------------------------------------------------------------------
(* A step that leaves the state of the loop alone.                         *)
LEMMA SameState ==
    ASSUME CdclInv, UNCHANGED vars
    PROVE  CdclInv'
<1>1. UNCHANGED <<problem, learned, trail, lev, reason, control, propagated, todo, conflict,
                  clause, seen, open, uip, idx, unsat, result, restarts, pc>>
  BY DEF vars
<1>2. AssignmentInv' /\ LearnedFollows' /\ Clauses' = Clauses /\ level' = level
  BY <1>1, SameAssignment DEF CdclInv
<1>3. TypeOK'
  BY <1>1, <1>2 DEF CdclInv, TypeOK, Lits, Vars
<1>4. PropagationInv'
  BY <1>1, <1>2 DEF CdclInv, PropagationInv
<1>5. ConflictInv'
  BY <1>1 DEF CdclInv, ConflictInv, Analyzing
<1>6. AnalysisInv'
  BY <1>1, <1>2 DEF CdclInv, AnalysisInv, Analyzing, UipAux, IsAux
<1>7. ZeroInv'
  BY <1>1, <1>2 DEF CdclInv, ZeroInv, Satisfied, Assumptions, ConstraintLevels, Constraint, Vars
<1>8. AnswerInv'
  <2>1. AnswerCorrect'
    BY <1>1, SameQuery DEF CdclInv, AnswerInv, AnswerCorrect, IsTrue, Assigned
  <2> QED BY <1>1, <2>1 DEF CdclInv, AnswerInv
<1> QED BY <1>2, <1>3, <1>4, <1>5, <1>6, <1>7, <1>8 DEF CdclInv

(* Every step of the loop preserves the invariant.                         *)
LEMMA NextInv ==
    ASSUME CdclInv, AuxInv, Next
    PROVE  CdclInv'
<1>1. ASSUME PropagateSteps PROVE CdclInv'
  BY <1>1, PropagateLiteralInv, VisitClauseInv, VisitEndInv, PropagateEndInv DEF PropagateSteps
<1>2. ASSUME AnalyzeSteps PROVE CdclInv'
  <2>1. ASSUME NEW l \in conflict, AnalyzeForced(l) PROVE CdclInv'
    BY <2>1, AnalyzeForcedInv
  <2>2. ASSUME NEW l \in clause, AuxResolve(l) PROVE CdclInv'
    BY <2>2, AuxResolveInv
  <2>3. ASSUME NEW n \in 0 .. level - 1, Learn(n) PROVE CdclInv'
    BY <2>3, LearnInv
  <2> QED BY <1>2, <2>1, <2>2, <2>3, AnalyzeStartInv, ResolveInv, AuxResolveEndInv,
             MinimizeClauseInv DEF AnalyzeSteps
<1>3. ASSUME DecideSteps PROVE CdclInv'
  BY <1>3, DecideAssumptionInv, DecideConstraintInv, DecideVariableInv, DecideNothingInv
     DEF DecideSteps
<1>4. ASSUME NEW n \in 0 .. level, Restart(n) PROVE CdclInv'
  BY <1>4, RestartInv
<1>5. ASSUME Done PROVE CdclInv'
  BY <1>5, SameState DEF Done
<1> QED BY <1>1, <1>2, <1>3, <1>4, <1>5, AnswerUnsatInv, AnswerSatInv, RephaseInv DEF Next

(* What the runs check follows from the invariant.                         *)
LEMMA InvGraph ==
    ASSUME CdclInv
    PROVE  ImplicationGraph
BY Types DEF SearchState, Graph, ReasonAt, LevelAt, ImplicationGraph

(* The invariant implies that no clause is unit or falsified when          *)
(* propagate ends without a conflict.                                      *)
LEMMA InvComplete ==
    ASSUME CdclInv
    PROVE  PropagationComplete
<1> SUFFICES ASSUME pc = "loop", ~unsat, NEW c \in Clauses, \A l \in c : ~IsTrue(l)
             PROVE  Cardinality({l \in c : IsUnassigned(l)}) > 1
  BY DEF PropagationComplete
<1>1. Complete(trail, c) /\ ClauseShape(c)
  BY LoopComplete, Types
<1>2. \A l : (IsTrue(l) <=> On(trail, l)) /\ (IsUnassigned(l) <=> Free(trail, l))
  BY DEF IsTrue, IsUnassigned, IsFalse, Assigned, On, Free
<1>3. PICK l, o \in c : l # o /\ Free(trail, l) /\ Free(trail, o)
  BY <1>1, <1>2 DEF Complete
<1> DEFINE S == {x \in c : IsUnassigned(x)}
<1>4. l \in S /\ o \in S /\ l # o
  BY <1>2, <1>3
<1>5. IsFiniteSet(S)
  BY <1>1, FS_Subset DEF ClauseShape
<1> HIDE DEF S
<1>6. Cardinality(S) > 1
  BY <1>4, <1>5, Several
<1> QED BY <1>6 DEF S

(* The invariant implies that learned clauses follow from the formula and  *)
(* drive the search on.                                                    *)
LEMMA InvLearned ==
    ASSUME CdclInv
    PROVE  LearnedRight
<1>1. /\ problem \in Problems /\ level \in Nat
      /\ SearchState(problem, trail, lev, reason, control, Clauses)
      /\ clause \in SUBSET LitsOf(problem)
  BY Types DEF CdclInv, TypeOK, Lits, LitsOf, Vars
<1>2. LearnedEntailed
  <2>1. Models(Original) = ModelsOf(problem)
    BY DEF Models, ModelsOf, Original, Originals, formula, Vars
  <2>2. \A c \in learned : Follows(problem, c)
    BY DEF CdclInv, LearnedFollows
  <2>3. ASSUME NEW m \in ModelsOf(problem), NEW l \in RootLiterals PROVE Holds(m, l)
    <3>1. PICK k \in 1 .. Len(trail) : l = trail[k] /\ lev[Var(trail[k])] = 0
      BY DEF RootLiterals
    <3>2. On(trail, l) /\ lev[Var(l)] = 0
      BY <3>1 DEF On
    <3> QED BY <1>1, <3>2, RootHolds
  <2>4. ModelsOf(problem) # {} => ~unsat
    BY DEF CdclInv, ConflictInv
  <2> QED BY <2>1, <2>2, <2>3, <2>4 DEF LearnedEntailed, Follows
<1>3. LearnedAsserting
  <2> SUFFICES ASSUME pc = "learn"
               PROVE  /\ -uip \in clause
                      /\ \A n \in BacktrackLevels :
                            /\ n < level
                            /\ \A l \in clause \ {-uip} : lev[Var(l)] <= n /\ IsFalse(l)
    BY DEF LearnedAsserting
  <2>1. Derived(problem, trail, lev, level, clause, uip) /\ level > 0
    BY DEF CdclInv, AnalysisInv, Analyzing
  <2>2. /\ JumpLevel \in 0 .. level - 1
        /\ \A o \in clause \ {-uip} : lev[Var(o)] <= JumpLevel
    BY <1>1, <2>1, JumpRight
  <2>3. \A n \in BacktrackLevels : n \in 0 .. level /\ n < level /\ JumpLevel <= n
    BY <1>1, <2>1, <2>2, BacktrackLevelsRight
  <2>4. \A l \in clause \ {-uip} : IsFalse(l) /\ lev[Var(l)] \in 1 .. level - 1
    BY <2>1 DEF Derived, FalseBelow, IsFalse, Assigned, On
  <2>5. \A n \in BacktrackLevels, l \in clause \ {-uip} : lev[Var(l)] <= n
    <3> SUFFICES ASSUME NEW n \in BacktrackLevels, NEW l \in clause \ {-uip}
                 PROVE  lev[Var(l)] <= n
      OBVIOUS
    <3> QED BY <1>1, <2>2, <2>3, <2>4
  <2> QED BY <2>1, <2>3, <2>4, <2>5 DEF Derived
<1> QED BY <1>2, <1>3 DEF LearnedRight

-----------------------------------------------------------------------------
(* What the steps keep that the searches before the loop need. *)

(* A literal on the root level stays there. *)
RootKept == \A l : On(trail, l) /\ lev[Var(l)] = 0 => On(trail', l) /\ lev'[Var(l)] = 0

(* What a step of propagate changes: it assigns no unit on a higher level, *)
(* as long as the root level comes first on the trail.                     *)
PropagateStep ==
    /\ pc \in {"propagate", "visit"} /\ pc' \in {"propagate", "visit", "analyze", "loop"}
    /\ UNCHANGED <<problem, learned, control, clause, seen, open, uip, idx, unsat, result,
                   restarts>>
    /\ RootKept
    /\ RootFirst /\ level > 0 => RootFirst'
    /\ ~On(trail, 0) => ~On(trail', 0)
    /\ trail' = trail \/ pc' = "visit"

(* A clause that becomes unit while the root level comes first has a       *)
(* literal that was made false above the root level.                       *)
LEMMA UnitAboveRoot ==
    ASSUME CdclInv, RootFirst, level > 0, NEW c \in Clauses, NEW l \in c,
           ~On(trail, l), ~On(trail, -l), \A o \in c \ {l} : On(trail, -o)
    PROVE  AssignmentLevel(l, c, level) \in Nat /\ AssignmentLevel(l, c, level) > 0
<1>1. /\ problem \in Problems /\ Clauses \in SUBSET (SUBSET LitsOf(problem))
      /\ SearchState(problem, trail, lev, reason, control, Clauses)
      /\ ClauseShape(c) /\ Len(trail) \in Nat
      /\ level \in Nat /\ level = Len(control)
  BY Types DEF level
<1>2. c \in SUBSET LitsOf(problem) /\ c # None
  BY <1>1 DEF ClauseShape
<1>3. \A o \in c \ {l} : /\ lev[Var(o)] \in 0 .. level /\ Var(-o) = Var(o) /\ -(-o) = o
                         /\ ~On(trail, o) /\ -o \in LitsOf(problem)
  <2> SUFFICES ASSUME NEW o \in c \ {l}
               PROVE  /\ lev[Var(o)] \in 0 .. level /\ Var(-o) = Var(o) /\ -(-o) = o
                      /\ ~On(trail, o) /\ -o \in LitsOf(problem)
    OBVIOUS
  <2>1. o \in LitsOf(problem) /\ On(trail, -o)
    BY <1>2
  <2>2. Var(-o) = Var(o) /\ -(-o) = o /\ -o \in LitsOf(problem)
    BY <1>1, <2>1, Literals
  <2>3. lev[Var(-o)] \in 0 .. level /\ ~On(trail, o)
    BY <1>1, <2>1, OneAssignment
  <2> QED BY <2>1, <2>2, <2>3
<1>4. CASE ~Chrono
  BY <1>1, <1>2, <1>4 DEF AssignmentLevel
<1>5. CASE Chrono
  <2>1. 1 \in 1 .. Len(control)
    BY <1>1
  <2>2. Safe(trail, lev, control, 1, c)
    BY <1>1, <2>1 DEF SearchState, Framed
  <2>3. ~ \E x \in c : On(trail, x)
    BY <1>3
  <2>4. PICK x, y \in c : x # y /\ ~FalseBefore(trail, control, 1, x)
                                /\ ~FalseBefore(trail, control, 1, y)
    BY <2>2, <2>3 DEF Safe
  <2>5. PICK o \in c \ {l} : ~FalseBefore(trail, control, 1, o)
    BY <2>4
  <2>6. PICK k \in 1 .. Len(trail) : trail[k] = -o
    BY <2>5 DEF On
  <2>7. control[1].trail \in 0 .. Len(trail)
    BY <1>1, <2>1, Frames
  <2>8. ~(k <= control[1].trail)
    <3>1. k \in Nat /\ k >= 1
      BY <1>1, <2>6
    <3>2. k <= control[1].trail => k \in 1 .. control[1].trail
      BY <2>7, <3>1
    <3> QED BY <2>5, <2>6, <3>2 DEF FalseBefore
  <2>9. lev[Var(o)] > 0
    <3>1. LevelAt(trail, lev, k) # 0
      BY <2>6, <2>8 DEF RootFirst
    <3>2. LevelAt(trail, lev, k) = lev[Var(o)]
      BY <1>3, <2>5, <2>6 DEF LevelAt
    <3> QED BY <1>1, <1>3, <2>5, <3>1, <3>2
  <2>10. /\ AssignmentLevel(l, c, level) \in 0 .. level
         /\ \A z \in c \ {l} : lev[Var(z)] <= AssignmentLevel(l, c, level)
    BY <1>1, <1>2, <1>3, <1>5, ReasonLevel
  <2>11. lev[Var(o)] <= AssignmentLevel(l, c, level) /\ lev[Var(o)] \in 0 .. level
    BY <1>3, <2>5, <2>10
  <2> HIDE DEF level
  <2> QED BY <1>1, <2>9, <2>10, <2>11
<1> QED BY <1>4, <1>5

(* propagate keeps the invariant.                                          *)
LEMMA PropagateInv ==
    ASSUME CdclInv, PropagateSteps
    PROVE  CdclInv'
BY PropagateLiteralInv, VisitClauseInv, VisitEndInv, PropagateEndInv DEF PropagateSteps

(* What propagate does to the root level.                                  *)
LEMMA PropagateStepRight ==
    ASSUME CdclInv, PropagateSteps
    PROVE  PropagateStep
<1>1. CASE UNCHANGED <<trail, lev>>
  <2>1. /\ pc \in {"propagate", "visit"} /\ pc' \in {"propagate", "visit", "analyze", "loop"}
        /\ UNCHANGED <<problem, learned, control, clause, seen, open, uip, idx, unsat, result,
                       restarts>>
    BY DEF PropagateSteps, PropagateLiteral, VisitClause, VisitEnd, PropagateEnd, analysis,
           assignment
  <2>2. RootKept /\ (RootFirst => RootFirst') /\ (~On(trail, 0) => ~On(trail', 0))
    BY <1>1, <2>1 DEF RootKept, RootFirst, LevelAt, level
  <2> QED BY <1>1, <2>1, <2>2 DEF PropagateStep
<1>2. ASSUME NEW c \in todo, VisitClause(c), ~UNCHANGED <<trail, lev>>
      PROVE  PropagateStep
  <2> DEFINE free == {l \in c : ~IsFalse(l)}
  <2>1. /\ problem \in Problems
        /\ SearchState(problem, trail, lev, reason, control, Clauses)
        /\ trail \in Seq(LitsOf(problem) \cup {0}) /\ Len(trail) \in Nat /\ level \in Nat
    BY Types
  <2>2. /\ pc = "visit" /\ pc' = "visit"
        /\ UNCHANGED <<problem, learned, control, clause, seen, open, uip, idx, unsat, result,
                       restarts>>
    BY <1>2 DEF VisitClause, analysis
  <2>3. c \in Clauses /\ c \in SUBSET LitsOf(problem) /\ c # None
    <3>1. c \in Clauses
      BY DEF CdclInv, TypeOK
    <3> QED BY <3>1, Types DEF ClauseShape
  <2>4. PICK l \in free : free = {l} /\ IsUnassigned(l) /\ SearchAssign(trail, l, c, level)
    BY <1>2 DEF VisitClause
  <2>5. l \in c /\ l \in LitsOf(problem) /\ ~On(trail, l) /\ ~On(trail, -l)
        /\ \A o \in c \ {l} : On(trail, -o)
    BY <2>3, <2>4 DEF IsUnassigned, IsTrue, IsFalse, Assigned, On
  <2>6. /\ trail' = Append(trail, l)
        /\ lev' = [lev EXCEPT ![Var(l)] = AssignmentLevel(l, c, level)]
    BY <2>4 DEF SearchAssign
  <2>7. /\ Len(trail') = Len(trail) + 1
        /\ \A k \in 1 .. Len(trail) : trail'[k] = trail[k] /\ k \in 1 .. Len(trail) + 1
        /\ trail'[Len(trail) + 1] = l /\ Len(trail) + 1 \in 1 .. Len(trail) + 1
        /\ \A k \in 1 .. Len(trail) + 1 : k \in 1 .. Len(trail) \/ k = Len(trail) + 1
    BY <2>1, <2>5, <2>6, Extended
  <2>8. \A k \in 1 .. Len(trail) : Var(trail[k]) \in problem.vars \cup {0} /\ Var(trail[k]) # Var(l)
    <3> SUFFICES ASSUME NEW k \in 1 .. Len(trail)
                 PROVE  Var(trail[k]) \in problem.vars \cup {0} /\ Var(trail[k]) # Var(l)
      OBVIOUS
    <3>1. trail[k] \in LitsOf(problem) \cup {0} /\ Var(trail[k]) \in problem.vars \cup {0}
      BY <2>1, OneAssignment
    <3>2. Var(trail[k]) = Var(l) => trail[k] = l \/ trail[k] = -l
      BY <2>1, <2>5, <3>1, Literals, SMTT(30)
    <3> QED BY <2>5, <3>1, <3>2 DEF On
  <2>9. lev \in [problem.vars \cup {0} -> Nat] /\ Var(l) \in problem.vars \cup {0}
    BY <2>1, <2>5, OneAssignment DEF SearchState, Shape
  <2>10. \A k \in 1 .. Len(trail) : lev'[Var(trail[k])] = lev[Var(trail[k])]
    BY <2>6, <2>8, <2>9
  <2>11. RootKept
    <3> SUFFICES ASSUME NEW x, On(trail, x), lev[Var(x)] = 0
                 PROVE  On(trail', x) /\ lev'[Var(x)] = 0
      BY DEF RootKept
    <3>1. PICK k \in 1 .. Len(trail) : trail[k] = x
      BY DEF On
    <3> QED BY <2>7, <2>10, <3>1 DEF On
  <2>12. RootFirst /\ level > 0 => RootFirst'
    <3> SUFFICES ASSUME RootFirst, level > 0, NEW k \in 1 .. Len(trail'),
                        LevelAt(trail', lev', k) = 0
                 PROVE  k <= control'[1].trail
      BY <2>2 DEF RootFirst, level
    <3>1. AssignmentLevel(l, c, level) \in Nat /\ AssignmentLevel(l, c, level) > 0
      BY <2>3, <2>5, UnitAboveRoot
    <3>2. lev'[Var(l)] = AssignmentLevel(l, c, level)
      BY <2>6, <2>9
    <3>3. k # Len(trail) + 1
      BY <2>7, <3>1, <3>2 DEF LevelAt
    <3>4. k \in 1 .. Len(trail)
      BY <2>7, <3>3
    <3>5. LevelAt(trail, lev, k) = 0
      BY <2>7, <2>10, <3>4 DEF LevelAt
    <3> QED BY <2>2, <3>4, <3>5 DEF RootFirst
  <2>13. ~On(trail, 0) => ~On(trail', 0)
    <3>1. l # 0
      BY <2>1, <2>5, Literals
    <3> QED BY <2>7, <3>1 DEF On
  <2> QED BY <2>2, <2>11, <2>12, <2>13 DEF PropagateStep
<1> QED
  <2>1. CASE PropagateLiteral \/ VisitEnd \/ PropagateEnd
    BY <1>1, <2>1 DEF PropagateLiteral, VisitEnd, PropagateEnd, assignment
  <2>2. CASE \E c \in todo : VisitClause(c)
    BY <1>1, <1>2, <2>2
  <2> QED BY <2>1, <2>2 DEF PropagateSteps

(* Backtracking, and assigning a literal that was above the root level     *)
(* then, leaves the root level alone.                                      *)
LEMMA BacktrackRoot ==
    ASSUME CdclInv, NEW n \in 0 .. level, trail' = Kept(n), lev' = lev
    PROVE  RootKept
<1>1. \A x : On(Kept(n), x) <=> On(trail, x) /\ lev[Var(x)] <= n
  BY Backtracking DEF BacktrackedTo
<1>2. level \in Nat
  BY Types
<1>3. 0 <= n
  BY <1>2
<1> QED BY <1>1, <1>3 DEF RootKept

(* The literal that analyze assigns after backtracking was above the root  *)
(* level.                                                                  *)
LEMMA BacktrackAssignRoot ==
    ASSUME CdclInv, NEW n \in 0 .. level, NEW l \in LitsOf(problem), lev[Var(l)] > 0, NEW m,
           trail' = Append(Kept(n), l), lev' = [lev EXCEPT ![Var(l)] = m]
    PROVE  RootKept
<1>1. /\ \A x : On(Kept(n), x) <=> On(trail, x) /\ lev[Var(x)] <= n
      /\ Kept(n) \in Seq(LitsOf(problem) \cup {0})
  BY Backtracking DEF BacktrackedTo
<1>2. level \in Nat /\ problem \in Problems
      /\ SearchState(problem, trail, lev, reason, control, Clauses)
  BY Types
<1>3. 0 <= n
  BY <1>2
<1>4. \A k \in 1 .. Len(Kept(n)) : trail'[k] = Kept(n)[k] /\ k \in 1 .. Len(trail')
  BY <1>1, Extended
<1>5. SUFFICES ASSUME NEW x, On(trail, x), lev[Var(x)] = 0
               PROVE  On(trail', x) /\ lev'[Var(x)] = 0
  BY DEF RootKept
<1>6. On(trail', x)
  BY <1>1, <1>3, <1>4, <1>5, SMTT(30) DEF On
<1>7. x \in LitsOf(problem) \cup {0} /\ Var(x) \in problem.vars \cup {0} /\ Var(x) # Var(l)
  BY <1>2, <1>5, OneAssignment
<1>8. lev \in [problem.vars \cup {0} -> Nat]
  BY <1>2 DEF SearchState, Shape
<1> QED BY <1>5, <1>6, <1>7, <1>8

(* analyze keeps the root level and does not go up.                        *)
AnalyzeStep ==
    /\ RootKept /\ problem' = problem
    /\ control' = control \/ \E n \in 0 .. level : control' = SubSeq(control, 1, n)

(* Every step of analyze is such a step.                                   *)
LEMMA AnalyzeStepRight ==
    ASSUME CdclInv, AnalyzeSteps
    PROVE  AnalyzeStep
<1>1. level \in Nat /\ problem \in Problems
      /\ SearchState(problem, trail, lev, reason, control, Clauses)
  BY Types
<1>2. ASSUME NEW l \in conflict, AnalyzeForced(l)
      PROVE  AnalyzeStep
  <2> DEFINE n == ConflictLevel - 1
             m == AssignmentLevel(l, conflict, n)
  <2>1. /\ pc = "analyze" /\ HighestInConflict = {l} /\ problem' = problem
        /\ control' = SubSeq(control, 1, n)
        /\ trail' = Append(Kept(n), l) /\ lev' = [lev EXCEPT ![Var(l)] = m]
    BY <1>2 DEF AnalyzeForced, BacktrackControl, SearchAssign
  <2>2. conflict # None
    BY <2>1 DEF CdclInv, ConflictInv
  <2>3. /\ ClauseShape(conflict) /\ ConflictLevel \in 0 .. level
        /\ \A o \in conflict : /\ o \in LitsOf(problem) /\ lev[Var(o)] \in 0 .. level
                               /\ lev[Var(o)] <= ConflictLevel
    BY <2>2, ConflictFacts
  <2>4. lev[Var(l)] = ConflictLevel /\ \A o \in conflict \ {l} : lev[Var(o)] # ConflictLevel
    BY <2>1 DEF HighestInConflict
  <2>5. PICK o \in conflict \ {l} : TRUE
    BY <2>3 DEF ClauseShape
  <2>6. lev[Var(o)] \in 0 .. level /\ lev[Var(o)] <= ConflictLevel /\ lev[Var(o)] # ConflictLevel
    BY <2>3, <2>4, <2>5
  <2>7. n \in 0 .. level /\ ConflictLevel > 0
    BY <1>1, <2>3, <2>6
  <2>8. lev[Var(l)] > 0 /\ l \in LitsOf(problem)
    BY <2>3, <2>4, <2>7
  <2> HIDE DEF m, n
  <2>9. RootKept
    BY <2>1, <2>7, <2>8, BacktrackAssignRoot
  <2> QED BY <2>1, <2>7, <2>9 DEF AnalyzeStep
<1>3. CASE AnalyzeStart
  <2> DEFINE n == IF Chrono THEN ConflictLevel ELSE level
  <2>1. /\ pc = "analyze" /\ problem' = problem /\ control' = SubSeq(control, 1, n)
        /\ trail' = Kept(n) /\ lev' = lev
    BY <1>3 DEF AnalyzeStart, BacktrackControl
  <2>2. conflict # None
    BY <2>1 DEF CdclInv, ConflictInv
  <2>3. n \in 0 .. level
    BY <1>1, <2>2, ConflictFacts
  <2> HIDE DEF n
  <2>4. RootKept
    BY <2>1, <2>3, BacktrackRoot
  <2> QED BY <2>1, <2>3, <2>4 DEF AnalyzeStep
<1>4. CASE Resolve \/ (\E l \in clause : AuxResolve(l)) \/ AuxResolveEnd \/ MinimizeClause
  <2>1. UNCHANGED <<problem, trail, lev, control>>
    BY <1>4 DEF Resolve, AuxResolve, AuxResolveEnd, MinimizeClause, assignment
  <2> QED BY <2>1 DEF AnalyzeStep, RootKept
<1>5. ASSUME NEW n \in 0 .. level - 1, Learn(n)
      PROVE  AnalyzeStep
  <2> DEFINE l == -uip
  <2>1. PICK m : lev' = [lev EXCEPT ![Var(l)] = m]
    BY <1>5 DEF Learn, SearchAssign
  <2>2. /\ pc = "learn" /\ problem' = problem /\ control' = SubSeq(control, 1, n)
        /\ trail' = Append(Kept(n), l)
    BY <1>5 DEF Learn, BacktrackControl, SearchAssign
  <2>3. Derived(problem, trail, lev, level, clause, uip) /\ level > 0
    BY <2>2 DEF CdclInv, AnalysisInv, Analyzing
  <2>4. On(trail, uip) /\ lev[Var(uip)] = level /\ uip # 0
    BY <2>3 DEF Derived
  <2>5. uip \in LitsOf(problem)
    BY <1>1, <2>4, OneAssignment
  <2>6. l \in LitsOf(problem) /\ Var(l) = Var(uip)
    BY <1>1, <2>5, Literals
  <2>7. n \in 0 .. level
    BY <1>1
  <2> HIDE DEF l
  <2>8. lev[Var(l)] > 0
    BY <2>3, <2>4, <2>6
  <2>9. RootKept
    BY <2>1, <2>2, <2>6, <2>7, <2>8, BacktrackAssignRoot
  <2> QED BY <2>2, <2>7, <2>9 DEF AnalyzeStep
<1> QED BY <1>2, <1>3, <1>4, <1>5 DEF AnalyzeSteps

-----------------------------------------------------------------------------
(* UIPAUX.  The levels that remain have the decisions they had.            *)
LEMMA AuxInvKept ==
    ASSUME CdclInv, AuxInv, problem' = problem,
           control' = control \/ \E n \in 0 .. level : control' = SubSeq(control, 1, n)
    PROVE  AuxInv'
<1>1. level \in Nat /\ level = Len(control)
      /\ control \in Seq([decision : LitsOf(problem) \cup {0}, trail : Nat])
  BY Types DEF level, SearchState, Shape
<1>2. UipAux' = UipAux /\ \A x : IsAux(x)' = IsAux(x)
  BY DEF UipAux, IsAux
<1>3. ASSUME NEW n \in 0 .. level, control' = SubSeq(control, 1, n)
      PROVE  AuxInv'
  <2>1. level' = n /\ \A i \in 1 .. n : control'[i] = control[i] /\ i \in 1 .. level
    BY <1>1, <1>3, KeptFrames DEF level
  <2> QED BY <1>2, <2>1 DEF AuxInv, UipAux, IsAux
<1>4. CASE control' = control
  BY <1>4 DEF AuxInv, UipAux, IsAux, level
<1> QED BY <1>3, <1>4

(* A decision that is not auxiliary. *)
LEMMA AuxInvOpened ==
    ASSUME CdclInv, AuxInv, problem' = problem, NEW l \in LitsOf(problem) \cup {0},
           UipAux => ~IsAux(Var(l)), NewLevel(l)
    PROVE  AuxInv'
<1>1. level \in Nat /\ level = Len(control) /\ Len(trail) \in Nat
      /\ control \in Seq([decision : LitsOf(problem) \cup {0}, trail : Nat])
  BY Types DEF level, SearchState, Shape
<1>2. [decision |-> l, trail |-> Len(trail)] \in [decision : LitsOf(problem) \cup {0}, trail : Nat]
  BY <1>1
<1>3. /\ level' = level + 1
      /\ \A i \in 1 .. level : control'[i] = control[i]
      /\ control'[level + 1].decision = l
      /\ \A i \in 1 .. level + 1 : i \in 1 .. level \/ i = level + 1
  <2> HIDE DEF LitsOf
  <2> QED BY <1>1, <1>2, Extended DEF level, NewLevel
<1> QED BY <1>1, <1>3 DEF AuxInv, UipAux, IsAux

(* decide: the variables that the loop decides are not auxiliary, nor are  *)
(* the assumed ones.                                                       *)
LEMMA DecideAux ==
    ASSUME AuxNotAssumed, CdclInv, AuxInv, DecideSteps
    PROVE  AuxInv'
<1>1. problem \in Problems /\ problem' = problem
  BY Types DEF DecideSteps, DecideAssumption, DecideConstraint, DecideVariable, DecideNothing,
               Answer, AssumeDecision, PseudoDecision
<1>2. /\ \A k \in 1 .. Len(Assumptions) : Assumptions[k] \in LitsOf(problem)
      /\ \A k \in 1 .. Len(Constraint) : Constraint[k] \in LitsOf(problem)
      /\ UipAux => /\ \A k \in 1 .. Len(Assumptions) : ~IsAux(Var(Assumptions[k]))
                   /\ \A k \in 1 .. Len(Constraint) : ~IsAux(Var(Constraint[k]))
  BY <1>1, AssumedLiterals DEF AuxNotAssumed, UipAux, IsAux, Assumptions, Constraint
<1>3. Var(0) = 0 /\ ~IsAux(Var(0)) /\ Vars \subseteq LitsOf(problem)
      /\ \A v \in Vars : v \in Nat /\ -v \in LitsOf(problem) /\ Var(v) = v /\ Var(-v) = v
  <2>1. Var(0) = 0 /\ problem.vars \subseteq Nat \ {0} /\ problem.vars \subseteq LitsOf(problem)
        /\ \A l \in LitsOf(problem) : -l \in LitsOf(problem) /\ Var(-l) = Var(l)
    BY <1>1, Literals
  <2>2. problem.aux \subseteq problem.vars
    BY <1>1, CdclAssumption
  <2>3. \A v \in problem.vars : Var(v) = v
    BY <2>1 DEF Var
  <2> QED BY <2>1, <2>2, <2>3 DEF IsAux, Vars
<1>4. level \in Nat
  BY Types
<1>5. ASSUME control' = control PROVE AuxInv'
  BY <1>1, <1>5, AuxInvKept
<1>6. CASE DecideAssumption
  <2>1. CASE Answer(20)
    BY <1>5, <2>1 DEF Answer, assignment
  <2>2. CASE PseudoDecision
    BY <1>1, <1>3, <2>2, AuxInvOpened DEF PseudoDecision
  <2>3. CASE level < Len(Assumptions) /\ AssumeDecision(Assumptions[level + 1])
    <3>1. level + 1 \in 1 .. Len(Assumptions)
      BY <1>1, <1>4, <2>3, AssumedLiterals
    <3>2. Assumptions[level + 1] \in LitsOf(problem) /\ (UipAux => ~IsAux(Var(Assumptions[level + 1])))
      BY <1>2, <3>1
    <3> QED BY <1>1, <2>3, <3>2, AuxInvOpened DEF AssumeDecision
  <2> QED BY <1>6, <2>1, <2>2, <2>3 DEF DecideAssumption
<1>7. CASE DecideConstraint
  <2>1. CASE Answer(20)
    BY <1>5, <2>1 DEF Answer, assignment
  <2>2. CASE PseudoDecision
    BY <1>1, <1>3, <2>2, AuxInvOpened DEF PseudoDecision
  <2>3. ASSUME NEW k \in 1 .. Len(Constraint), AssumeDecision(Constraint[k])
        PROVE  AuxInv'
    <3>1. Constraint[k] \in LitsOf(problem) /\ (UipAux => ~IsAux(Var(Constraint[k])))
      BY <1>2
    <3> QED BY <1>1, <2>3, <3>1, AuxInvOpened DEF AssumeDecision
  <2> QED BY <1>7, <2>1, <2>2, <2>3 DEF DecideConstraint
<1>8. ASSUME NEW v \in Vars, DecideVariable(v) PROVE AuxInv'
  <2>1. ~IsAux(v) /\ (AssumeDecision(v) \/ AssumeDecision(-v))
    BY <1>8 DEF DecideVariable, Candidates
  <2>2. \E l \in {v, -v} : l \in LitsOf(problem) /\ ~IsAux(Var(l)) /\ AssumeDecision(l)
    BY <1>3, <2>1
  <2> QED BY <1>1, <2>2, AuxInvOpened DEF AssumeDecision
<1>9. CASE DecideNothing
  BY <1>1, <1>3, <1>9, AuxInvOpened DEF DecideNothing, AssumeDecision
<1> QED BY <1>6, <1>7, <1>8, <1>9 DEF DecideSteps

(* Where conflicts are analyzed, no step of the loop decides an auxiliary  *)
(* variable.                                                               *)
LEMMA NextAux ==
    ASSUME AuxNotAssumed, CdclInv, AuxInv, Next
    PROVE  AuxInv'
<1>1. CASE PropagateSteps
  BY <1>1, PropagateStepRight, AuxInvKept DEF PropagateStep
<1>2. CASE AnalyzeSteps
  BY <1>2, AnalyzeStepRight, AuxInvKept DEF AnalyzeStep
<1>3. CASE AnswerUnsat \/ AnswerSat \/ Done
  BY <1>3, AuxInvKept DEF AnswerUnsat, AnswerSat, Answer, assignment, Done, vars
<1>4. CASE (\E n \in 0 .. level : Restart(n)) \/ Rephase
  <2>1. level \in Nat /\ 0 \in 0 .. level
    BY Types
  <2>2. problem' = problem /\ \E n \in 0 .. level : control' = SubSeq(control, 1, n)
    BY <1>4, <2>1 DEF Restart, Rephase, BacktrackControl
  <2> QED BY <2>2, AuxInvKept
<1>5. CASE DecideSteps
  BY <1>5, DecideAux
<1> QED BY <1>1, <1>2, <1>3, <1>4, <1>5 DEF Next

-----------------------------------------------------------------------------
(* The units are on the trail when solving starts, on the root level and   *)
(* each variable once.                                                     *)
LEMMA InitAssignment ==
    ASSUME Init
    PROVE  AssignmentInv /\ ~On(trail, 0) /\ problem \in Problems
           /\ trail \in Seq(LitsOf(problem)) /\ Len(trail) \in Nat /\ level = 0
<1>1. /\ problem \in Problems /\ learned = {} /\ trail = problem.units /\ control = << >>
      /\ lev = [v \in problem.vars \cup {0} |-> 0]
      /\ reason = [v \in problem.vars \cup {0} |-> None]
  BY DEF Init
<1>2. /\ problem.units \in Seq(LitsOf(problem))
      /\ \A j, k \in DOMAIN problem.units :
            j # k => problem.units[j] \notin {problem.units[k], -problem.units[k]}
  BY <1>1, CdclAssumption DEF LitsOf
<1>3. /\ 0 \notin LitsOf(problem) /\ Var(0) = 0
      /\ \A l \in LitsOf(problem) : Var(l) \in problem.vars /\ -l \in LitsOf(problem)
      /\ \A l, o \in LitsOf(problem) : Var(l) = Var(o) <=> l = o \/ l = -o
  BY <1>1, Literals
<1>4. /\ Len(trail) \in Nat /\ Len(control) = 0 /\ DOMAIN trail = 1 .. Len(trail)
      /\ trail \in Seq(LitsOf(problem)) /\ trail \in Seq(LitsOf(problem) \cup {0})
      /\ \A k \in 1 .. Len(trail) : trail[k] \in LitsOf(problem)
  <2> HIDE DEF LitsOf
  <2> QED BY <1>1, <1>2
<1>5. \A k \in 1 .. Len(trail) : /\ LevelAt(trail, lev, k) = 0 /\ ReasonAt(trail, reason, k) = None
                                 /\ Var(trail[k]) \in problem.vars
  BY <1>1, <1>3, <1>4 DEF LevelAt, ReasonAt
<1>6. level = 0 /\ ~On(trail, 0)
  BY <1>3, <1>4 DEF level, On
<1>7. Shape(problem, trail, lev, reason, control)
  <2>1. lev \in [problem.vars \cup {0} -> Nat]
    BY <1>1
  <2>2. reason \in [problem.vars \cup {0} -> SUBSET LitsOf(problem)]
    BY <1>1 DEF None
  <2>3. control \in Seq([decision : LitsOf(problem) \cup {0}, trail : Nat])
    <3> DEFINE F == [decision : LitsOf(problem) \cup {0}, trail : Nat]
    <3> HIDE DEF F
    <3>1. << >> \in Seq(F)
      OBVIOUS
    <3> QED BY <1>1, <3>1 DEF F
  <2> QED BY <1>4, <2>1, <2>2, <2>3 DEF Shape
<1>8. Ordered(problem, trail, lev, control)
  <2>1. \A j, k \in 1 .. Len(trail) : Var(trail[j]) = Var(trail[k]) => j = k
    <3> SUFFICES ASSUME NEW j \in 1 .. Len(trail), NEW k \in 1 .. Len(trail), j # k,
                        Var(trail[j]) = Var(trail[k])
                 PROVE  FALSE
      OBVIOUS
    <3>1. trail[j] = trail[k] \/ trail[j] = -trail[k]
      BY <1>3, <1>4
    <3> QED BY <1>1, <1>2, <1>4, <3>1
  <2>2. \A k \in 1 .. Len(trail) : LevelAt(trail, lev, k) <= Len(control)
    BY <1>4, <1>5
  <2> QED BY <1>4, <2>1, <2>2 DEF Ordered
<1>9. Sound(problem, trail, lev, reason, control)
  <2> SUFFICES ASSUME NEW k \in 1 .. Len(trail), NEW m \in ModelsOf(problem)
               PROVE  Holds(m, trail[k])
    BY <1>5 DEF Sound
  <2>1. {trail[k]} \in Originals(problem)
    BY <1>1, <1>4 DEF Originals
  <2> QED BY <2>1 DEF ModelsOf, Satisfies
<1>10. Decided(trail, lev, reason, control) /\ Graph(trail, lev, reason)
  BY <1>5 DEF Decided, Graph
<1>11. Framed(trail, lev, control, Clauses) /\ AssumptionsDecided(problem, trail, lev, control)
  BY <1>4 DEF Framed, AssumptionsDecided
<1>12. UnitsAssigned(problem, trail, lev)
  BY <1>1, <1>4, <1>5 DEF UnitsAssigned, On, LevelAt
<1>13. SearchState(problem, trail, lev, reason, control, Clauses)
  BY <1>7, <1>8, <1>9, <1>10, <1>11 DEF SearchState
<1> QED
  BY <1>1, <1>4, <1>6, <1>11, <1>12, <1>13 DEF AssignmentInv, Assignment

(* A clause of the formula, with two literals at least, has a false one to *)
(* be propagated, a true one, or two that are free.                        *)
LEMMA InitPropagates ==
    ASSUME Init, TypeOK, LearnedFollows
    PROVE  Propagates(trail, 0, Clauses, {})
<1>1. problem \in Problems /\ Len(trail) \in Nat
  BY InitAssignment
<1> SUFFICES ASSUME NEW c \in Clauses, ~Pending(trail, 0, c), ~Complete(trail, c)
             PROVE  FALSE
  BY <1>1 DEF Propagates
<1>2. c \in SUBSET LitsOf(problem) /\ \E x, y \in c : x # y
  BY ClauseShapes DEF ClauseShape
<1>3. \A l \in c : Free(trail, l)
  <2> SUFFICES ASSUME NEW l \in c PROVE ~On(trail, -l)
    BY DEF Complete, Free
  <2> SUFFICES ASSUME NEW k \in 1 .. Len(trail), trail[k] = -l PROVE FALSE
    BY DEF On
  <2>1. -trail[k] = l
    <3>1. l \in LitsOf(problem) /\ -(-l) = l
      BY <1>1, <1>2, Literals
    <3> QED BY <3>1
  <2>2. 1 .. Len(trail) = 0 + 1 .. Len(trail)
    BY <1>1
  <2> QED BY <2>1, <2>2 DEF Pending
<1> QED BY <1>2, <1>3 DEF Complete

(* internal.cpp: the state in which solve starts satisfies the invariant.  *)
LEMMA InitInv ==
    ASSUME InitSolve
    PROVE  SolveInv
<1>1. /\ Init /\ task = "solved" /\ lucky = 0
  BY DEF InitSolve
<1>2. /\ AssignmentInv /\ ~On(trail, 0) /\ problem \in Problems /\ Len(trail) \in Nat /\ level = 0
  BY <1>1, InitAssignment
<1>3. /\ learned = {} /\ propagated = 0 /\ todo = {} /\ conflict = None /\ clause = {}
      /\ seen = {} /\ open = 0 /\ uip = 0 /\ idx = 0 /\ unsat = FALSE /\ result = 0
      /\ restarts = 0 /\ pc = "propagate"
  BY <1>1 DEF Init
<1>4. TypeOK
  <2>1. propagated \in 0 .. Len(trail)
    BY <1>2, <1>3
  <2> QED BY <1>2, <1>3, <2>1 DEF TypeOK
<1>5. LearnedFollows /\ ConflictInv /\ AnalysisInv /\ ZeroInv
  BY <1>2, <1>3 DEF LearnedFollows, ConflictInv, AnalysisInv, Analyzing, ZeroInv, None
<1>6. PropagationInv
  <2>1. \A i \in 1 .. level : FALSE
    BY <1>2
  <2>2. Propagates(trail, 0, Clauses, {})
    BY <1>1, <1>4, <1>5, InitPropagates
  <2> QED BY <1>2, <1>3, <2>1, <2>2 DEF PropagationInv
<1>7. AnswerInv
  BY <1>3 DEF AnswerInv, AnswerCorrect
<1>8. TaskInv
  <2>1. AuxInv
    BY <1>2 DEF AuxInv
  <2> QED BY <1>1, <1>2, <1>3, <2>1 DEF TaskInv, Analyzing
<1> QED BY <1>2, <1>4, <1>5, <1>6, <1>7, <1>8 DEF SolveInv, CdclInv

-----------------------------------------------------------------------------
(* unlucky and try_to_satisfy_formula_by_saved_phases backtrack to the     *)
(* root.  The root level comes first, so that nothing is left to propagate *)
(* on it.                                                                  *)
LEMMA RootPropagated ==
    ASSUME CdclInv, RootFirst, level > 0
    PROVE  Len(Kept(0)) = control[1].trail
<1>1. /\ problem \in Problems /\ level \in Nat /\ level = Len(control)
      /\ SearchState(problem, trail, lev, reason, control, Clauses)
      /\ trail \in Seq(LitsOf(problem) \cup {0}) /\ Len(trail) \in Nat
      /\ lev \in [problem.vars \cup {0} -> Nat]
  BY Types DEF level, SearchState, Shape
<1> DEFINE h == control[1].trail
<1>2. 1 \in 1 .. Len(control) /\ 0 + 1 = 1 /\ 0 \in Nat /\ 0 # level
  BY <1>1
<1>3. h \in 0 .. Len(trail) /\ \A k \in 1 .. Len(trail) : k <= h => lev[Var(trail[k])] < 1
  BY <1>1, <1>2, Frames
<1>4. \A k \in 1 .. h : lev[Var(trail[k])] <= 0
  <2> SUFFICES ASSUME NEW k \in 1 .. h PROVE lev[Var(trail[k])] <= 0
    OBVIOUS
  <2>1. k \in 1 .. Len(trail) /\ k <= h
    BY <1>1, <1>3
  <2>2. lev[Var(trail[k])] \in Nat
    BY <1>1, <2>1, OneAssignment DEF LevelAt
  <2> QED BY <1>3, <2>1, <2>2
<1>5. h = control[0 + 1].trail
  BY <1>2
<1> HIDE DEF h
<1>6. Kept(0) \in Seq(LitsOf(problem) \cup {0}) /\ Keeps(trail, Kept(0), lev, 0, h)
  BY <1>1, <1>2, <1>3, <1>4, <1>5, BacktrackKeeps
<1>7. h <= Len(Kept(0)) /\ \E g : Places(trail, Kept(0), lev, 0, h, g)
  <2>1. /\ SameLiterals(trail, Kept(0), lev, 0, h)
        /\ \E g : Places(trail, Kept(0), lev, 0, h, g)
    BY <1>1, <1>2, <1>3, <1>6, KeptLiterals
  <2> QED BY <2>1 DEF SameLiterals
<1>8. PICK g : Places(trail, Kept(0), lev, 0, h, g)
  BY <1>7
<1>9. Len(Kept(0)) \in Nat /\ h \in Nat
  BY <1>1, <1>3, <1>6
<1>10. ASSUME Len(Kept(0)) > h PROVE FALSE
  <2>1. h + 1 \in 1 .. Len(Kept(0)) /\ h + 1 > h
    BY <1>9, <1>10
  <2>2. /\ g[h + 1] \in 1 .. Len(trail) /\ g[h + 1] > h
        /\ Kept(0)[h + 1] = trail[g[h + 1]] /\ lev[Var(Kept(0)[h + 1])] <= 0
    BY <1>8, <2>1 DEF Places
  <2>3. LevelAt(trail, lev, g[h + 1]) \in Nat /\ LevelAt(trail, lev, g[h + 1]) <= 0
    <3>1. LevelAt(trail, lev, g[h + 1]) \in 0 .. Len(control)
      BY <1>1, <2>2, OneAssignment
    <3> QED BY <1>1, <2>2, <3>1 DEF LevelAt
  <2>4. g[h + 1] <= h
    BY <2>2, <2>3 DEF RootFirst, h
  <2> QED BY <1>1, <1>9, <2>2, <2>4
<1> QED BY <1>7, <1>9, <1>10 DEF h

(* Giving up leaves the loop with a trail that is propagated and without a *)
(* conflict.                                                               *)
LEMMA GiveUpInv ==
    ASSUME CdclInv, RootFirst, ~unsat, ~On(trail, 0), pc \in {"analyze", "loop"},
           level = 0 => pc = "loop", GiveUp
    PROVE  CdclInv' /\ level' = 0 /\ pc' = "loop" /\ ~unsat' /\ ~On(trail', 0)
<1>1. /\ problem \in Problems /\ level \in Nat /\ level = Len(control)
      /\ propagated \in 0 .. Len(trail) /\ 0 \in 0 .. level
  BY Types DEF level
<1>2. /\ Kept(0) \in Seq(LitsOf(problem) \cup {0})
      /\ Assignment(problem, Kept(0), lev, reason, SubSeq(control, 1, 0), Clauses)
      /\ Len(SubSeq(control, 1, 0)) = 0
      /\ Requeued(0) \in 0 .. Len(Kept(0))
      /\ \A x : On(Kept(0), x) => On(trail, x)
      /\ 0 < level => /\ Requeued(0) = control[0 + 1].trail
                      /\ \A c \in Clauses : \/ Complete(Kept(0), c)
                                            \/ Pending(Kept(0), Requeued(0), c)
      /\ 0 = level => /\ Kept(0) = trail /\ Requeued(0) = propagated
                      /\ SubSeq(control, 1, 0) = control
  BY <1>1, Backtracking DEF BacktrackedTo
<1>3. /\ trail' = Kept(0) /\ control' = SubSeq(control, 1, 0) /\ propagated' = Requeued(0)
      /\ level' = 0 /\ conflict' = None /\ pc' = "loop"
      /\ UNCHANGED <<problem, learned, lev, reason, todo, clause, seen, open, uip, idx, unsat,
                     result, restarts>>
  BY <1>2 DEF GiveUp, BacktrackControl, Requeued, level, analysis
<1>4. ~unsat' /\ ~On(trail', 0)
  BY <1>2, <1>3
<1>5. CASE level = 0
  <2>1. conflict = None
    BY <1>5 DEF CdclInv, PropagationInv
  <2>2. UNCHANGED vars
    BY <1>2, <1>3, <1>5, <2>1 DEF vars
  <2> QED BY <1>3, <1>4, <2>2, SameState
<1>6. CASE level > 0
  <2>1. Requeued(0) = Len(Kept(0))
    <3>1. 0 + 1 = 1
      OBVIOUS
    <3> QED BY <1>2, <1>6, <3>1, RootPropagated
  <2>2. Len(Kept(0)) \in Nat
    BY <1>2
  <2>3. todo = {}
    BY DEF CdclInv, PropagationInv
  <2>4. Vars' = Vars /\ Lits' = Lits /\ Clauses' = Clauses
    BY <1>3 DEF Vars, Lits, Clauses, formula
  <2>5. AssignmentInv' /\ LearnedFollows'
    BY <1>2, <1>3, <2>4 DEF CdclInv, AssignmentInv, LearnedFollows
  <2>6. TypeOK'
    <3>1. propagated' \in 0 .. Len(trail')
      BY <1>2, <1>3
    <3> QED BY <1>3, <2>4, <3>1 DEF CdclInv, TypeOK
  <2>7. PropagationInv'
    <3>1. Propagates(Kept(0), Requeued(0), Clauses, {})
      BY <1>2, <1>6 DEF Propagates
    <3>2. \A i \in 1 .. level' : FALSE
      BY <1>3
    <3> QED BY <1>3, <2>1, <2>3, <2>4, <3>1, <3>2 DEF PropagationInv
  <2>8. ConflictInv'
    BY <1>3, <1>4 DEF ConflictInv, Analyzing, None
  <2>9. AnalysisInv'
    BY <1>3, NotAnalyzing DEF CdclInv, Analyzing, analysis
  <2>10. ZeroInv'
    BY <1>4 DEF ZeroInv
  <2>11. AnswerInv'
    BY <1>3, Unanswered DEF CdclInv
  <2> QED BY <1>3, <1>4, <2>5, <2>6, <2>7, <2>8, <2>9, <2>10, <2>11 DEF CdclInv
<1> QED BY <1>1, <1>5, <1>6

(* TaskInv where the root level comes first trivially.                     *)
LEMMA RootLevelFirst ==
    ASSUME level = 0
    PROVE  RootFirst /\ AuxInv
<1>1. \A i \in 1 .. level : FALSE
  OBVIOUS
<1> QED BY <1>1 DEF RootFirst, AuxInv

-----------------------------------------------------------------------------
(* produce_failed_assumptions.  While it decides, what walk_round found    *)
(* still holds: the root level only grows.                                 *)
LEMMA WalkFailsKept ==
    ASSUME WalkFails, RootKept, problem' = problem
    PROVE  WalkFails'
<1>1. Assumptions' = Assumptions /\ formula' = formula
  BY DEF Assumptions, formula
<1>2. RootLiterals \subseteq RootLiterals'
  BY DEF RootKept, RootLiterals, On
<1>3. AssumedTrue \subseteq AssumedTrue'
  BY <1>1, <1>2 DEF AssumedTrue
<1> QED BY <1>1, <1>3 DEF WalkFails

(* Not all assumptions can be decided.                                     *)
LEMMA AssumptionsFail ==
    ASSUME CdclInv, WalkFails, Deciding
    PROVE  level < Len(Assumptions)
<1>1. /\ pc = "loop" /\ ~unsat /\ ~On(trail, 0) /\ problem \in Problems /\ level \in Nat
      /\ level = Len(control)
      /\ SearchState(problem, trail, lev, reason, control, Clauses)
  BY DecidingFacts
<1>2. Len(Assumptions) \in Nat
  BY <1>1, AssumedLiterals
<1> SUFFICES ASSUME level >= Len(Assumptions) PROVE FALSE
  BY <1>1, <1>2
<1>3. \A l \in AssumedTrue : On(trail, l)
  <2>1. \A l \in RootLiterals : On(trail, l)
    BY DEF RootLiterals, On
  <2>2. \A k \in 1 .. Len(Assumptions) : On(trail, Assumptions[k])
    <3>1. AssumptionsDecided(problem, trail, lev, control)
      BY Types DEF Assignment
    <3>2. \A k \in 1 .. Len(Assumptions) : k \in 1 .. Len(control) /\ k <= Len(Assumptions)
      BY <1>1, <1>2
    <3> QED BY <3>1, <3>2 DEF AssumptionsDecided, Assumptions
  <2> QED BY <2>1, <2>2 DEF AssumedTrue
<1>4. \A l \in AssumedTrue : l \in LitsOf(problem)
  <2>1. \A l : On(trail, l) => l \in LitsOf(problem) \cup {0}
    BY <1>1, OneAssignment
  <2> QED BY <1>1, <1>3, <2>1
<1>5. \A l \in LitsOf(problem) : ~(On(trail, l) /\ On(trail, -l))
  BY <1>1, OneAssignment
<1>6. PICK c \in formula : \A l \in c : -l \in AssumedTrue
  BY <1>3, <1>4, <1>5 DEF WalkFails
<1>7. c \in Clauses /\ ClauseShape(c) /\ Complete(trail, c)
  <2>1. c \in Clauses
    BY <1>6 DEF Clauses
  <2> QED BY <1>1, <2>1, Types, LoopComplete
<1>8. \A l \in c : l \in LitsOf(problem) /\ On(trail, -l)
  BY <1>3, <1>6, <1>7 DEF ClauseShape
<1> QED BY <1>5, <1>7, <1>8 DEF Complete, Free

(* What opening a level changes. *)
LevelOpened ==
    /\ level' = level + 1 /\ pc' = "propagate" /\ RootKept /\ (RootFirst => RootFirst')
    /\ UNCHANGED <<problem, unsat, result, clause, seen, open, uip, idx>>

(* search_assume_decision opens a level above the root.                    *)
LEMMA DecisionOpens ==
    ASSUME CdclInv, NEW l \in LitsOf(problem) \cup {0},
           \A k \in 1 .. Len(trail) : Var(trail[k]) # Var(l), AssumeDecision(l)
    PROVE  LevelOpened /\ (l # 0 /\ ~On(trail, 0) => ~On(trail', 0))
<1>1. /\ problem \in Problems /\ level \in Nat /\ level = Len(control)
      /\ SearchState(problem, trail, lev, reason, control, Clauses)
      /\ trail \in Seq(LitsOf(problem) \cup {0}) /\ Len(trail) \in Nat
      /\ lev \in [problem.vars \cup {0} -> Nat]
      /\ control \in Seq([decision : LitsOf(problem) \cup {0}, trail : Nat])
  BY Types DEF level, SearchState, Shape
<1> DEFINE f == [decision |-> l, trail |-> Len(trail)]
           F == [decision : LitsOf(problem) \cup {0}, trail : Nat]
<1>2. f \in F /\ control \in Seq(F) /\ f.trail = Len(trail)
  BY <1>1
<1>3. /\ trail' = Append(trail, l) /\ lev' = [lev EXCEPT ![Var(l)] = level + 1]
      /\ control' = Append(control, f) /\ pc' = "propagate"
      /\ UNCHANGED <<problem, unsat, result, clause, seen, open, uip, idx>>
  BY DEF AssumeDecision, NewLevel, analysis
<1> HIDE DEF f, F
<1>4. /\ level' = level + 1 /\ control'[level + 1] = f
      /\ \A i \in 1 .. level : control'[i] = control[i]
  BY <1>1, <1>2, <1>3, Extended DEF level
<1>5. /\ Len(trail') = Len(trail) + 1
      /\ \A k \in 1 .. Len(trail) : trail'[k] = trail[k] /\ k \in 1 .. Len(trail')
      /\ trail'[Len(trail) + 1] = l
      /\ \A k \in 1 .. Len(trail') : k \in 1 .. Len(trail) \/ k = Len(trail) + 1
  <2> HIDE DEF LitsOf
  <2> QED BY <1>1, <1>3, Extended
<1>6. \A k \in 1 .. Len(trail) : Var(trail[k]) \in problem.vars \cup {0}
  BY <1>1, OneAssignment
<1>7. Var(l) \in problem.vars \cup {0}
  BY <1>1, OneAssignment
<1>8. /\ \A k \in 1 .. Len(trail) : lev'[Var(trail[k])] = lev[Var(trail[k])]
      /\ lev'[Var(l)] = level + 1
  BY <1>1, <1>3, <1>6, <1>7
<1>9. RootKept
  BY <1>5, <1>8 DEF RootKept, On
<1>10. RootFirst => RootFirst'
  <2> SUFFICES ASSUME RootFirst, NEW k \in 1 .. Len(trail'), LevelAt(trail', lev', k) = 0
               PROVE  k <= control'[1].trail
    BY DEF RootFirst
  <2>1. k # Len(trail) + 1
    BY <1>1, <1>5, <1>8 DEF LevelAt
  <2>2. k \in 1 .. Len(trail) /\ LevelAt(trail, lev, k) = 0
    BY <1>5, <1>8, <2>1 DEF LevelAt
  <2>3. CASE level = 0
    <3>1. control'[1].trail = Len(trail)
      BY <1>2, <1>4, <2>3
    <3> QED BY <1>1, <2>2, <3>1
  <2>4. CASE level > 0
    <3>1. control'[1] = control[1]
      BY <1>1, <1>4, <2>4
    <3> QED BY <2>2, <2>4, <3>1 DEF RootFirst
  <2> QED BY <1>1, <2>3, <2>4
<1>11. l # 0 /\ ~On(trail, 0) => ~On(trail', 0)
  BY <1>5 DEF On
<1> QED BY <1>3, <1>4, <1>9, <1>10, <1>11 DEF LevelOpened

(* new_trail_level without a decision opens a level, too.                  *)
LEMMA PseudoDecisionOpens ==
    ASSUME CdclInv, PseudoDecision
    PROVE  LevelOpened
<1>1. /\ problem \in Problems /\ level \in Nat /\ level = Len(control) /\ Len(trail) \in Nat
      /\ control \in Seq([decision : LitsOf(problem) \cup {0}, trail : Nat])
  BY Types DEF level, SearchState, Shape
<1> DEFINE f == [decision |-> 0, trail |-> Len(trail)]
           F == [decision : LitsOf(problem) \cup {0}, trail : Nat]
<1>2. f \in F /\ control \in Seq(F) /\ f.trail = Len(trail)
  BY <1>1
<1>3. /\ trail' = trail /\ lev' = lev /\ control' = Append(control, f) /\ pc' = "propagate"
      /\ UNCHANGED <<problem, unsat, result, clause, seen, open, uip, idx>>
  BY DEF PseudoDecision, NewLevel, analysis
<1> HIDE DEF f, F
<1>4. /\ level' = level + 1 /\ control'[level + 1] = f
      /\ \A i \in 1 .. level : control'[i] = control[i]
  BY <1>1, <1>2, <1>3, Extended DEF level
<1>5. RootFirst => RootFirst'
  <2> SUFFICES ASSUME RootFirst, NEW k \in 1 .. Len(trail), LevelAt(trail, lev, k) = 0
               PROVE  k <= control'[1].trail
    BY <1>3 DEF RootFirst
  <2>1. CASE level = 0
    <3>1. control'[1].trail = Len(trail)
      BY <1>2, <1>4, <2>1
    <3> QED BY <1>1, <3>1
  <2>2. CASE level > 0
    <3>1. control'[1] = control[1]
      BY <1>1, <1>4, <2>2
    <3> QED BY <2>2, <3>1 DEF RootFirst
  <2> QED BY <1>1, <2>1, <2>2
<1> QED BY <1>3, <1>4, <1>5 DEF LevelOpened, RootKept

(* A literal that is unassigned has no place on the trail.                 *)
LEMMA UnassignedPlace ==
    ASSUME CdclInv, NEW l \in LitsOf(problem), IsUnassigned(l)
    PROVE  \A k \in 1 .. Len(trail) : Var(trail[k]) # Var(l)
<1>1. problem \in Problems /\ SearchState(problem, trail, lev, reason, control, Clauses)
  BY Types
<1> SUFFICES ASSUME NEW k \in 1 .. Len(trail), Var(trail[k]) = Var(l) PROVE FALSE
  OBVIOUS
<1>2. trail[k] \in LitsOf(problem) \cup {0}
  BY <1>1, OneAssignment
<1>3. trail[k] = l \/ trail[k] = -l
  BY <1>1, <1>2, Literals
<1> QED BY <1>3 DEF IsUnassigned, IsTrue, IsFalse, Assigned

(* decide opens a level or answers 20.                                     *)
LEMMA DecideStep ==
    ASSUME CdclInv, DecideSteps
    PROVE  Deciding /\ (LevelOpened \/ Answer(20))
<1>1. Deciding
  BY DEF DecideSteps, DecideAssumption, DecideConstraint, DecideVariable, DecideNothing
<1>2. /\ problem \in Problems /\ level \in Nat /\ ~On(trail, 0)
      /\ SearchState(problem, trail, lev, reason, control, Clauses)
  BY <1>1, DecidingFacts
<1>3. /\ Len(Assumptions) \in Nat
      /\ \A k \in 1 .. Len(Assumptions) : Assumptions[k] \in LitsOf(problem)
      /\ \A k \in 1 .. Len(Constraint) : Constraint[k] \in LitsOf(problem)
  BY <1>2, AssumedLiterals
<1>4. ASSUME NEW l \in LitsOf(problem), IsUnassigned(l), AssumeDecision(l)
      PROVE  LevelOpened
  <2>1. \A k \in 1 .. Len(trail) : Var(trail[k]) # Var(l)
    BY <1>4, UnassignedPlace
  <2> QED BY <1>4, <2>1, DecisionOpens
<1>5. CASE DecideAssumption
  <2>1. level + 1 \in 1 .. Len(Assumptions)
    BY <1>2, <1>3, <1>5 DEF DecideAssumption
  <2>2. Assumptions[level + 1] \in LitsOf(problem)
    BY <1>3, <2>1
  <2> QED BY <1>1, <1>4, <1>5, <2>2, PseudoDecisionOpens DEF DecideAssumption
<1>6. CASE DecideConstraint
  <2>1. CASE PseudoDecision \/ Answer(20)
    BY <1>1, <2>1, PseudoDecisionOpens
  <2>2. ASSUME NEW k \in 1 .. Len(Constraint), IsUnassigned(Constraint[k]),
               AssumeDecision(Constraint[k])
        PROVE  LevelOpened
    BY <1>3, <1>4, <2>2
  <2> QED BY <1>1, <1>6, <2>1, <2>2 DEF DecideConstraint
<1>7. ASSUME NEW v \in Vars, DecideVariable(v) PROVE LevelOpened
  <2>1. IsUnassigned(v) /\ (AssumeDecision(v) \/ AssumeDecision(-v))
    BY <1>7 DEF DecideVariable, Candidates
  <2>2. v \in LitsOf(problem) /\ -v \in LitsOf(problem) /\ -(-v) = v
    BY <1>2, Literals DEF Vars
  <2>3. IsUnassigned(-v)
    BY <2>1, <2>2 DEF IsUnassigned, IsTrue, IsFalse
  <2> QED BY <1>4, <2>1, <2>2, <2>3
<1>8. CASE DecideNothing
  <2>1. \A k \in 1 .. Len(trail) : Var(trail[k]) # Var(0)
    <3> SUFFICES ASSUME NEW k \in 1 .. Len(trail), Var(trail[k]) = Var(0) PROVE FALSE
      OBVIOUS
    <3>1. trail[k] \in LitsOf(problem) \cup {0} /\ trail[k] # 0
      BY <1>2, OneAssignment DEF On
    <3> QED BY <1>2, <3>1, Literals
  <2>2. AssumeDecision(0) /\ 0 \in LitsOf(problem) \cup {0}
    BY <1>8 DEF DecideNothing
  <2> QED BY <1>1, <2>1, <2>2, DecisionOpens
<1>9. CASE \E v \in Vars : DecideVariable(v)
  BY <1>1, <1>7, <1>9
<1>10. DecideAssumption \/ DecideConstraint \/ (\E v \in Vars : DecideVariable(v)) \/ DecideNothing
  BY DEF DecideSteps
<1> QED BY <1>5, <1>6, <1>8, <1>9, <1>10

-----------------------------------------------------------------------------
(* already_solved *)

(* A conflict on the root level: the formula has no model.                 *)
LEMMA RootConflictInv ==
    ASSUME CdclInv, pc = "analyze", level = 0, unsat' = TRUE, pc' = "loop",
           UNCHANGED <<problem, learned, assignment, todo, conflict, analysis, result, restarts>>
    PROVE  CdclInv'
<1>1. UNCHANGED <<problem, learned, trail, lev, reason, control, propagated, todo, conflict,
                  clause, seen, open, uip, idx, result, restarts>>
  BY DEF assignment, analysis
<1>2. conflict # None /\ todo = {} /\ ~On(trail, 0)
  BY DEF CdclInv, ConflictInv, PropagationInv, ZeroInv
<1>3. /\ ClauseShape(conflict)
      /\ \A l \in conflict : l \in LitsOf(problem) /\ On(trail, -l) /\ lev[Var(l)] \in 0 .. level
  BY <1>2, ConflictFacts
<1>4. problem \in Problems /\ SearchState(problem, trail, lev, reason, control, Clauses)
  BY Types
<1>5. ModelsOf(problem) = {}
  <2> SUFFICES ASSUME NEW m \in ModelsOf(problem) PROVE FALSE
    OBVIOUS
  <2>1. PICK l \in conflict : Holds(m, l)
    BY <1>3 DEF ClauseShape, Follows, Satisfies
  <2>2. Var(-l) = Var(l) /\ lev[Var(l)] = 0
    BY <1>3, <1>4, Literals
  <2>3. Holds(m, -l)
    BY <1>3, <1>4, <2>2, RootHolds
  <2> QED BY <1>3, <1>4, <2>1, <2>3, HoldsNot
<1>6. AssignmentInv' /\ LearnedFollows' /\ Clauses' = Clauses /\ level' = level
  BY <1>1, SameAssignment DEF CdclInv
<1>7. TypeOK'
  BY <1>1, <1>6 DEF CdclInv, TypeOK, Lits, Vars
<1>8. PropagationInv'
  BY <1>1, <1>2, <1>6 DEF CdclInv, PropagationInv
<1>9. ConflictInv'
  BY <1>1, <1>5 DEF CdclInv, ConflictInv, Analyzing
<1>10. AnalysisInv'
  BY <1>1, NotAnalyzing DEF CdclInv, Analyzing, analysis
<1>11. ZeroInv'
  BY <1>1, <1>2 DEF ZeroInv
<1>12. AnswerInv'
  BY <1>1, Unanswered DEF CdclInv
<1> QED BY <1>6, <1>7, <1>8, <1>9, <1>10, <1>11, <1>12 DEF CdclInv

(* already_solved ends with a propagated root level or with the empty      *)
(* clause.                                                                 *)
LEMMA AlreadySolvedInv ==
    ASSUME SolveInv, AlreadySolved
    PROVE  SolveInv'
<1>1. /\ CdclInv /\ task = "solved" /\ lucky \in 0 .. 8 /\ ~(lucky > 0) /\ level = 0
      /\ ~unsat /\ ~Analyzing /\ ~On(trail, 0) /\ AuxInv
  BY DEF SolveInv, TaskInv, AlreadySolved
<1>2. lucky = 0
  BY <1>1
<1>3. CASE PropagateSteps /\ UNCHANGED solving
  <2>1. CdclInv' /\ PropagateStep
    BY <1>1, <1>3, PropagateInv, PropagateStepRight
  <2>2. task' = "solved" /\ lucky' = 0 /\ level' = 0
    BY <1>1, <1>2, <1>3, <2>1 DEF solving, PropagateStep, level
  <2>3. AuxInv'
    BY <1>1, <2>1, AuxInvKept DEF PropagateStep
  <2>4. ~unsat' /\ pc' \in {"propagate", "visit", "analyze", "loop"} /\ ~On(trail', 0)
    BY <1>1, <2>1 DEF PropagateStep
  <2>5. TaskInv'
    BY <2>2, <2>3, <2>4 DEF TaskInv, Analyzing
  <2> QED BY <2>1, <2>5 DEF SolveInv
<1>4. CASE pc = "analyze" /\ ~(PropagateSteps /\ UNCHANGED solving)
  <2>1. /\ unsat' = TRUE /\ pc' = "loop" /\ task' = "search" /\ lucky' = 0
        /\ UNCHANGED <<problem, learned, assignment, todo, conflict, analysis, result, restarts>>
    BY <1>2, <1>4 DEF AlreadySolved, Goto
  <2>2. CdclInv'
    BY <1>1, <1>4, <2>1, RootConflictInv
  <2>3. AuxInv'
    BY <1>1, <2>1, AuxInvKept DEF assignment
  <2>4. TaskInv'
    BY <2>1, <2>3 DEF TaskInv
  <2> QED BY <2>2, <2>4 DEF SolveInv
<1>5. CASE pc = "loop" /\ Goto("local") /\ UNCHANGED vars
  <2>1. task' = "local" /\ lucky' = 0 /\ UNCHANGED <<problem, trail, control, unsat, pc>>
    BY <1>2, <1>5 DEF Goto, vars
  <2>2. CdclInv'
    BY <1>1, <1>5, SameState
  <2>3. AuxInv'
    BY <1>1, <2>1, AuxInvKept
  <2>4. TaskInv'
    BY <1>1, <1>5, <2>1, <2>3 DEF TaskInv, Analyzing, level
  <2> QED BY <2>2, <2>4 DEF SolveInv
<1> QED BY <1>3, <1>4, <1>5 DEF AlreadySolved

-----------------------------------------------------------------------------
(* local_search: without an assumption or a clause that is false, the      *)
(* saved phases or the lucky phases are tried.                             *)
LEMMA LocalSearchInv ==
    ASSUME SolveInv, LocalSearch
    PROVE  SolveInv'
<1>1. /\ CdclInv /\ task = "local" /\ lucky \in 0 .. 8 /\ ~(lucky > 0) /\ level = 0 /\ pc = "loop"
      /\ ~unsat /\ ~Analyzing /\ ~On(trail, 0) /\ AuxInv
  BY DEF SolveInv, TaskInv, LocalSearch
<1>2. /\ UNCHANGED vars /\ lucky' = lucky
      /\ task' \in {"failed", "saved", "lucky"} /\ (task' = "failed" => WalkFails)
  BY DEF LocalSearch, Goto
<1>3. lucky' = 0 /\ UNCHANGED <<problem, trail, lev, control, unsat, pc>>
  BY <1>1, <1>2 DEF vars
<1>4. CdclInv' /\ AuxInv' /\ level' = 0
  BY <1>1, <1>2, <1>3, SameState, AuxInvKept DEF level
<1>5. task' = "failed" => WalkFails'
  <2>1. RootKept
    BY <1>3 DEF RootKept
  <2> QED BY <1>2, <1>3, <2>1, WalkFailsKept
<1>6. RootFirst'
  BY <1>4 DEF RootFirst
<1>7. Len(Assumptions)' \in Nat
  BY <1>1, <1>3, Types, AssumedLiterals DEF Assumptions
<1>8. TaskInv'
  <2>1. level' <= Len(Assumptions')
    BY <1>4, <1>7
  <2> QED BY <1>1, <1>2, <1>3, <1>4, <1>5, <1>6, <2>1 DEF TaskInv, Analyzing
<1> QED BY <1>4, <1>8 DEF SolveInv

(* try_to_satisfy_formula_by_saved_phases *)
LEMMA TrySavedPhasesInv ==
    ASSUME AuxNotAssumed, SolveInv, TrySavedPhases
    PROVE  SolveInv'
<1>1. /\ CdclInv /\ task = "saved" /\ lucky \in 0 .. 8 /\ ~(lucky > 0) /\ ~unsat /\ ~Analyzing
      /\ RootFirst /\ (level = 0 => pc \in {"loop", "done"}) /\ AuxInv
  BY DEF SolveInv, TaskInv, TrySavedPhases
<1>2. lucky = 0 /\ level \in Nat
  BY <1>1, Types
<1>3. CASE PropagateSteps /\ UNCHANGED solving
  <2>1. CdclInv' /\ PropagateStep
    BY <1>1, <1>3, PropagateInv, PropagateStepRight
  <2>2. task' = "saved" /\ lucky' = 0 /\ level' = level
    BY <1>1, <1>2, <1>3, <2>1 DEF solving, PropagateStep, level
  <2>3. level > 0
    BY <1>1, <1>2, <2>1 DEF PropagateStep
  <2>4. AuxInv'
    BY <1>1, <2>1, AuxInvKept DEF PropagateStep
  <2>5. ~unsat' /\ pc' \in {"propagate", "visit", "analyze", "loop"} /\ RootFirst'
    BY <1>1, <2>1, <2>3 DEF PropagateStep
  <2>6. TaskInv'
    BY <2>2, <2>3, <2>4, <2>5 DEF TaskInv, Analyzing
  <2> QED BY <2>1, <2>6 DEF SolveInv
<1>4. CASE AnswerSat /\ UNCHANGED solving
  <2>1. CdclInv'
    BY <1>1, <1>4, AnswerSatInv
  <2>2. task' = "saved" /\ lucky' = 0 /\ pc' = "done"
        /\ UNCHANGED <<problem, trail, lev, control, unsat>>
    BY <1>1, <1>2, <1>4 DEF solving, AnswerSat, Answer, assignment
  <2>3. AuxInv'
    BY <1>1, <2>2, AuxInvKept
  <2>4. RootFirst'
    BY <1>1, <2>2 DEF RootFirst, LevelAt, level
  <2>5. TaskInv'
    BY <1>1, <2>2, <2>3, <2>4 DEF TaskInv, Analyzing
  <2> QED BY <2>1, <2>5 DEF SolveInv
<1>5. CASE DecideSteps /\ UNCHANGED solving
  <2>1. CdclInv' /\ AuxInv'
    BY <1>1, <1>5, NextInv, DecideAux DEF Next
  <2>2. LevelOpened \/ Answer(20)
    BY <1>1, <1>5, DecideStep
  <2>3. task' = "saved" /\ lucky' = 0
    BY <1>1, <1>2, <1>5 DEF solving
  <2>4. ~unsat' /\ pc' \in {"propagate", "done"} /\ RootFirst' /\ (level' = 0 => pc' = "done")
    <3>1. CASE LevelOpened
      BY <1>1, <1>2, <3>1 DEF LevelOpened
    <3>2. CASE Answer(20)
      BY <1>1, <3>2 DEF Answer, assignment, RootFirst, LevelAt, level
    <3> QED BY <2>2, <3>1, <3>2
  <2>5. TaskInv'
    BY <2>1, <2>3, <2>4 DEF TaskInv, Analyzing
  <2> QED BY <2>1, <2>5 DEF SolveInv
<1>6. CASE pc = "analyze" /\ GiveUp /\ Goto("lucky")
  <2>1. ~On(trail, 0) /\ level # 0
    BY <1>1, <1>6 DEF CdclInv, ZeroInv
  <2>2. CdclInv' /\ level' = 0 /\ pc' = "loop" /\ ~unsat' /\ ~On(trail', 0)
    BY <1>1, <1>6, <2>1, GiveUpInv
  <2>3. task' = "lucky" /\ lucky' = 0
    BY <1>2, <1>6 DEF Goto
  <2>4. RootFirst'
    BY <2>2 DEF RootFirst
  <2>5. TaskInv'
    BY <2>2, <2>3, <2>4 DEF TaskInv, Analyzing
  <2> QED BY <2>2, <2>5 DEF SolveInv
<1> QED BY <1>3, <1>4, <1>5, <1>6 DEF TrySavedPhases

(* produce_failed_assumptions opens no more levels than there are          *)
(* assumptions.                                                            *)
LEMMA ProduceFailedInv ==
    ASSUME AuxNotAssumed, SolveInv, ProduceFailed
    PROVE  SolveInv'
<1>1. /\ CdclInv /\ task = "failed" /\ lucky \in 0 .. 8 /\ ~(lucky > 0)
      /\ WalkFails /\ level <= Len(Assumptions) /\ AuxInv
  BY DEF SolveInv, TaskInv, ProduceFailed
<1>2. lucky = 0 /\ level \in Nat /\ problem \in Problems
  BY <1>1, Types
<1>3. /\ PropagateSteps \/ AnalyzeSteps \/ AnswerUnsat \/ (~unsat /\ DecideSteps)
      /\ task' = "failed" /\ lucky' = 0
  BY <1>1, <1>2 DEF ProduceFailed, solving
<1>4. CdclInv' /\ AuxInv'
  BY <1>1, <1>3, NextInv, NextAux DEF Next
<1>5. Len(Assumptions) \in Nat
  BY <1>2, AssumedLiterals
<1>6. problem' = problem /\ RootKept /\ level' <= Len(Assumptions)
  <2>1. CASE PropagateSteps
    <3>1. PropagateStep
      BY <1>1, <2>1, PropagateStepRight
    <3> QED BY <1>1, <3>1 DEF PropagateStep, level
  <2>2. CASE AnalyzeSteps
    <3>1. AnalyzeStep
      BY <1>1, <2>2, AnalyzeStepRight
    <3>2. ASSUME NEW n \in 0 .. level, control' = SubSeq(control, 1, n)
          PROVE  level' = n
      <4>1. control \in Seq([decision : LitsOf(problem) \cup {0}, trail : Nat])
        BY <1>1, Types DEF SearchState, Shape
      <4> QED BY <3>2, <4>1, KeptFrames DEF level
    <3> QED BY <1>1, <1>2, <1>5, <3>1, <3>2 DEF AnalyzeStep, level
  <2>3. CASE AnswerUnsat
    BY <1>1, <2>3 DEF AnswerUnsat, Answer, assignment, RootKept, level
  <2>4. CASE DecideSteps
    <3>1. Deciding /\ (LevelOpened \/ Answer(20))
      BY <1>1, <2>4, DecideStep
    <3>2. level < Len(Assumptions)
      BY <1>1, <3>1, AssumptionsFail
    <3>3. CASE LevelOpened
      BY <1>2, <1>5, <3>2, <3>3 DEF LevelOpened
    <3>4. CASE Answer(20)
      BY <1>1, <3>4 DEF Answer, assignment, RootKept, level
    <3> QED BY <3>1, <3>3, <3>4
  <2> QED BY <1>3, <2>1, <2>2, <2>3, <2>4
<1>7. WalkFails' /\ Assumptions' = Assumptions
  BY <1>1, <1>6, WalkFailsKept DEF Assumptions
<1>8. TaskInv'
  BY <1>3, <1>4, <1>6, <1>7 DEF TaskInv
<1> QED BY <1>4, <1>8 DEF SolveInv

-----------------------------------------------------------------------------
(* lucky_phases *)

(* A finite set of natural numbers, as the variables are, is bounded.      *)
LEMMA FiniteBound ==
    \A n \in Nat : \A S \in SUBSET Nat :
        IsFiniteSet(S) /\ Cardinality(S) = n => \E b \in Nat : S \subseteq 0 .. b
<1> DEFINE T == {n \in Nat : \A S \in SUBSET Nat :
                    IsFiniteSet(S) /\ Cardinality(S) = n => \E b \in Nat : S \subseteq 0 .. b}
<1>1. 0 \in T
  <2> SUFFICES ASSUME NEW S \in SUBSET Nat, IsFiniteSet(S), Cardinality(S) = 0
               PROVE  \E b \in Nat : S \subseteq 0 .. b
    OBVIOUS
  <2>1. S \subseteq 0 .. 0
    BY FS_EmptySet
  <2> QED BY <2>1
<1>2. ASSUME NEW n \in Nat, n \in T PROVE n + 1 \in T
  <2> SUFFICES ASSUME NEW S \in SUBSET Nat, IsFiniteSet(S), Cardinality(S) = n + 1
               PROVE  \E b \in Nat : S \subseteq 0 .. b
    OBVIOUS
  <2>1. PICK x \in S : TRUE
    <3>1. n + 1 # 0
      OBVIOUS
    <3>2. S # {}
      BY <3>1, FS_EmptySet
    <3> QED BY <3>2
  <2>2. S \ {x} \in SUBSET Nat /\ IsFiniteSet(S \ {x}) /\ Cardinality(S \ {x}) = n
    BY <2>1, FS_RemoveElement
  <2>3. PICK a \in Nat : S \ {x} \subseteq 0 .. a
    BY <1>2, <2>2
  <2>4. S \subseteq 0 .. a + x /\ a + x \in Nat
    BY <2>1, <2>3
  <2> QED BY <2>4
<1> HIDE DEF T
<1>3. \A n \in Nat : n \in T
  BY <1>1, <1>2, SetInduction
<1> QED BY <1>3 DEF T

(* The first or last unassigned variable. *)
LEMMA NextLuckyVariableFree ==
    ASSUME problem \in Problems, FreeVars # {}
    PROVE  NextLuckyVariable \in FreeVars
<1>1. FreeVars \subseteq problem.vars /\ problem.vars \subseteq Nat /\ IsFiniteSet(FreeVars)
  <2>1. problem.vars \subseteq Nat \ {0} /\ IsFiniteSet(problem.vars)
    BY Literals
  <2> QED BY <2>1, FS_Subset DEF FreeVars, Vars
<1>2. \E v \in FreeVars : \A w \in FreeVars : w <= v
  <2>1. Cardinality(FreeVars) \in Nat
    BY <1>1, FS_CardinalityType
  <2>2. PICK b \in Nat : FreeVars \subseteq 0 .. b
    BY <1>1, <2>1, FiniteBound
  <2> QED BY <2>2, GreatestElement
<1>3. \E v \in FreeVars : \A w \in FreeVars : v <= w
  <2>1. FreeVars \subseteq Nat
    BY <1>1
  <2> QED BY <2>1, LeastElement
<1> HIDE DEF FreeVars
<1>4. CASE Backward
  BY <1>2, <1>4 DEF NextLuckyVariable
<1>5. CASE ~Backward
  BY <1>3, <1>5 DEF NextLuckyVariable
<1> QED BY <1>4, <1>5

(* The lucky phases assume nothing, so that any unassigned literal may be  *)
(* decided.                                                                *)
LEMMA LuckyDecisionInv ==
    ASSUME CdclInv, pc = "loop", ~unsat, ~On(trail, 0), Assumptions = << >>, Constraint = << >>,
           NEW l \in LitsOf(problem), IsUnassigned(l), AssumeDecision(l)
    PROVE  CdclInv' /\ LevelOpened /\ ~On(trail', 0)
<1>1. level \in Nat /\ problem \in Problems /\ l # 0
  BY Types, Literals
<1>2. ~On(trail, l) /\ ~On(trail, -l)
  BY DEF IsUnassigned, IsTrue, IsFalse, Assigned, On
<1>3. /\ ~(level + 1 <= Len(Assumptions))
      /\ ~(level + 1 = Len(Assumptions) + 1 /\ Constraint # << >>)
  BY <1>1
<1>4. CdclInv'
  BY <1>1, <1>2, <1>3, AssumeDecisionInv
<1>5. LevelOpened /\ ~On(trail', 0)
  BY <1>1, UnassignedPlace, DecisionOpens
<1> QED BY <1>4, <1>5

(* All variables are assigned, no clause is falsified and nothing is       *)
(* assumed: the formula is satisfied.                                      *)
LEMMA LuckyAnswerInv ==
    ASSUME CdclInv, pc = "loop", ~unsat, Assumptions = << >>, Constraint = << >>,
           FreeVars = {}, Answer(10)
    PROVE  CdclInv'
<1>1. problem \in Problems /\ UnitsAssigned(problem, trail, lev)
  BY Types DEF Assignment
<1>2. UNCHANGED <<problem, trail>> /\ result' = 10
  BY DEF Answer, assignment
<1>3. \A l : IsTrue(l) <=> On(trail, l)
  BY DEF IsTrue, Assigned, On
<1>4. ASSUME NEW c \in Query
      PROVE  \E l \in c : IsTrue(l)
  <2>1. c \in Original
    <3>1. \A k \in 1 .. Len(Assumptions) : FALSE
      OBVIOUS
    <3> QED BY <1>4, <3>1 DEF Query
  <2>2. CASE c \in formula
    <3>1. c \in Clauses /\ Complete(trail, c) /\ c \in SUBSET LitsOf(problem)
      <4>1. c \in Clauses
        BY <2>2 DEF Clauses
      <4> QED BY <4>1, LoopComplete, Types DEF ClauseShape
    <3>2. SUFFICES ASSUME NEW l \in c, Free(trail, l) PROVE FALSE
      BY <1>3, <3>1 DEF Complete
    <3>3. /\ Var(l) \in problem.vars /\ (Var(l) = l \/ Var(l) = -l) /\ -(-l) = l
          /\ l \in LitsOf(problem)
      <4>1. l \in LitsOf(problem)
        BY <3>1
      <4> QED BY <1>1, <4>1, Literals DEF Var
    <3>4. Free(trail, Var(l))
      BY <3>2, <3>3 DEF Free
    <3>5. IsUnassigned(Var(l))
      BY <1>3, <3>4 DEF IsUnassigned, IsFalse, IsTrue, Assigned, Free, On
    <3> QED BY <3>3, <3>5 DEF FreeVars, Vars
  <2>3. CASE c \in {{problem.units[k]} : k \in DOMAIN problem.units}
    BY <1>1, <1>3, <2>3 DEF UnitsAssigned
  <2> QED BY <2>1, <2>2, <2>3 DEF Original
<1>5. AnswerCorrect'
  <2>1. Query' = Query /\ \A l : IsTrue(l)' <=> IsTrue(l)
    BY <1>2, SameQuery DEF IsTrue, Assigned
  <2> QED BY <1>2, <1>4, <2>1 DEF AnswerCorrect, IsTrue, Assigned
<1> QED BY <1>5, AnswerInvKept

(* What a strategy has before it gives up or decides.                      *)
LuckyState == /\ CdclInv /\ task = "lucky" /\ lucky \in 1 .. 8 /\ ~unsat /\ ~Analyzing
              /\ RootFirst /\ (level = 0 => pc \in {"loop", "done"}) /\ ~On(trail, 0)
              /\ Assumptions = << >> /\ Constraint = << >>

(* unlucky: the next strategy, or the loop, starts at the root.            *)
LEMMA UnluckyInv ==
    ASSUME LuckyState, pc \in {"analyze", "loop"}, Unlucky
    PROVE  SolveInv'
<1>1. CdclInv' /\ level' = 0 /\ pc' = "loop" /\ ~unsat' /\ ~On(trail', 0)
  BY GiveUpInv DEF LuckyState, Unlucky
<1>2. Assumptions' = << >> /\ Constraint' = << >>
  BY DEF LuckyState, Unlucky, GiveUp, Assumptions, Constraint
<1>3. RootFirst' /\ AuxInv'
  <2>1. \A i \in 1 .. level' : FALSE
    BY <1>1
  <2> QED BY <1>1, <2>1 DEF RootFirst, AuxInv
<1>4. CASE lucky = 8
  <2>1. task' = "search" /\ lucky' = 0
    BY <1>4 DEF Unlucky
  <2>2. TaskInv'
    BY <1>1, <1>3, <2>1 DEF TaskInv
  <2> QED BY <1>1, <2>2 DEF SolveInv
<1>5. CASE lucky # 8
  <2>1. task' = "lucky" /\ lucky' = lucky + 1
    BY <1>5 DEF Unlucky, LuckyState
  <2>2. lucky' \in 0 .. 8 /\ lucky' # 0
    BY <1>5, <2>1 DEF LuckyState
  <2>3. TaskInv'
    BY <1>1, <1>2, <1>3, <2>1, <2>2 DEF TaskInv, Analyzing
  <2> QED BY <1>1, <2>3 DEF SolveInv
<1> QED BY <1>4, <1>5

(* A lucky strategy decides its next literal, answers 10 or gives up.      *)
LEMMA LuckyDecideInv ==
    ASSUME LuckyState, pc = "loop", LuckyDecide
    PROVE  SolveInv'
<1>1. /\ CdclInv /\ ~unsat /\ ~On(trail, 0) /\ Assumptions = << >> /\ Constraint = << >>
      /\ task = "lucky" /\ lucky \in 1 .. 8 /\ RootFirst
  BY DEF LuckyState
<1>2. problem \in Problems /\ level \in Nat
  BY <1>1, Types
<1>3. CASE Unlucky
  BY <1>3, UnluckyInv
<1>4. ASSUME NEW l \in LitsOf(problem), IsUnassigned(l), AssumeDecision(l), UNCHANGED solving
      PROVE  SolveInv'
  <2>1. CdclInv' /\ LevelOpened /\ ~On(trail', 0)
    BY <1>1, <1>4, LuckyDecisionInv
  <2>2. /\ task' = task /\ lucky' = lucky /\ Assumptions' = Assumptions
        /\ Constraint' = Constraint /\ level' # 0 /\ ~unsat' /\ pc' = "propagate" /\ RootFirst'
    BY <1>1, <1>2, <1>4, <2>1 DEF solving, LevelOpened, Assumptions, Constraint
  <2>3. TaskInv'
    BY <1>1, <2>1, <2>2 DEF TaskInv, Analyzing
  <2> QED BY <2>1, <2>3 DEF SolveInv
<1>5. CASE FreeVars = {} /\ Answer(10) /\ UNCHANGED solving
  <2>1. CdclInv'
    BY <1>1, <1>5, LuckyAnswerInv
  <2>2. task' = task /\ lucky' = lucky /\ pc' = "done"
        /\ UNCHANGED <<problem, trail, lev, control, unsat>>
    BY <1>5 DEF solving, Answer, assignment
  <2>3. RootFirst' /\ Assumptions' = Assumptions /\ Constraint' = Constraint
    BY <1>1, <2>2 DEF RootFirst, LevelAt, level, Assumptions, Constraint
  <2>4. TaskInv'
    BY <1>1, <2>2, <2>3 DEF TaskInv, Analyzing
  <2> QED BY <2>1, <2>4 DEF SolveInv
<1>6. CASE \E c \in Unsatisfied : ~UnluckyClause(c) /\ UNCHANGED solving
                                   /\ \E l \in Wanted(c) : AssumeDecision(l)
  <2>1. PICK c \in Unsatisfied : UNCHANGED solving /\ \E l \in Wanted(c) : AssumeDecision(l)
    BY <1>6
  <2>2. PICK l \in Wanted(c) : AssumeDecision(l)
    BY <2>1
  <2>3. c \in Clauses /\ l \in c /\ IsUnassigned(l)
    BY <2>1, <2>2 DEF Unsatisfied, Wanted, Clauses
  <2>4. l \in LitsOf(problem)
    BY <1>1, <2>3, Types DEF ClauseShape
  <2> QED BY <1>4, <2>1, <2>2, <2>3, <2>4
<1>7. CASE FreeVars # {} /\ UNCHANGED solving
            /\ AssumeDecision(IF RestPositive THEN NextLuckyVariable ELSE -NextLuckyVariable)
  <2> DEFINE v == NextLuckyVariable
  <2>1. v \in Vars /\ IsUnassigned(v)
    BY <1>2, <1>7, NextLuckyVariableFree DEF FreeVars
  <2> HIDE DEF v
  <2>2. v \in LitsOf(problem) /\ -v \in LitsOf(problem) /\ -(-v) = v
    BY <1>2, <2>1, Literals DEF Vars
  <2>3. IsUnassigned(-v)
    BY <2>1, <2>2 DEF IsUnassigned, IsTrue, IsFalse
  <2>4. AssumeDecision(v) \/ AssumeDecision(-v)
    BY <1>7 DEF v
  <2> QED BY <1>4, <1>7, <2>1, <2>2, <2>3, <2>4
<1>8. \/ Unlucky
      \/ \E c \in Unsatisfied : ~UnluckyClause(c) /\ UNCHANGED solving
                                /\ \E l \in Wanted(c) : AssumeDecision(l)
      \/ FreeVars = {} /\ Answer(10) /\ UNCHANGED solving
      \/ FreeVars # {} /\ UNCHANGED solving
         /\ AssumeDecision(IF RestPositive THEN NextLuckyVariable ELSE -NextLuckyVariable)
  BY DEF LuckyDecide
<1> QED BY <1>3, <1>5, <1>6, <1>7, <1>8

(* lucky_phases from its first to its last strategy.                       *)
LEMMA LuckyPhasesInv ==
    ASSUME SolveInv, LuckyPhases
    PROVE  SolveInv'
<1>1. /\ CdclInv /\ task = "lucky" /\ lucky \in 0 .. 8 /\ ~unsat /\ ~Analyzing
      /\ RootFirst /\ (level = 0 => pc \in {"loop", "done"}) /\ ~On(trail, 0)
      /\ (lucky > 0 => Assumptions = << >> /\ Constraint = << >>)
      /\ (lucky = 0 => level = 0 /\ pc = "loop")
  BY DEF SolveInv, TaskInv, LuckyPhases
<1>2. lucky # 0 => LuckyState
  <2>1. lucky # 0 => lucky > 0 /\ lucky \in 1 .. 8
    BY <1>1
  <2> QED BY <1>1, <2>1 DEF LuckyState
<1>3. CASE PropagateSteps /\ UNCHANGED solving
  <2>1. CdclInv' /\ PropagateStep
    BY <1>1, <1>3, PropagateInv, PropagateStepRight
  <2>2. /\ task' = task /\ lucky' = lucky /\ level' = level /\ lucky # 0
        /\ Assumptions' = Assumptions /\ Constraint' = Constraint
    BY <1>1, <1>3, <2>1 DEF solving, PropagateStep, level, Assumptions, Constraint
  <2>3. level > 0
    <3>1. level \in Nat /\ level # 0
      BY <1>1, <2>1, Types DEF PropagateStep
    <3> QED BY <3>1
  <2>4. /\ ~unsat' /\ pc' \in {"propagate", "visit", "analyze", "loop"} /\ RootFirst'
        /\ ~On(trail', 0)
    BY <1>1, <2>1, <2>3 DEF PropagateStep
  <2>5. TaskInv'
    BY <1>1, <2>2, <2>3, <2>4 DEF TaskInv, Analyzing
  <2> QED BY <2>1, <2>5 DEF SolveInv
<1>4. CASE pc = "analyze" /\ Unlucky
  BY <1>1, <1>2, <1>4, UnluckyInv
<1>5. CASE pc = "loop" /\ lucky = 0 /\ UNCHANGED vars
            /\ IF "lucky" \in problem.opts /\ Assumptions = << >> /\ Constraint = << >>
               THEN lucky' = 1 /\ UNCHANGED task
               ELSE Goto("search")
  <2>1. CdclInv' /\ UNCHANGED <<problem, trail, lev, control, unsat, pc>>
    BY <1>1, <1>5, SameState DEF vars
  <2>2. level' = 0 /\ Assumptions' = Assumptions /\ Constraint' = Constraint
    BY <1>1, <1>5, <2>1 DEF level, Assumptions, Constraint
  <2>3. RootFirst' /\ AuxInv'
    <3>1. \A i \in 1 .. level' : FALSE
      BY <2>2
    <3> QED BY <2>2, <3>1 DEF RootFirst, AuxInv
  <2>4. \/ task' = "search" /\ lucky' = 0
        \/ task' = "lucky" /\ lucky' = 1 /\ Assumptions = << >> /\ Constraint = << >>
    BY <1>1, <1>5 DEF Goto
  <2>5. TaskInv'
    BY <1>1, <1>5, <2>1, <2>2, <2>3, <2>4 DEF TaskInv, Analyzing
  <2> QED BY <2>1, <2>5 DEF SolveInv
<1>6. CASE pc = "loop" /\ lucky > 0 /\ Unlucky
  BY <1>2, <1>6, UnluckyInv
<1>7. CASE pc = "loop" /\ lucky > 0 /\ LuckyDecide
  BY <1>2, <1>7, LuckyDecideInv
<1> QED BY <1>3, <1>4, <1>5, <1>6, <1>7 DEF LuckyPhases

-----------------------------------------------------------------------------
(* The loop, and the end. *)
LEMMA SearchInv ==
    ASSUME AuxNotAssumed, SolveInv, Search
    PROVE  SolveInv'
<1>1. CdclInv /\ AuxInv /\ Next /\ task = "search" /\ lucky \in 0 .. 8 /\ ~(lucky > 0)
      /\ UNCHANGED solving
  BY DEF SolveInv, TaskInv, Search
<1>2. CdclInv' /\ AuxInv'
  BY <1>1, NextInv, NextAux
<1>3. task' = "search" /\ lucky' = 0
  BY <1>1 DEF solving
<1>4. TaskInv'
  BY <1>2, <1>3 DEF TaskInv
<1> QED BY <1>2, <1>4 DEF SolveInv

(* What finished stays as it is.                                           *)
LEMMA SameSolveInv ==
    ASSUME SolveInv, UNCHANGED allvars
    PROVE  SolveInv'
<1>1. UNCHANGED vars /\ task' = task /\ lucky' = lucky
      /\ UNCHANGED <<problem, trail, lev, control, unsat, pc>>
  BY DEF allvars, solving, vars
<1>2. CdclInv'
  BY <1>1, SameState DEF SolveInv
<1>3. /\ (RootFirst' <=> RootFirst) /\ (AuxInv' <=> AuxInv) /\ (WalkFails' <=> WalkFails)
      /\ level' = level /\ Assumptions' = Assumptions /\ Constraint' = Constraint
      /\ (Analyzing' <=> Analyzing)
  BY <1>1 DEF RootFirst, LevelAt, AuxInv, UipAux, IsAux, WalkFails, AssumedTrue, RootLiterals,
              formula, level, Assumptions, Constraint, Analyzing
<1>4. TaskInv'
  BY <1>1, <1>3 DEF SolveInv, TaskInv
<1> QED BY <1>2, <1>4 DEF SolveInv

(* Every step of Internal::solve keeps the invariant.                      *)
LEMMA NextSolveInv ==
    ASSUME AuxNotAssumed, SolveInv, [NextSolve]_allvars
    PROVE  SolveInv'
BY AlreadySolvedInv, LocalSearchInv, TrySavedPhasesInv, ProduceFailedInv, LuckyPhasesInv,
   SearchInv, SameSolveInv DEF NextSolve, Finished

-----------------------------------------------------------------------------
(* The theorems, for every set of problems, with any number of variables,  *)
(* clauses, assumptions and decision levels.                               *)

(* The invariant of the searches before the loop and of the loop.          *)
THEOREM SolveInvariant ==
    ASSUME AuxNotAssumed
    PROVE  SolveSpec => []SolveInv
<1>1. InitSolve => SolveInv
  BY InitInv
<1>2. SolveInv /\ [NextSolve]_allvars => SolveInv'
  BY NextSolveInv
<1> QED BY <1>1, <1>2, PTL DEF SolveSpec

(* The implication graph that analyze and minimize walk is acyclic, its    *)
(* reasons are unit under the literals before them, and its levels are     *)
(* those that chronological backtracking needs.                            *)
THEOREM ImplicationGraphRight ==
    ASSUME AuxNotAssumed
    PROVE  SolveSpec => []ImplicationGraph
<1>1. SolveInv => ImplicationGraph
  BY InvGraph DEF SolveInv
<1> QED BY <1>1, SolveInvariant, PTL

(* When propagate ends without a conflict no clause is unit or falsified,  *)
(* although backtrack keeps literals assigned out of order.                *)
THEOREM PropagationRight ==
    ASSUME AuxNotAssumed
    PROVE  SolveSpec => []PropagationComplete
<1>1. SolveInv => PropagationComplete
  BY InvComplete DEF SolveInv
<1> QED BY <1>1, SolveInvariant, PTL

(* The clauses that analyze learns follow from the formula alone, and      *)
(* drive the search on after any backtracking.                             *)
THEOREM LearningRight ==
    ASSUME AuxNotAssumed
    PROVE  SolveSpec => []LearnedRight
<1>1. SolveInv => LearnedRight
  BY InvLearned DEF SolveInv
<1> QED BY <1>1, SolveInvariant, PTL

(* Answers 10 and 20 of the loop, of the saved phases, of the lucky phases *)
(* and of produce_failed_assumptions are right, and the last of them stops *)
(* before the assumptions are used up.                                     *)
THEOREM AnswersRight ==
    ASSUME AuxNotAssumed
    PROVE  SolveSpec => []AnswerRight
<1>1. SolveInv => AnswerRight
  BY DEF SolveInv, CdclInv, AnswerInv, TaskInv, AnswerRight, FailedAssumptionsFail
<1> QED BY <1>1, SolveInvariant, PTL
=============================================================================
