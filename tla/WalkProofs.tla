----------------------------- MODULE WalkProofs -----------------------------
(***************************************************************************)
(* Local search in CaDiCaL and in Kissat, for all formulas, calls and      *)
(* bounds: WalkInv and KissatWalkInv are inductive.                        *)
(***************************************************************************)
EXTENDS Walk, KissatWalk, Recursion

(* What is assumed of the clauses of a call.                               *)
LEMMA CallIs ==
    ASSUME WalkTypeOK
    PROVE  /\ FixedLits \subseteq Int /\ work.vars \subseteq Nat \ {0}
           /\ IsFiniteSet(WalkClauses)
           /\ \A c \in WalkClauses : \A l \in c : l \in Int \ {0} /\ Var(l) \in work.vars
<1>1. work \in Walks /\ call \in DOMAIN work.calls
  BY DEF WalkTypeOK
<1>2. /\ work.vars \subseteq Nat \ {0} /\ work.units \subseteq Int
      /\ {work.calls[call].assumptions[i] : i \in DOMAIN work.calls[call].assumptions} \subseteq Int
      /\ IsFiniteSet(work.calls[call].clauses)
      /\ \A c \in work.calls[call].clauses : \A l \in c : l \in Int /\ {l, -l} \cap work.vars # {}
  BY <1>1, WalkAssumption
<1>3. FixedLits \subseteq Int
  BY <1>2 DEF FixedLits, Assumed
<1>4. ASSUME NEW c \in WalkClauses, NEW l \in c
      PROVE  l \in Int \ {0} /\ Var(l) \in work.vars
  <2>1. l \in Int /\ {l, -l} \cap work.vars # {}
    BY <1>2, <1>4 DEF WalkClauses
  <2>2. l \in work.vars \/ -l \in work.vars
    BY <2>1
  <2>3. CASE l \in work.vars
    BY <1>2, <2>1, <2>3 DEF Var
  <2>4. CASE -l \in work.vars
    BY <1>2, <2>1, <2>4 DEF Var
  <2> QED BY <2>2, <2>3, <2>4
<1> QED BY <1>2, <1>3, <1>4 DEF WalkClauses

(* The clauses without a watch are the broken ones.                        *)
LEMMA BrokenAreFalse ==
    ASSUME WalkTypeOK, NEW A, Consistent(A), NEW w \in RightWatches(WalkClauses, A)
    PROVE  /\ DOMAIN w = WalkClauses /\ Broken(w) = FalseClauses(A)
           /\ Cardinality(Broken(w)) \in Nat
<1>1. DOMAIN w = WalkClauses /\ \A c \in WalkClauses : w[c] \in WatchesOf(c, A)
  BY DEF RightWatches
<1>2. ASSUME NEW c \in WalkClauses PROVE w[c] = 0 <=> c \cap A = {}
  <2>1. 0 \notin c
    BY CallIs
  <2> QED BY <1>1, <2>1 DEF WatchesOf
<1>3. Broken(w) = FalseClauses(A)
  BY <1>1, <1>2 DEF Broken, FalseClauses
<1>4. IsFiniteSet(FalseClauses(A))
  <2>1. FalseClauses(A) \subseteq WalkClauses
    BY DEF FalseClauses
  <2> QED BY <2>1, CallIs, FS_Subset
<1> QED BY <1>1, <1>3, <1>4, FS_CardinalityType

(* Phases are saved for the active variables: with the values that are     *)
(* fixed they falsify the same clauses.                                    *)
LEMMA SavedFalsify ==
    ASSUME WalkTypeOK, NEW A, Consistent(A), FixedLits \subseteq A
    PROVE  FalseClauses({l \in A : Var(l) \in work.vars} \cup FixedLits) = FalseClauses(A)
<1>1. ASSUME NEW c \in WalkClauses
      PROVE  c \cap ({l \in A : Var(l) \in work.vars} \cup FixedLits) = c \cap A
  BY CallIs
<1> QED BY <1>1 DEF FalseClauses

(* What walk_save_minimum leaves.                                          *)
LEMMA SaveMinimumIs ==
    ASSUME WalkTypeOK, SavedInv, Consistent(saved), NEW A, Consistent(A), FixedLits \subseteq A,
           NEW n \in Nat, n = Cardinality(FalseClauses(A)), SaveMinimum(n, A),
           UNCHANGED <<work, call, round>>
    PROVE  /\ leastEver' \in 0 .. n /\ SavedInv' /\ Consistent(saved')
           /\ leastEver = 0 => leastEver' = 0
<1>1. leastEver \in Nat \cup {-1}
  BY DEF WalkTypeOK
<1>2. FixedLits' = FixedLits /\ WalkClauses' = WalkClauses
  BY DEF FixedLits, Assumed, WalkClauses
<1>3. CASE leastEver = -1 \/ n < leastEver
  <2>1. leastEver' = n /\ saved' = {l \in A : Var(l) \in work.vars}
    BY <1>3 DEF SaveMinimum
  <2>2. FalseClauses(saved \cup FixedLits)' = FalseClauses(A)
    BY <1>2, <2>1, SavedFalsify DEF FalseClauses
  <2>3. SavedInv'
    BY <2>1, <2>2 DEF SavedInv
  <2>4. Consistent(saved')
    BY <2>1 DEF Consistent
  <2> QED BY <1>1, <1>3, <2>1, <2>3, <2>4
<1>4. CASE ~(leastEver = -1 \/ n < leastEver)
  <2>1. leastEver' = leastEver /\ saved' = saved
    BY <1>4 DEF SaveMinimum
  <2>2. SavedInv'
    BY <1>2, <2>1 DEF SavedInv, FalseClauses
  <2>3. leastEver \in 0 .. n
    BY <1>1, <1>4
  <2> QED BY <2>1, <2>2, <2>3
<1> QED BY <1>3, <1>4

(* A round starts from consistent values that agree with what is fixed.    *)
LEMMA StartValues ==
    ASSUME WalkTypeOK, ~RoundFails, NEW P, Consistent(P)
    PROVE  Consistent(FixedLits \cup {l \in P : -l \notin FixedLits})
<1> DEFINE A == FixedLits \cup {l \in P : -l \notin FixedLits}
<1>1. FixedLits \subseteq Int /\ \A l \in FixedLits : -l \notin FixedLits
  BY CallIs DEF RoundFails
<1>2. A \subseteq Int
  BY <1>1 DEF Consistent
<1>3. ASSUME NEW l \in A, -l \in A PROVE FALSE
  <2>1. l \in Int /\ -(-l) = l
    BY <1>2
  <2> QED BY <1>1, <1>3, <2>1 DEF Consistent
<1> QED BY <1>2, <1>3 DEF Consistent

(* A new round.                                                            *)
LEMMA StartRoundStep ==
    ASSUME WalkInv, StartRound
    PROVE  WalkInv'
<1>0. WalkTypeOK /\ SavedInv /\ Consistent(saved) /\ Consistent(prev)
  BY DEF WalkInv
<1> DEFINE P == IF round > 0 /\ prev # {} THEN prev ELSE saved
<1>1. PICK A : A = FixedLits \cup {l \in P : -l \notin FixedLits}
  OBVIOUS
<1>2. Consistent(A) /\ FixedLits \subseteq A
  <2>1. Consistent(P)
    BY <1>0
  <2> HIDE DEF P
  <2> QED BY <1>0, <1>1, <2>1, StartValues DEF StartRound
<1>3. PICK n : n = Cardinality(FalseClauses(A))
  OBVIOUS
<1>4. /\ vals' = A /\ watch' \in RightWatches(WalkClauses, A) /\ least' = n
      /\ SaveMinimum(n, A)
      /\ UNCHANGED <<work, call, round, prev, walkResult>>
  BY <1>1, <1>3 DEF StartRound
<1> HIDE DEF P
<1>5. n \in Nat
  BY <1>0, <1>2, <1>3, <1>4, BrokenAreFalse
<1>6. /\ leastEver' \in 0 .. n /\ SavedInv' /\ Consistent(saved')
      /\ leastEver = 0 => leastEver' = 0
  BY <1>0, <1>2, <1>3, <1>4, <1>5, SaveMinimumIs
<1>7. FixedLits' = FixedLits /\ WalkClauses' = WalkClauses
  BY <1>4 DEF FixedLits, Assumed, WalkClauses
<1>8. RoundInv'
  <2>1. RightWatches(WalkClauses', vals') = RightWatches(WalkClauses, A)
    BY <1>4, <1>7
  <2>2. watch' \in RightWatches(WalkClauses', vals')
    BY <1>4, <2>1
  <2> QED BY <1>2, <1>4, <1>5, <1>6, <1>7, <2>2 DEF RoundInv
<1>9. WalkTypeOK'
  BY <1>0, <1>4, <1>6 DEF WalkTypeOK
<1>10. Consistent(prev') /\ (walkResult' = 10 => leastEver' = 0)
  BY <1>0, <1>4, <1>6 DEF WalkInv
<1> QED BY <1>6, <1>8, <1>9, <1>10 DEF WalkInv

(* The watches after a flip: clauses that the literal satisfies get it,    *)
(* clauses that were watched by its negation another one or none.          *)
LEMMA FlippedWatches ==
    ASSUME WalkTypeOK, Consistent(vals), watch \in RightWatches(WalkClauses, vals),
           NEW l \in Int \ {0}, NEW A, A = (vals \ {-l}) \cup {l},
           NEW w, w \in Replacements(Made(watch, l), l, A)
    PROVE  w \in RightWatches(WalkClauses, A)
<1>1. /\ watch \in [WalkClauses -> {0} \cup (vals \cap UNION WalkClauses)]
      /\ \A c \in WalkClauses : watch[c] \in WatchesOf(c, vals)
  BY DEF RightWatches
<1>2. PICK m : m = Made(watch, l)
  OBVIOUS
<1>3. /\ DOMAIN m = WalkClauses
      /\ \A c \in WalkClauses : m[c] = IF watch[c] = 0 /\ l \in c THEN l ELSE watch[c]
  BY <1>1, <1>2 DEF Made
<1>4. PICK r \in RightWatches({c \in DOMAIN m : m[c] = -l}, A) :
            w = [c \in DOMAIN m |-> IF m[c] = -l THEN r[c] ELSE m[c]]
  <2>1. w \in Replacements(m, l, A)
    BY <1>2
  <2> QED BY <2>1 DEF Replacements
<1>5. /\ DOMAIN r = {c \in WalkClauses : m[c] = -l}
      /\ \A c \in DOMAIN r : r[c] \in WatchesOf(c, A)
  BY <1>3, <1>4 DEF RightWatches
<1>6. /\ DOMAIN w = WalkClauses
      /\ w = [c \in WalkClauses |-> w[c]]
      /\ \A c \in WalkClauses : w[c] = IF c \in DOMAIN r THEN r[c] ELSE m[c]
  BY <1>3, <1>4, <1>5
<1>7. ASSUME NEW c \in WalkClauses
      PROVE  w[c] \in WatchesOf(c, A)
  <2>1. CASE c \in DOMAIN r
    BY <1>5, <1>6, <2>1
  <2>2. CASE c \notin DOMAIN r
    <3>1. w[c] = m[c] /\ m[c] # -l
      BY <1>5, <1>6, <2>2
    <3>2. 0 \notin c
      BY CallIs
    <3>3. CASE watch[c] = 0 /\ l \in c
      BY <1>3, <3>1, <3>3 DEF WatchesOf
    <3>4. CASE watch[c] = 0 /\ l \notin c
      <4>1. c \cap vals = {}
        BY <1>1, <3>2, <3>4 DEF WatchesOf
      <4>2. c \cap A = {}
        BY <3>4, <4>1
      <4> QED BY <1>3, <3>1, <3>4, <4>2 DEF WatchesOf
    <3>5. CASE watch[c] # 0
      <4>1. watch[c] \in c \cap vals
        BY <1>1, <3>5 DEF WatchesOf
      <4>2. w[c] = watch[c] /\ watch[c] # -l
        BY <1>3, <3>1, <3>5
      <4>3. watch[c] \in c \cap A
        BY <4>1, <4>2
      <4> QED BY <4>2, <4>3 DEF WatchesOf
    <3> QED BY <3>3, <3>4, <3>5
  <2> QED BY <2>1, <2>2
<1>8. ASSUME NEW c \in WalkClauses
      PROVE  w[c] \in {0} \cup (A \cap UNION WalkClauses)
  BY <1>7 DEF WatchesOf
<1>9. w \in [WalkClauses -> {0} \cup (A \cap UNION WalkClauses)]
  BY <1>6, <1>8
<1> QED BY <1>7, <1>9 DEF RightWatches

(* A flip.                                                                 *)
LEMMA FlipStep ==
    ASSUME WalkInv, NEW c \in DOMAIN watch, NEW l \in c, Flip(c, l)
    PROVE  WalkInv'
<1>0. /\ WalkTypeOK /\ SavedInv /\ Consistent(saved) /\ Consistent(prev) /\ at = "flip"
      /\ watch \in RightWatches(WalkClauses, vals)
      /\ FixedLits \subseteq vals /\ Consistent(vals)
      /\ least \in Nat /\ leastEver \in 0 .. least
  BY DEF WalkInv, RoundInv, Flip
<1>1. c \in WalkClauses /\ l \in Int \ {0} /\ l \notin FixedLits /\ -l \notin FixedLits
  <2>1. DOMAIN watch = WalkClauses
    BY <1>0, BrokenAreFalse
  <2> QED BY <1>0, <2>1, CallIs DEF Flip, Flippable
<1>2. PICK A : A = (vals \ {-l}) \cup {l}
  OBVIOUS
<1>3. Consistent(A) /\ FixedLits \subseteq A
  <2>1. A \subseteq Int
    BY <1>0, <1>1, <1>2 DEF Consistent
  <2>2. ASSUME NEW x \in A, -x \in A PROVE FALSE
    <3>1. x \in Int /\ -(-x) = x /\ -(-l) = l /\ l # -l
      BY <1>1, <2>1
    <3>2. x # -l /\ -x # -l
      BY <1>2, <2>2, <3>1
    <3>3. x # l
      BY <1>2, <2>2, <3>1
    <3>4. -x # l
      BY <3>1, <3>2
    <3> QED BY <1>0, <1>2, <2>2, <3>1, <3>2, <3>3, <3>4 DEF Consistent
  <2> QED BY <1>0, <1>1, <1>2, <2>1, <2>2 DEF Consistent
<1>4. PICK w \in Replacements(Made(watch, l), l, A) :
        /\ watch' = w
        /\ least' = IF Cardinality(Broken(w)) < least THEN Cardinality(Broken(w)) ELSE least
        /\ IF Cardinality(Broken(w)) < least THEN SaveMinimum(Cardinality(Broken(w)), A)
           ELSE UNCHANGED <<leastEver, saved>>
  BY <1>2 DEF Flip
<1>5. vals' = A /\ UNCHANGED <<work, call, round, prev, walkResult>>
  BY <1>2 DEF Flip
<1>6. w \in RightWatches(WalkClauses, A)
  BY <1>0, <1>1, <1>2, <1>4, FlippedWatches
<1>7. PICK n \in Nat : n = Cardinality(Broken(w)) /\ n = Cardinality(FalseClauses(A))
  BY <1>0, <1>3, <1>6, BrokenAreFalse
<1>8. FixedLits' = FixedLits /\ WalkClauses' = WalkClauses
  BY <1>5 DEF FixedLits, Assumed, WalkClauses
<1>9. /\ least' \in Nat /\ leastEver' \in 0 .. least' /\ SavedInv' /\ Consistent(saved')
      /\ leastEver = 0 => leastEver' = 0
  <2>1. CASE n < least
    <3>1. least' = n /\ SaveMinimum(n, A)
      BY <1>4, <1>7, <2>1
    <3> QED BY <1>0, <1>3, <1>5, <1>7, <3>1, SaveMinimumIs
  <2>2. CASE ~(n < least)
    <3>1. least' = least /\ leastEver' = leastEver /\ saved' = saved
      BY <1>4, <1>7, <2>2
    <3>2. SavedInv'
      BY <1>0, <1>5, <1>8, <3>1 DEF SavedInv, FalseClauses
    <3> QED BY <1>0, <3>1, <3>2
  <2> QED BY <2>1, <2>2
<1>10. RoundInv'
  <2>1. RightWatches(WalkClauses', vals') = RightWatches(WalkClauses, A)
    BY <1>5, <1>8
  <2>2. watch' \in RightWatches(WalkClauses', vals')
    BY <1>4, <1>6, <2>1
  <2> QED BY <1>3, <1>5, <1>8, <1>9, <2>2 DEF RoundInv
<1>11. WalkTypeOK'
  BY <1>0, <1>5, <1>9 DEF WalkTypeOK
<1>12. Consistent(prev') /\ (walkResult' = 10 => leastEver' = 0)
  BY <1>0, <1>5, <1>9 DEF WalkInv
<1> QED BY <1>9, <1>10, <1>11, <1>12 DEF WalkInv

(* Total assignments are consistent.                                       *)
LEMMA TotalConsistent ==
    ASSUME NEW V, V \subseteq Nat \ {0}, NEW A \in TotalOver(V)
    PROVE  Consistent(A)
<1>1. PICK T \in SUBSET V : A = T \cup {-v : v \in V \ T}
  BY DEF TotalOver
<1>2. ASSUME NEW l \in A PROVE l \in Int /\ -l \notin A
  <2>1. CASE l \in T
    BY <1>1, <2>1
  <2>2. CASE l \notin T
    <3>1. PICK v \in V \ T : l = -v
      BY <1>1, <1>2, <2>2
    <3>2. -l = v /\ \A u \in V : v # -u
      BY <3>1
    <3> QED BY <1>1, <3>1, <3>2
  <2> QED BY <2>1, <2>2
<1> QED BY <1>2 DEF Consistent

(* The end of a round, and what is between rounds.                         *)
LEMMA OtherSteps ==
    ASSUME WalkInv, StartFailed \/ EndRound \/ RephaseWalk \/ CallAgain
    PROVE  WalkInv'
<1>0. /\ WalkTypeOK /\ RoundInv /\ SavedInv /\ Consistent(saved) /\ Consistent(prev)
      /\ walkResult = 10 => leastEver = 0
  BY DEF WalkInv
<1>1. at' # "flip"
  BY DEF StartFailed, EndRound, RephaseWalk, CallAgain
<1>2. RoundInv'
  BY <1>1 DEF RoundInv
<1>3. CASE StartFailed
  <2>1. WalkTypeOK' /\ SavedInv'
    BY <1>0, <1>3 DEF StartFailed, WalkTypeOK, SavedInv, FixedLits, Assumed, FalseClauses, WalkClauses
  <2>2. Consistent(saved') /\ Consistent(prev') /\ walkResult' # 10
    BY <1>0, <1>3 DEF StartFailed
  <2> QED BY <1>2, <2>1, <2>2 DEF WalkInv
<1>4. CASE EndRound
  <2>1. /\ UNCHANGED <<work, call, leastEver, saved>> /\ prev' = saved /\ round' \in Nat
        /\ round' > 0 => round > 0
    <3>1. round \in Nat /\ (round' = round + 1 \/ round' = round)
      BY <1>0, <1>4 DEF EndRound, WalkTypeOK
    <3>2. round' = round \/ round \in 1 .. MaxRounds - 1
      BY <1>4 DEF EndRound
    <3> QED BY <1>4, <3>1, <3>2, WalkAssumption DEF EndRound
  <2>2. WalkTypeOK' /\ SavedInv'
    BY <1>0, <2>1 DEF WalkTypeOK, SavedInv, FixedLits, Assumed, FalseClauses, WalkClauses
  <2>3. walkResult' = 10 => leastEver = 0
    <3>1. least \in Nat /\ leastEver \in 0 .. least /\ walkResult' = IF least > 0 THEN 0 ELSE 10
      BY <1>0, <1>4 DEF EndRound, RoundInv
    <3> QED BY <3>1
  <2>4. Consistent(saved') /\ Consistent(prev')
    BY <1>0, <2>1
  <2> QED BY <1>2, <2>1, <2>2, <2>3, <2>4 DEF WalkInv
<1>5. CASE RephaseWalk
  <2>1. /\ saved' \in TotalOver(work.vars) /\ round' = 0
        /\ UNCHANGED <<work, call, leastEver, prev, walkResult>>
    BY <1>5 DEF RephaseWalk
  <2>2. Consistent(saved')
    BY <1>0, <2>1, CallIs, TotalConsistent
  <2>3. WalkTypeOK' /\ SavedInv'
    BY <1>0, <2>1 DEF WalkTypeOK, SavedInv
  <2>4. Consistent(prev') /\ (walkResult' = 10 => leastEver' = 0)
    BY <1>0, <2>1
  <2> QED BY <1>2, <2>2, <2>3, <2>4 DEF WalkInv
<1>6. CASE CallAgain
  <2>1. /\ call < Len(work.calls) /\ call' = call + 1 /\ round' = 1
        /\ UNCHANGED <<work, leastEver, saved, prev, walkResult>>
    BY <1>6 DEF CallAgain
  <2>2. Len(work.calls) \in Nat /\ DOMAIN work.calls = 1 .. Len(work.calls) /\ call \in DOMAIN work.calls
    BY <1>0, WalkAssumption DEF WalkTypeOK
  <2>3. call' \in DOMAIN work.calls /\ call' # 1
    BY <2>1, <2>2
  <2>4. WalkTypeOK' /\ SavedInv'
    BY <1>0, <2>1, <2>3 DEF WalkTypeOK, SavedInv
  <2>5. Consistent(saved') /\ Consistent(prev') /\ (walkResult' = 10 => leastEver' = 0)
    BY <1>0, <2>1
  <2> QED BY <1>2, <2>4, <2>5 DEF WalkInv
<1> QED BY <1>3, <1>4, <1>5, <1>6

(* Before the first round.                                                 *)
LEMMA WalkInit ==
    ASSUME InitWalk
    PROVE  WalkInv
<1>1. /\ work \in Walks /\ call = 1 /\ round = 1 /\ leastEver = -1 /\ saved \in TotalOver(work.vars)
      /\ prev = {} /\ walkResult = 0 /\ at = "start"
  BY DEF InitWalk
<1>2. /\ work.vars \subseteq Nat \ {0} /\ Len(work.calls) \in Nat \ {0}
      /\ DOMAIN work.calls = 1 .. Len(work.calls)
  BY <1>1, WalkAssumption
<1>3. Consistent(saved) /\ Consistent(prev)
  BY <1>1, <1>2, TotalConsistent DEF Consistent
<1>4. WalkTypeOK
  BY <1>1, <1>2 DEF WalkTypeOK
<1> QED BY <1>1, <1>3, <1>4 DEF WalkInv, RoundInv, SavedInv

(* Watches, minimum and saved phases are right in every state of local     *)
(* search and of walks by rephasing, over all calls of solve (walk.cpp).   *)
THEOREM WalkInvariant == WalkSpec => []WalkInv
<1>1. InitWalk => WalkInv
  BY WalkInit
<1>2. ASSUME WalkInv, [NextWalk]_walker PROVE WalkInv'
  <2>1. CASE StartRound
    BY <1>2, <2>1, StartRoundStep
  <2>2. CASE \E c \in DOMAIN watch : \E l \in c : Flip(c, l)
    BY <1>2, <2>2, FlipStep
  <2>3. CASE StartFailed \/ EndRound \/ RephaseWalk \/ CallAgain
    BY <1>2, <2>3, OtherSteps
  <2>4. CASE UNCHANGED walker
    <3>1. UNCHANGED <<work, call, round, vals, watch, least, leastEver, saved, prev, walkResult, at>>
      BY <2>4 DEF walker
    <3>2. FixedLits' = FixedLits /\ WalkClauses' = WalkClauses
      BY <3>1 DEF FixedLits, Assumed, WalkClauses
    <3>3. RightWatches(WalkClauses', vals') = RightWatches(WalkClauses, vals)
      BY <3>1, <3>2
    <3>4. RoundInv'
      BY <1>2, <3>1, <3>2, <3>3 DEF WalkInv, RoundInv
    <3>5. SavedInv' /\ WalkTypeOK'
      BY <1>2, <3>1, <3>2 DEF WalkInv, SavedInv, WalkTypeOK, FalseClauses
    <3> QED BY <1>2, <3>1, <3>4, <3>5 DEF WalkInv
  <2> QED BY <1>2, <2>1, <2>2, <2>3, <2>4 DEF NextWalk
<1> QED BY <1>1, <1>2, PTL DEF WalkSpec

(* Local search reports what it has: the watches stay exact through flips, *)
(* assumptions hold, the saved phases falsify as many clauses as the       *)
(* minimum says, and a round that answers 10 has reached 0 (walk.cpp).     *)
THEOREM WalkIsRight == WalkSpec => []WalkRight
<1>1. WalkInv => WalkRight
  BY DEF WalkInv, WalkRight, RoundInv, SavedInv, Consistent
<1> QED BY <1>1, WalkInvariant, PTL

-----------------------------------------------------------------------------
(* KissatWalk.  What is assumed of the formula.                            *)
LEMMA KissatInputIs ==
    ASSUME input \in KissatWalks
    PROVE  /\ input.vars \in Nat /\ Len(input.clauses) \in Nat
           /\ KissatClauses = 1 .. Len(input.clauses)
           /\ \A k \in KissatClauses :
                 /\ input.clauses[k] \subseteq (-input.vars .. input.vars) \ {0}
                 /\ IsFiniteSet(input.clauses[k])
                 /\ \A l \in input.clauses[k] : -l \notin input.clauses[k]
<1>1. /\ input.vars \in Nat
      /\ input.clauses \in Seq((SUBSET ((-input.vars .. input.vars) \ {0})) \ {{}})
      /\ \A k \in DOMAIN input.clauses : \A l \in input.clauses[k] : -l \notin input.clauses[k]
  BY KissatWalkAssumption
<1>2. Len(input.clauses) \in Nat /\ DOMAIN input.clauses = 1 .. Len(input.clauses)
  BY <1>1
<1>3. ASSUME NEW k \in 1 .. Len(input.clauses)
      PROVE  input.clauses[k] \subseteq (-input.vars .. input.vars) \ {0}
  BY <1>1
<1>4. IsFiniteSet((-input.vars .. input.vars) \ {0})
  <2>1. IsFiniteSet(-input.vars .. input.vars)
    BY <1>1, FS_Interval
  <2> QED BY <2>1, FS_Subset
<1>5. ASSUME NEW k \in 1 .. Len(input.clauses) PROVE IsFiniteSet(input.clauses[k])
  BY <1>3, <1>4, FS_Subset
<1> QED BY <1>1, <1>2, <1>3, <1>5 DEF KissatClauses

(* A clause that is falsified is put on the stack.                         *)
LEMMA PushIs ==
    ASSUME NEW s, NEW X, StackOf(s, X), NEW k \in KissatClauses, k \notin X
    PROVE  StackOf(PushUnsat(s, k), X \cup {k})
<1>1. /\ s.stack \in Seq(KissatClauses) /\ s.pos \in [KissatClauses -> Nat]
      /\ {s.stack[n] : n \in 1 .. Len(s.stack)} = X
      /\ \A n \in 1 .. Len(s.stack) : s.pos[s.stack[n]] = n
  BY DEF StackOf
<1> DEFINE st == Append(s.stack, k)
           ps == [s.pos EXCEPT ![k] = Len(s.stack) + 1]
<1>2. PushUnsat(s, k) = [stack |-> st, pos |-> ps]
  BY DEF PushUnsat
<1>3. /\ st \in Seq(KissatClauses) /\ Len(st) = Len(s.stack) + 1 /\ Len(s.stack) \in Nat
      /\ st[Len(s.stack) + 1] = k
      /\ \A n \in 1 .. Len(s.stack) : st[n] = s.stack[n] /\ s.stack[n] \in KissatClauses
  BY <1>1
<1>4. ps \in [KissatClauses -> Nat] /\ ps[k] = Len(s.stack) + 1
      /\ \A x \in KissatClauses : x # k => ps[x] = s.pos[x]
  BY <1>1, <1>3
<1> HIDE DEF st, ps
<1>5. \A n \in 1 .. Len(st) : n \in 1 .. Len(s.stack) \/ n = Len(s.stack) + 1
  BY <1>3
<1>6. {st[n] : n \in 1 .. Len(st)} = X \cup {k}
  <2>1. ASSUME NEW x \in X \cup {k} PROVE \E n \in 1 .. Len(st) : st[n] = x
    <3>1. CASE x = k
      BY <1>3, <3>1
    <3>2. CASE x \in X
      <4>1. PICK n \in 1 .. Len(s.stack) : s.stack[n] = x
        BY <1>1, <3>2
      <4> QED BY <1>3, <4>1
    <3> QED BY <3>1, <3>2
  <2>2. ASSUME NEW n \in 1 .. Len(st) PROVE st[n] \in X \cup {k}
    BY <1>1, <1>3, <1>5
  <2> QED BY <2>1, <2>2
<1>7. ASSUME NEW n \in 1 .. Len(st) PROVE ps[st[n]] = n
  <2>1. CASE n = Len(s.stack) + 1
    BY <1>3, <1>4, <2>1
  <2>2. CASE n \in 1 .. Len(s.stack)
    <3>1. st[n] = s.stack[n] /\ s.stack[n] \in X
      BY <1>1, <1>3, <2>2
    <3>2. st[n] # k
      BY <3>1
    <3> QED BY <1>1, <1>3, <1>4, <2>2, <3>1, <3>2
  <2> QED BY <1>5, <2>1, <2>2
<1> QED BY <1>2, <1>3, <1>4, <1>6, <1>7 DEF StackOf

(* A clause that is satisfied is taken off the stack, whose last clause    *)
(* takes its place.                                                        *)
LEMMA PopIs ==
    ASSUME NEW s, NEW X, StackOf(s, X), NEW k \in X
    PROVE  StackOf(PopUnsat(s, k), X \ {k})
<1>1. /\ s.stack \in Seq(KissatClauses) /\ s.pos \in [KissatClauses -> Nat]
      /\ {s.stack[m] : m \in 1 .. Len(s.stack)} = X
      /\ \A m \in 1 .. Len(s.stack) : s.pos[s.stack[m]] = m
  BY DEF StackOf
<1> DEFINE n == Len(s.stack)
           last == s.stack[n]
           st == SubSeq([s.stack EXCEPT ![s.pos[k]] = last], 1, n - 1)
           ps == [s.pos EXCEPT ![last] = s.pos[k]]
<1>2. PopUnsat(s, k) = [stack |-> st, pos |-> ps]
  BY DEF PopUnsat
<1>3. PICK p \in 1 .. n : s.stack[p] = k
  BY <1>1
<1>4. n \in Nat /\ n >= 1 /\ s.pos[k] = p /\ last \in KissatClauses /\ k \in KissatClauses
  BY <1>1, <1>3
<1>5. [s.stack EXCEPT ![p] = last] \in Seq(KissatClauses)
      /\ Len([s.stack EXCEPT ![p] = last]) = n
  BY <1>1, <1>3, <1>4
<1>6. /\ st \in Seq(KissatClauses) /\ Len(st) = n - 1
      /\ \A m \in 1 .. n - 1 : st[m] = IF m = p THEN last ELSE s.stack[m]
  <2>1. PICK u : u = [s.stack EXCEPT ![p] = last]
    OBVIOUS
  <2>2. u \in Seq(KissatClauses) /\ Len(u) = n /\ st = SubSeq(u, 1, n - 1)
    BY <1>4, <1>5, <2>1
  <2>3. n - 1 \in Nat /\ n - 1 <= n
    BY <1>4
  <2>4. st \in Seq(KissatClauses) /\ Len(st) = n - 1 /\ \A m \in 1 .. n - 1 : st[m] = u[m]
    <3> HIDE DEF st, n
    <3> QED BY <2>2, <2>3
  <2>5. \A m \in 1 .. n - 1 : u[m] = IF m = p THEN last ELSE s.stack[m]
    BY <1>1, <1>4, <2>1
  <2> HIDE DEF st, n, last
  <2> QED BY <2>4, <2>5
<1>7. /\ ps \in [KissatClauses -> Nat] /\ ps[last] = p
      /\ \A x \in KissatClauses : x # last => ps[x] = s.pos[x]
  BY <1>1, <1>4
<1>8. n \in 1 .. n /\ \A m \in 1 .. n - 1 : m \in 1 .. n /\ m # n
  BY <1>4
<1>9. \A i, j \in 1 .. n : s.stack[i] = s.stack[j] => i = j
  BY <1>1
<1>10. \A m \in 1 .. n : s.stack[m] \in X /\ s.stack[m] \in KissatClauses
  BY <1>1
<1>11. \A m \in 1 .. n : m \in 1 .. n - 1 \/ m = n
  BY <1>4
<1>12. s.stack[n] = last
  OBVIOUS
<1>13. \A x \in X : \E m \in 1 .. n : s.stack[m] = x
  BY <1>1
<1>14. \A m \in 1 .. n : s.pos[s.stack[m]] = m
  BY <1>1
<1> HIDE DEF st, ps, n, last
<1>15. {st[m] : m \in 1 .. Len(st)} = X \ {k}
  <2>1. ASSUME NEW m \in 1 .. n - 1 PROVE st[m] \in X \ {k}
    <3>1. CASE m = p
      <4>1. st[m] = s.stack[n] /\ n # p
        BY <1>6, <1>8, <1>12, <3>1
      <4> QED BY <1>3, <1>8, <1>9, <1>10, <4>1
    <3>2. CASE m # p
      BY <1>3, <1>6, <1>8, <1>9, <1>10, <3>2
    <3> QED BY <3>1, <3>2
  <2>2. ASSUME NEW x \in X \ {k} PROVE \E m \in 1 .. n - 1 : st[m] = x
    <3>1. PICK m \in 1 .. n : s.stack[m] = x
      BY <1>13
    <3>2. m # p
      BY <1>3, <3>1
    <3>3. CASE m = n
      <4>1. p \in 1 .. n - 1
        BY <1>3, <1>11, <3>2, <3>3
      <4> QED BY <1>6, <1>12, <3>1, <3>3, <4>1
    <3>4. CASE m # n
      BY <1>6, <1>11, <3>1, <3>2, <3>4
    <3> QED BY <3>3, <3>4
  <2> QED BY <1>6, <2>1, <2>2
<1>16. ASSUME NEW m \in 1 .. n - 1 PROVE ps[st[m]] = m
  <2>1. CASE m = p
    BY <1>6, <1>7, <2>1
  <2>2. CASE m # p
    <3>1. st[m] = s.stack[m] /\ s.stack[m] # last
      BY <1>6, <1>8, <1>9, <1>12, <2>2
    <3> QED BY <1>7, <1>8, <1>10, <1>14, <3>1
  <2> QED BY <2>1, <2>2
<1>17. PICK r : r = PopUnsat(s, k)
  OBVIOUS
<1>18. r.stack = st /\ r.pos = ps
  BY <1>2, <1>17
<1>19. \A m \in 1 .. Len(st) : ps[st[m]] = m
  BY <1>6, <1>16
<1>20. StackOf(r, X \ {k})
  <2>1. r.stack \in Seq(KissatClauses) /\ r.pos \in [KissatClauses -> Nat]
    BY <1>6, <1>7, <1>18
  <2>2. {r.stack[m] : m \in 1 .. Len(r.stack)} = X \ {k}
    BY <1>15, <1>18
  <2>3. \A m \in 1 .. Len(r.stack) : r.pos[r.stack[m]] = m
    BY <1>18, <1>19
  <2> QED BY <2>1, <2>2, <2>3 DEF StackOf
<1> QED BY <1>17, <1>20

(* All clauses of S are put on the stack.                                  *)
LEMMA PushAll ==
    ASSUME input \in KissatWalks, NEW s, NEW X, StackOf(s, X),
           s = [stack |-> s.stack, pos |-> s.pos],
           NEW S \in SUBSET KissatClauses, S \cap X = {}
    PROVE  StackOf(InOrder(s, S, PushUnsat), X \cup S)
<1> DEFINE N == Len(input.clauses)
           upto[k \in Nat] == IF k = 0 THEN s
                              ELSE IF k \in S THEN PushUnsat(upto[k - 1], k) ELSE upto[k - 1]
<1>1. InOrder(s, S, PushUnsat) = upto[N]
  BY DEF InOrder
<1>2. upto[0] = s /\ \A k \in Nat \ {0} :
         upto[k] = IF k \in S THEN PushUnsat(upto[k - 1], k) ELSE upto[k - 1]
  <2> DEFINE D == [stack : Seq(KissatClauses), pos : [KissatClauses -> Nat]]
             F == [x \in Nat \X D |-> IF x[1] \in S THEN PushUnsat(x[2], x[1]) ELSE x[2]]
  <2>1. s \in D
    BY DEF StackOf
  <2>2. F \in [Nat \X D -> D]
    <3>1. ASSUME NEW t \in D, NEW k \in S PROVE PushUnsat(t, k) \in D
      <4>1. t.stack \in Seq(KissatClauses) /\ t.pos \in [KissatClauses -> Nat] /\ k \in KissatClauses
        OBVIOUS
      <4>2. Append(t.stack, k) \in Seq(KissatClauses) /\ Len(t.stack) + 1 \in Nat
        BY <4>1
      <4>3. [t.pos EXCEPT ![k] = Len(t.stack) + 1] \in [KissatClauses -> Nat]
        BY <4>1, <4>2
      <4> QED BY <4>2, <4>3 DEF PushUnsat
    <3> HIDE DEF D
    <3> QED BY <3>1
  <2>3. \E f : RecursiveOn(f, D, s, F)
    <3> HIDE DEF D, F
    <3> QED BY <2>1, <2>2, RecursiveFunction
  <2> PICK f : RecursiveOn(f, D, s, F)
    BY <2>3
  <2>4. f \in [Nat -> D] /\ f[0] = s /\ \A k \in Nat \ {0} : f[k] = F[<<k, f[k - 1]>>]
    BY DEF RecursiveOn
  <2>5. \A k \in Nat \ {0} : f[k] = IF k \in S THEN PushUnsat(f[k - 1], k) ELSE f[k - 1]
    <3> SUFFICES ASSUME NEW k \in Nat \ {0}
                 PROVE  f[k] = IF k \in S THEN PushUnsat(f[k - 1], k) ELSE f[k - 1]
      OBVIOUS
    <3> HIDE DEF D
    <3>1. k - 1 \in Nat /\ f[k - 1] \in D
      BY <2>4
    <3>2. <<k, f[k - 1]>> \in Nat \X D
      BY <3>1
    <3>3. F[<<k, f[k - 1]>>] = IF k \in S THEN PushUnsat(f[k - 1], k) ELSE f[k - 1]
      BY <3>2
    <3> QED BY <2>4, <3>3
  <2>6. f = [k \in Nat |-> IF k = 0 THEN s
                           ELSE IF k \in S THEN PushUnsat(f[k - 1], k) ELSE f[k - 1]]
    <3> HIDE DEF D, F
    <3> QED BY <2>4, <2>5
  <2>7. upto = [k \in Nat |-> IF k = 0 THEN s
                              ELSE IF k \in S THEN PushUnsat(upto[k - 1], k) ELSE upto[k - 1]]
    BY <2>6
  <2> HIDE DEF upto
  <2> QED BY <2>7
<1> HIDE DEF upto
<1> DEFINE T == {k \in Nat : StackOf(upto[k], X \cup (S \cap 1 .. k))}
<1>3. 0 \in T
  <2>1. X \cup (S \cap 1 .. 0) = X
    OBVIOUS
  <2> QED BY <1>2, <2>1
<1>4. ASSUME NEW k \in Nat, k \in T PROVE k + 1 \in T
  <2>1. k + 1 \in Nat \ {0} /\ (k + 1) - 1 = k
    OBVIOUS
  <2>2. StackOf(upto[k], X \cup (S \cap 1 .. k))
    BY <1>4
  <2>3. \A j : j \in 1 .. k + 1 <=> j \in 1 .. k \/ j = k + 1
    OBVIOUS
  <2>4. CASE k + 1 \in S
    <3>1. X \cup (S \cap 1 .. (k + 1)) = (X \cup (S \cap 1 .. k)) \cup {k + 1}
      BY <2>3, <2>4
    <3>2. k + 1 \in KissatClauses /\ k + 1 \notin X \cup (S \cap 1 .. k)
      BY <2>4
    <3>3. upto[k + 1] = PushUnsat(upto[k], k + 1)
      BY <1>2, <2>1, <2>4
    <3>4. StackOf(PushUnsat(upto[k], k + 1), (X \cup (S \cap 1 .. k)) \cup {k + 1})
      BY <2>2, <3>2, PushIs
    <3>5. StackOf(upto[k + 1], X \cup (S \cap 1 .. (k + 1)))
      BY ONLY <3>1, <3>3, <3>4
    <3> QED BY <2>1, <3>5
  <2>5. CASE k + 1 \notin S
    <3>1. X \cup (S \cap 1 .. (k + 1)) = X \cup (S \cap 1 .. k)
      BY <2>3, <2>5
    <3>2. upto[k + 1] = upto[k]
      BY <1>2, <2>1, <2>5
    <3>3. StackOf(upto[k + 1], X \cup (S \cap 1 .. (k + 1)))
      BY ONLY <2>2, <3>1, <3>2
    <3> QED BY <2>1, <3>3
  <2> QED BY <2>4, <2>5
<1>5. N \in Nat /\ S \cap 1 .. N = S
  BY KissatInputIs
<1> HIDE DEF T
<1>6. N \in T
  BY <1>3, <1>4, <1>5, SetInduction
<1> QED BY <1>1, <1>5, <1>6 DEF T

(* All clauses of S are taken off the stack.                               *)
LEMMA PopAll ==
    ASSUME input \in KissatWalks, NEW s, NEW X, StackOf(s, X),
           s = [stack |-> s.stack, pos |-> s.pos],
           NEW S \in SUBSET X
    PROVE  /\ StackOf(InOrder(s, S, PopUnsat), X \ S)
           /\ \E t : /\ InOrder(s, S, PopUnsat) = t /\ t = [stack |-> t.stack, pos |-> t.pos]
<1> DEFINE N == Len(input.clauses)
           upto[k \in Nat] == IF k = 0 THEN s
                              ELSE IF k \in S THEN PopUnsat(upto[k - 1], k) ELSE upto[k - 1]
           D == [stack : Seq(KissatClauses), pos : [KissatClauses -> Nat]]
           Good(t, k) == t \in D /\ StackOf(t, X \ (S \cap 1 .. k))
<1>1. InOrder(s, S, PopUnsat) = upto[N]
  BY DEF InOrder
<1>2. s \in D
  BY DEF StackOf
<1>3. Good(s, 0)
  <2>1. X \ (S \cap 1 .. 0) = X
    OBVIOUS
  <2> HIDE DEF D
  <2> QED BY <1>2, <2>1
<1>4. ASSUME NEW k \in Nat, NEW t, Good(t, k)
      PROVE  Good(IF k + 1 \in S THEN PopUnsat(t, k + 1) ELSE t, k + 1)
  <2>1. \A j : j \in 1 .. k + 1 <=> j \in 1 .. k \/ j = k + 1
    OBVIOUS
  <2>2. CASE k + 1 \in S
    <3>1. X \ (S \cap 1 .. (k + 1)) = (X \ (S \cap 1 .. k)) \ {k + 1}
      BY <2>1, <2>2
    <3>2. k + 1 \in X \ (S \cap 1 .. k)
      BY <2>2
    <3>3. StackOf(PopUnsat(t, k + 1), (X \ (S \cap 1 .. k)) \ {k + 1})
      BY <1>4, <3>2, PopIs
    <3>4. PICK r : r = PopUnsat(t, k + 1)
      OBVIOUS
    <3>5. r = [stack |-> r.stack, pos |-> r.pos]
      BY <3>4 DEF PopUnsat
    <3>6. r.stack \in Seq(KissatClauses) /\ r.pos \in [KissatClauses -> Nat]
      BY <3>3, <3>4 DEF StackOf
    <3>7. r \in D
      BY <3>5, <3>6
    <3> HIDE DEF D
    <3> QED BY <2>2, <3>1, <3>3, <3>4, <3>7
  <2>3. CASE k + 1 \notin S
    <3>1. X \ (S \cap 1 .. (k + 1)) = X \ (S \cap 1 .. k)
      BY <2>1, <2>3
    <3> HIDE DEF D
    <3> QED BY <1>4, <2>3, <3>1
  <2> QED BY <2>2, <2>3
<1> HIDE DEF Good
<1>5. ASSUME NEW f, f[0] = s, NEW M \in Nat,
             \A k \in 1 .. M : f[k] = IF k \in S THEN PopUnsat(f[k - 1], k) ELSE f[k - 1]
      PROVE  Good(f[M], M)
  <2> DEFINE T == {k \in Nat : k <= M => Good(f[k], k)}
  <2>1. 0 \in T
    BY <1>3, <1>5
  <2>2. ASSUME NEW k \in Nat, k \in T PROVE k + 1 \in T
    <3> SUFFICES ASSUME k + 1 <= M PROVE Good(f[k + 1], k + 1)
      OBVIOUS
    <3>1. Good(f[k], k) /\ k + 1 \in 1 .. M /\ (k + 1) - 1 = k
      BY <2>2
    <3>2. f[k + 1] = IF k + 1 \in S THEN PopUnsat(f[k], k + 1) ELSE f[k]
      BY <1>5, <3>1
    <3> QED BY <1>4, <3>1, <3>2
  <2> HIDE DEF T
  <2>3. M \in T
    BY <2>1, <2>2, SetInduction
  <2> QED BY <2>3 DEF T
<1>6. upto[0] = s /\ \A k \in Nat \ {0} :
         upto[k] = IF k \in S THEN PopUnsat(upto[k - 1], k) ELSE upto[k - 1]
  <2> DEFINE F == [x \in Nat \X D |-> IF x[1] \in S /\ PopUnsat(x[2], x[1]) \in D
                                      THEN PopUnsat(x[2], x[1]) ELSE x[2]]
  <2> HIDE DEF D
  <2>1. F \in [Nat \X D -> D]
    OBVIOUS
  <2>2. \E f : RecursiveOn(f, D, s, F)
    <3> HIDE DEF F
    <3> QED BY <1>2, <2>1, RecursiveFunction
  <2> PICK f : RecursiveOn(f, D, s, F)
    BY <2>2
  <2>3. f \in [Nat -> D] /\ f[0] = s /\ \A k \in Nat \ {0} : f[k] = F[<<k, f[k - 1]>>]
    BY DEF RecursiveOn
  <2>4. \A k \in Nat \ {0} : f[k] = IF k \in S /\ PopUnsat(f[k - 1], k) \in D
                                    THEN PopUnsat(f[k - 1], k) ELSE f[k - 1]
    <3> SUFFICES ASSUME NEW k \in Nat \ {0}
                 PROVE  f[k] = IF k \in S /\ PopUnsat(f[k - 1], k) \in D
                               THEN PopUnsat(f[k - 1], k) ELSE f[k - 1]
      OBVIOUS
    <3>1. k - 1 \in Nat /\ f[k - 1] \in D
      BY <2>3
    <3>2. <<k, f[k - 1]>> \in Nat \X D
      BY <3>1
    <3>3. F[<<k, f[k - 1]>>] = IF k \in S /\ PopUnsat(f[k - 1], k) \in D
                               THEN PopUnsat(f[k - 1], k) ELSE f[k - 1]
      BY <3>2
    <3> QED BY <2>3, <3>3
  <2> HIDE DEF F
  <2> DEFINE T == {k \in Nat : Good(f[k], k)}
  <2>5. 0 \in T
    BY <1>3, <2>3
  <2>6. ASSUME NEW k \in Nat, Good(f[k], k)
        PROVE  /\ f[k + 1] = IF k + 1 \in S THEN PopUnsat(f[k], k + 1) ELSE f[k]
               /\ Good(f[k + 1], k + 1)
    <3>1. k + 1 \in Nat \ {0} /\ (k + 1) - 1 = k
      OBVIOUS
    <3>2. Good(IF k + 1 \in S THEN PopUnsat(f[k], k + 1) ELSE f[k], k + 1)
      BY <1>4, <2>6
    <3>3. k + 1 \in S => PopUnsat(f[k], k + 1) \in D
      BY <3>2 DEF Good
    <3>4. f[k + 1] = IF k + 1 \in S THEN PopUnsat(f[k], k + 1) ELSE f[k]
      BY <2>4, <3>1, <3>3
    <3> QED BY <3>2, <3>4
  <2>7. \A k \in Nat : k \in T => k + 1 \in T
    BY <2>6
  <2>8. \A k \in Nat : k \in T
    <3> HIDE DEF T
    <3> QED BY <2>5, <2>7, SetInduction
  <2>9. \A k \in Nat \ {0} : f[k] = IF k \in S THEN PopUnsat(f[k - 1], k) ELSE f[k - 1]
    <3> SUFFICES ASSUME NEW k \in Nat \ {0}
                 PROVE  f[k] = IF k \in S THEN PopUnsat(f[k - 1], k) ELSE f[k - 1]
      OBVIOUS
    <3>1. k - 1 \in Nat /\ (k - 1) + 1 = k
      OBVIOUS
    <3>2. Good(f[k - 1], k - 1)
      BY <2>8, <3>1
    <3>3. f[(k - 1) + 1] = IF (k - 1) + 1 \in S THEN PopUnsat(f[k - 1], (k - 1) + 1) ELSE f[k - 1]
      BY <2>6, <3>1, <3>2
    <3> QED BY <3>1, <3>3
  <2>10. f = [k \in Nat |-> IF k = 0 THEN s
                            ELSE IF k \in S THEN PopUnsat(f[k - 1], k) ELSE f[k - 1]]
    BY <2>3, <2>9
  <2>11. upto = [k \in Nat |-> IF k = 0 THEN s
                               ELSE IF k \in S THEN PopUnsat(upto[k - 1], k) ELSE upto[k - 1]]
    BY <2>10
  <2> HIDE DEF upto
  <2> QED BY <2>11
<1> HIDE DEF upto, D
<1>7. N \in Nat /\ S \cap 1 .. N = S
  <2>1. X \subseteq KissatClauses
    BY DEF StackOf
  <2> QED BY <2>1, KissatInputIs
<1>8. \A k \in 1 .. N : upto[k] = IF k \in S THEN PopUnsat(upto[k - 1], k) ELSE upto[k - 1]
  BY <1>6, <1>7
<1>9. Good(upto[N], N)
  <2> HIDE DEF N
  <2> QED BY <1>5, <1>6, <1>7, <1>8
<1>10. upto[N] \in D /\ StackOf(upto[N], X \ S)
  BY <1>7, <1>9 DEF Good
<1> QED BY <1>1, <1>10 DEF D

(* The height of the stack is the number of clauses on it.                 *)
LEMMA StackLength ==
    ASSUME NEW s, NEW X, StackOf(s, X)
    PROVE  Len(s.stack) \in Nat /\ IsFiniteSet(X) /\ Cardinality(X) = Len(s.stack)
<1> DEFINE n == Len(s.stack)
<1>1. /\ s.stack \in Seq(KissatClauses) /\ {s.stack[m] : m \in 1 .. n} = X
      /\ \A m \in 1 .. n : s.pos[s.stack[m]] = m
  BY DEF StackOf
<1>2. n \in Nat
  BY <1>1
<1> DEFINE f == [m \in 1 .. n |-> s.stack[m]]
<1>3. f \in [1 .. n -> X]
  BY <1>1
<1>4. \A i, j \in 1 .. n : f[i] = f[j] => i = j
  BY <1>1
<1>5. \A x \in X : \E m \in 1 .. n : f[m] = x
  BY <1>1
<1> HIDE DEF f, n
<1>6. f \in Bijection(1 .. n, X)
  BY <1>3, <1>4, <1>5 DEF Bijection, Injection, Surjection, IsInjective
<1>7. ExistsBijection(1 .. n, X)
  BY <1>6 DEF ExistsBijection
<1> QED BY <1>2, <1>7, FS_CountingElements, FS_NatBijection DEF n

(* The phases after some flips, by recursion on their number.              *)
LEMMA FlippedIs ==
    \A A, t : /\ Flipped(A, t, 0) = A
              /\ \A n \in Nat : \A m : m = n + 1 =>
                     Flipped(A, t, m) = Turned(Flipped(A, t, n), t[m])
<1> TAKE A, t
<1> DEFINE upto[k \in Nat] == IF k = 0 THEN A ELSE Turned(upto[k - 1], t[k])
<1>1. \A n : Flipped(A, t, n) = upto[n]
  BY DEF Flipped
<1>2. upto[0] = A /\ \A k \in Nat \ {0} : upto[k] = Turned(upto[k - 1], t[k])
  <2> DEFINE D == SUBSET (A \cup {t[k] : k \in Nat})
             F == [x \in Nat \X D |-> Turned(x[2], t[x[1]])]
  <2>1. A \in D
    OBVIOUS
  <2>2. F \in [Nat \X D -> D]
    <3>1. \A x \in Nat \X D : x[1] \in Nat /\ x[2] \in D /\ t[x[1]] \in {t[k] : k \in Nat}
      OBVIOUS
    <3>2. \A x \in Nat \X D : Turned(x[2], t[x[1]]) \in D
      BY <3>1 DEF Turned
    <3> QED BY <3>2
  <2>3. \E f : RecursiveOn(f, D, A, F)
    <3> HIDE DEF D, F
    <3> QED BY <2>1, <2>2, RecursiveFunction
  <2> PICK f : RecursiveOn(f, D, A, F)
    BY <2>3
  <2>4. f \in [Nat -> D] /\ f[0] = A /\ \A k \in Nat \ {0} : f[k] = F[<<k, f[k - 1]>>]
    BY DEF RecursiveOn
  <2>5. \A k \in Nat \ {0} : f[k] = Turned(f[k - 1], t[k])
    <3> SUFFICES ASSUME NEW k \in Nat \ {0}
                 PROVE  f[k] = Turned(f[k - 1], t[k])
      OBVIOUS
    <3>1. k - 1 \in Nat /\ f[k - 1] \in D
      BY <2>4
    <3>2. <<k, f[k - 1]>> \in Nat \X D
      BY <3>1
    <3>3. F[<<k, f[k - 1]>>] = Turned(f[k - 1], t[k])
      BY <3>2
    <3> QED BY <2>4, <3>3
  <2>6. f = [k \in Nat |-> IF k = 0 THEN A ELSE Turned(f[k - 1], t[k])]
    <3> HIDE DEF D, F
    <3> QED BY <2>4, <2>5
  <2>7. upto = [k \in Nat |-> IF k = 0 THEN A ELSE Turned(upto[k - 1], t[k])]
    BY <2>6
  <2> HIDE DEF upto
  <2> QED BY <2>7
<1> HIDE DEF upto
<1>3. ASSUME NEW n \in Nat PROVE upto[n + 1] = Turned(upto[n], t[n + 1])
  <2>1. n + 1 \in Nat \ {0} /\ (n + 1) - 1 = n
    OBVIOUS
  <2> QED BY <1>2, <2>1
<1> QED BY <1>1, <1>2, <1>3

(* One flip more.                                                          *)
LEMMA FlippedNext ==
    ASSUME NEW A, NEW t, NEW k \in Nat, NEW m, m = k + 1
    PROVE  Flipped(A, t, m) = Turned(Flipped(A, t, k), t[m])
BY FlippedIs

(* The first n flips of u are the flips of t behind the first b.           *)
Moved(t, u, b, n) == \A k \in 1 .. n : u[k] = t[b + k]

(* Flips that are moved to the front after the first b have been applied.  *)
LEMMA FlippedTail ==
    ASSUME NEW A, NEW t, NEW u, NEW b \in Nat, NEW n \in Nat, Moved(t, u, b, n)
    PROVE  Flipped(Flipped(A, t, b), u, n) = Flipped(A, t, b + n)
<1> DEFINE B == Flipped(A, t, b)
           T == {k \in Nat : k <= n => Flipped(B, u, k) = Flipped(A, t, b + k)}
<1>0. \A j, h \in Nat : h = j + 1 =>
         Flipped(A, t, h) = Turned(Flipped(A, t, j), t[h])
  BY FlippedNext
<1>1. 0 \in T
  <2>1. b + 0 = b
    OBVIOUS
  <2> QED BY <2>1, FlippedIs
<1>2. ASSUME NEW k \in Nat, k \in T PROVE k + 1 \in T
  <2> SUFFICES ASSUME k + 1 <= n PROVE Flipped(B, u, k + 1) = Flipped(A, t, b + (k + 1))
    OBVIOUS
  <2>1. PICK i \in Nat, j \in Nat, h \in Nat : i = k + 1 /\ j = b + k /\ h = j + 1
    OBVIOUS
  <2>2. k <= n /\ i \in 1 .. n /\ h = b + i
    BY <2>1
  <2>3. Flipped(B, u, k) = Flipped(A, t, j) /\ u[i] = t[h]
    BY <1>2, <2>1, <2>2 DEF Moved
  <2>4. Flipped(B, u, i) = Turned(Flipped(B, u, k), u[i])
    BY <2>1, FlippedNext
  <2>5. Flipped(A, t, h) = Turned(Flipped(A, t, j), t[h])
    BY <1>0, <2>1, Zenon
  <2> HIDE DEF B, T
  <2>6. Flipped(B, u, i) = Flipped(A, t, h)
    BY <2>3, <2>4, <2>5
  <2> QED BY <2>1, <2>2, <2>6
<1> HIDE DEF T
<1>3. n \in T
  BY <1>1, <1>2, SetInduction
<1> QED BY <1>3 DEF T

(* Flips behind the first n do not matter.                                 *)
LEMMA FlippedSame ==
    ASSUME NEW A, NEW t, NEW u, NEW n \in Nat, \A k \in 1 .. n : u[k] = t[k]
    PROVE  Flipped(A, u, n) = Flipped(A, t, n)
<1>1. Moved(t, u, 0, n)
  BY DEF Moved
<1>2. Flipped(Flipped(A, t, 0), u, n) = Flipped(A, t, 0 + n)
  BY <1>1, FlippedTail
<1> QED BY <1>2, FlippedIs

(* True literals of a clause after a flip.                                 *)
LEMMA CountFlipped ==
    ASSUME input \in KissatWalks, NEW V, NEW l \in Int \ {0}, l \notin V, -l \in V,
           NEW k \in KissatClauses
    PROVE  /\ TrueLits(k, V) \in Nat
           /\ TrueLits(k, Turned(V, l)) =
                  TrueLits(k, V) + (IF l \in input.clauses[k] THEN 1 ELSE 0)
                                 - (IF -l \in input.clauses[k] THEN 1 ELSE 0)
           /\ -l \in input.clauses[k] => TrueLits(k, V) > 0
<1> DEFINE c == input.clauses[k]
<1>1. IsFiniteSet(c) /\ \A x \in c : -x \notin c
  BY KissatInputIs
<1>2. c \cap V \subseteq c
  OBVIOUS
<1>3. IsFiniteSet(c \cap V) /\ Cardinality(c \cap V) \in Nat
  BY <1>1, <1>2, FS_Subset, FS_CardinalityType
<1> DEFINE W == Turned(V, l)
<1>0. W = (V \ {-l}) \cup {l}
  BY DEF Turned
<1>7. TrueLits(k, V) = Cardinality(c \cap V) /\ TrueLits(k, W) = Cardinality(c \cap W)
  BY DEF TrueLits
<1>4. CASE l \in c
  <2>1. -l \notin c
    BY <1>1, <1>4
  <2>2. c \cap W = (c \cap V) \cup {l}
    BY <1>0, <1>4, <2>1
  <2>3. Cardinality((c \cap V) \cup {l}) = Cardinality(c \cap V) + 1
    BY <1>3, FS_AddElement
  <2>4. TrueLits(k, W) = TrueLits(k, V) + 1 /\ TrueLits(k, V) \in Nat
    BY <1>3, <1>7, <2>2, <2>3
  <2> HIDE DEF c, W
  <2> QED BY <1>4, <2>1, <2>4 DEF c, W
<1>5. CASE -l \in c
  <2>1. l \notin c
    BY <1>1, <1>5
  <2>2. c \cap W = (c \cap V) \ {-l} /\ -l \in c \cap V
    BY <1>0, <1>5, <2>1
  <2>3. Cardinality((c \cap V) \ {-l}) = Cardinality(c \cap V) - 1
    BY <1>3, <2>2, FS_RemoveElement
  <2>4. Cardinality(c \cap V) > 0
    BY <1>3, <2>2, FS_EmptySet
  <2>5. TrueLits(k, W) = TrueLits(k, V) - 1 /\ TrueLits(k, V) \in Nat /\ TrueLits(k, V) > 0
    BY <1>3, <1>7, <2>2, <2>3, <2>4
  <2> HIDE DEF c, W
  <2> QED BY <1>5, <2>1, <2>5 DEF c, W
<1>6. CASE l \notin c /\ -l \notin c
  <2>1. c \cap W = c \cap V
    BY <1>0, <1>6
  <2>2. TrueLits(k, W) = TrueLits(k, V) /\ TrueLits(k, V) \in Nat
    BY <1>3, <1>7, <2>1
  <2> HIDE DEF c, W
  <2> QED BY <1>6, <2>2 DEF c, W
<1> QED BY <1>4, <1>5, <1>6

(* flip_literal: the clauses that become true leave the stack, those that   *)
(* become false enter it, and the counters follow.                         *)
LEMMA FlipLiteralIs ==
    ASSUME input \in KissatWalks, Total(values),
           count = [k \in KissatClauses |-> TrueLits(k, values)],
           StackOf([stack |-> stack, pos |-> pos], FalsifiedBy(values)),
           NEW l \in (-input.vars .. input.vars) \ {0}, l \notin values,
           FlipLiteral(l)
    PROVE  \E V, sk, ps :
              /\ values' = V /\ stack' = sk /\ pos' = ps
              /\ V = Turned(values, l) /\ Total(V)
              /\ count' = [k \in KissatClauses |-> TrueLits(k, V)]
              /\ StackOf([stack |-> sk, pos |-> ps], FalsifiedBy(V))
<1>0. input.vars \in Nat /\ l \in Int \ {0}
  BY KissatInputIs
<1>1. -l \in values
  <2>1. l \in 1 .. input.vars \/ -l \in 1 .. input.vars
    BY <1>0
  <2>2. -(-l) = l
    BY <1>0
  <2> QED BY <2>1, <2>2 DEF Total
<1> DEFINE V == Turned(values, l)
           F == FalsifiedBy(values)
           A == {k \in KissatClauses : l \in input.clauses[k] /\ count[k] = 0}
           D == {k \in KissatClauses : -l \in input.clauses[k] /\ count[k] = 1}
           s == [stack |-> stack, pos |-> pos]
<1>2. \A k \in KissatClauses :
         /\ TrueLits(k, values) \in Nat /\ count[k] = TrueLits(k, values)
         /\ TrueLits(k, V) = TrueLits(k, values) + (IF l \in input.clauses[k] THEN 1 ELSE 0)
                                                 - (IF -l \in input.clauses[k] THEN 1 ELSE 0)
         /\ -l \in input.clauses[k] => TrueLits(k, values) > 0
         /\ ~(l \in input.clauses[k] /\ -l \in input.clauses[k])
  BY <1>0, <1>1, CountFlipped, KissatInputIs
<1>3. A \in SUBSET F
  BY <1>2 DEF FalsifiedBy
<1>4. s.stack = stack /\ s.pos = pos /\ s = [stack |-> s.stack, pos |-> s.pos] /\ StackOf(s, F)
  OBVIOUS
<1>5. PICK made : made = InOrder(s, A, PopUnsat)
  OBVIOUS
<1>6. StackOf(made, F \ A) /\ made = [stack |-> made.stack, pos |-> made.pos]
  <2> HIDE DEF s, F, A
  <2> QED BY <1>3, <1>4, <1>5, PopAll
<1>7. D \in SUBSET KissatClauses /\ D \cap (F \ A) = {}
  BY <1>2 DEF FalsifiedBy
<1>8. PICK r : r = InOrder(made, D, PushUnsat)
  OBVIOUS
<1>9. StackOf(r, (F \ A) \cup D)
  <2> HIDE DEF s, F, A, D
  <2> QED BY <1>6, <1>7, <1>8, PushAll
<1>10. FalsifiedBy(V) = (F \ A) \cup D
  <2> HIDE DEF V
  <2> QED BY <1>2 DEF FalsifiedBy
<1>11. Total(V)
  <2>1. -l \in (-input.vars .. input.vars) \ {0} /\ -(-l) = l
    BY <1>0
  <2>2. V \subseteq (-input.vars .. input.vars) \ {0}
    BY <2>1 DEF Total, Turned
  <2>3. ASSUME NEW v \in 1 .. input.vars PROVE v \in V <=> -v \notin V
    <3>1. v \in values <=> -v \notin values
      BY DEF Total
    <3>2. v \in Int /\ v > 0
      BY <1>0
    <3> QED BY <1>0, <1>1, <3>1, <3>2 DEF Turned
  <2> QED BY <2>2, <2>3 DEF Total
<1>12. values' = V /\ stack' = r.stack /\ pos' = r.pos
  <2>1. A = {k \in {j \in KissatClauses : l \in input.clauses[j]} : count[k] = 0}
    OBVIOUS
  <2>2. D = {k \in {j \in KissatClauses : -l \in input.clauses[j]} : count[k] = 1}
    OBVIOUS
  <2> HIDE DEF A, D
  <2> QED BY <1>5, <1>8, <2>1, <2>2 DEF FlipLiteral
<1>13. count' = [k \in KissatClauses |-> TrueLits(k, V)]
  BY <1>2 DEF FlipLiteral
<1>14. StackOf([stack |-> r.stack, pos |-> r.pos], FalsifiedBy(V))
  <2> PICK q, X : q = [stack |-> r.stack, pos |-> r.pos] /\ X = FalsifiedBy(V)
    OBVIOUS
  <2>1. q.stack = r.stack /\ q.pos = r.pos
    OBVIOUS
  <2>2. StackOf(r, X)
    BY <1>9, <1>10
  <2> HIDE DEF V, F, A, D, s
  <2>3. StackOf(q, X)
    BY <2>1, <2>2 DEF StackOf
  <2> QED BY <2>3
<1> HIDE DEF V
<1>15. V = Turned(values, l)
  BY DEF V
<1> QED BY <1>11, <1>12, <1>13, <1>14, <1>15

(* A flip at the end of the trail.                                         *)
LEMMA FlippedAppend ==
    ASSUME NEW P, NEW t \in Seq(Int), NEW l \in Int
    PROVE  /\ Flipped(P, Append(t, l), Len(t) + 1) = Turned(Flipped(P, t, Len(t)), l)
           /\ \A b \in 0 .. Len(t) : Flipped(P, Append(t, l), b) = Flipped(P, t, b)
<1> PICK u, n, h : u = Append(t, l) /\ n = Len(t) /\ h = n + 1
  OBVIOUS
<1>1. n \in Nat /\ h \in Nat /\ u[h] = l /\ \A k \in 1 .. n : u[k] = t[k]
  OBVIOUS
<1>2. ASSUME NEW b \in 0 .. n PROVE Flipped(P, u, b) = Flipped(P, t, b)
  <2>1. b \in Nat /\ \A k \in 1 .. b : u[k] = t[k]
    BY <1>1
  <2> QED BY <2>1, FlippedSame
<1>3. Flipped(P, u, n) = Flipped(P, t, n)
  BY <1>1, <1>2
<1>4. Flipped(P, u, h) = Turned(Flipped(P, u, n), u[h])
  <2>1. n \in Nat
    BY <1>1
  <2> QED BY ONLY <2>1, h = n + 1, FlippedNext
<1> QED BY <1>1, <1>2, <1>3, <1>4

(* A trail whose first b flips are saved and removed.                      *)
LEMMA FlippedFlush ==
    ASSUME NEW P, NEW t \in Seq(Int), NEW b \in 0 .. Len(t), NEW u, u = SubSeq(t, b + 1, Len(t))
    PROVE  /\ u \in Seq(Int)
           /\ Flipped(Flipped(P, t, b), u, Len(u)) = Flipped(P, t, Len(t))
<1>1. Len(t) \in Nat /\ b \in Nat /\ Len(t) - b \in Nat
  OBVIOUS
<1>2. u \in Seq(Int) /\ Len(u) = Len(t) - b /\ \A k \in 1 .. Len(u) : u[k] = t[b + k]
  BY <1>1
<1> PICK n : n = Len(u)
  OBVIOUS
<1>3. n \in Nat /\ b + n = Len(t) /\ \A k \in 1 .. n : u[k] = t[b + k]
  BY <1>1, <1>2
<1>4. Flipped(Flipped(P, t, b), u, n) = Flipped(P, t, b + n)
  <2>1. b \in Nat /\ n \in Nat
    BY <1>1, <1>3
  <2>2. Moved(t, u, b, n)
    BY <1>3 DEF Moved
  <2> QED BY ONLY <2>1, <2>2, FlippedTail
<1> QED BY <1>2, <1>3, <1>4

(* The assignment that counts as the best one.                             *)
BestOf(b) == IF b = INVALID_BEST THEN 0 ELSE b

(* push_flipped: the trail still leads over the best assignment to the      *)
(* values, whether it grows, is flushed or is given up.                    *)
LEMMA PushFlippedIs ==
    ASSUME flipTrail \in Seq(Int), best \in Nat \cup {INVALID_BEST}, NEW l \in Int,
           IF best = INVALID_BEST THEN flipTrail = << >>
           ELSE best <= Len(flipTrail) /\ Flipped(phases, flipTrail, Len(flipTrail)) = values
    PROVE  \E t, b, P :
              /\ PushFlipped(l) = [trail |-> t, best |-> b, saved |-> P]
              /\ t \in Seq(Int) /\ b \in Nat \cup {INVALID_BEST}
              /\ IF b = INVALID_BEST THEN t = << >>
                 ELSE b <= Len(t) /\ Flipped(P, t, Len(t)) = Turned(values, l)
              /\ Flipped(P, t, BestOf(b)) = Flipped(phases, flipTrail, BestOf(best))
              /\ b > 0 => best > 0
<1> DEFINE L == Len(flipTrail)
           V == Turned(values, l)
<1>1. L \in Nat
  OBVIOUS
<1>2. CASE best = INVALID_BEST
  BY <1>2 DEF PushFlipped, BestOf, INVALID_BEST
<1>3. CASE best # INVALID_BEST /\ L < input.vars \div 4 + 1
  <2> PICK t : t = Append(flipTrail, l)
    OBVIOUS
  <2>1. best \in 0 .. L /\ best <= L + 1
    BY <1>1, <1>3
  <2>2. Flipped(phases, t, L + 1) = V /\ Flipped(phases, t, best) = Flipped(phases, flipTrail, best)
    BY <1>3, <2>1, FlippedAppend
  <2>3. t \in Seq(Int) /\ Len(t) = L + 1
    OBVIOUS
  <2>4. PushFlipped(l) = [trail |-> t, best |-> best, saved |-> phases]
    BY <1>3 DEF PushFlipped
  <2> HIDE DEF V, L
  <2> QED BY <1>3, <2>1, <2>2, <2>3, <2>4 DEF BestOf, V
<1>4. CASE best # INVALID_BEST /\ ~(L < input.vars \div 4 + 1) /\ best > 0
  <2>1. best \in 0 .. L
    BY <1>1, <1>4
  <2> PICK u : u = SubSeq(flipTrail, best + 1, L)
    OBVIOUS
  <2> PICK t : t = Append(u, l)
    OBVIOUS
  <2> PICK P : P = Flipped(phases, flipTrail, best)
    OBVIOUS
  <2>2. u \in Seq(Int) /\ Flipped(P, u, Len(u)) = values
    BY <1>4, <2>1, FlippedFlush
  <2>3. Flipped(P, t, Len(u) + 1) = V
    <3>1. Flipped(P, Append(u, l), Len(u) + 1) = Turned(Flipped(P, u, Len(u)), l)
      BY ONLY <2>2, l \in Int, FlippedAppend
    <3> QED BY <2>2, <3>1
  <2>4. t \in Seq(Int) /\ Len(t) = Len(u) + 1 /\ Len(t) \in Nat
    BY <2>2
  <2>5. Flipped(P, t, 0) = P
    BY FlippedIs
  <2>6. PushFlipped(l) = [trail |-> t, best |-> 0, saved |-> P]
    BY <1>4 DEF PushFlipped, Applied
  <2>7. 0 <= Len(t) /\ 0 # INVALID_BEST /\ BestOf(0) = 0 /\ BestOf(best) = best
    BY <1>4, <2>4 DEF BestOf, INVALID_BEST
  <2> HIDE DEF V, L
  <2> QED BY <1>4, <2>3, <2>4, <2>5, <2>6, <2>7 DEF V
<1>5. CASE best # INVALID_BEST /\ ~(L < input.vars \div 4 + 1) /\ ~(best > 0)
  <2>1. best = 0 /\ BestOf(best) = 0 /\ BestOf(INVALID_BEST) = 0
    BY <1>5 DEF BestOf
  <2>2. PushFlipped(l) = [trail |-> << >>, best |-> INVALID_BEST, saved |-> phases]
    BY <1>5 DEF PushFlipped
  <2>3. Flipped(phases, << >>, 0) = phases /\ Flipped(phases, flipTrail, 0) = phases
    BY FlippedIs
  <2>4. << >> \in Seq(Int) /\ ~(INVALID_BEST > 0)
    BY DEF INVALID_BEST
  <2> QED BY <2>1, <2>2, <2>3, <2>4
<1> QED BY <1>2, <1>3, <1>4, <1>5

(* What a stack is, for values that are known.                             *)
LEMMA NextStack ==
    ASSUME NEW sk, NEW ps, NEW V, StackOf([stack |-> sk, pos |-> ps], FalsifiedBy(V)),
           input' = input, values' = V, stack' = sk, pos' = ps
    PROVE  StackOf([stack |-> stack, pos |-> pos], FalsifiedBy(values))'
<1> PICK q, X : q = [stack |-> sk, pos |-> ps] /\ X = FalsifiedBy(V)
  OBVIOUS
<1>1. q.stack = sk /\ q.pos = ps /\ StackOf(q, X)
  OBVIOUS
<1>2. /\ q.stack \in Seq(DOMAIN input.clauses) /\ q.pos \in [DOMAIN input.clauses -> Nat]
      /\ {q.stack[n] : n \in 1 .. Len(q.stack)} = X
      /\ \A n \in 1 .. Len(q.stack) : q.pos[q.stack[n]] = n
  BY <1>1 DEF StackOf, KissatClauses
<1>3. FalsifiedBy(values)' = X
  BY DEF FalsifiedBy, KissatClauses, TrueLits
<1>4. [stack |-> stack, pos |-> pos]' = q
  OBVIOUS
<1>5. KissatClauses' = DOMAIN input.clauses
  BY DEF KissatClauses
<1> QED BY <1>2, <1>3, <1>4, <1>5 DEF StackOf

(* init_walker: counters and stack of the decision phases.                 *)
LEMMA InitWalkerStep ==
    ASSUME KissatWalkInv, InitWalker
    PROVE  KissatWalkInv'
<1>0. /\ KissatWalkTypeOK /\ Total(phases) /\ flipTrail = << >> /\ best = 0
      /\ input \in KissatWalks
  BY DEF KissatWalkInv, InitWalker, KissatWalkTypeOK
<1> PICK V : V = phases
  OBVIOUS
<1> DEFINE S == {k \in KissatClauses : TrueLits(k, V) = 0}
           s == [stack |-> << >>, pos |-> [k \in KissatClauses |-> 0]]
<1>1. S = FalsifiedBy(V) /\ S \in SUBSET KissatClauses
  BY DEF FalsifiedBy
<1>2. s.stack = << >> /\ s.pos = [k \in KissatClauses |-> 0] /\ s = [stack |-> s.stack, pos |-> s.pos]
  OBVIOUS
<1>3. StackOf(s, {})
  <2>1. s.stack \in Seq(KissatClauses) /\ s.pos \in [KissatClauses -> Nat] /\ 1 .. Len(s.stack) = {}
    BY <1>2
  <2> HIDE DEF s
  <2> QED BY <2>1 DEF StackOf
<1> PICK r : r = InOrder(s, S, PushUnsat)
  OBVIOUS
<1>4. StackOf(r, S)
  <2>1. S \cap {} = {} /\ {} \cup S = S
    OBVIOUS
  <2>2. StackOf(InOrder(s, S, PushUnsat), {} \cup S)
    <3> HIDE DEF s, S
    <3> QED BY <1>0, <1>1, <1>2, <1>3, <2>1, PushAll
  <2> HIDE DEF s, S
  <2> QED BY <2>1, <2>2
<1>5. Len(r.stack) \in Nat /\ Cardinality(S) = Len(r.stack)
  <2> HIDE DEF S
  <2> QED BY <1>4, StackLength
<1>6. /\ values' = V /\ count' = [k \in KissatClauses |-> TrueLits(k, V)]
      /\ stack' = r.stack /\ pos' = r.pos
      /\ minimum' = Cardinality(S) /\ initial' = Cardinality(S) /\ phase' = "walk"
      /\ UNCHANGED <<input, flipTrail, best, phases, steps>>
  BY DEF InitWalker
<1> PICK m, sk, ps : m = Cardinality(S) /\ sk = r.stack /\ ps = r.pos
  OBVIOUS
<1>7. KissatWalkTypeOK'
  BY <1>0, <1>5, <1>6 DEF KissatWalkTypeOK
<1>8. Total(values)' /\ (count = [k \in KissatClauses |-> TrueLits(k, values)])'
  BY <1>0, <1>6 DEF Total, KissatClauses, TrueLits
<1>9. StackOf([stack |-> stack, pos |-> pos], FalsifiedBy(values))'
  <2>1. StackOf([stack |-> sk, pos |-> ps], FalsifiedBy(V))
    <3> PICK q : q = [stack |-> sk, pos |-> ps]
      OBVIOUS
    <3>1. q.stack = r.stack /\ q.pos = r.pos
      OBVIOUS
    <3> HIDE DEF S
    <3>2. StackOf(q, S)
      BY <1>4, <3>1 DEF StackOf
    <3> QED BY <1>1, <3>2
  <2>2. values' = V /\ stack' = sk /\ pos' = ps /\ input' = input
    BY <1>6
  <2> QED BY ONLY <2>1, <2>2, NextStack
<1>10. minimum' = m /\ initial' = m /\ Len(stack') = m /\ m \in Nat
  BY <1>5, <1>6
<1>11. TrailInv'
  <2>1. flipTrail' = << >> /\ best' = 0 /\ phases' = V /\ values' = V /\ input' = input
    BY <1>0, <1>6
  <2>2. Flipped(V, << >>, 0) = V /\ Len(<< >>) = 0 /\ 0 # INVALID_BEST
    BY FlippedIs DEF INVALID_BEST
  <2>3. Cardinality(FalsifiedBy(V)) = m
    BY <1>1
  <2> HIDE DEF S
  <2>4. \A B : FalsifiedBy(B) = {k \in DOMAIN input.clauses : Cardinality(input.clauses[k] \cap B) = 0}
    BY DEF FalsifiedBy, KissatClauses, TrueLits
  <2>5. Cardinality({k \in DOMAIN input'.clauses : Cardinality(input'.clauses[k] \cap V) = 0}) = m
    BY <2>1, <2>3, <2>4
  <2>6. /\ Flipped(phases', flipTrail', best') = V
        /\ Flipped(phases', flipTrail', Len(flipTrail')) = values'
        /\ best' <= Len(flipTrail') /\ best' # INVALID_BEST /\ minimum' <= initial' /\ ~(best' > 0)
    BY <1>10, <2>1, <2>2
  <2> QED BY <1>10, <2>5, <2>6 DEF TrailInv, Applied, FalsifiedBy, KissatClauses, TrueLits
<1> QED BY <1>6, <1>7, <1>8, <1>9, <1>10, <1>11 DEF KissatWalkInv

(* local_search_step.                                                      *)
LEMMA LocalSearchStepOk ==
    ASSUME KissatWalkInv, NEW l \in UNION {input.clauses[k] : k \in KissatClauses},
           LocalSearchStep(l)
    PROVE  KissatWalkInv'
<1>0. /\ KissatWalkTypeOK /\ Total(values) /\ count = [k \in KissatClauses |-> TrueLits(k, values)]
      /\ StackOf([stack |-> stack, pos |-> pos], FalsifiedBy(values))
      /\ minimum <= Len(stack) /\ TrailInv
      /\ input \in KissatWalks /\ minimum \in Nat /\ minimum > 0 /\ initial \in Nat
      /\ flipTrail \in Seq(Int) /\ best \in Nat \cup {INVALID_BEST} /\ steps \in Nat
      /\ l \in input.clauses[Picked]
  BY DEF KissatWalkInv, LocalSearchStep, KissatWalkTypeOK
<1>1. l \in (-input.vars .. input.vars) \ {0} /\ l \in Int
  BY <1>0, KissatInputIs
<1>2. l \notin values
  <2>1. /\ stack \in Seq(KissatClauses)
        /\ {stack[n] : n \in 1 .. Len(stack)} = FalsifiedBy(values)
    <3> PICK q : q = [stack |-> stack, pos |-> pos]
      OBVIOUS
    <3>1. q.stack = stack /\ StackOf(q, FalsifiedBy(values))
      BY <1>0
    <3> QED BY <3>1 DEF StackOf
  <2> PICK n \in Nat : n = Len(stack)
    BY <2>1
  <2>2. n > 0
    BY <1>0
  <2> PICK i \in Int : i = 2 * steps + 1
    BY <1>0
  <2>3. (i % n) + 1 \in 1 .. n
    BY <2>2
  <2>4. Picked \in FalsifiedBy(values)
    BY <2>1, <2>3 DEF Picked
  <2> PICK k \in KissatClauses : k = Picked /\ TrueLits(k, values) = 0
    BY <2>4 DEF FalsifiedBy
  <2>5. IsFiniteSet(input.clauses[k] \cap values)
    BY <1>0, KissatInputIs, FS_Subset
  <2>6. input.clauses[k] \cap values = {}
    BY <2>5, FS_EmptySet DEF TrueLits
  <2> QED BY <1>0, <2>6
<1>3. FlipLiteral(l)
  BY DEF LocalSearchStep
<1> PICK V, sk, ps :
       /\ values' = V /\ stack' = sk /\ pos' = ps
       /\ V = Turned(values, l) /\ Total(V)
       /\ count' = [k \in KissatClauses |-> TrueLits(k, V)]
       /\ StackOf([stack |-> sk, pos |-> ps], FalsifiedBy(V))
  BY <1>0, <1>1, <1>2, <1>3, FlipLiteralIs
<1> PICK n : n = Len(sk)
  OBVIOUS
<1>4. n \in Nat /\ Cardinality(FalsifiedBy(V)) = n
  <2> PICK q : q = [stack |-> sk, pos |-> ps]
    OBVIOUS
  <2>1. q.stack = sk /\ StackOf(q, FalsifiedBy(V))
    OBVIOUS
  <2>2. Len(q.stack) \in Nat /\ Cardinality(FalsifiedBy(V)) = Len(q.stack)
    BY <2>1, StackLength
  <2> QED BY <2>1, <2>2
<1> PICK t, b, P :
       /\ PushFlipped(l) = [trail |-> t, best |-> b, saved |-> P]
       /\ t \in Seq(Int) /\ b \in Nat \cup {INVALID_BEST}
       /\ IF b = INVALID_BEST THEN t = << >>
          ELSE b <= Len(t) /\ Flipped(P, t, Len(t)) = Turned(values, l)
       /\ Flipped(P, t, BestOf(b)) = Flipped(phases, flipTrail, BestOf(best))
       /\ b > 0 => best > 0
  <2>1. IF best = INVALID_BEST THEN flipTrail = << >>
        ELSE best <= Len(flipTrail) /\ Flipped(phases, flipTrail, Len(flipTrail)) = values
    BY <1>0 DEF TrailInv, Applied
  <2> QED BY <1>0, <1>1, <2>1, PushFlippedIs
<1>5. /\ minimum' = IF n < minimum THEN n ELSE minimum
      /\ flipTrail' = t
      /\ best' = IF n >= minimum THEN b ELSE IF b = INVALID_BEST THEN 0 ELSE Len(t)
      /\ phases' = IF n < minimum /\ b = INVALID_BEST THEN V ELSE P
      /\ steps' = steps + 1
      /\ UNCHANGED <<input, initial, phase>> /\ phase = "walk"
  BY DEF LocalSearchStep
<1>6. Cardinality(FalsifiedBy(Flipped(phases, flipTrail, BestOf(best)))) = minimum
      /\ minimum <= initial /\ (best > 0 => minimum < initial)
  BY <1>0 DEF TrailInv, Applied, BestOf
<1>7. \E m, bb, PP :
         /\ minimum' = m /\ best' = bb /\ phases' = PP
         /\ m \in Nat /\ m <= n /\ bb \in Nat \cup {INVALID_BEST}
         /\ IF bb = INVALID_BEST THEN t = << >> ELSE bb <= Len(t) /\ Flipped(PP, t, Len(t)) = V
         /\ Cardinality(FalsifiedBy(Flipped(PP, t, BestOf(bb)))) = m
         /\ m <= initial /\ (bb > 0 => m < initial)
  <2>1. CASE n >= minimum
    <3>1. minimum' = minimum /\ best' = b /\ phases' = P
      BY <1>0, <1>4, <1>5, <2>1
    <3> QED BY <1>0, <1>4, <1>6, <2>1, <3>1
  <2>2. CASE n < minimum /\ b = INVALID_BEST
    <3>1. minimum' = n /\ best' = 0 /\ phases' = V /\ t = << >>
      BY <1>0, <1>4, <1>5, <2>2
    <3>2. Len(t) = 0 /\ Flipped(V, t, 0) = V /\ BestOf(0) = 0 /\ 0 # INVALID_BEST /\ 0 <= Len(t)
      BY <3>1, FlippedIs DEF BestOf, INVALID_BEST
    <3>3. n <= initial /\ n <= n
      BY <1>0, <1>4, <1>6, <2>2
    <3>4. Flipped(V, t, Len(t)) = V /\ Flipped(V, t, BestOf(0)) = V
      BY <3>2
    <3> QED BY <1>4, <3>1, <3>2, <3>3, <3>4
  <2>3. CASE n < minimum /\ b # INVALID_BEST
    <3>1. minimum' = n /\ best' = Len(t) /\ phases' = P
      BY <1>0, <1>4, <1>5, <2>3
    <3>2. Len(t) \in Nat /\ Len(t) # INVALID_BEST /\ BestOf(Len(t)) = Len(t) /\ Len(t) <= Len(t)
      BY DEF BestOf, INVALID_BEST
    <3>3. n <= initial /\ n < initial /\ n <= n
      BY <1>0, <1>4, <1>6, <2>3
    <3>4. Flipped(P, t, Len(t)) = V /\ Flipped(P, t, BestOf(Len(t))) = V
      BY <2>3, <3>2
    <3> QED BY <1>4, <3>1, <3>2, <3>3, <3>4
  <2> QED BY <1>0, <1>4, <2>1, <2>2, <2>3
<1> PICK m, bb, PP :
       /\ minimum' = m /\ best' = bb /\ phases' = PP
       /\ m \in Nat /\ m <= n /\ bb \in Nat \cup {INVALID_BEST}
       /\ IF bb = INVALID_BEST THEN t = << >> ELSE bb <= Len(t) /\ Flipped(PP, t, Len(t)) = V
       /\ Cardinality(FalsifiedBy(Flipped(PP, t, BestOf(bb)))) = m
       /\ m <= initial /\ (bb > 0 => m < initial)
  BY <1>7
<1>8. input' = input /\ initial' = initial /\ phase' = "walk" /\ steps' \in Nat /\ flipTrail' = t
  BY <1>0, <1>5
<1>9. KissatWalkTypeOK'
  BY <1>0, <1>8 DEF KissatWalkTypeOK
<1>10. Total(values)' /\ (count = [k \in KissatClauses |-> TrueLits(k, values)])'
  BY <1>8 DEF Total, KissatClauses, TrueLits
<1>11. StackOf([stack |-> stack, pos |-> pos], FalsifiedBy(values))'
  <2>1. values' = V /\ stack' = sk /\ pos' = ps /\ input' = input
    BY <1>8
  <2> QED BY <2>1, NextStack
<1>12. TrailInv'
  <2>1. \A B : FalsifiedBy(B) = {k \in DOMAIN input.clauses : Cardinality(input.clauses[k] \cap B) = 0}
    BY DEF FalsifiedBy, KissatClauses, TrueLits
  <2> QED BY <1>8, <2>1 DEF TrailInv, Applied, BestOf, FalsifiedBy, KissatClauses, TrueLits
<1> QED BY <1>8, <1>9, <1>10, <1>11, <1>12 DEF KissatWalkInv

(* save_final_minimum.                                                     *)
LEMMA SaveFinalStep ==
    ASSUME KissatWalkInv, SaveFinalMinimum
    PROVE  KissatWalkInv'
<1>1. /\ KissatWalkTypeOK /\ TrailInv /\ phase' = "done"
      /\ phases' = IF minimum = initial \/ best \in {0, INVALID_BEST} THEN phases ELSE Applied(best)
      /\ UNCHANGED <<input, values, count, stack, pos, minimum, initial, flipTrail, best, steps>>
  BY DEF KissatWalkInv, SaveFinalMinimum
<1>2. KissatWalkTypeOK'
  BY <1>1 DEF KissatWalkTypeOK
<1>3. Cardinality(FalsifiedBy(Applied(BestOf(best)))) = minimum
      /\ minimum \in Nat /\ initial \in Nat /\ best \in Nat \cup {INVALID_BEST}
      /\ (best > 0 => minimum < initial)
  BY <1>1 DEF TrailInv, BestOf, KissatWalkTypeOK
<1> PICK P, m : P = (IF minimum = initial \/ best \in {0, INVALID_BEST} THEN phases ELSE Applied(best))
               /\ m = minimum
  OBVIOUS
<1>4. P = Applied(BestOf(best))
  <2>1. CASE minimum = initial \/ best \in {0, INVALID_BEST}
    <3>1. BestOf(best) = 0
      BY <1>3, <2>1 DEF BestOf, INVALID_BEST
    <3>2. Applied(0) = phases
      BY FlippedIs DEF Applied
    <3> QED BY <2>1, <3>1, <3>2
  <2>2. CASE ~(minimum = initial \/ best \in {0, INVALID_BEST})
    BY <2>2 DEF BestOf
  <2> QED BY <2>1, <2>2
<1>5. Cardinality(FalsifiedBy(P)) = m
  BY <1>3, <1>4
<1>6. phases' = P /\ minimum' = m /\ input' = input
  BY <1>1
<1>7. (Cardinality(FalsifiedBy(phases)) = minimum)'
  BY <1>5, <1>6 DEF FalsifiedBy, KissatClauses, TrueLits
<1> QED BY <1>1, <1>2, <1>7 DEF KissatWalkInv

(* Counters, stack and the trail of flips are right in every state of      *)
(* Kissat's local search (walk.c).                                         *)
THEOREM KissatWalkInvariant == KissatWalkSpec => []KissatWalkInv
<1>1. InitKissatWalk => KissatWalkInv
  <2> SUFFICES ASSUME InitKissatWalk PROVE KissatWalkInv
    OBVIOUS
  <2>1. /\ input \in KissatWalks /\ phases \in Phases(1 .. input.vars) /\ minimum = 0 /\ initial = 0
        /\ flipTrail = << >> /\ best = 0 /\ steps = 0 /\ phase = "init"
    BY DEF InitKissatWalk
  <2>2. KissatWalkTypeOK
    BY <2>1 DEF KissatWalkTypeOK
  <2>3. Total(phases)
    <3>1. input.vars \in Nat
      BY <2>1, KissatInputIs
    <3> PICK T \in SUBSET (1 .. input.vars) : phases = T \cup {-v : v \in (1 .. input.vars) \ T}
      BY <2>1 DEF Phases
    <3>2. phases \subseteq (-input.vars .. input.vars) \ {0}
      <4>1. ASSUME NEW v \in 1 .. input.vars
            PROVE  {v, -v} \subseteq (-input.vars .. input.vars) \ {0}
        BY <3>1
      <4> QED BY <4>1
    <3>3. ASSUME NEW v \in 1 .. input.vars PROVE v \in phases <=> -v \notin phases
      BY <3>1
    <3> QED BY <3>2, <3>3 DEF Total
  <2> QED BY <2>1, <2>2, <2>3 DEF KissatWalkInv
<1>2. ASSUME KissatWalkInv, [NextKissatWalk]_kissatWalker PROVE KissatWalkInv'
  <2>1. CASE InitWalker
    BY <1>2, <2>1, InitWalkerStep
  <2>2. CASE \E l \in UNION {input.clauses[k] : k \in KissatClauses} : LocalSearchStep(l)
    BY <1>2, <2>2, LocalSearchStepOk
  <2>3. CASE SaveFinalMinimum
    BY <1>2, <2>3, SaveFinalStep
  <2>4. CASE UNCHANGED kissatWalker
    <3>1. UNCHANGED <<input, values, count, stack, pos, minimum, initial, flipTrail, best, phases, phase, steps>>
      BY <2>4 DEF kissatWalker
    <3>2. KissatWalkTypeOK' /\ Total(values)' = Total(values) /\ Total(phases)' = Total(phases)
      BY <1>2, <3>1 DEF KissatWalkInv, KissatWalkTypeOK, Total
    <3>3. KissatClauses' = KissatClauses /\ FalsifiedBy(values)' = FalsifiedBy(values)
          /\ FalsifiedBy(phases)' = FalsifiedBy(phases)
      BY <3>1 DEF FalsifiedBy, KissatClauses, TrueLits
    <3>4. phase = "walk" => StackOf([stack |-> stack, pos |-> pos], FalsifiedBy(values))'
      <4> PICK V, sk, ps : V = values /\ sk = stack /\ ps = pos
        OBVIOUS
      <4>1. phase = "walk" => StackOf([stack |-> sk, pos |-> ps], FalsifiedBy(V))
        BY <1>2 DEF KissatWalkInv
      <4>2. input' = input /\ values' = V /\ stack' = sk /\ pos' = ps
        BY <3>1
      <4> QED BY <4>1, <4>2, NextStack
    <3>5. TrailInv' = TrailInv
      BY <3>1 DEF TrailInv, Applied, FalsifiedBy, KissatClauses, TrueLits
    <3>6. (count = [k \in KissatClauses |-> TrueLits(k, values)])'
              = (count = [k \in KissatClauses |-> TrueLits(k, values)])
      BY <3>1 DEF KissatClauses, TrueLits
    <3> QED BY <1>2, <3>1, <3>2, <3>3, <3>4, <3>5, <3>6 DEF KissatWalkInv
  <2> QED BY <1>2, <2>1, <2>2, <2>3, <2>4 DEF NextKissatWalk
<1> QED BY <1>1, <1>2, PTL DEF KissatWalkSpec

(* Flushing and giving up the trail never loses the best assignment: the   *)
(* saved phases with the flips up to it falsify minimum clauses, and       *)
(* counters and stack stay exact (walk.c, check_walk at walk.c:1027).      *)
THEOREM KissatWalkIsRight == KissatWalkSpec => []KissatWalkRight
<1>1. KissatWalkInv => KissatWalkRight
  <2> SUFFICES ASSUME KissatWalkInv PROVE KissatWalkRight
    OBVIOUS
  <2>1. ASSUME phase = "walk"
        PROVE  /\ {stack[n] : n \in DOMAIN stack} = FalsifiedBy(values)
               /\ \A n \in DOMAIN stack : pos[stack[n]] = n
    <3> PICK q : q = [stack |-> stack, pos |-> pos]
      OBVIOUS
    <3>1. q.stack = stack /\ q.pos = pos /\ StackOf(q, FalsifiedBy(values))
      BY <2>1 DEF KissatWalkInv
    <3>2. /\ stack \in Seq(KissatClauses)
          /\ {stack[n] : n \in 1 .. Len(stack)} = FalsifiedBy(values)
          /\ \A n \in 1 .. Len(stack) : pos[stack[n]] = n
      BY <3>1 DEF StackOf
    <3>3. DOMAIN stack = 1 .. Len(stack)
      BY <3>2
    <3> QED BY <3>2, <3>3
  <2>2. phase = "walk" => \A k \in KissatClauses : count[k] = TrueLits(k, values)
    BY DEF KissatWalkInv
  <2>3. phase = "walk" =>
           Cardinality(FalsifiedBy(Applied(IF best = INVALID_BEST THEN 0 ELSE best))) = minimum
    BY DEF KissatWalkInv, TrailInv
  <2>4. phase = "done" => Cardinality(FalsifiedBy(phases)) = minimum
    BY DEF KissatWalkInv
  <2> QED BY <2>1, <2>2, <2>3, <2>4 DEF KissatWalkRight
<1> QED BY <1>1, KissatWalkInvariant, PTL
=============================================================================
